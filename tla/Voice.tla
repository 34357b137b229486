------------------------------- MODULE Voice --------------------------------
(***************************************************************************)
(* The voice engine: lightduer_voice.c with the framing of                 *)
(* lightduer_speex.c, in the asynchronous build (DUER_VOICE_SEND_ASYNC,    *)
(* the FreeRTOS event loop) and in the synchronous one.                    *)
(*                                                                         *)
(* Three actors.  The application's thread starts a recording, sends its   *)
(* samples and stops it; nothing it does waits, and it does not look at    *)
(* what the calls return (the demo).  The "lightduer_voice" task encodes   *)
(* and reports.  The engine's task destroys the voice loop when the        *)
(* connection stops and creates one when it has started; the task is       *)
(* deleted wherever it is.  In the synchronous build a call runs its       *)
(* callback in the application's thread, and there is no loop.             *)
(*                                                                         *)
(* A sample is a pair of a recording and a number; FrameLen of them make a *)
(* frame, Capacity frames fill _data.  How a frame is encoded (libspeex,   *)
(* base64, JSON) and what becomes of a report (Connagent) are left out.    *)
(***************************************************************************)
EXTENDS Naturals, Sequences, SequencesExt

CONSTANTS
    Builds,         \* {TRUE} asynchronous, {FALSE} synchronous, or both
    QUEUE_LENGTH,   \* of the voice loop, 10
    FrameLen, Capacity,
    MaxRecordings, MaxSamples,      \* bounds: recordings, samples of one
    MaxConnects                     \* bound: connections that come up

ASSUME VoiceAssumption ==
    /\ Builds \subseteq BOOLEAN /\ QUEUE_LENGTH \in Nat \ {0}
    /\ FrameLen \in Nat \ {0} /\ Capacity \in Nat \ {0}
    /\ MaxRecordings \in Nat /\ MaxSamples \in Nat /\ MaxConnects \in Nat

Recordings == 1 .. MaxRecordings
Sample == Recordings \X (1 .. MaxSamples)

VARIABLES
    async,          \* the build
    g_events_handler,       \* there is a voice loop
    queue,          \* its queue; in the synchronous build the call under way
    pc,             \* where the callback is
    stopping,       \* it is duer_voice_stop_internal
    speex,          \* _speex: "none", "live", "freed" (destroyed and not assigned)
    frame, encoded, \* the samples of its frame so far; the frame that was encoded
    data,           \* the frames in _data
    sid, topic_id,
    recording, samples,     \* the application's: the last recording, its samples
    open,           \* history: that recording was started and not stopped
    connects,       \* connections so far (bounded by MaxConnects)
    owner,          \* history: the recording each topic was started for
    sent,           \* history: the segments given to duer_data_report
    mishaps         \* history: a call was "dropped"; a recording was "cut" when the
                    \* loop went, or its callback "interrupted"; a start came
                    \* "unstopped"

buildVars == <<async>>
encoderVars == <<speex, frame, encoded>>
segmentVars == <<data, sid, topic_id, owner, sent>>
appVars == <<recording, samples, open>>
vars == <<buildVars, g_events_handler, queue, pc, stopping, encoderVars, segmentVars,
          appVars, connects, mishaps>>

StartMsg(r) == <<"start", r>>
SendMsg(r, i) == <<"send", <<r, i>>>>
StopMsg == <<"stop", 0>>

Init ==
    /\ async \in Builds /\ g_events_handler = FALSE /\ queue = <<>>
    /\ pc = "idle" /\ stopping = FALSE
    /\ speex = "none" /\ frame = <<>> /\ encoded = <<>> /\ data = <<>>
    /\ sid = 0 /\ topic_id = 0 /\ owner = <<>> /\ sent = <<>>
    /\ recording = 0 /\ samples = 0 /\ open = FALSE
    /\ connects = 0 /\ mishaps = {}

-----------------------------------------------------------------------------
(* The application: duer_voice_start, duer_voice_send, duer_voice_stop *)

\* Mutant: a call is posted whatever the queue holds.
Call_Unbounded(m, why) ==
    /\ async \/ (queue = <<>> /\ pc = "idle")
    /\ LET takes == ~async \/ g_events_handler
       IN  /\ queue' = IF takes THEN Append(queue, m) ELSE queue
           /\ mishaps' = mishaps \cup why \cup (IF takes THEN {} ELSE {"dropped"})
    /\ UNCHANGED <<buildVars, g_events_handler, pc, stopping, encoderVars, segmentVars,
                   connects>>

\* duer_events_call_internal: a call without a loop, or with a full queue, is
\* lost; a synchronous one begins when the last has returned.
Call(m, why) ==
    /\ async \/ (queue = <<>> /\ pc = "idle")
    /\ LET takes == ~async \/ (g_events_handler /\ Len(queue) < QUEUE_LENGTH)
       IN  /\ queue' = IF takes THEN Append(queue, m) ELSE queue
           /\ mishaps' = mishaps \cup why \cup (IF takes THEN {} ELSE {"dropped"})
    /\ UNCHANGED <<buildVars, g_events_handler, pc, stopping, encoderVars, segmentVars,
                   connects>>

duer_voice_start ==
    /\ recording < MaxRecordings
    /\ recording' = recording + 1 /\ samples' = 0 /\ open' = TRUE
    /\ Call(StartMsg(recording'), IF open THEN {"unstopped"} ELSE {})

duer_voice_send ==
    /\ open /\ samples < MaxSamples
    /\ samples' = samples + 1 /\ UNCHANGED <<recording, open>>
    /\ Call(SendMsg(recording, samples'), {})

duer_voice_stop ==
    /\ open /\ open' = FALSE /\ UNCHANGED <<recording, samples>>
    /\ Call(StopMsg, {})

App == duer_voice_start \/ duer_voice_send \/ duer_voice_stop

-----------------------------------------------------------------------------
(* The engine's task *)

\* duer_voice_initialize, when the connection has started; the first one makes the
\* lock of topic_id, in both builds.
duer_voice_initialize ==
    /\ ~g_events_handler /\ connects < MaxConnects
    /\ g_events_handler' = async /\ connects' = connects + 1
    /\ UNCHANGED <<buildVars, queue, pc, stopping, encoderVars, segmentVars, appVars,
                   mishaps>>

\* duer_voice_finalize, when it has stopped: the task is deleted where it is, and
\* the queue with what it holds.
duer_voice_finalize ==
    /\ async /\ g_events_handler
    /\ g_events_handler' = FALSE /\ queue' = <<>>
    /\ pc' = "idle" /\ stopping' = FALSE /\ encoded' = <<>>
    /\ mishaps' = mishaps
           \cup (IF pc # "idle" THEN {"interrupted"} ELSE {})
           \cup (IF open \/ queue # <<>> \/ speex # "none" THEN {"cut"} ELSE {})
    /\ UNCHANGED <<buildVars, speex, frame, segmentVars, appVars, connects>>

-----------------------------------------------------------------------------
(* The voice task *)

taskKeeps == <<buildVars, g_events_handler, appVars, connects, mishaps>>

\* duer_send_content: a segment under the current topic.
Report(frames, eof) ==
    /\ sent' = Append(sent, [topic |-> topic_id, sid |-> sid, eof |-> eof,
                             frames |-> frames])
    /\ sid' = IF eof THEN 0 ELSE sid + 1
    /\ UNCHANGED <<topic_id, owner>>

\* duer_voice_start_internal: the last encoder is destroyed.
Start ==
    /\ pc = "idle" /\ queue # <<>> /\ queue[1][1] = "start"
    /\ pc' = "create"
    /\ speex' = IF speex = "none" THEN "none" ELSE "freed"
    /\ UNCHANGED <<queue, stopping, frame, encoded, segmentVars, taskKeeps>>

\* Mutant: the topic stays the one of the last recording.
Create_SameTopic ==
    /\ pc = "create" /\ pc' = "idle" /\ queue' = Tail(queue)
    /\ speex' = "live" /\ frame' = <<>>
    /\ IF connects = 0 \/ topic_id > 0
         THEN UNCHANGED <<topic_id, owner>>
         ELSE topic_id' = 1 /\ owner' = <<queue[1][2]>>
    /\ UNCHANGED <<stopping, encoded, data, sid, sent, taskKeeps>>

\* The new encoder, and duer_increase_topic_id, which fails without its lock.  What
\* _data and sid hold stays.
Create ==
    /\ pc = "create" /\ pc' = "idle" /\ queue' = Tail(queue)
    /\ speex' = "live" /\ frame' = <<>>
    /\ IF connects = 0
         THEN UNCHANGED <<topic_id, owner>>
         ELSE topic_id' = topic_id + 1 /\ owner' = Append(owner, queue[1][2])
    /\ UNCHANGED <<stopping, encoded, data, sid, sent, taskKeeps>>

\* duer_voice_send_internal, duer_speex_encode: without an encoder the samples are
\* ignored; a frame is encoded when it is full.
Send ==
    /\ pc = "idle" /\ queue # <<>> /\ queue[1][1] = "send"
    /\ queue' = Tail(queue)
    /\ \/ speex = "none" /\ UNCHANGED <<pc, frame, encoded>>
       \/ /\ speex # "none" /\ Len(frame) + 1 < FrameLen
          /\ frame' = Append(frame, queue[1][2]) /\ UNCHANGED <<pc, encoded>>
       \/ /\ speex # "none" /\ Len(frame) + 1 = FrameLen
          /\ encoded' = Append(frame, queue[1][2]) /\ frame' = <<>> /\ pc' = "store"
    /\ UNCHANGED <<stopping, speex, segmentVars, taskKeeps>>

\* duer_voice_stop_internal: what there is of a frame is filled up and encoded.
Stop ==
    /\ pc = "idle" /\ queue # <<>> /\ queue[1][1] = "stop"
    /\ \/ speex = "none" /\ queue' = Tail(queue) /\ UNCHANGED <<pc, stopping>>
       \/ /\ speex # "none" /\ stopping' = TRUE /\ UNCHANGED queue
          /\ pc' = IF frame = <<>> THEN "rest" ELSE "store"
    /\ encoded' = IF speex = "none" THEN encoded ELSE frame
    /\ UNCHANGED <<speex, frame, segmentVars, taskKeeps>>

\* duer_speex_encoded_callback: _data is reported when the frame does not fit,
Full ==
    /\ pc = "store" /\ Len(data) = Capacity
    /\ Report(data, FALSE) /\ pc' = "clear"
    /\ UNCHANGED <<queue, stopping, encoderVars, data, taskKeeps>>

\* Mutant: _size is not set to 0 when a segment was reported.
Clear_Keeps ==
    /\ pc = "clear" /\ pc' = "store"
    /\ data' = Tail(data)
    /\ UNCHANGED <<queue, stopping, encoderVars, sid, topic_id, owner, sent, taskKeeps>>

\* and emptied after the report;
Clear ==
    /\ pc = "clear" /\ pc' = "store"
    /\ data' = <<>>
    /\ UNCHANGED <<queue, stopping, encoderVars, sid, topic_id, owner, sent, taskKeeps>>

\* the frame is stored.
Store ==
    /\ pc = "store" /\ Len(data) < Capacity
    /\ data' = Append(data, encoded) /\ encoded' = <<>>
    /\ pc' = IF stopping THEN "rest" ELSE "idle"
    /\ UNCHANGED <<queue, stopping, speex, frame, sid, topic_id, owner, sent, taskKeeps>>

\* The rest of duer_voice_stop_internal: what is in _data, the end,
Rest ==
    /\ pc = "rest" /\ pc' = "eof"
    /\ IF data = <<>> THEN UNCHANGED segmentVars ELSE Report(data, FALSE) /\ UNCHANGED data
    /\ UNCHANGED <<queue, stopping, encoderVars, taskKeeps>>

Eof ==
    /\ pc = "eof" /\ pc' = "close"
    /\ Report(<<>>, TRUE)
    /\ UNCHANGED <<queue, stopping, encoderVars, data, taskKeeps>>

\* _data is empty, the encoder destroyed,
Close ==
    /\ pc = "close" /\ pc' = "forget"
    /\ data' = <<>> /\ speex' = "freed" /\ frame' = <<>>
    /\ UNCHANGED <<queue, stopping, encoded, sid, topic_id, owner, sent, taskKeeps>>

\* and forgotten.
Forget ==
    /\ pc = "forget" /\ pc' = "idle" /\ stopping' = FALSE
    /\ speex' = "none" /\ queue' = Tail(queue)
    /\ UNCHANGED <<frame, encoded, segmentVars, taskKeeps>>

Task == \/ Start \/ Create \/ Send \/ Stop \/ Full \/ Clear \/ Store
        \/ Rest \/ Eof \/ Close \/ Forget

Next == App \/ duer_voice_initialize \/ duer_voice_finalize \/ Task

Spec == Init /\ [][Next]_vars

-----------------------------------------------------------------------------
Calls == {StartMsg(r) : r \in Recordings} \cup {StopMsg}
             \cup {SendMsg(r, i) : r \in Recordings, i \in 1 .. MaxSamples}
Segments == [topic : Nat, sid : Nat, eof : BOOLEAN, frames : Seq(Seq(Sample))]

TypeOK ==
    /\ async \in BOOLEAN /\ g_events_handler \in BOOLEAN /\ stopping \in BOOLEAN
    /\ pc \in {"idle", "create", "store", "clear", "rest", "eof", "close", "forget"}
    /\ queue \in Seq(Calls) /\ Len(queue) <= IF async THEN QUEUE_LENGTH ELSE 1
    /\ speex \in {"none", "live", "freed"}
    /\ Len(frame) < FrameLen /\ frame \in Seq(Sample) /\ encoded \in Seq(Sample)
    /\ data \in Seq(Seq(Sample)) /\ Len(data) <= Capacity
    /\ sid \in Nat /\ topic_id \in Nat
    /\ owner \in Seq(Recordings) /\ topic_id = Len(owner)
    /\ sent \in Seq(Segments)
    /\ recording \in 0 .. MaxRecordings /\ samples \in 0 .. MaxSamples
    /\ open \in BOOLEAN /\ connects \in 0 .. MaxConnects
    /\ mishaps \subseteq {"dropped", "cut", "interrupted", "unstopped"}

Samples(segments) == FlattenSeq(FlattenSeq([i \in DOMAIN segments |-> segments[i].frames]))

\* The cloud can put every recording together: the segments of a topic are
\* numbered from 0, the last and only the last says so, and what they hold is the
\* recording the topic was started for, from its first sample on and, with the
\* end, to its last.  Unless a call was lost or came out of turn, or the
\* connection stopped in a recording.
Topic(t) == FlattenSeq([i \in DOMAIN sent |->
                            IF sent[i].topic = t THEN <<sent[i]>> ELSE <<>>])
TopicsWhole ==
    mishaps = {} =>
        \A t \in 1 .. topic_id :
            LET segments == Topic(t)
                heard == Samples(segments)
                last == Len(segments)
            IN  /\ \A i \in 1 .. last : segments[i].sid = i - 1
                /\ \A i \in 1 .. last - 1 : ~segments[i].eof
                /\ \A i \in DOMAIN heard : heard[i] = <<owner[t], i>>
                /\ last > 0 /\ segments[last].eof /\ owner[t] = recording =>
                       Len(heard) = samples

\* Whatever was lost, cut or out of turn, no sample is reported twice or before an
\* earlier one, and the encoder is not left destroyed for the next call; unless
\* the task was deleted in the middle of a callback.
Before(a, b) == a[1] < b[1] \/ (a[1] = b[1] /\ a[2] < b[2])
NothingTwice ==
    "interrupted" \notin mishaps =>
        /\ \A i \in 1 .. Len(Samples(sent)) - 1 :
               Before(Samples(sent)[i], Samples(sent)[i + 1])
        /\ speex = "freed" => pc \in {"create", "forget"}
=============================================================================
