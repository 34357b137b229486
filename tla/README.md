# A formal model of libduer-device

libduer-device connects a small device (FreeRTOS, mbed or Linux) to the DuerOS
cloud: one TLS/TCP connection that carries CoAP messages, over which the device
reports data points, streams speech and receives directives (play this, set an
alarm, update the firmware).  This directory holds TLA+ modules of its core, the
TLC runs that check them and TLAPS proofs of their main properties.  Paths below
are relative to `libduer-device/` in the repository.

    tlc -config connagent_life.cfg MCConnagent.tla
    tlapm ConnagentProofs.tla

## 1. Inventory

| Part | Source | State it keeps | Operations | Interacts with |
|---|---|---|---|---|
| connection agent API | `modules/connagent/lightduer_connagent.c` | the event loop's handle, the user's callback | initialize, start, stop, add_resources, data_report, response, data_available, finalize; the notification callback | posts every operation to the event task |
| engine | `.../lightduer_engine.c` | `g_handler`, report queue and its mutex, keep-alive timer, `start_timeout` | create, start, add_resources, data_available, send, stop, destroy; enqueue of reports and responses; timer and transport callbacks | event task, timer task, socket task, application threads |
| connection state machine | `.../lightduer_ca.c` | `state`, CoAP context `sr`, cached resources, profile | acquire, start, run, data_available, send_data, add_resources, stop, release | CoAP |
| report queue | `framework/utils/lightduer_queue_cache.c` | a linked list with a length | push, top, pop, length, destroy | engine, DCS audio player |
| event loop | `platform/source-{freertos,linux}/lightduer_events.c` | a queue of callbacks and a thread | create, call, destroy | agent, socket adapter, OTA, voice |
| socket adapter | `platform/source-*/baidu_ca_socket_adp.c` | fd, send-blocked flag, a check timer | connect, send, recv, check_data, close, destroy | raises RECV_RDY, SEND_RDY, SEND_TIMEOUT |
| timers | `platform/source-*/lightduer_timers.c` | one timer | acquire, start, stop, release | agent, sockets |
| CoAP | `modules/coap/lightduer_coap.c` | NSDL handle, dynamic resources | connect, send, data_available, resource_add/remove | transport, state machine |
| transport | `framework/core/lightduer_net_trans*.c` | TLS or AES session, partial records | connect, send, recv, close | sockets |
| DCS | `modules/dcs/*.c` | play queue and state, dialog ids, alarms | one callback per directive; player callbacks | agent (reports), the user's player |
| voice engine | `modules/voice_engine/*.c` | recording state, encode buffer, topic id | start, send, stop | its own event loop, agent |
| OTA | `modules/OTA/**` | updater handle, lock, progress, unpacker state | update command, download, unpack, notify | its own event loop, HTTP client, agent |
| HTTP, NTP, device info | `modules/HTTP`, `modules/ntp`, `modules/Device_Info` | per-request context | get, stop, resume; query | sockets |

What is hard about it: the API only posts events, and a post to a full queue is
lost; the state machine blocks in the middle of a start and is resumed by three
different tasks; the report queue is filled by any thread and emptied by one
that releases its lock between looking and popping; a failing handler stops the
engine from inside its own notification; stop and destroy run in the task they
tear down.

The properties that make each part correct:

* agent and engine: between two events the connection's state, its CoAP context
  and what the application was told agree; every message built has one owner and
  is released once; messages go out in the order accepted; an attempt that
  blocked is taken up again; a report of a started engine is sent.
* event loop: each posted callback runs once, in order; no wake-up is lost.
* socket adapter: while a connection stands somebody is about to look at it; a
  blocked sender is told when it can go on; a close returns.
* CoAP and transport: messages come out whole and in order, wherever the stream
  is cut, and all of them.
* DCS: the item handed to the player is alive and heads the queue; state, player,
  queue and token agree between calls; speech goes before audio; a listen ends.
* voice: the segments of a topic make up the recording it was started for; no
  sample is reported twice.
* HTTP: what the data handler is given is the resource from its beginning, however
  often the transfer breaks.
* OTA: only a whole image is installed; the cloud is told one true story of an
  update; what the two tasks share is not used after one of them freed it.

`PROJECT.json` lists every hazard at its line and the properties that cover it.

## 2. Modules

    Connagent --- MCConnagent            agent, engine, state machine, report queue
        |  EventFifo / FifoOutbox
      Outbox                             what a queue of messages promises
        |
    LinuxEvents --- MCLinuxEvents        event loop of the Linux port
    QueueCache                           linked list and mutex, pointer by pointer
    DcsAudio                             audio, speech and listening channels
    SocketAdapter                        sockets, their task, timer and notices
    CoapStream                           CoAP messages out of a TCP stream
    HttpClient <- OtaUpdater             one GET; an update over it, in two tasks
    Voice                                recordings, frames and segments

### Connagent

The agent on a port whose event queue is bounded (FreeRTOS, mbed): the first three
rows of the table with as much of queue, event loop, timer, CoAP and socket as
they use.

| State | In the code |
|---|---|
| `loop`, `evq` | `g_events_handler`; the queue of the `lightduer_ca` task, at most `QUEUE_LENGTH` events |
| `pc`, `caller`, `status`, `cur` | the handler the task runs: where it is, which function called `baidu_ca_do_start`, its `status`, the message `duer_engine_send` holds |
| `ca`, `sr`, `resCache` | `g_handler->state` (or NULL), `ctx->sr`, whether `ctx->res_list` is empty or holds freed paths |
| `qcache`, `queue` | `g_qcache_handler` and its content; `freed`: destroyed, pointer not yet cleared |
| `timer` | `g_timer`, one shot |
| `app` | the last `DUER_EVENT_*` the application was told |
| `spc`, `sendBlocked` | the notification the socket task is in; `soc->is_send_block` |
| `rpc`, `rmsg` | per thread: the step of `duer_data_report`/`duer_response` it is in, and its message |
| `accepted`, `sent`, `freed`, `faults` | history, for the properties only: what was pushed, sent and released; the memory errors, and `retry_lost`, since the last start |

A handler is split into actions where another task can intervene: at every lock
boundary of the report queue, around each state-machine round, between release
and pop, between the queue's destruction and the clearing of its pointer, and
before the notification that ends it.  `EvtX` takes an event and runs its handler
to the first such point; `RunX` is one round of `baidu_ca_run`; `FinishX` is what
`duer_engine_start` or `duer_engine_data_available` does with the result;
`NotifyX` is `duer_engine_notify_callback` with all it calls, so that the stop
after a failure is part of the same step.  A result (blocked, failed, refused, no
memory) is a choice, offered when its name is in `Faults`; `Calls` says which
calls a scenario contains.  A thread's push is one step, since it holds the mutex;
the length test and the post that follow are two more.  The mutex is taken to
exclude, as mbed's does; on FreeRTOS it does not (`QueueCache`).

`MCConnagent` gives names to the scenarios of the `.cfg` files.

Abstracted: message contents, the profile, JSON and CoAP encodings, durations (a
timer is armed or not), `g_event_callback`, statistics of the connect time and
logging.  The build modelled defines neither DUER_LWM2M_REGISTER nor
DUER_UDP_REPORTER, so the states those add are not reached.  The allocations in
`duer_initialize`, `duer_engine_create` and `baidu_ca_acquire` succeed.

### Outbox

What a queue between threads promises: accepted messages are handed on in order,
without gap or repetition, until it is closed.  `Connagent` implements it with
its report queue (`FifoOutbox`), `LinuxEvents` with its list of callbacks
(`EventFifo`).

### LinuxEvents

`duer_events_create`, `duer_events_call`, the loop's thread and
`duer_events_destroy` of the Linux port.  What a thread does under the mutex is
one action, except the loop's test and the wait after it (`tpc = "wait"`):
`duer_events_destroy` does not take the mutex and can get between them.  A poster
decides after the unlock whether to signal (`Check`), reading `_tail` as it is
then.  `queue` is the list from `_tail` to `_head`, oldest first; `behind` are the
messages whose `_next` leads to an older one, which the drain of the shutdown
follows from `_head`.  The loop's object goes from live to drained to freed; who
still uses it then meets `CallDangling` or `TaskDangling`.  The shutdown's second
of sleep is taken to be long enough for every step of the thread but a callback
(`LongCallbacks`); `SelfDestroy` lets a callback destroy its own loop, as
`duer_finalize` and the OTA updater do.

### QueueCache

Push and pop of `lightduer_queue_cache.c` step by step - each read and each write
of `_head`, `_tail`, `_next` and `_length` that another thread could see - between
the lock and the unlock of the callers.  With `LockWaits` the lock waits (Linux,
mbed); without, it fails at once and the caller goes on, as on FreeRTOS.

### DcsAudio

The play queue and player state (`lightduer_dcs_audio_player.c`), the speech
channel (`lightduer_dcs_voice_output.c`) and listening
(`lightduer_dcs_voice_input.c`) with four threads: the event task that runs the
directives, the application's audio player and speech player that call back at
the end of an item, and the user's thread that starts to listen; a timer ends the
listening.  `s_play_state`, `s_play_offset` and the speech state are volatile
integers without a lock, so each access is a step; the play queue is touched
under `s_queue_lock` only, in one step per section.  `audio` and `speaking` are
what the application's players do; `item[t]` is the item a thread brings or has
read from the queue.  A node may hold NULL, since REPLACE_ENQUEUED and
CLEAR_ENQUEUED push back what they popped from an empty queue, and
`duer_empty_play_queue` stops there (`Emptied`).  `overlapped` remembers whether
two calls were ever under way at once.

Left out: reports to the cloud, malformed directives, failing allocations and what
the application does to its players of its own accord.  The players' handlers
return and call back from threads of their own.

### SocketAdapter

The three ports' `baidu_ca_socket_adp.c`, told apart by the variable `port`: the
engine that opens, sends, receives and closes (its calls only, but in the order of
`lightduer_engine.c` and `lightduer_coap.c`); the `lightduer_socket` task that runs
`bcasoc_check_data` (`Take`, `Lock`, `Look`, then `TellTimeout`, `TellRecv`,
`TellSend`, `ClearBlock`, `Arm`: each call of the engine's callback is a step of its
own); the timer, whose expiry may be under way when it is released (`firing`); the
network.  `g_mutex` is `lock`; on Linux `Look` is the select that waits with it.
A `bcasoc_t` is an address and `soc` the live one, so that an address queued before
a close may name nothing, or the next connection's socket.  A look at freed memory
sets `broken` and ends the behaviour, since what it does is undefined.  `lost`
remembers the two ways in which a notice or a check can go missing.

### CoapStream

`bcasoc_recv`, the plain, AES-CBC and TLS transports above it and `duer_coap_recv`.
A message is pieces of a header and of a body; `Arrive` lets the stream be cut
anywhere.  `received_header` and `received_body` are what the AES transport keeps
of a part; `record` and `opened` what TLS keeps (mbedtls is external: it hands out a
record when it is complete).  `counts` is whether `bcasoc_recv` returns what it read
(Linux, mbed) or what was asked for (FreeRTOS).  `spoiled` records what puts the
reader out of step: a read that came `short` under a socket that does not count, a
header or body that came in parts and that the plain transport does not keep (`split`),
a message too `big` for the buffer.

### HttpClient

`duer_http_client_get`: connect and head (`Answered` with the head, `Redirected`,
`RedirectedTooOften`), the transfer with a length (`Content`), in chunks that fit
the buffer (`SmallChunk`) or do not (`LargeChunk`) with the collecting
`p_chunk_buf` (`Store`), and the resuming (`Resume`).  The resource is `N` pieces; a
size line and a CR LF are pieces too.  Every read of the socket is a choice of how
much arrives and whether the connection then stands, is closed or breaks (`Reads`).
A redirect may bring a body of its own, of `MaxBody` pieces at most: its Content-Length,
when it comes before the Location or the head breaks, sets the total all the same
(`Totals`), and an answer without a length is read up to that total.
`get = "crashed"` is the redirection to a path without a host, which
`http_client_parse_url` searches for a fragment with a NULL pointer (line 426).

### OtaUpdater

EXTENDS HttpClient, whose steps are the download.  `Engine` is `ota_update` in the
engine's task: post to the loop, report BEGIN, or reject and destroy.  `Updater` is
`ota_updater` in the loop's task, one action per call that can fail.  `loop` is what
`s_ota_updater_handler` points to; `live` the updaters allocated; `boot` the image
that starts next.  The application's installer switches it in `notify_data_end`, as
the demo's does.  `mishaps` names the accidents the properties except.

### Voice

`lightduer_voice.c` and the framing of `lightduer_speex.c`: the application's calls,
the callbacks in the voice loop's task (asynchronous build) or in the caller's
thread, and the engine's task, which creates and destroys the loop with the
connection.  A sample is a recording and a number; `frame` is what the encoder holds
of the next frame, `data` the frames in `_data`, `sent` the segments reported with
topic, `sid` and end flag.

### Proof modules

`ConnagentProofs`, `LinuxEventsProofs`, `QueueCacheProofs`, `DcsAudioProofs`,
`SocketAdapterProofs`, `CoapStreamProofs`, `OtaUpdaterProofs` (HttpClient's too) and
`VoiceProofs` hold the theorems (section 5).

## 3. Runs

| Run | Question | Bounds |
|---|---|---|
| `life` | any order of start, stop, finalize, resources, requests and keep-alives over a bad network | 4 control calls, 1 thread, 1 message, event queue of 2 |
| `queue` | two reporting threads against send, block, failure and destroy; refinement of `Outbox` | 3 calls, 3 messages, 2 symmetric threads, queue of 2 |
| `delivery` | is what one thread reports sent? | 3 messages, queue of 10 |
| `mbed` | SEND_TIMEOUT stopping the engine and clearing the queue from the socket task: order of sending, retry of a blocked start, end of the start loop | 2 calls, 2 messages, 1 thread, queue of 2 |
| `race` | violation: is what two threads report sent? | 2 messages |
| `linux_events` | posts from two threads and from callbacks while the loop is shut down: order, wake-ups, service; refinement of `Outbox` | 3 posts, callbacks of any length |
| `queue_cache` | two threads on the list under a mutex that waits; refinement of a FIFO | 4 nodes |
| `dcs_audio` | every kind of directive, speech, listening and their ends, step by step | 2 items, 2 other calls |
| `sockets` | the three ports: is a connection polled, a blocked send woken, a close let through? | 2 connections at 2 addresses, 1 piece of data, socket queue of 1, 2 notices |
| `coap_stream` | every cut of a stream, three transports, sockets that count or not | 2 messages of 2 + 3 pieces |
| `ota` | two update commands over a server that redirects, chunks, cuts and refuses | resource of 3 pieces, buffers of 2, 1 resume, 1 redirection with a body of up to 2 |
| `voice` | two recordings while the connection comes and goes, both builds | 6 samples, frames of 2, `_data` of 2 frames, queue of 2, 2 connections |

The bounds are those of the cases, not of comfort.  Four control calls allow start,
failure, restart and stop or finalize; three messages are needed for one to be
sent, one to be queued and one to be pushed at a time; an event queue of 2 fills
up, so that lost posts happen, while `delivery` keeps the capacity of the code, as
it is about what happens without lost posts.  `MaxAvail` bounds the RECV_RDY
notifications queued at one time: the socket task may raise them without end and
they would fill the queue with equal events.  Three posts let one run, one wait and
one be linked; four nodes let the list become empty and fill again while a pop of
the last run is still clearing `_tail`.  Two items and two other calls let an item
play, one be queued, and a pause and a resume, a clear or a NULL node fall anywhere
between.  Two connections at two addresses let a check outlive its socket and meet
freed memory or the next one; a socket queue of 1 and two notices make both queues
overflow.  Two messages let a read end inside the first or begin inside the second.
Three pieces over buffers of two make a chunk that fits, one that does not, one that
completes a buffer kept from the last, and a break after any piece; a body of up to two
makes the total of a redirect less than, as much as and more than the resource.  Six samples
make three frames, so that the second segment begins before the recording ends.
The largest runs have 3.1 million (`queue`), 2.6 million (`voice`) and 2.0 million distinct
states (`ota`) and take two minutes.

`CHECK_DEADLOCK FALSE` in each configuration: with its calls used up, after the agent
or loop is destroyed, or after the device has rebooted, the system really has
nothing left to do.

Fairness.  Weak fairness of each thread's own steps: the event task runs whenever
it has an event or is in a handler; the socket task runs on once it is in a
notification or has an event; an armed timer expires and its callback runs; a thread
inside a call goes on.  They are tasks of an operating system, and none waits for
another except on mutexes held for a few instructions.  `s_queue_lock` is held
longer, and `LockReleased` is the property that it is given back.  A callback of the
Linux loop is assumed to return.  Strong fairness is assumed once, of `Close` in
SocketAdapter: the socket task sleeps between two checks and the mutex is free again
and again, so that a closer waiting for it gets it.  In CoapStream what was sent
arrives (TCP) and the engine reads while there is something to read, which is
`PollAlive` of SocketAdapter.  In OtaUpdater the updater's task runs on and the server
sends or ends the connection: the client's reads wait without a limit, since the
adapter's `set_timeout` is empty.  Nothing else is assumed of the application or of
the network: calls need not be made, a blocked connection may stay blocked, an item
need not end.  Voice states safety only and has no fairness.

The start of a timer is taken to succeed.  `duer_timer_start` of the FreeRTOS port fails
only when the timer task leaves its command queue full for 100 ticks
(`lightduer_timers.c:102`), and no caller looks at what it returns: a start that failed
would lose what `AttemptRetried`, `PollAlive` and `ListenEnds` count on.

What the properties of the last four runs except is named in the formulas, and is
itself a result: it is the list of what can go wrong.  `PollAlive` fails only after
a notice or a check found its queue full, or an end of stream that a port takes for
nothing to read; `BlockedSendWoken` only by a full queue or a block inside the two
lines 149-152 of the FreeRTOS adapter; `CloseReturns` on Linux only.  `WholeInOrder`
holds for every build until a read comes short, and for AES and TLS over a counting
socket also then.  `DataInOrder` needs a server that heeds Range.  `InstalledWhole` needs that too, and that no
answer comes without a length to a client that has none, or has that of a redirect's body
in its place (`spoiled`); `lost` is a block that was not unpacked.  `MemorySafe` needs a
queue that is not full, a BEGIN that is told, and told before the updater is done.
`TopicsWhole` needs that no call is dropped and no recording is cut by the connection.
`AttemptRetried` fails only when since the start the timer expired while the event queue
was full, or a send event stopped it (`retry_lost`).

## 4. Where the code and its words disagree

* `race`, a run that TLC must find violated - two threads that report at once can both
  see a length of 2 and none posts the send event; both calls return DUER_OK and
  nothing is sent.
* LinuxEvents - `duer_events_destroy` sets its flag and broadcasts without the mutex,
  between the thread's test and its wait; the thread sleeps on while the loop it sleeps
  on is freed, although line 215 says "wait for the thread exit".  A loop destroyed by
  its own callback (`SelfDestroy = TRUE`) cannot wait for its thread at all.
* QueueCache with `LockWaits = FALSE` - on FreeRTOS two pushes overlap, because the lock
  does not wait (`baidu_ca_mutex_adp.c:45`) and nobody looks at its result: the length
  no longer counts the nodes and `ListComplete` is violated.
* DcsAudio with the invariant `SpeechFirst` in place of `SpeechFirstAlone` - audio looks
  whether speech plays, a Speak directive begins, and audio starts on top of it,
  although `lightduer_dcs_audio_player.c:192` says "If high priority channel is playing,
  pending audio player".
* OtaUpdater with the invariant `TotalSize` - a redirect tells the length of its own body
  before its Location, and the client takes it for the total
  (`lightduer_http_client.c:863`); an answer in chunks or without a length leaves it there.
  `lightduer_http_client.h:197` calls it "the total size to be download", and the comment
  at line 1310 of the code says that it is 0 for chunks.  The client also reads an answer
  without a length up to it: after a redirect with a body of 0 on a resume, it returns
  HTTP_OK with what the broken attempt had brought, and the updater installs a part.

The models also reach states that no document of the repository speaks about, so
no run claims their absence; PROJECT.json lists them as hazards with a note.  A
message whose sending failed stays queued, and reports then pile up behind it,
since only the report that finds length 1 wakes the sender.  A header of fewer
than 8 bytes counts as success (`odd_header`).  The connection may stop between
the check in `duer_add_resources` and its handler, and the list kept for the next
start points to freed paths.  On FreeRTOS the event task deletes itself inside
`duer_events_destroy` and a later `duer_initialize` is not served.  A NULL node in
front of the play queue hides the items behind it.  `duer_stop` leaves the timer armed,
which reconnects.  A send event stops the timer before it looks whether there is anything to
send (`lightduer_engine.c:366`), so that one left from an earlier connection takes away
the retry of the attempt under way.  A send event that meets a stopped engine and a queue that is not
empty posts itself again at once.  The HTTP client takes too many redirections for
success, crashes on a redirection to a path, and reads for ever in three loops once the
server has closed the connection (`Spins`).  The installer's demo switches the boot
partition before the cloud is told DOWNLOAD_COMPLETE, so that an update reported as a
WRITE_ERROR may still boot.  After the first update the OTA task is gone and its loop
is not (`orphan`): a second command is told BEGIN and nothing more.

## 5. Proofs

All theorems hold for every set of threads, every queue capacity and every bound.
They use the named assumptions of the modules only (sets of calls and faults; natural
bounds, and sizes that are not zero; the tasks are not among the callers).

Connagent:

* `TypeCorrect` is inductive once two facts are added (`TInv`): the event task has
  a message in hand while it sends, and so has a thread while it pushes.
* `AlwaysResumable`.  The property speaks of the moments between two events; the
  invariant `RestInv` says what holds inside a handler: while `baidu_ca_run` runs
  the state is neither NULL nor REGISTER_FAIL, and after it REGISTER_FAIL only
  comes with a failure, which the notification turns into STOPED.  It holds on
  every port, SEND_TIMEOUT included.
* `AppAlwaysRight`, `RouterAlwaysMatches`.  `ViewInv` adds what the result of the
  start in progress means (`status = OK` exactly when STARTED).  Assumed: no
  SEND_TIMEOUT and no odd header (`Regular`); with them the properties are false.
* `OutboxRefined`.  `FifoInv` relates the histories to the queue: `accepted` is
  `sent` followed by the queue, less the head already sent and not yet popped.
  The event task is the only one that pops, so the head it looked at is the head
  it pops; SEND_TIMEOUT is the exception and is excluded (`NoTimeout`).
* `ReleasedOnce`, `AlwaysOwned`.  `OwnInv` says the threads' messages, the queue
  and the released messages partition the messages built, the one between
  release and pop being in both the queue and the released.
* `AlwaysInOrder`, on every port.  SEND_TIMEOUT may clear the queue while the event
  task sends its head, so `FifoInv` is of no use; `OrderInv` says that what is sent,
  then in hand, then queued comes in the order of acceptance, whatever is missing
  between, and `FreshInv` that no message is accepted twice, so that its position in
  `accepted` is one.
* `AlwaysRetried`, on every port.  `RetryInv` says what holds inside a handler, where
  the expired timer or the restart is used up: only a start makes an attempt, and its
  end arms the timer or is a failure that stops the engine; an answer that arrives
  half-way finds the retry in place and leaves it there.  A first form of the property
  knew no exceptions and was true of the run only, whose events were too few: a longer
  scenario of TLC showed the two that `retry_lost` now records.

LinuxEvents, with or without destruction from a callback and long callbacks:

* `LoopTypeCorrect`.  The type invariant is inductive with one addition (`TInv`): a
  poster inside `duer_events_call` has a message.
* `WakeupsNeverLost`.  The thread that is about to wait holds the mutex, so the
  list it found empty still is (`WakeInv`); the first message linked while it
  sleeps is the oldest, and stays so until its poster has looked and signalled.
* `LoopIsOutbox`.  `accepted` is `ran` followed by the queue until the loop is
  drained.

DcsAudio, all kinds of directives in any order:

* `AudioTypeCorrect`, `LiveHeadHanded`.  `LockInv`: a thread between taking
  `s_queue_lock` and giving it back holds it, and what it has read from the head
  is still the head when it hands it over.  Nothing is assumed of the other
  threads.
* `StatesAgree`, `SpeechBeforeAudio`.  The properties speak of the system at rest;
  `SerialInv` says, as long as no two calls have overlapped, what holds at each
  step of the one thread that is in a call (`At`), in particular that a paused
  player with an offset stands for the item at the head (`Agree`).  It needs
  `NullInv`: only the first node of the play queue can hold NULL, so what
  REPLACE_ENQUEUED and CLEAR_ENQUEUED leave behind the head is nothing
  (`EmptiedValue`).
* `ListenAlwaysEnds`.  Inductive as it stands.

QueueCache:

* `ListTypeCorrect`, for the lock that waits and the one that does not.
* `ListStaysComplete`, `ListRefinesFifo`, assuming `LockWaits`.  `ListInv` has four parts:
  a thread inside a section holds the mutex (`MutexInv`); `accepted` is what was popped
  followed by the nodes of the list, without repetition (`HistInv`); each node links to
  the next, and one that is not in the list to none (`LinkInv`); head, tail and length
  are what the step of the thread inside leaves them, or whole (`ShapeInv`).  That
  the length never wraps needs that distinct nodes are at most `MaxNodes`
  (`ShortList`, an injection into a finite set).

SocketAdapter, any ports, addresses, capacities and numbers:

* `SocketTypeCorrect` is inductive with two facts (`TInv`): what can be read was
  counted, and who has a socket has its address.
* `BlockedAlwaysWoken`.  `HoldInv`: a task past the lock holds it and looks at the
  engine's socket, so that a close cannot fall between; `WakeInv` adds what is told of
  the block while the task is between SEND_RDY and the clearing of the note.
* `PollingNeverDies`.  `PollInv` is the property itself; each way the last witness goes
  (an event taken, a timer that expires, a notice handled) makes the next one, or
  records the loss.

CoapStream, any sizes, numbers of messages and cuts, three transports:

* `CoapTypeOK`, `CoapWholeInOrder`.  Pieces are places in the stream, and `Leads(c, s, e)`
  says that the pieces of `s` go from the place `c` to the place `e` without a gap.
  `StreamInv`: until something is spoiled, what the transport kept, what has arrived
  and what is under way lead from the next place the reader expects to the end of what
  the cloud sent.  `KeptInv` is what each transport keeps of a part, and `CalmInv` that
  AES and TLS over a socket that counts are put out of step by a message too big only.

HttpClient, any resource, chunking and buffers:

* `HttpDataInOrder`.  `HInv` says, at each point of the transfer, that what is in the
  buffer and on the wire is the resource from the place where the handler's data ends
  (`Place`, `Raw`), in one piece, in chunks, or in a chunk of which `need_to_read` is still
  to come; `ChunkInv` is the part for the collecting buffer.  It covers every framing
  into chunks, defined by a recursive function.

OtaUpdater, any number of commands:

* `UpdaterTypeOK`, with HttpClient's types.
* `UpdaterMemorySafe`.  `OwnInv`: the updater in the queue is neither the one that runs nor
  one yet to be made; `SafeInv`: without the three accidents nothing is rejected, no
  loop is freed and whoever is about to use an updater finds it alive.  HttpClient's
  steps leave the variables of both alone.
* `UpdaterInstalledWhole`.  `ImageInv`: an updater past the download has been given the
  whole resource (`OkInv` of the client), and only one past it makes the new image boot.
  `LenKnown` is what the client needs of the total while it reads a content: an answer with
  a length sets it right whatever a redirect made of it, one without must find it right.
* `UpdaterCloudTold`.  `TaleInv`: there is a tale for every update of which the cloud has
  been told a beginning, with or without the BEGIN that the other task reports; `Fits` and
  `BootInv` tie the tale of the running updater to where it is and what will boot.

Voice, both builds, any sizes and numbers:

* `VoiceTypeOK`.
* `VoiceNothingTwice`.  `Flow` is what was reported followed by `_data`, the encoded frame
  and the frame: the callbacks move samples along it and never reorder it.  `FlowInv`: it is
  ordered, the queued calls are ordered behind it, and none is newer than what the
  application has sent, as long as no callback was interrupted.
* `VoiceTopicsWhole`.  `WholeInv`: as long as nothing was dropped or cut there is a cursor -
  recording, samples taken, stopped or not - at which the voice task is and from which the
  queued calls lead to the application's (`Path`); the topics before the current one are
  whole and closed (`Past`), the current one holds exactly the cursor's samples (`Current`),
  and later ones are empty (`Future`).

Induction over data.  The sequences of the last four modules are cut, joined and
flattened without a bound.  The library's induction theorems take an operator, but its
`WFMin` takes a set: `SetInduction` in three of the modules is induction for a set of
numbers, from which the facts about chunks, pieces and flattened sequences follow.

Only model-checked: `ReportsDelivered`, `StartLoopEnds`, `EventsServed`, `LockReleased`,
`CloseReturns`, `MessagesHanded` and `UpdateEnds`, because liveness under fairness is out
of the prover's reach.  Every invariant, action property and refinement that a run
checks has a theorem.

## 6. Not modelled

* The profile, NTP, device information, alerts, speaker, playback control and the
  directive router: parsing, conversion and forwarding with no state that two actors
  share; alarms and volume are kept by the application.
* The application's side of OTA: package formats, decompression, signatures,
  partitions.  Its calls are there and may fail.
* Allocation failures outside the start-up of Connagent and the report path.
* CoAP's list of dynamic resources, retransmissions and block transfers, which are
  mbed-client-c's; the TLS handshake, which is mbedtls's and appears as a connect that
  blocks.
* UDP and LWM2M builds, which no port of the repository defines.
* Vendored and generated code, which is most of the repository by size: the headers of
  lwIP, FreeRTOS and the vendors' SDKs under `platform/source-freertos/include-*`, zlib
  (`modules/OTA/Zliblite`), mbedtls, mbed-client-c, speex, cJSON; the sample programs; the
  adapters that only forward calls (memory, debug, random, priorities).

* A run of SocketAdapter together with Connagent.  Connagent has the adapter's notices as
  steps of its own (`SockStep`), without the queue of the socket's task and without
  the loss of a notice that SocketAdapter has.
