----------------------------- MODULE OtaUpdater -----------------------------
(***************************************************************************)
(* The OTA updater (lightduer_ota_updater.c) with its downloader, its      *)
(* unpacker and its notifier, on the FreeRTOS event loop, over HttpClient. *)
(*                                                                         *)
(* Two tasks: the engine's, whose handler ota_update accepts a command and *)
(* creates an updater, and the task of the updater's own event loop, which *)
(* runs ota_updater: download, unpack, install, reboot.  They share the    *)
(* updater, which either may free, and the loop, which either may destroy. *)
(* Nothing says whose turn it is; a step of one may fall between any two   *)
(* of the other.                                                           *)
(*                                                                         *)
(* The installer (struct IOtaUpdater) is the application's: that of the    *)
(* demo switches the boot partition when notify_data_end accepts the       *)
(* image.  Every call of it may fail, and so may every report to the       *)
(* cloud (duer_data_report).  Memory is there.                             *)
(***************************************************************************)
EXTENDS HttpClient

CONSTANT MaxUpdates     \* bound: "newfirmware" commands the cloud sends

ASSUME OtaAssumption == MaxUpdates \in Nat

Updates == 1 .. MaxUpdates
NoUpdate == 0

\* The OTAEvents told to the cloud (OTA_EVENT_DOWNLOADING is left out).
Failures == {"CONNECT_FAIL", "WRITE_ERROR", "REJECT"}
OtaEvents == {"BEGIN", "DOWNLOAD_COMPLETE", "INSTALLED"} \cup Failures
Unset == "unset"        \* the local `event' before it is assigned

VARIABLES
    loop,           \* what s_ota_updater_handler points to: "none", a loop that is
                    \* "alive", one whose task is gone ("orphan"), "freed" memory
    queue,          \* the queue of the loop, QUEUE_LENGTH = 1
    creator,        \* where ota_update is in the engine's task
    pc,             \* where ota_updater is in the loop's task
    cur, event,     \* its updater and its local
    live,           \* the updaters allocated and not freed
    commands,       \* commands so far (bounded by MaxUpdates)
    boot,           \* the image the device boots next: "old" or "new"
    told,           \* history: for each update, what the cloud was told
    lost,           \* history: a block was not unpacked, which nobody looks at
    mishaps,        \* history: the queue was "full"; BEGIN was not reported ("begin"),
                    \* or the updater freed before it was ("early"); another report
                    \* failed ("report"); an event was told that was never assigned
                    \* ("unset")
    misuse          \* history: freed memory that was used

engineVars == <<creator, commands>>
taskVars == <<pc, cur, event>>
histVars == <<told, lost, mishaps, misuse>>
otaVars == <<loop, queue, engineVars, taskVars, live, boot, histVars>>
vars == <<httpVars, otaVars>>

Init ==
    /\ HttpInit
    /\ loop = "none" /\ queue = <<>> /\ creator = "idle" /\ commands = 0
    /\ pc = "wait" /\ cur = NoUpdate /\ event = Unset
    /\ live = {} /\ boot = "old"
    /\ told = [u \in Updates |-> <<>>]
    /\ mishaps = {} /\ lost = FALSE /\ misuse = {}

\* The device runs: it has not restarted, and no task has crashed.
Running == pc # "rebooted" /\ get # "crashed"

\* An updater is used.
Use(u) == misuse' = misuse \cup (IF u \in live THEN {} ELSE {"updater"})

\* duer_ota_notifier_event: the report is queued, or not.
Tell(u, e) == told' = [told EXCEPT ![u] = Append(@, e)]

-----------------------------------------------------------------------------
(* The engine's task: ota_update, duer_ota_create_updater *)

\* The loop is created when there is none, the updater allocated and its event
\* posted; duer_events_call fails when the queue is full.
Command ==
    /\ creator = "idle" /\ commands < MaxUpdates
    /\ commands' = commands + 1
    /\ loop' = IF loop = "none" THEN "alive" ELSE loop
    /\ live' = live \cup {commands'}
    /\ \/ /\ loop = "freed"
          /\ misuse' = misuse \cup {"loop"}
          /\ creator' \in {"begin", "reject"} /\ UNCHANGED <<queue, mishaps>>
       \/ /\ loop # "freed" /\ queue = <<>>
          /\ queue' = <<commands'>> /\ creator' = "begin" /\ UNCHANGED <<misuse, mishaps>>
       \/ /\ loop # "freed" /\ queue # <<>>
          /\ creator' = "reject" /\ mishaps' = mishaps \cup {"full"}
          /\ UNCHANGED <<queue, misuse>>
    /\ UNCHANGED <<httpVars, taskVars, boot, told, lost>>

\* OTA_EVENT_BEGIN is reported after the event was posted: the updater's task may
\* have run, and have freed the updater.
Begin ==
    /\ creator = "begin" /\ Use(commands)
    /\ \/ Tell(commands, "BEGIN") /\ creator' = "idle" /\ UNCHANGED mishaps
       \/ /\ creator' = "reject" /\ mishaps' = mishaps \cup {"begin"}
          /\ UNCHANGED told
    /\ UNCHANGED <<httpVars, loop, queue, commands, taskVars, live, boot, lost>>

\* free_updater: the cloud is told, and updater and command are freed, although
\* their event may be in the queue, or running.
Reject ==
    /\ creator = "reject" /\ creator' = "destroy" /\ Use(commands)
    /\ Tell(commands, "REJECT") \/ UNCHANGED told
    /\ live' = live \ {commands}
    /\ UNCHANGED <<httpVars, loop, queue, commands, taskVars, boot, mishaps, lost>>

\* duer_events_destroy: a task that runs is deleted where it is.
DestroyLoop ==
    /\ creator = "destroy" /\ creator' = "idle"
    /\ misuse' = misuse \cup (IF loop = "alive" THEN {} ELSE {"loop"})
    /\ loop' = "freed" /\ queue' = <<>>
    /\ pc' = IF loop = "alive" THEN "killed" ELSE pc
    /\ UNCHANGED <<httpVars, commands, cur, event, live, boot, told, mishaps, lost>>

Engine == Command \/ Begin \/ Reject \/ DestroyLoop

-----------------------------------------------------------------------------
(* The updater's task: ota_updater *)

taskKeeps == <<loop, engineVars, live>>

Goto(p, e) == pc' = p /\ event' = e

Take ==
    /\ pc = "wait" /\ loop = "alive" /\ queue # <<>>
    /\ cur' = queue[1] /\ queue' = <<>> /\ Goto("start", Unset)
    /\ UNCHANGED <<httpVars, taskKeeps, boot, histVars>>

\* The unpacker, the application's init_updater and notify_data_begin, the
\* downloader; one that fails rejects the update.
Start ==
    /\ pc = "start" /\ Use(cur)
    /\ \/ Get /\ Goto("download", Unset)
       \/ Goto("notify", "REJECT") /\ UNCHANGED httpVars
    /\ UNCHANGED <<queue, cur, taskKeeps, boot, told, mishaps, lost>>

\* A step of duer_http_client_get.  handler unpacks what it is given; that it
\* failed is forgotten.
Download ==
    /\ pc = "download" /\ HttpStep
    /\ IF got' = got THEN UNCHANGED <<lost, misuse>>
       ELSE lost' \in {lost, TRUE} /\ Use(cur)
    /\ UNCHANGED <<queue, taskVars, taskKeeps, boot, told, mishaps>>

\* Mutant: a download that failed is not told.
Downloaded_Silent ==
    /\ pc = "download" /\ get = "done" /\ get' = "idle" /\ Use(cur)
    /\ IF result = "ok" THEN Goto("unpacked", Unset) ELSE Goto("release", Unset)
    /\ UNCHANGED <<connVars, progressVars, resume_retry_count, redirect_count, result,
                   spoiled, queue, cur, taskKeeps, boot, told, mishaps, lost>>

Downloaded ==
    /\ pc = "download" /\ get = "done" /\ get' = "idle" /\ Use(cur)
    /\ IF result = "ok" THEN Goto("unpacked", Unset) ELSE Goto("notify", "CONNECT_FAIL")
    /\ UNCHANGED <<connVars, progressVars, resume_retry_count, redirect_count, result,
                   spoiled, queue, cur, taskKeeps, boot, told, mishaps, lost>>

\* duer_ota_unpack_decompress_data_end: the installer accepts the image, or not.
DataEnd ==
    /\ pc = "unpacked" /\ Use(cur)
    /\ \/ Goto("complete", Unset) /\ boot' = "new"
       \/ Goto("notify", "REJECT") /\ UNCHANGED boot
    /\ UNCHANGED <<httpVars, queue, cur, taskKeeps, told, mishaps, lost>>

\* A report that fails goes to notify_ota_event, with `event' never assigned.
Complete ==
    /\ pc = "complete" /\ Use(cur)
    /\ \/ Tell(cur, "DOWNLOAD_COMPLETE") /\ Goto("image", Unset) /\ UNCHANGED mishaps
       \/ /\ Goto("notify", Unset) /\ mishaps' = mishaps \cup {"report"}
          /\ UNCHANGED told
    /\ UNCHANGED <<httpVars, queue, cur, taskKeeps, boot, lost>>

\* Mutant: an image that cannot be written is reported as rejected.
Image_Rejects ==
    /\ pc = "image" /\ Use(cur)
    /\ Goto("installed", Unset) \/ Goto("notify", "REJECT")
    /\ UNCHANGED <<httpVars, queue, cur, taskKeeps, boot, told, mishaps, lost>>

\* update_image_begin, update_image, update_image_end.
Image ==
    /\ pc = "image" /\ Use(cur)
    /\ Goto("installed", Unset) \/ Goto("notify", "WRITE_ERROR")
    /\ UNCHANGED <<httpVars, queue, cur, taskKeeps, boot, told, mishaps, lost>>

Installed ==
    /\ pc = "installed" /\ Use(cur)
    /\ \/ Tell(cur, "INSTALLED") /\ Goto("reboot", Unset) /\ UNCHANGED mishaps
       \/ /\ Goto("notify", Unset) /\ mishaps' = mishaps \cup {"report"}
          /\ UNCHANGED told
    /\ UNCHANGED <<httpVars, queue, cur, taskKeeps, boot, lost>>

\* The device restarts; or it cannot; or the application disabled it, and the
\* package is reported, with the version that the updater's command names.
Reboot ==
    /\ pc = "reboot"
    /\ \/ Goto("rebooted", Unset) /\ UNCHANGED misuse
       \/ Goto("notify", Unset) /\ UNCHANGED misuse
       \/ Goto("release", Unset) /\ Use(cur)
    /\ UNCHANGED <<httpVars, queue, cur, taskKeeps, boot, told, mishaps, lost>>

\* Mutant: the updater is freed before the last event is told.
Notify_Freed ==
    /\ pc = "notify" /\ Use(cur) /\ live' = live \ {cur}
    /\ \/ \E e \in IF event = Unset THEN OtaEvents ELSE {event} :
             /\ Tell(cur, e)
             /\ mishaps' = mishaps \cup IF event = Unset THEN {"unset"} ELSE {}
       \/ mishaps' = mishaps \cup {"report"} /\ UNCHANGED told
    /\ Goto("release", Unset)
    /\ UNCHANGED <<httpVars, queue, cur, loop, engineVars, boot, lost>>

\* An event that was not assigned may be anything, or none.
Notify ==
    /\ pc = "notify" /\ Use(cur)
    /\ \/ \E e \in IF event = Unset THEN OtaEvents ELSE {event} :
             /\ Tell(cur, e)
             /\ mishaps' = mishaps \cup IF event = Unset THEN {"unset"} ELSE {}
       \/ mishaps' = mishaps \cup {"report"} /\ UNCHANGED told
    /\ Goto("release", Unset)
    /\ UNCHANGED <<httpVars, queue, cur, taskKeeps, boot, lost>>

\* duer_ota_destroy_updater.  The only HTTP downloader goes with it; no later
\* update gets as far as missing it.
Release ==
    /\ pc = "release" /\ Use(cur)
    /\ live' = live \ {cur}
    /\ mishaps' = mishaps
           \cup IF creator = "begin" /\ cur = commands THEN {"early"} ELSE {}
    /\ Goto("end", Unset)
    /\ UNCHANGED <<httpVars, queue, cur, loop, engineVars, boot, told, lost>>

\* duer_events_destroy from its own task: vTaskDelete does not return, and the
\* queue and s_ota_updater_handler stay.
EndTask ==
    /\ pc = "end" /\ Goto("ended", Unset)
    /\ loop' = IF loop = "alive" THEN "orphan" ELSE loop
    /\ UNCHANGED <<httpVars, queue, cur, engineVars, live, boot, histVars>>

Updater == \/ Start \/ Download \/ Downloaded \/ DataEnd \/ Complete
           \/ Image \/ Installed \/ Reboot \/ Notify \/ Release \/ EndTask

-----------------------------------------------------------------------------
Next == Running /\ (Engine \/ Take \/ Updater)

\* The updater's task runs on, and the server sends or ends the connection.
Spec == Init /\ [][Next]_vars /\ WF_vars(Running /\ Updater)

-----------------------------------------------------------------------------
TypeOK ==
    /\ HttpTypeOK
    /\ loop \in {"none", "alive", "orphan", "freed"}
    /\ queue \in {<<>>} \cup {<<u>> : u \in Updates}
    /\ creator \in {"idle", "begin", "reject", "destroy"}
    /\ commands \in 0 .. MaxUpdates
    /\ pc \in {"wait", "start", "download", "unpacked", "complete", "image", "installed",
               "reboot", "rebooted", "notify", "release", "end", "ended", "killed"}
    /\ cur \in Updates \cup {NoUpdate} /\ event \in Failures \cup {Unset}
    /\ live \subseteq Updates /\ boot \in {"old", "new"}
    /\ told \in [Updates -> Seq(OtaEvents)]
    /\ lost \in BOOLEAN
    /\ mishaps \subseteq {"full", "begin", "early", "report", "unset"}
    /\ misuse \subseteq {"updater", "loop"}

\* The device boots a new image next only when the handler was given all of it, in
\* order: what duer_http_client_get returns for a transfer that was cut, resumed
\* or redirected never lets the updater install a part; unless a block was lost
\* in the unpacker, the server ignored the Range or redirected too often, or it sent
\* an answer without a length when the client had not learnt the length of the
\* resource, or had that of the body of a redirect in its place.
InstalledWhole == boot = "new" /\ ~lost /\ spoiled = {} => got = Resource(1)

\* The documentation of duer_http_client_get_download_progress, which returns
\* n_http_content_len: it is the total size to be downloaded, and 0 when that is not
\* known.  The code: the Content-Length of a redirect sets it as well.
TotalSize ==
    get \in {"content", "size", "small", "large", "crlf"}
        /\ spoiled \cap {"range", "redirect"} = {}
    => n_http_content_len \in {0, N}

\* The stories the cloud may be told of an update, as far as they have got.
Stories == {<<"REJECT">>, <<"CONNECT_FAIL">>, <<"DOWNLOAD_COMPLETE", "INSTALLED">>,
            <<"DOWNLOAD_COMPLETE", "WRITE_ERROR">>}
Tales == UNION {{SubSeq(s, 1, n) : n \in 0 .. Len(s)} : s \in Stories}

\* The engine's task puts BEGIN, once, anywhere into the tale of the updater's task.
Tells(t, tale) == t = tale \/ \E i \in 1 .. Len(tale) + 1 : t = InsertAt(tale, i, "BEGIN")

\* What the cloud is told of an update is the beginning of one story, and it is
\* true: COMPLETE and what follows it come of an image that the device will boot,
\* REJECT and CONNECT_FAIL of one that it will not.  Unless BEGIN could not be
\* told, or an event that was never assigned was.
CloudTold ==
    mishaps \cap {"begin", "unset"} = {} =>
        \A u \in Updates : \E tale \in Tales :
            /\ Tells(told[u], tale)
            /\ tale # <<>> /\ u = cur =>
                   (tale[1] = "DOWNLOAD_COMPLETE" <=> boot = "new")

\* Two tasks share the updater and the loop, and either may free them: nothing is
\* used after it was freed, as long as every command finds room in the queue and
\* BEGIN is told, and before the updater's task is done.
MemorySafe == mishaps \cap {"full", "begin", "early"} = {} => misuse = {}

\* An update that was taken up comes to an end the cloud is told of, or could not
\* be told of; unless its task is deleted, or the HTTP client never returns.
Verdict == \E i \in DOMAIN told[cur] : told[cur][i] \in Failures \cup {"INSTALLED"}
UpdateEnds ==
    (pc = "start") ~> \/ pc \in {"ended", "rebooted"} /\ (Verdict \/ "report" \in mishaps)
                      \/ pc = "killed" \/ Spins \/ get = "crashed"
=============================================================================
