----------------------------- MODULE HttpClient -----------------------------
(***************************************************************************)
(* duer_http_client_get: one GET of a resource, with its redirects, the    *)
(* three framings of an answer (Content-Length, chunked, none) and the     *)
(* resuming of a broken transfer with a Range header.                      *)
(*                                                                         *)
(* The resource is N pieces.  A size line and a CR LF are pieces too; the  *)
(* receive buffer and p_chunk_buf take Room of them.  Every read is a step *)
(* in which the server, or the network, sends all that was asked for, less *)
(* before it closes the connection, or breaks it.  http_client_recv waits: *)
(* set_timeout is empty in the adapter, so that only the other side ends a *)
(* read.  A server sends well formed answers.  The position argument of    *)
(* the data handler is left out; the handler of the OTA updater ignores    *)
(* it.  check_stop_notify_cb is never registered, and memory is there.     *)
(***************************************************************************)
EXTENDS Naturals, Sequences, SequencesExt

CONSTANTS
    N,              \* pieces of the resource
    Room,           \* HC_CHUNK_SIZE - 1
    HeadRoom,       \* pieces of the content a read of the head may bring along
    MaxResume,      \* HC_MAX_RETRY_RESUME_COUNT
    MaxRedirect,    \* HC_REDIRECTION_MAX
    MaxBody         \* bound: pieces of the body that comes with a redirect

ASSUME HttpAssumption ==
    /\ N \in Nat \ {0} /\ Room \in Nat \ {0} /\ HeadRoom \in 0 .. Room
    /\ MaxResume \in Nat /\ MaxRedirect \in Nat /\ MaxBody \in Nat

VARIABLES
    get,            \* where duer_http_client_get is
    peer,           \* the connection: "none", "open", or "closed" by the server
    stream,         \* what the server has still to send on it
    buf,            \* p_client->buf
    p_chunk_buf,    \* with chunk_buff_len
    need_to_read,   \* of the chunk that is being read
    n_http_content_len, recv_size,
    resume_retry_count, redirect_count,
    result,         \* the value returned: "none", "ok", "failed" or "conn"
    got,            \* history: what the data handler was given
    spoiled         \* history: "range" ignored; an answer without its length, of
                    \* which nobody has told the "length", or for which the client
                    \* has another "total", of a redirect; an answer of a "redirect"
                    \* taken for content

connVars == <<peer, stream, buf, p_chunk_buf, need_to_read>>
progressVars == <<n_http_content_len, recv_size, got>>
httpVars == <<get, connVars, progressVars, resume_retry_count, redirect_count,
              result, spoiled>>

Data(i) == <<"data", i>>
Size(n) == <<"size", n>>
CrLf == <<"crlf", 0>>
Junk == <<"junk", 0>>
Resource(i) == [j \in 1 .. N - i + 1 |-> Data(i + j - 1)]       \* from piece i on

Least(m, n) == IF m < n THEN m ELSE n

\* The piece a chunk that begins with piece j ends with.
ChunkEndsAt(j, ends) == CHOOSE e \in j .. N :
    /\ e \in ends \cup {N}
    /\ \A d \in j .. e - 1 : d \notin ends

\* The resource from piece i on, in chunks that end at the pieces in ends.
Chunked(i, ends) ==
    LET From[j \in 1 .. N + 1] ==
            IF j = N + 1 THEN <<Size(0), CrLf>>
            ELSE LET e == ChunkEndsAt(j, ends)
                 IN  <<Size(e - j + 1)>> \o SubSeq(Resource(j), 1, e - j + 1)
                         \o <<CrLf>> \o From[e + 1]
    IN  From[i]

HttpInit ==
    /\ get = "idle" /\ peer = "none" /\ stream = <<>>
    /\ buf = <<>> /\ p_chunk_buf = <<>> /\ need_to_read = 0
    /\ n_http_content_len = 0 /\ recv_size = 0
    /\ resume_retry_count = 0 /\ redirect_count = 0
    /\ result = "none" /\ got = <<>> /\ spoiled = {}

-----------------------------------------------------------------------------
(* duer_http_client_get *)

\* The call, with pos = 0.
Get ==
    /\ get = "idle" /\ get' = "connect"
    /\ n_http_content_len' = 0 /\ recv_size' = 0 /\ got' = <<>>
    /\ resume_retry_count' = 0 /\ redirect_count' = 0
    /\ result' = "none" /\ spoiled' = {}
    /\ UNCHANGED connVars

\* The connection is closed, and with it goes what was read and not handed on.
Drop ==
    /\ peer' = "none" /\ stream' = <<>>
    /\ buf' = <<>> /\ p_chunk_buf' = <<>> /\ need_to_read' = 0

\* The call returns.
End(res) ==
    /\ get' = "done" /\ result' = res /\ Drop
    /\ UNCHANGED <<resume_retry_count, redirect_count>>

\* Mutant: every failed attempt is followed by another.
Resume_Unbounded ==
    /\ resume_retry_count' = resume_retry_count + 1
    /\ get' = "connect" /\ redirect_count' = 0 /\ result' = result
    /\ Drop

\* After HTTP_CONN: the next attempt asks for what is missing.
Resume ==
    /\ resume_retry_count' = resume_retry_count + 1
    /\ IF resume_retry_count < MaxResume
       THEN get' = "connect" /\ redirect_count' = 0 /\ result' = result
       ELSE get' = "done" /\ result' = "conn" /\ UNCHANGED redirect_count
    /\ Drop

-----------------------------------------------------------------------------
(* http_client_recv for n pieces: k pieces in all, HTTP_OK or HTTP_CONN.  Once *)
(* the server has closed the connection every read succeeds with nothing; one *)
(* of a socket that is closed here fails.                                     *)

Reads(n) ==
    LET Read(k, r, p) == [k |-> k, res |-> r, peer |-> p]
        some == 0 .. Least(n - 1, Len(stream))
    IN  CASE n = 0 -> {Read(0, "ok", peer)}
          [] n > 0 /\ peer = "none" -> {Read(0, "conn", "none")}
          [] n > 0 /\ peer = "closed" -> {Read(0, "ok", "closed")}
          [] n > 0 /\ peer = "open" ->
                 {Read(k, "ok", "open") : k \in {n} \cap 1 .. Len(stream)}
                     \cup {Read(k, "ok", "closed") : k \in some}
                     \cup {Read(k, "conn", "closed") : k \in some}

Received(r) == SubSeq(stream, 1, r.k)
AfterRead(r) ==
    /\ peer' = r.peer
    /\ stream' = IF r.peer = "open" THEN SubSeq(stream, r.k + 1, Len(stream)) ELSE <<>>

-----------------------------------------------------------------------------
(* http_client_connect *)

\* The head is taken line by line, whatever is its status: a Content-Length before
\* the Location of a redirect, or before the head breaks, is that of the redirect's
\* own body, and yet it sets the total.
Totals == {n_http_content_len} \cup {recv_size + len : len \in 0 .. MaxBody}

\* What is missing of a total; a total of less than was received makes a size_t
\* below zero, which is more than any server sends.
MissingOf(total) == IF recv_size <= total THEN total - recv_size ELSE N + Room

\* No connection, or the request is not sent, or the status line does not come, or
\* the head breaks: of a redirect, or before the length of what was asked for.
ConnectFails ==
    /\ get = "connect"
    /\ n_http_content_len' \in Totals
    /\ \/ Resume
       \/ End("failed")         \* the URL is no URL; the server closed early
    /\ UNCHANGED <<recv_size, got, spoiled>>

\* A status that is no success, which includes 416 when nothing is missing, or
\* no status at all: HTTP_PRTCL.
Refused ==
    /\ get = "connect" /\ End("failed")
    /\ UNCHANGED <<progressVars, spoiled>>

\* A redirect to another URL.
Redirected ==
    /\ get = "connect" /\ redirect_count < MaxRedirect
    /\ redirect_count' = redirect_count + 1
    /\ n_http_content_len' \in Totals
    /\ UNCHANGED <<get, connVars, recv_size, got, resume_retry_count, result, spoiled>>

\* A redirect to a path: http_client_parse_url looks for '#' at p_host, which is
\* NULL for a relative URL.
RedirectedToPath ==
    /\ get = "connect" /\ redirect_count < MaxRedirect
    /\ get' = "crashed"
    /\ n_http_content_len' \in Totals
    /\ UNCHANGED <<connVars, recv_size, got, resume_retry_count, redirect_count, result,
                   spoiled>>

\* One redirect too many leaves the loop with HTTP_OK and a socket that is
\* closed.  What is left in the buffer of the head of the last answer is more than
\* is missing of the content, or no chunk, or it is handed on as content; the read
\* of more fails.
RedirectedTooOften ==
    /\ get = "connect" /\ redirect_count = MaxRedirect
    /\ spoiled' = spoiled \cup {"redirect"}
    /\ \E total \in Totals, head \in {<<>>, <<Junk>>} :
          /\ n_http_content_len' = total
          /\ \/ End("failed") /\ UNCHANGED <<recv_size, got>>
             \/ /\ Len(head) <= MissingOf(total)
                /\ got' = got \o head /\ recv_size' = recv_size + Len(head)
                /\ IF Len(head) = MissingOf(total) THEN End("ok") ELSE Resume

\* A status line of success.  What the server will send: the part asked for, or
\* all; its length announced, in chunks, or neither.
Answered ==
    /\ get = "connect" /\ get' = "head"
    /\ \E ignored \in IF recv_size > 0 THEN BOOLEAN ELSE {FALSE},
          framing \in {"length", "none", "chunked"}, ends \in SUBSET (1 .. N - 1) :
          LET first == IF ignored \/ recv_size >= N THEN 1 ELSE recv_size + 1
          IN  /\ stream' = IF framing = "chunked" THEN Chunked(first, ends)
                                                  ELSE Resource(first)
              /\ n_http_content_len' = IF framing = "length" THEN N - first + 1 + recv_size
                                                             ELSE n_http_content_len
              /\ spoiled' = spoiled
                     \cup (IF first # recv_size + 1 THEN {"range"} ELSE {})
                     \cup (CASE framing # "none" \/ n_http_content_len = N -> {}
                             [] framing = "none" /\ n_http_content_len = 0 -> {"length"}
                             [] OTHER -> {"total"})
    /\ peer' = "open" /\ buf' = <<>>
    /\ UNCHANGED <<p_chunk_buf, need_to_read, recv_size, got, resume_retry_count,
                   redirect_count, result>>

-----------------------------------------------------------------------------
(* http_client_recv_headers_and_parse, and the choice of duer_http_client_get_data *)

\* The head is complete, and k pieces of the content came with it.
HeadRead ==
    /\ get = "head" /\ peer = "open"
    /\ \E k \in 0 .. Least(HeadRoom, Len(stream)) :
          /\ buf' = SubSeq(stream, 1, k)
          /\ \/ peer' = "open" /\ stream' = SubSeq(stream, k + 1, Len(stream))
             \/ peer' = "closed" /\ stream' = <<>>
    /\ get' = IF stream[1][1] = "size" THEN "size" ELSE "content"
    /\ p_chunk_buf' = <<>> /\ need_to_read' = 0
    /\ UNCHANGED <<progressVars, resume_retry_count, redirect_count, result, spoiled>>

HeadBroken ==
    /\ get = "head" /\ peer = "open"
    /\ Resume
    /\ UNCHANGED <<progressVars, spoiled>>

\* The server closes the connection in the middle of the head, and the loop reads
\* nothing for ever.
HeadCut ==
    /\ get = "head" /\ peer = "open"
    /\ peer' = "closed" /\ stream' = <<>>
    /\ UNCHANGED <<get, buf, p_chunk_buf, need_to_read, progressVars,
                   resume_retry_count, redirect_count, result, spoiled>>

-----------------------------------------------------------------------------
(* http_client_recv_content_data *)

Hand(pieces) ==
    /\ got' = got \o pieces /\ recv_size' = recv_size + Len(pieces)
    /\ UNCHANGED n_http_content_len

Missing == MissingOf(n_http_content_len)

\* More than the announced content came with the head.
ContentTooLong ==
    /\ get = "content" /\ Len(buf) > Missing
    /\ End("failed")
    /\ UNCHANGED <<progressVars, spoiled>>

\* Mutant: the end of the connection is taken for the end of the content.
Content_EndIsOk ==
    /\ get = "content" /\ Len(buf) <= Missing
    /\ \E r \in Reads(Least(Room, Missing) - Len(buf)) :
          LET data == buf \o Received(r)
          IN  /\ Hand(data)
              /\ CASE r.res = "conn" -> Resume
                   [] r.res = "ok" /\ (data = <<>> \/ Len(data) = Missing) -> End("ok")
                   [] OTHER ->
                        /\ AfterRead(r) /\ buf' = <<>>
                        /\ UNCHANGED <<get, p_chunk_buf, need_to_read,
                                       resume_retry_count, redirect_count, result>>
    /\ UNCHANGED spoiled

\* A buffer is read and handed on, even when the read ended with an error; a
\* transfer that broke is resumed, one that was closed early is given up.
Content ==
    /\ get = "content" /\ Len(buf) <= Missing
    /\ \E r \in Reads(Least(Room, Missing) - Len(buf)) :
          LET data == buf \o Received(r)
          IN  /\ Hand(data)
              /\ CASE r.res = "conn" -> Resume
                   [] r.res = "ok" /\ Len(data) = Missing -> End("ok")
                   [] r.res = "ok" /\ data = <<>> /\ Missing > 0 -> End("failed")
                   [] OTHER ->
                        /\ AfterRead(r) /\ buf' = <<>>
                        /\ UNCHANGED <<get, p_chunk_buf, need_to_read,
                                       resume_retry_count, redirect_count, result>>
    /\ UNCHANGED spoiled

-----------------------------------------------------------------------------
(* http_client_recv_chunk *)

GoesOn == UNCHANGED <<resume_retry_count, redirect_count, result>>

\* http_client_recv_chunked_size: a size line counts when something follows it.
HasSize == Len(buf) > 1

MoreForSize ==
    /\ get = "size" /\ ~HasSize
    /\ \E r \in Reads(Room - Len(buf)) :
          \/ r.res = "conn" /\ Resume
          \/ /\ r.res = "ok" /\ AfterRead(r) /\ buf' = buf \o Received(r)
             /\ UNCHANGED <<get, p_chunk_buf, need_to_read>> /\ GoesOn
    /\ UNCHANGED <<progressVars, spoiled>>

\* The chunk of size zero: what is left in p_chunk_buf is handed on.
LastChunk ==
    /\ get = "size" /\ HasSize /\ buf[1] = Size(0)
    /\ Hand(p_chunk_buf) /\ End("ok")
    /\ UNCHANGED spoiled

\* A chunk that fits into the buffer with its CR LF is read whole, a larger one in
\* parts; the size line took room, so that a larger one is never all there, which
\* would end the call.
NextChunk ==
    /\ get = "size" /\ HasSize /\ buf[1] # Size(0)
    /\ LET size == buf[1][2]
       IN  \/ size + 1 <= Room /\ get' = "small" /\ need_to_read' = size
           \/ /\ size + 1 > Room /\ get' = "large"
              /\ need_to_read' = size - (Len(buf) - 1)
    /\ buf' = Tail(buf) /\ GoesOn
    /\ UNCHANGED <<peer, stream, p_chunk_buf, progressVars, spoiled>>

\* Mutant: recv_size counts what is put into p_chunk_buf.
Store_CountsEarly(pieces) ==
    LET fill == Room - Len(p_chunk_buf)
    IN  /\ IF Len(pieces) >= fill
           THEN /\ got' = got \o p_chunk_buf \o SubSeq(pieces, 1, fill)
                /\ p_chunk_buf' = SubSeq(pieces, fill + 1, Len(pieces))
           ELSE /\ p_chunk_buf' = p_chunk_buf \o pieces
                /\ UNCHANGED got
        /\ recv_size' = recv_size + Len(pieces)
        /\ UNCHANGED n_http_content_len

\* Into p_chunk_buf; a full one is handed on.
Store(pieces) ==
    LET fill == Room - Len(p_chunk_buf)
    IN  IF Len(pieces) >= fill
        THEN /\ Hand(p_chunk_buf \o SubSeq(pieces, 1, fill))
             /\ p_chunk_buf' = SubSeq(pieces, fill + 1, Len(pieces))
        ELSE /\ p_chunk_buf' = p_chunk_buf \o pieces
             /\ UNCHANGED progressVars

SmallChunk ==
    /\ get = "small"
    /\ \E r \in Reads(IF Len(buf) > need_to_read THEN 0 ELSE Room - Len(buf)) :
          LET all == buf \o Received(r)
          IN  CASE r.res = "conn" -> Resume /\ UNCHANGED progressVars
                [] r.res = "ok" /\ Len(all) <= need_to_read ->
                     End("failed") /\ UNCHANGED progressVars
                [] OTHER ->
                     /\ Store(SubSeq(all, 1, need_to_read))
                     /\ buf' = SubSeq(all, need_to_read + 2, Len(all))
                     /\ get' = "size" /\ need_to_read' = 0
                     /\ AfterRead(r) /\ GoesOn
    /\ UNCHANGED spoiled

\* One turn of the loop that reads a large chunk: nothing ends it when the server
\* has closed the connection.
LargeChunk ==
    /\ get = "large"
    /\ \E r \in Reads(Least(need_to_read, Room - Len(buf))) :
          \/ r.res = "conn" /\ Resume /\ UNCHANGED progressVars
          \/ /\ r.res = "ok" /\ Store(buf \o Received(r)) /\ buf' = <<>>
             /\ need_to_read' = need_to_read - r.k
             /\ get' = IF need_to_read' = 0 THEN "crlf" ELSE "large"
             /\ AfterRead(r) /\ GoesOn
    /\ UNCHANGED spoiled

ChunkEnd ==
    /\ get = "crlf"
    /\ \E r \in Reads(1) :
          \/ r.res = "conn" /\ Resume
          \/ r.res = "ok" /\ r.k = 0 /\ End("failed")
          \/ /\ r.k = 1 /\ get' = "size" /\ AfterRead(r) /\ GoesOn
             /\ UNCHANGED <<buf, p_chunk_buf, need_to_read>>
    /\ UNCHANGED <<progressVars, spoiled>>

-----------------------------------------------------------------------------
Connect == \/ ConnectFails \/ Refused \/ Answered
           \/ Redirected \/ RedirectedToPath \/ RedirectedTooOften

Transfer == \/ HeadRead \/ HeadBroken \/ HeadCut
            \/ ContentTooLong \/ Content
            \/ MoreForSize \/ LastChunk \/ NextChunk
            \/ SmallChunk \/ LargeChunk \/ ChunkEnd

HttpStep == Connect \/ Transfer

-----------------------------------------------------------------------------
HttpTypeOK ==
    /\ get \in {"idle", "connect", "head", "content", "size", "small", "large",
                "crlf", "done", "crashed"}
    /\ peer \in {"none", "open", "closed"}
    /\ Len(buf) <= Room /\ Len(p_chunk_buf) < Room
    /\ need_to_read \in 0 .. N
    /\ n_http_content_len \in Nat /\ recv_size \in Nat
    /\ resume_retry_count \in 0 .. MaxResume + 1
    /\ redirect_count \in 0 .. MaxRedirect
    /\ result \in {"none", "ok", "failed", "conn"}
    /\ recv_size = Len(got)
    /\ spoiled \subseteq {"range", "length", "total", "redirect"}

\* However often a transfer breaks and is resumed, in whatever framing, what the
\* handler was given is the resource from its beginning: nothing twice, nothing
\* left out; as long as the server heeds the Range header.
DataInOrder == spoiled \cap {"range", "redirect"} = {} => IsPrefix(got, Resource(1))

\* The loops that read nothing for ever once the server has closed the connection.
Spins == peer = "closed" /\ (get \in {"head", "large"} \/ (get = "size" /\ ~HasSize))
=============================================================================
