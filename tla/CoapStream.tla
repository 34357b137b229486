----------------------------- MODULE CoapStream -----------------------------
(***************************************************************************)
(* How messages of the cloud come out of a TCP stream: bcasoc_recv, the     *)
(* transport on top of it (plain, AES-CBC or TLS) and duer_coap_recv, which *)
(* asks for a header and then for the body the header announces.            *)
(*                                                                         *)
(* The socket does not wait: a read takes what has arrived, which may end   *)
(* anywhere in a message.  The AES transport keeps a header or a body that  *)
(* came in part; TLS keeps a record (mbedtls, external); the plain one      *)
(* keeps nothing.  bcasoc_recv returns the bytes read, but on FreeRTOS the  *)
(* bytes asked for.                                                        *)
(*                                                                         *)
(* A message is HeaderLen + BodyLen pieces; the sizes of real ones differ,  *)
(* and that a body fits into the 2 KB buffer is what is kept of them.  The  *)
(* engine reads when there is something to read (SocketAdapter).            *)
(***************************************************************************)
EXTENDS Naturals, Sequences, SequencesExt

CONSTANTS
    Transports,     \* which of "plain", "aes" and "tls"
    HeaderLen,      \* pieces of a header
    BodyLen,        \* pieces of a body
    MaxMsgs         \* bound: messages sent on one connection

ASSUME CoapStreamAssumption ==
    /\ Transports \subseteq {"plain", "aes", "tls"}
    /\ HeaderLen \in Nat \ {0} /\ BodyLen \in Nat \ {0} /\ MaxMsgs \in Nat

Msgs == 1 .. MaxMsgs
Damaged == 0
MsgLen == HeaderLen + BodyLen

VARIABLES
    transport, counts,  \* the build: its transport, whether bcasoc_recv counts
    net, wire,          \* pieces under way, pieces that have arrived
    received_header, received_body,     \* AES: the parts kept in duer_trans_t
    record, opened,     \* TLS: the record read so far; what is left of one that was
                        \* complete
    step,               \* "idle", "body" or, after an error, "closing"
    big,                \* the messages that do not fit into the buffer
    accepted,           \* history: messages sent by the cloud, in order
    handed,             \* history: what was handed to the CoAP library
    spoiled             \* history: what put the reader out of step with the stream

buildVars == <<transport, counts>>
keptVars == <<received_header, received_body, record, opened>>
vars == <<buildVars, net, wire, keptVars, step, big, accepted, handed, spoiled>>

Piece(m, i) == <<m, i>>
Junk == <<Damaged, 0>>
Pieces == (0 .. MaxMsgs) \X (0 .. MsgLen)
Header(m) == [i \in 1 .. HeaderLen |-> Piece(m, i)]
Body(m) == [i \in 1 .. BodyLen |-> Piece(m, HeaderLen + i)]

Init ==
    /\ transport \in Transports /\ counts \in BOOLEAN
    /\ net = <<>> /\ wire = <<>>
    /\ received_header = <<>> /\ received_body = <<>>
    /\ record = <<>> /\ opened = <<>>
    /\ step = "idle" /\ big = {}
    /\ accepted = <<>> /\ handed = <<>> /\ spoiled = {}

-----------------------------------------------------------------------------
(* The cloud and the network *)

\* Mutant: a connection takes more messages than the model numbers.
CloudSends_Unnumbered ==
    /\ step # "closing" /\ Len(accepted) <= MaxMsgs
    /\ LET m == Len(accepted) + 1
       IN  /\ net' = net \o Header(m) \o Body(m)
           /\ accepted' = Append(accepted, m)
           /\ big' \in {big, big \cup {m}}
    /\ UNCHANGED <<buildVars, wire, keptVars, step, handed, spoiled>>

CloudSends ==
    /\ step # "closing" /\ Len(accepted) < MaxMsgs
    /\ LET m == Len(accepted) + 1
       IN  /\ net' = net \o Header(m) \o Body(m)
           /\ accepted' = Append(accepted, m)
           /\ big' \in {big, big \cup {m}}
    /\ UNCHANGED <<buildVars, wire, keptVars, step, handed, spoiled>>

Arrive ==
    /\ step # "closing" /\ net # <<>>
    /\ wire' = Append(wire, Head(net)) /\ net' = Tail(net)
    /\ UNCHANGED <<buildVars, keptVars, step, big, accepted, handed, spoiled>>

-----------------------------------------------------------------------------
(* bcasoc_recv for n pieces *)

Got(n) == SubSeq(wire, 1, IF Len(wire) < n THEN Len(wire) ELSE n)
Rest(n) == SubSeq(wire, Len(Got(n)) + 1, Len(wire))

\* The result says that n pieces were read.
SaysAll(n) == Len(Got(n)) = n \/ (~counts /\ Got(n) # <<>>)

\* The buffer of n pieces, what was not read left as it was.
Filled(n) == [i \in 1 .. n |-> IF i <= Len(Got(n)) THEN Got(n)[i] ELSE Junk]

Short(n) == IF Len(Got(n)) < n THEN {"short"} ELSE {}

-----------------------------------------------------------------------------
(* duer_coap_recv: what is done with a header and with a body. *)

\* A header that is none, or that announces too much, ends the call with a
\* positive result, which the engine takes for success; one that was not all
\* read may announce a size that ends the connection.
TakeHeader(h, why) ==
    LET m == h[1][1]
        good == m \in Msgs /\ h = Header(m)
    IN  /\ step' \in IF good /\ m \notin big THEN {"body"}
                     ELSE IF why = {} THEN {"idle"} ELSE {"idle", "closing"}
        /\ spoiled' = spoiled \cup why \cup IF good /\ m \in big THEN {"big"} ELSE {}

\* The CoAP library parses the body, or refuses it and the engine stops.
TakeBody(b) ==
    LET whole == \E m \in Msgs : b = Body(m)
    IN  /\ handed' = Append(handed, IF whole THEN b[1][1] ELSE Damaged)
        /\ step' \in IF whole THEN {"idle"} ELSE {"idle", "closing"}

-----------------------------------------------------------------------------
(* The plain transport: duer_trans_wrapper_recv. *)

\* A short header is dropped.
PlainHeader ==
    /\ transport = "plain" /\ step = "idle" /\ wire # <<>>
    /\ wire' = Rest(HeaderLen)
    /\ IF SaysAll(HeaderLen) THEN TakeHeader(Filled(HeaderLen), Short(HeaderLen))
       ELSE step' = "idle" /\ spoiled' = spoiled \cup {"split"}
    /\ UNCHANGED <<buildVars, net, keptVars, big, accepted, handed>>

\* A body that has not come yet ends the call, and its header is forgotten; a
\* body that came in part is handed on.
PlainBody ==
    /\ transport = "plain" /\ step = "body"
    /\ wire' = Rest(BodyLen)
    /\ IF wire = <<>> THEN step' = "idle" /\ UNCHANGED handed
       ELSE TakeBody(Filled(BodyLen))
    /\ spoiled' = IF Len(wire) < BodyLen THEN spoiled \cup {"split"} ELSE spoiled
    /\ UNCHANGED <<buildVars, net, keptVars, big, accepted>>

-----------------------------------------------------------------------------
(* duer_trans_aes_cbc_encrypted_recv *)

\* A header that was kept whole is given again.
AesKeptHeader ==
    /\ transport = "aes" /\ step = "idle"
    /\ Len(received_header) = HeaderLen
    /\ TakeHeader(received_header, {})
    /\ UNCHANGED <<buildVars, net, wire, keptVars, big, accepted, handed>>

\* The rest of a header is asked for, and kept.
AesHeader ==
    /\ transport = "aes" /\ step = "idle" /\ wire # <<>>
    /\ LET n == HeaderLen - Len(received_header)
       IN  /\ n > 0
           /\ wire' = Rest(n)
           /\ \/ /\ SaysAll(n)
                 /\ received_header' = received_header \o Filled(n)
                 /\ TakeHeader(received_header', Short(n))
              \/ /\ ~SaysAll(n)
                 /\ received_header' = received_header \o Got(n)
                 /\ UNCHANGED <<step, spoiled>>
    /\ UNCHANGED <<buildVars, net, received_body, record, opened, big, accepted, handed>>

\* Mutant: a part of a body is not kept.
AesBody_DropsPart ==
    /\ transport = "aes" /\ step = "body"
    /\ LET n == BodyLen - Len(received_body)
       IN  /\ wire' = Rest(n)
           /\ IF SaysAll(n)
              THEN /\ TakeBody(received_body \o Filled(n))
                   /\ received_header' = <<>> /\ received_body' = <<>>
              ELSE step' = "idle" /\ UNCHANGED <<received_header, received_body, handed>>
           /\ spoiled' = spoiled \cup (IF SaysAll(n) THEN Short(n) ELSE {})
    /\ UNCHANGED <<buildVars, net, record, opened, big, accepted>>

\* Mutant: the header is kept when its body has been handed on.
AesBody_KeepsHeader ==
    /\ transport = "aes" /\ step = "body"
    /\ LET n == BodyLen - Len(received_body)
       IN  /\ wire' = Rest(n)
           /\ IF SaysAll(n)
              THEN /\ TakeBody(received_body \o Filled(n))
                   /\ received_body' = <<>> /\ UNCHANGED received_header
              ELSE /\ received_body' = received_body \o Got(n) /\ step' = "idle"
                   /\ UNCHANGED <<received_header, handed>>
           /\ spoiled' = spoiled \cup (IF SaysAll(n) THEN Short(n) ELSE {})
    /\ UNCHANGED <<buildVars, net, record, opened, big, accepted>>

\* The rest of the body: all of it is decrypted and handed on, a part is kept
\* and the call ends; the next one begins with the header that was kept.
AesBody ==
    /\ transport = "aes" /\ step = "body"
    /\ LET n == BodyLen - Len(received_body)
       IN  /\ wire' = Rest(n)
           /\ IF SaysAll(n)
              THEN /\ TakeBody(received_body \o Filled(n))
                   /\ received_header' = <<>> /\ received_body' = <<>>
              ELSE /\ received_body' = received_body \o Got(n) /\ step' = "idle"
                   /\ UNCHANGED <<received_header, handed>>
           /\ spoiled' = spoiled \cup (IF SaysAll(n) THEN Short(n) ELSE {})
    /\ UNCHANGED <<buildVars, net, record, opened, big, accepted>>

-----------------------------------------------------------------------------
(* duer_trans_encrypted_recv, over mbedtls_ssl_read (external): a record, that *)
(* is a message, is given out when all of it has come and is genuine.          *)

\* A part of a record is kept by the library, and the call ends.
TlsPart ==
    /\ transport = "tls" /\ step = "idle" /\ opened = <<>> /\ wire # <<>>
    /\ LET n == MsgLen - Len(record)
       IN  /\ wire' = Rest(n)
           /\ \/ ~SaysAll(n) /\ record' = record \o Got(n) /\ UNCHANGED <<step, spoiled>>
              \/ /\ SaysAll(n) /\ Short(n) # {}
                 /\ step' = "closing" /\ spoiled' = spoiled \cup Short(n)
                 /\ UNCHANGED record
    /\ UNCHANGED <<buildVars, net, received_header, received_body, opened, big,
                   accepted, handed>>

\* The record is complete, or was before: the header is read from it.
TlsHeader ==
    /\ transport = "tls" /\ step = "idle"
    /\ \/ opened # <<>> /\ UNCHANGED <<wire, record>>
       \/ /\ opened = <<>> /\ Len(record) + Len(wire) >= MsgLen
          /\ wire' = Rest(MsgLen - Len(record)) /\ record' = <<>>
    /\ LET text == IF opened # <<>> THEN opened
                   ELSE record \o Got(MsgLen - Len(record))
           n == IF Len(text) < HeaderLen THEN Len(text) ELSE HeaderLen
           h == SubSeq(text, 1, n)
       IN  /\ opened' = SubSeq(text, n + 1, Len(text))
           /\ TakeHeader(h, {})
    /\ UNCHANGED <<buildVars, net, received_header, received_body, big, accepted, handed>>

TlsBody ==
    /\ transport = "tls" /\ step = "body"
    /\ TakeBody(SubSeq(opened, 1, BodyLen))
    /\ opened' = SubSeq(opened, BodyLen + 1, Len(opened))
    /\ UNCHANGED <<buildVars, net, wire, received_header, received_body, record, big,
                   accepted, spoiled>>

-----------------------------------------------------------------------------
(* The engine stops, or an error made it; the next connection begins with a *)
(* transport of its own (duer_trans_release, duer_trans_acquire).           *)

EngineStops ==
    /\ step = "idle" /\ step' = "closing"
    /\ UNCHANGED <<buildVars, net, wire, keptVars, big, accepted, handed, spoiled>>

Reconnect ==
    /\ step = "closing" /\ step' = "idle"
    /\ net' = <<>> /\ wire' = <<>>
    /\ received_header' = <<>> /\ received_body' = <<>>
    /\ record' = <<>> /\ opened' = <<>>
    /\ big' = {} /\ accepted' = <<>> /\ handed' = <<>> /\ spoiled' = {}
    /\ UNCHANGED buildVars

-----------------------------------------------------------------------------
Read == \/ PlainHeader \/ PlainBody
        \/ AesKeptHeader \/ AesHeader \/ AesBody
        \/ TlsPart \/ TlsHeader \/ TlsBody

Next == CloudSends \/ Arrive \/ Read \/ EngineStops \/ Reconnect

\* What is under way arrives, and the engine reads while there is something to
\* read (PollAlive of SocketAdapter).
Fairness == WF_vars(Arrive) /\ WF_vars(Read)

Spec == Init /\ [][Next]_vars /\ Fairness

-----------------------------------------------------------------------------
TypeOK ==
    /\ transport \in Transports /\ counts \in BOOLEAN
    /\ step \in {"idle", "body", "closing"}
    /\ net \in Seq(Pieces) /\ wire \in Seq(Pieces)
    /\ received_header \in Seq(Pieces) /\ Len(received_header) <= HeaderLen
    /\ received_body \in Seq(Pieces) /\ Len(received_body) < BodyLen
    /\ record \in Seq(Pieces) /\ Len(record) < MsgLen
    /\ opened \in Seq(Pieces)
    /\ big \subseteq Msgs
    /\ accepted \in Seq(Msgs) /\ handed \in Seq(Msgs \cup {Damaged})
    /\ spoiled \subseteq {"short", "split", "big"}

\* Wherever the stream is cut, what is handed to the CoAP library are the
\* messages the cloud sent, whole and in order: with AES or TLS over a socket
\* that counts what it read, as long as no message is larger than the buffer,
\* and with every build until a read comes short.
WholeInOrder ==
    (transport # "plain" /\ counts /\ big = {}) \/ spoiled = {} =>
        IsPrefix(handed, accepted)

\* Every message is handed on in the end, under the same conditions, unless the
\* connection is given up.
MessagesHanded ==
    \A m \in Msgs : (\E i \in DOMAIN accepted : accepted[i] = m) ~>
        \/ \E i \in DOMAIN handed : handed[i] = m
        \/ step = "closing" \/ spoiled # {}
=============================================================================
