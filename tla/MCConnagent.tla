----------------------------- MODULE MCConnagent -----------------------------
(* TLC instances of Connagent: the scenarios of the .cfg files. *)
EXTENDS Connagent, TLC

CONSTANTS r1, r2

OneReporter  == {r1}
TwoReporters == {r1, r2}
Symmetric    == Permutations(TwoReporters)

\* Start, stop, reconnect: everything that drives the start-up machine.
LifeCalls  == {"initialize", "start", "stop", "finalize", "add_resources",
               "response", "request", "keepalive"}
LifeFaults == {"would_block", "failed", "reg_fail", "bad_profile", "no_memory", "peer_close"}

\* Traffic over a connection that comes and goes.
QueueCalls  == {"initialize", "start", "report", "finalize"}
QueueFaults == {"would_block", "failed", "no_memory"}

\* One reporting thread over a transport that does not fail.
DeliveryCalls == {"initialize", "start", "report"}
NoFaults      == {}

\* The mbed port, whose socket task raises SEND_TIMEOUT.
MbedCalls  == {"initialize", "start", "report"}
MbedFaults == {"would_block", "send_timeout", "odd_header", "peer_close"}
=============================================================================
