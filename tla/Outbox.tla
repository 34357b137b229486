-------------------------------- MODULE Outbox --------------------------------
(***************************************************************************)
(* What the report queue of the connection agent promises its callers:     *)
(* every message duer_data_report or duer_response accepted is handed to   *)
(* the transport at most once, in the order of acceptance and without gaps, *)
(* until the agent is finalized.  Nothing is said about when.              *)
(***************************************************************************)
EXTENDS Naturals, Sequences

CONSTANT Message

VARIABLES
    accepted,   \* the messages accepted so far, in order
    sent,       \* the messages handed to the transport so far, in order
    closed      \* the outbox takes and sends nothing more

ovars == <<accepted, sent, closed>>

OInit == accepted = <<>> /\ sent = <<>> /\ closed = FALSE

Accept(m) == /\ ~closed
             /\ accepted' = Append(accepted, m)
             /\ UNCHANGED <<sent, closed>>

Deliver == /\ ~closed
           /\ Len(sent) < Len(accepted)
           /\ sent' = Append(sent, accepted[Len(sent) + 1])
           /\ UNCHANGED <<accepted, closed>>

Close == closed' = TRUE /\ UNCHANGED <<accepted, sent>>

ONext == (\E m \in Message : Accept(m)) \/ Deliver \/ Close

OSpec == OInit /\ [][ONext]_ovars
=============================================================================
