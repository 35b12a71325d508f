-------------------------- MODULE MessageLifecycle --------------------------
(***************************************************************************)
(* What docs/database promises about one outbound message row per client   *)
(* message id: the status advances in one direction, `failed` always wins, *)
(* a user's retry is the only way out of `failed`, and every transition    *)
(* after the insert is appended to message_status_events exactly once.     *)
(* OutboundMessage is shown to implement this specification.               *)
(***************************************************************************)
EXTENDS MessageStatus, Sequences

CONSTANT Clients            \* client message ids, one row each at most

VARIABLES status,           \* [Clients -> Statuses \cup {"none"}]
          history           \* [Clients -> Seq(Statuses)], message_status_events

vars == <<status, history>>

Init ==
    /\ status  = [c \in Clients |-> "none"]
    /\ history = [c \in Clients |-> <<>>]

\* The pending row is inserted; the insert itself writes no history.
Save(c) ==
    /\ status[c] = "none"
    /\ status' = [status EXCEPT ![c] = "pending"]
    /\ UNCHANGED history

\* The row moves forward, or fails.
Advance(c, s) ==
    /\ status[c] \in AllowedFrom(s)
    /\ status'  = [status EXCEPT ![c] = s]
    /\ history' = [history EXCEPT ![c] = Append(@, s)]

\* A user's retry takes a failed row back to pending.
Retry(c) ==
    /\ status[c] = "failed"
    /\ status'  = [status EXCEPT ![c] = "pending"]
    /\ history' = [history EXCEPT ![c] = Append(@, "pending")]

Next == \E c \in Clients :
            \/ Save(c)
            \/ \E s \in DeliveryStatuses : Advance(c, s)
            \/ Retry(c)

Spec == Init /\ [][Next]_vars
-----------------------------------------------------------------------------
\* The history is the path the row walked: it ends at the row's status, and
\* each entry follows from the one before it by a legal transition.
LastOf(h) == IF h = <<>> THEN "pending" ELSE h[Len(h)]

LegalStep(from, to) ==
    \/ from \in AllowedFrom(to)
    \/ from = "failed" /\ to = "pending"

HistoryOf(c) ==
    /\ status[c] = "none" => history[c] = <<>>
    /\ status[c] # "none" => LastOf(history[c]) = status[c]
    /\ \A i \in 1..Len(history[c]) :
          LegalStep(IF i = 1 THEN "pending" ELSE history[c][i-1], history[c][i])
=============================================================================
