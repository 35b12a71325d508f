--------------------------- MODULE MessageStatus ---------------------------
(***************************************************************************)
(* The delivery status of a message row: `messages.status`, its order and  *)
(* the transition rule every writer of the column relies on.  Shared by    *)
(* the abstract life cycle and by the modules that move the column.        *)
(***************************************************************************)
EXTENDS Naturals

\* MessageStatus of the contracts, in the order of STATUS_RANK.
Statuses == {"pending", "sent", "delivered", "read", "failed"}

\* What the provider can report about a message it accepted.
DeliveryStatuses == Statuses \ {"pending"}

\* STATUS_RANK
StatusRank ==
    [s \in Statuses |->
        CASE s = "pending"   -> 0
          [] s = "sent"      -> 1
          [] s = "delivered" -> 2
          [] s = "read"      -> 3
          [] s = "failed"    -> 4]

\* isStatusAdvance: failed is terminal, the rest only move forward.
IsStatusAdvance(current, incoming) ==
    /\ current # incoming
    /\ \/ incoming = "failed"
       \/ /\ current # "failed"
          /\ StatusRank[incoming] > StatusRank[current]

\* The statuses applyStatus is allowed to start from (its compare-and-set).
AllowedFrom(incoming) == {s \in Statuses : IsStatusAdvance(s, incoming)}
=============================================================================
