------------------------- MODULE MCOutboundMessage -------------------------
(* Instances of OutboundMessage for TLC. *)
EXTENDS OutboundMessage, TLC

\* Jobs, workers, webhook requests and wamids are interchangeable names.
Symmetry == Permutations(Jobs) \cup Permutations(Workers)
            \cup Permutations(Wamids) \cup Permutations(Hooks)
=============================================================================
