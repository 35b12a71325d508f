-------------------------- MODULE MCInboundIntake --------------------------
(* Instances of InboundIntake for TLC. *)
EXTENDS InboundIntake, TLC

CONSTANTS w1, w2, ana, luis

\* Jobs are interchangeable names.
Symmetry == Permutations(Jobs)

FromAna == [w \in Wamids |-> ana]
FromBoth == [w \in Wamids |-> IF w = w1 THEN ana ELSE luis]
KnowsAna == <<ana>>
KnowsNobody == <<>>

Together == {<<w1, w2>>}

NoFaults  == [f \in Faults |-> 0]
Anything  == [f \in Faults |-> 1]
=============================================================================
