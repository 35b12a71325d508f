--------------------------- MODULE MCMediaAndReads ---------------------------
(* Instances of MediaEnrichment and ReadThroughCache for TLC: the two      *)
(* components in which a late or dead party leaves work to another.        *)
EXTENDS MediaEnrichment, ReadThroughCache

\* They share no variable, so that no interleaving of theirs shows anything:
\* one of them moves, while the other is where it begins, at one state where
\* there are several.
NoReads == Init /\ kind = "report"

MediaAndReadsInit == MediaInit /\ Init
MediaAndReadsNext ==
    \/ NoReads /\ MediaNext /\ UNCHANGED vars
    \/ MediaInit /\ Next /\ UNCHANGED mediaVars
MediaAndReadsSpec ==
    /\ MediaAndReadsInit /\ [][MediaAndReadsNext]_<<mediaVars, vars>>
    /\ MediaFairness
    /\ \A r \in Requests : WF_vars(Read(r))
=============================================================================
