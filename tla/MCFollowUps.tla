---------------------------- MODULE MCFollowUps ----------------------------
(* Instances of Cases, Sentiment and Spend for TLC: what follows a saved   *)
(* message or a delivery report.                                           *)
EXTENDS Cases, Sentiment, Spend, TLC

CONSTANTS c1, c2, r1, r2, w1, w2, s1, s2, q1, q2

\* The messages of a side, the workers, the scans and the requests are
\* interchangeable names.  As only one component ever moves, an exchange may be
\* of names of each.
Exchanges == {f @@ g @@ h @@ k @@ l : f \in Permutations({c1, c2}),
                g \in Permutations({w1, w2}), h \in Permutations({q1, q2}),
                k \in Permutations({r1, r2}), l \in Permutations({s1, s2})}
Symmetry == {f \in Exchanges : /\ (f[c1] = c1 <=> f[w1] = w1) /\ (f[c1] = c1 <=> f[q1] = q1)
                               /\ (f[r1] = r1 <=> f[s1] = s1)}

\* The three share no variable, so that no interleaving of theirs shows
\* anything: one of them moves, while the others are where they begin.
FollowUpsInit == Init /\ SentimentInit /\ SpendInit
FollowUpsNext ==
    \/ SentimentInit /\ SpendInit /\ Next /\ UNCHANGED <<sentimentVars, spendVars>>
    \/ Init /\ SpendInit /\ SentimentNext /\ UNCHANGED <<vars, spendVars>>
    \/ Init /\ SentimentInit /\ SpendNext /\ UNCHANGED <<vars, sentimentVars>>
FollowUpsSpec ==
    FollowUpsInit /\ [][FollowUpsNext]_<<vars, sentimentVars, spendVars>>
=============================================================================
