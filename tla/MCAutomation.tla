---------------------------- MODULE MCAutomation ----------------------------
(* Model values for checking Automation. *)
EXTENDS Automation, TLC

CONSTANTS c1, c2, w1, w2, t1, t2, t3, t4, t5, t6, alert

OneConversation == {c1}
TwoConversations == {c1, c2}
OneWorker == {w1}
TwoWorkers == {w1, w2}

\* A token is free whenever one is drawn.
SixTokens == {t1, t2, t3, t4, t5, t6}

OneAlert == {alert}
AtFirst == [e \in OneAlert |-> c1]

\* Switches: off, one of the two, both.
Proactive == {"proactive"}
Drifting == {"drift"}
OffOrOne == {{}, Proactive, Drifting}
OffOrBoth == {{}, Drifting, Proactive \cup Drifting}

\* For the liveness run: it starts with one target at most, or with two that
\* were left by a race and only drift.
FewTargets ==
    \A c, d \in Conversations : modes[c] # {} /\ modes[d] # {} => c = d \/ modes[c] = Drifting
FewTargetsInit == Init /\ FewTargets
FewTargetsSpec == FewTargetsInit /\ [][Next]_vars /\ Fairness

\* For the safety run only: liveness is checked without symmetry.
Symmetric == Permutations(TwoWorkers)
=============================================================================
