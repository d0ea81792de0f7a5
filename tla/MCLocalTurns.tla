---------------------------- MODULE MCLocalTurns ----------------------------
(* Model values for checking LocalTurns. *)
EXTENDS LocalTurns, TLC

CONSTANTS n1, here, there, c1, c2

OneNotice == {n1}
TwoSessions == {here, there}
TwoChats == {c1, c2}

\* The messages share a session; the notice goes to the other one.
Apart == [x \in Messages \cup OneNotice |-> IF x = n1 THEN there ELSE here]

\* They all share one.
Together == [x \in Messages \cup OneNotice |-> here]

Chat == here :> c1 @@ there :> c2

\* The second message is a child's.
Child == {2}
=============================================================================
