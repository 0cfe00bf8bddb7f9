--------------------------- MODULE MCAgentRuntime ---------------------------
(* AgentRuntime for TLC: the shapes of processes, calls and policies.      *)
EXTENDS AgentRuntime, TLC

CONSTANTS FirstActor, p1, p2, h1, h2, w1, w2, o1, o2,
          plain, gated, gated2, denied

MCRequester == [a \in Request |-> FirstActor]

OneProcess == [t \in Thread |-> p1]
TwoProcesses == [t \in Thread |-> IF t \in {h1, w1, o1} THEN p1 ELSE p2]

MCPolicy == [c \in Call |-> CASE c \in {gated, gated2} -> "approve"
                              [] c = denied -> "deny"
                              [] OTHER -> "allow"]

EitherOrder == {<<plain, gated>>, <<gated, plain>>, <<denied, gated>>}
TwoGated == {<<gated, gated2>>}
PlainAlone == {<<plain>>}
=============================================================================
