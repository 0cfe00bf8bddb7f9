-------------------------------- MODULE Inbox --------------------------------
(***************************************************************************)
(* What the session store promises to a gateway, without runs, owners or   *)
(* tokens: a message is accepted once, however often it is delivered, and  *)
(* is answered at most once, with an answer that never changes.  RunStore  *)
(* implements this specification.                                          *)
(***************************************************************************)
CONSTANTS Message,  \* the (platform, message_id) keys
          Text,     \* the answers
          NoText    \* no answer yet

VARIABLES accepted, \* the messages the store has taken responsibility for
          answer    \* the answer recorded for each message

vars == <<accepted, answer>>

Init == /\ accepted = {}
        /\ answer = [m \in Message |-> NoText]

Accept(m) == /\ m \notin accepted
             /\ accepted' = accepted \cup {m}
             /\ UNCHANGED answer

Answer(m, x) == /\ m \in accepted
                /\ answer[m] = NoText
                /\ answer' = [answer EXCEPT ![m] = x]
                /\ UNCHANGED accepted

Next == \E m \in Message : Accept(m) \/ \E x \in Text : Answer(m, x)

Spec == Init /\ [][Next]_vars
=============================================================================
