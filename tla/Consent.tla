------------------------------- MODULE Consent -------------------------------
(***************************************************************************)
(* What the approval store promises about one protected tool call: the     *)
(* person who asked for it gives or refuses consent once, and a consent    *)
(* that was given is spent by at most one executor.  ApprovalStore         *)
(* implements this specification.                                          *)
(***************************************************************************)
CONSTANT Request   \* the protected calls

VARIABLES consent, \* "none", "asked", "granted" or "refused"
          spent    \* the requests whose consent an executor has taken

vars == <<consent, spent>>

Init == /\ consent = [a \in Request |-> "none"]
        /\ spent = {}

Ask(a) == /\ consent[a] = "none"
          /\ consent' = [consent EXCEPT ![a] = "asked"]
          /\ UNCHANGED spent

Settle(S, verdict) == /\ \A a \in S : consent[a] = "asked"
                      /\ consent' = [a \in Request |->
                           IF a \in S THEN verdict ELSE consent[a]]
                      /\ UNCHANGED spent

Spend(a) == /\ consent[a] = "granted"
            /\ a \notin spent
            /\ spent' = spent \cup {a}
            /\ UNCHANGED consent

Next == \/ \E a \in Request : \/ Ask(a)
                              \/ Settle({a}, "granted")
                              \/ Spend(a)
        \/ \E S \in SUBSET Request : Settle(S, "refused")

Spec == Init /\ [][Next]_vars
=============================================================================
