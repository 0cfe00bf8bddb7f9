------------------------ MODULE ApprovalStoreProofs ------------------------
(***************************************************************************)
(* What holds of the approval store for any number of requests, senders    *)
(* and card events.                                                        *)
(***************************************************************************)
EXTENDS ApprovalStore, TLAPS

(* No event has decided a request that does not exist: with it the         *)
(* properties of ApprovalStore are inductive.                              *)
NothingDecidedBeforeCreate ==
    \A a \in Request : approval[a] = "absent" =>
        \A e \in Event : handled[e] # a

ApprovalInv ==
    /\ ApprovalTypeOK
    /\ ExecutionNeedsDecision
    /\ DecidedByOneEvent
    /\ OnlyRefusalsAreConsumed
    /\ NothingDecidedBeforeCreate

LEMMA InitEstablishesApprovalInv == ApprovalInit => ApprovalInv
    BY ApprovalStoreAssumption
       DEF ApprovalInit, ApprovalInv, ApprovalTypeOK, ApprovalStatus,
           ExecutionNeedsDecision, DecidedByOneEvent, OnlyRefusalsAreConsumed,
           NothingDecidedBeforeCreate

(* Statuses that an event, and no other action, leads to; statuses no      *)
(* event has led to.                                                       *)
Decided == {"approved", "rejected", "executing", "completed", "failed"}
Undecided == {"absent", "pending", "expired"}

(* A step that moves requests without deciding or reviving any keeps the   *)
(* invariant.                                                              *)
LEMMA QuietStepKeepsInv ==
    ASSUME ApprovalInv, ApprovalTypeOK', UNCHANGED <<decidedBy, handled>>,
           \A a \in Request :
             \/ approval[a] \in Decided /\ approval'[a] \in Decided
             \/ approval[a] \in Undecided /\ approval'[a] \in Undecided,
           \A a \in Request :
             consumed'[a] => approval'[a] \in {"rejected", "expired"}
    PROVE  ApprovalInv'
<1> USE DEF ApprovalInv
<1>1. ExecutionNeedsDecision'
    BY DEF ExecutionNeedsDecision, NothingDecidedBeforeCreate, Decided,
           Undecided
<1>2. DecidedByOneEvent'
    BY DEF DecidedByOneEvent
<1>3. OnlyRefusalsAreConsumed'
    BY DEF OnlyRefusalsAreConsumed
<1>4. NothingDecidedBeforeCreate'
    BY DEF ExecutionNeedsDecision, NothingDecidedBeforeCreate, Decided,
           Undecided
<1>5. QED
    BY <1>1, <1>2, <1>3, <1>4

LEMMA CreateRequestKeepsInv ==
    ASSUME ApprovalInv, NEW a \in Request, NEW k \in Continuation,
           CreateRequest(a, k)
    PROVE  ApprovalInv'
<1> USE DEF ApprovalInv
<1>1. CASE UNCHANGED approvalVars
    BY <1>1 DEF approvalVars, ApprovalTypeOK, ExecutionNeedsDecision,
       DecidedByOneEvent, OnlyRefusalsAreConsumed, NothingDecidedBeforeCreate
<1>2. CASE /\ approval[a] = "absent"
           /\ approval' = [approval EXCEPT ![a] = "pending"]
           /\ continuation' = [continuation EXCEPT ![a] = k]
           /\ UNCHANGED <<overdue, decidedBy, consumed, handled>>
    <2>1. ApprovalTypeOK'
        BY <1>2 DEF ApprovalTypeOK, ApprovalStatus
    <2>2. \A b \in Request :
            approval'[b] = IF b = a THEN "pending" ELSE approval[b]
        BY <1>2 DEF ApprovalTypeOK
    <2>3. \A b \in Request : approval[b] \in Decided \cup Undecided
        BY DEF ApprovalTypeOK, ApprovalStatus, Decided, Undecided
    <2>4. \A b \in Request :
            consumed'[b] => approval'[b] \in {"rejected", "expired"}
        BY <1>2, <2>2 DEF OnlyRefusalsAreConsumed
    <2>5. QED
        BY <1>2, <2>1, <2>2, <2>3, <2>4, QuietStepKeepsInv
           DEF Decided, Undecided
<1>3. QED
    BY <1>1, <1>2 DEF CreateRequest

(* A decision that is put on record, and a request that expires, whatever  *)
(* the clock says.                                                         *)
Records(a, verdict, who, e) ==
    /\ who = Requester[a]
    /\ approval[a] = "pending"
    /\ handled[e] = NoRequest
    /\ handled' = [handled EXCEPT ![e] = a]
    /\ approval' = [approval EXCEPT ![a] = verdict]
    /\ decidedBy' = [decidedBy EXCEPT ![a] = who]
    /\ UNCHANGED <<overdue, consumed, continuation>>

Expires(a) ==
    /\ approval[a] = "pending"
    /\ approval' = [approval EXCEPT ![a] = "expired"]
    /\ UNCHANGED <<overdue, decidedBy, consumed, continuation, handled>>

LEMMA RecordKeepsInv ==
    ASSUME ApprovalInv, NEW a \in Request, NEW v \in Verdict,
           NEW who \in Actor, NEW e \in Event, Records(a, v, who, e)
    PROVE  ApprovalInv'
<1> USE DEF ApprovalInv, Records
<1>1. ApprovalTypeOK'
    BY DEF ApprovalTypeOK, ApprovalStatus, Verdict
<1>2. \A b \in Request :
        /\ approval'[b] = IF b = a THEN v ELSE approval[b]
        /\ decidedBy'[b] = IF b = a THEN who ELSE decidedBy[b]
    BY DEF ApprovalTypeOK
<1>3. \A f \in Event : handled'[f] = IF f = e THEN a ELSE handled[f]
    BY DEF ApprovalTypeOK
<1>4. ExecutionNeedsDecision'
    BY <1>2, <1>3, ApprovalStoreAssumption DEF ExecutionNeedsDecision, Verdict
<1>5. DecidedByOneEvent'
    BY <1>3, ApprovalStoreAssumption
       DEF DecidedByOneEvent, ExecutionNeedsDecision
<1>6. OnlyRefusalsAreConsumed'
    BY <1>2 DEF OnlyRefusalsAreConsumed
<1>7. NothingDecidedBeforeCreate'
    BY <1>2, <1>3 DEF NothingDecidedBeforeCreate, Verdict
<1>8. QED
    BY <1>1, <1>4, <1>5, <1>6, <1>7

LEMMA MoveKeepsInv ==
    ASSUME ApprovalInv, NEW a \in Request, NEW from \in {"approved", "executing"},
           NEW to \in {"executing", "completed", "failed"}, Move(a, from, to)
    PROVE  ApprovalInv'
<1> USE DEF ApprovalInv, Move
<1>1. ApprovalTypeOK'
    BY DEF ApprovalTypeOK, ApprovalStatus
<1>2. \A b \in Request : approval'[b] = IF b = a THEN to ELSE approval[b]
    BY DEF ApprovalTypeOK
<1>3. \A b \in Request : approval[b] \in Decided \cup Undecided
    BY DEF ApprovalTypeOK, ApprovalStatus, Decided, Undecided
<1>4. \A b \in Request :
        consumed'[b] => approval'[b] \in {"rejected", "expired"}
    BY <1>2 DEF OnlyRefusalsAreConsumed
<1>5. QED
    BY <1>1, <1>2, <1>3, <1>4, QuietStepKeepsInv DEF Decided, Undecided

LEMMA MarkConsumedKeepsInv ==
    ASSUME ApprovalInv, NEW a \in Request, MarkConsumed(a)
    PROVE  ApprovalInv'
<1> USE DEF ApprovalInv, MarkConsumed
<1>1. ApprovalTypeOK'
    BY DEF ApprovalTypeOK
<1>2. \A b \in Request : approval[b] \in Decided \cup Undecided
    BY DEF ApprovalTypeOK, ApprovalStatus, Decided, Undecided
<1>3. \A b \in Request :
        consumed'[b] => approval'[b] \in {"rejected", "expired"}
    BY DEF OnlyRefusalsAreConsumed, ApprovalTypeOK
<1>4. QED
    BY <1>1, <1>2, <1>3, QuietStepKeepsInv

LEMMA ExpiryKeepsInv ==
    ASSUME ApprovalInv,
           ExpirePending \/ \E a \in Request : Expires(a)
    PROVE  ApprovalInv'
<1> USE DEF ApprovalInv
<1>1. \A b \in Request : /\ approval[b] \in ApprovalStatus
                         /\ \/ approval'[b] = approval[b]
                            \/ /\ approval[b] = "pending"
                               /\ approval'[b] = "expired"
    BY DEF ExpirePending, AfterExpiry, Expired, Expires, ApprovalTypeOK
<1>2. ApprovalTypeOK'
    BY DEF ExpirePending, AfterExpiry, Expires, ApprovalTypeOK,
           ApprovalStatus
<1>3. UNCHANGED <<overdue, decidedBy, consumed, handled>>
    BY DEF ExpirePending, Expires
<1>4. \A b \in Request :
        consumed'[b] => approval'[b] \in {"rejected", "expired"}
    BY <1>1, <1>3 DEF OnlyRefusalsAreConsumed
<1>5. QED
    BY <1>1, <1>2, <1>3, <1>4, QuietStepKeepsInv
       DEF Decided, Undecided, ApprovalStatus

LEMMA DeadlinePassesKeepsInv ==
    ASSUME ApprovalInv, NEW a \in Request, DeadlinePasses(a)
    PROVE  ApprovalInv'
    BY DEF ApprovalInv, DeadlinePasses, ApprovalTypeOK, ExecutionNeedsDecision,
           DecidedByOneEvent, OnlyRefusalsAreConsumed,
           NothingDecidedBeforeCreate

LEMMA ApprovalStepKeepsInv ==
    ApprovalInv /\ [ApprovalNext]_approvalVars => ApprovalInv'
<1> SUFFICES ASSUME ApprovalInv, [ApprovalNext]_approvalVars
             PROVE  ApprovalInv'
    OBVIOUS
<1>1. CASE UNCHANGED approvalVars
    BY <1>1 DEF ApprovalInv, approvalVars, ApprovalTypeOK,
       ExecutionNeedsDecision, DecidedByOneEvent, OnlyRefusalsAreConsumed,
       NothingDecidedBeforeCreate
<1>2. ASSUME NEW a \in Request,
             ClaimExecution(a) \/ CompleteApproval(a) \/ FailApproval(a)
      PROVE  ApprovalInv'
    BY <1>2, MoveKeepsInv DEF ClaimExecution, CompleteApproval, FailApproval
<1>3. ASSUME NEW a \in Request, NEW who \in Actor, DecideTooLate(a, who)
      PROVE  ApprovalInv'
    BY <1>3, ExpiryKeepsInv DEF DecideTooLate, Expires
<1>4. ASSUME NEW a \in Request, NEW v \in Verdict, NEW who \in Actor,
             NEW e \in Event, Decide(a, v, who, e)
      PROVE  ApprovalInv'
    BY <1>4, RecordKeepsInv DEF Decide, Records
<1>5. QED
    BY <1>1, <1>2, <1>3, <1>4, CreateRequestKeepsInv, MarkConsumedKeepsInv,
       ExpiryKeepsInv, DeadlinePassesKeepsInv DEF ApprovalNext

(* The strengthened invariant holds in every reachable state of the store. *)
THEOREM ApprovalsAreSound == ApprovalSpec => []ApprovalInv
<1>1. ApprovalInit => ApprovalInv
    BY InitEstablishesApprovalInv
<1>2. ApprovalInv /\ [ApprovalNext]_approvalVars => ApprovalInv'
    BY ApprovalStepKeepsInv
<1>3. QED
    BY <1>1, <1>2, PTL DEF ApprovalSpec

(* The rows always have the columns' types.                                *)
THEOREM ApprovalsAreWellTyped == ApprovalSpec => []ApprovalTypeOK
<1>1. ApprovalInv => ApprovalTypeOK
    BY DEF ApprovalInv
<1>2. QED
    BY <1>1, ApprovalsAreSound, PTL

(* decide, expire_pending and claim_execution: for any number of senders   *)
(* and events, a request in the hands of an executor was decided by its    *)
(* own requester through an event on record.                               *)
THEOREM ExecutorsHaveDecisions == ApprovalSpec => []ExecutionNeedsDecision
<1>1. ApprovalInv => ExecutionNeedsDecision
    BY DEF ApprovalInv
<1>2. QED
    BY <1>1, ApprovalsAreSound, PTL

(* approval_events: no two events decide the same request.                 *)
THEOREM EventsDecideOnce == ApprovalSpec => []DecidedByOneEvent
<1>1. ApprovalInv => DecidedByOneEvent
    BY DEF ApprovalInv
<1>2. QED
    BY <1>1, ApprovalsAreSound, PTL

(* mark_consumed never buries a confirmation.                              *)
THEOREM ConsumedWereRefused == ApprovalSpec => []OnlyRefusalsAreConsumed
<1>1. ApprovalInv => OnlyRefusalsAreConsumed
    BY DEF ApprovalInv
<1>2. QED
    BY <1>1, ApprovalsAreSound, PTL

-----------------------------------------------------------------------------
(* The store implements Consent.  The consent of a request is a function   *)
(* of its status alone.                                                    *)
ConsentIn(s) == CASE s = "absent" -> "none"
                  [] s = "pending" -> "asked"
                  [] s \in {"rejected", "expired"} -> "refused"
                  [] OTHER -> "granted"

LEMMA ConsentByStatus ==
    /\ ConsentOf = [a \in Request |-> ConsentIn(approval[a])]
    /\ ConsentOf' = [a \in Request |-> ConsentIn(approval'[a])]
    BY DEF ConsentOf, ConsentIn

LEMMA ConsentOfEachStatus ==
    /\ ConsentIn("absent") = "none"
    /\ ConsentIn("pending") = "asked"
    /\ ConsentIn("rejected") = "refused"
    /\ ConsentIn("expired") = "refused"
    /\ ConsentIn("approved") = "granted"
    /\ ConsentIn("executing") = "granted"
    /\ ConsentIn("completed") = "granted"
    /\ ConsentIn("failed") = "granted"
    BY DEF ConsentIn

LEMMA SettlementIsSettle ==
    ASSUME ApprovalTypeOK, NEW S \in SUBSET Request,
           NEW v \in {"approved", "rejected", "expired"},
           \A a \in S : approval[a] = "pending",
           approval' = [a \in Request |-> IF a \in S THEN v ELSE approval[a]]
    PROVE  ConsentContract!Settle(S, ConsentIn(v))
<1>1. \A a \in S : ConsentOf[a] = "asked"
    BY ConsentByStatus, ConsentOfEachStatus
<1>2. ConsentOf' = [a \in Request |->
                      IF a \in S THEN ConsentIn(v) ELSE ConsentOf[a]]
    BY ConsentByStatus
<1>3. Spent' = Spent
    BY DEF Spent
<1>4. QED
    BY <1>1, <1>2, <1>3 DEF ConsentContract!Settle

LEMMA RecordIsSettle ==
    ASSUME ApprovalTypeOK, NEW a \in Request, NEW v \in Verdict,
           NEW who \in Actor, NEW e \in Event, Records(a, v, who, e)
    PROVE  \/ ConsentContract!Settle({a}, "granted")
           \/ ConsentContract!Settle({a}, "refused")
<1>1. /\ \A b \in {a} : approval[b] = "pending"
      /\ approval' = [b \in Request |-> IF b \in {a} THEN v ELSE approval[b]]
    BY DEF Records, ApprovalTypeOK
<1>2. ConsentContract!Settle({a}, ConsentIn(v))
    BY <1>1, SettlementIsSettle DEF Verdict
<1>3. QED
    BY <1>2, ConsentOfEachStatus DEF Verdict

LEMMA ExpiryIsSettle ==
    ASSUME ApprovalTypeOK, NEW a \in Request, Expires(a)
    PROVE  ConsentContract!Settle({a}, "refused")
<1>1. /\ \A b \in {a} : approval[b] = "pending"
      /\ approval' = [b \in Request |->
                        IF b \in {a} THEN "expired" ELSE approval[b]]
    BY DEF Expires, ApprovalTypeOK
<1>2. QED
    BY <1>1, SettlementIsSettle, ConsentOfEachStatus

LEMMA StepImplementsConsent ==
    ApprovalInv /\ [ApprovalNext]_approvalVars
      => [ConsentContract!Next]_(ConsentContract!vars)
<1> SUFFICES ASSUME ApprovalInv, [ApprovalNext]_approvalVars
             PROVE  \/ UNCHANGED <<ConsentOf, Spent>>
                    \/ ConsentContract!Next
    BY DEF ConsentContract!vars
<1>0. ApprovalTypeOK
    BY DEF ApprovalInv
<1>1. CASE UNCHANGED approval
    BY <1>1 DEF ConsentOf, Spent
<1>2. ASSUME NEW a \in Request, NEW k \in Continuation, CreateRequest(a, k),
             approval' # approval
      PROVE  ConsentContract!Ask(a)
    <2>1. /\ approval[a] = "absent"
          /\ approval' = [approval EXCEPT ![a] = "pending"]
        BY <1>2 DEF CreateRequest, approvalVars
    <2>2. /\ ConsentOf[a] = "none"
          /\ ConsentOf' = [ConsentOf EXCEPT ![a] = "asked"]
        BY <1>0, <2>1, ConsentByStatus, ConsentOfEachStatus DEF ApprovalTypeOK
    <2>3. Spent' = Spent
        BY <1>0, <2>1 DEF Spent, ApprovalTypeOK
    <2>4. QED
        BY <2>2, <2>3 DEF ConsentContract!Ask
<1>3. ASSUME NEW a \in Request, NEW v \in Verdict, NEW who \in Actor,
             NEW e \in Event, Decide(a, v, who, e)
      PROVE  \/ ConsentContract!Settle({a}, "granted")
             \/ ConsentContract!Settle({a}, "refused")
    BY <1>0, <1>3, RecordIsSettle DEF Decide, Records
<1>4. ASSUME NEW a \in Request, NEW who \in Actor, DecideTooLate(a, who)
      PROVE  ConsentContract!Settle({a}, "refused")
    BY <1>0, <1>4, ExpiryIsSettle DEF DecideTooLate, Expires
<1>5. ASSUME ExpirePending
      PROVE  \E S \in SUBSET Request : ConsentContract!Settle(S, "refused")
    <2> DEFINE S == {a \in Request : Expired(a)}
    <2>1. /\ \A a \in S : approval[a] = "pending"
          /\ approval' = [a \in Request |->
                            IF a \in S THEN "expired" ELSE approval[a]]
        BY <1>5 DEF ExpirePending, AfterExpiry, Expired
    <2> HIDE DEF S
    <2>2. S \in SUBSET Request
        BY DEF S
    <2>3. ConsentContract!Settle(S, "refused")
        BY <1>0, <2>1, <2>2, SettlementIsSettle, ConsentOfEachStatus
    <2>4. QED
        BY <2>2, <2>3
<1>6. ASSUME NEW a \in Request, ClaimExecution(a)
      PROVE  ConsentContract!Spend(a)
    <2>1. /\ approval[a] = "approved"
          /\ approval' = [approval EXCEPT ![a] = "executing"]
        BY <1>6 DEF ClaimExecution, Move
    <2>2. ConsentOf[a] = "granted" /\ ConsentOf' = ConsentOf
        BY <1>0, <2>1, ConsentByStatus, ConsentOfEachStatus DEF ApprovalTypeOK
    <2>3. a \notin Spent /\ Spent' = Spent \cup {a}
        BY <1>0, <2>1 DEF Spent, ApprovalTypeOK
    <2>4. QED
        BY <2>2, <2>3 DEF ConsentContract!Spend
<1>7. ASSUME NEW a \in Request, CompleteApproval(a) \/ FailApproval(a)
      PROVE  UNCHANGED <<ConsentOf, Spent>>
    <2>1. PICK to \in {"completed", "failed"} :
            /\ approval[a] = "executing"
            /\ approval' = [approval EXCEPT ![a] = to]
        BY <1>7 DEF CompleteApproval, FailApproval, Move
    <2>2. ConsentOf' = ConsentOf
        BY <1>0, <2>1, ConsentByStatus, ConsentOfEachStatus DEF ApprovalTypeOK
    <2>3. Spent' = Spent
        BY <1>0, <2>1 DEF Spent, ApprovalTypeOK
    <2>4. QED
        BY <2>2, <2>3
<1>8. QED
    BY <1>1, <1>2, <1>3, <1>4, <1>5, <1>6, <1>7
       DEF ApprovalNext, DeadlinePasses, MarkConsumed, approvalVars,
           ConsentContract!Next

(* A person's decision is final and pays for one execution, for any number *)
(* of requests, senders and events and every order of clicks, expiries and *)
(* recoveries.                                                             *)
THEOREM ApprovalStoreImplementsConsent == ApprovalSpec => ImplementsConsent
<1>1. ApprovalInit => ConsentContract!Init
    BY DEF ApprovalInit, ConsentContract!Init, ConsentOf, Spent
<1>2. ApprovalInv /\ [ApprovalNext]_approvalVars
        => [ConsentContract!Next]_(ConsentContract!vars)
    BY StepImplementsConsent
<1>3. QED
    BY <1>1, <1>2, ApprovalsAreSound, PTL
       DEF ApprovalSpec, ImplementsConsent, ConsentContract!Spec
=============================================================================
