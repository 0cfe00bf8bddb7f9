--------------------------- MODULE ApprovalStore ---------------------------
(***************************************************************************)
(* The approval store (SQLiteApprovalStore): the requests for a person's   *)
(* confirmation of protected tool calls, the card events that decide them, *)
(* their expiry, and the single execution a confirmation pays for.  A      *)
(* method is one transaction and one action; a call whose guard is false   *)
(* changes nothing and reports why.                                        *)
(*                                                                         *)
(* A request made for a run is unique for (run_id, tool_call_id), so that  *)
(* pair identifies it: Request is a set of such pairs.                     *)
(***************************************************************************)
EXTENDS Naturals

CONSTANTS Request,      \* (run_id, tool_call_id) pairs
          Actor,        \* senders of card events
          Event,        \* message ids of card events
          Continuation, \* what a request stores to continue its run
          NoActor, NoContinuation, NoRequest,
          Requester     \* the actor each request belongs to

ASSUME ApprovalStoreAssumption ==
    /\ NoActor \notin Actor
    /\ NoContinuation \notin Continuation
    /\ NoRequest \notin Request
    /\ Requester \in [Request -> Actor]

VARIABLES approval,     \* approvals.status, "absent" before the row exists
          overdue,      \* expires_at has passed
          decidedBy,    \* approvals.decided_by
          consumed,     \* approvals.resumed_at is not NULL
          continuation, \* approvals.continuation_json
          handled       \* approval_events: the request an event decided

approvalVars == <<approval, overdue, decidedBy, consumed, continuation,
                  handled>>

ApprovalStatus == {"absent", "pending", "approved", "rejected", "expired",
                   "executing", "completed", "failed"}

ApprovalInit ==
    /\ approval = [a \in Request |-> "absent"]
    /\ overdue = [a \in Request |-> FALSE]
    /\ decidedBy = [a \in Request |-> NoActor]
    /\ consumed = [a \in Request |-> FALSE]
    /\ continuation = [a \in Request |-> NoContinuation]
    /\ handled = [e \in Event |-> NoRequest]

-----------------------------------------------------------------------------
(* create: a second request for the same call returns the first one, in    *)
(* whatever status it is, and keeps its continuation.                      *)
CreateRequest(a, k) ==
    \/ /\ approval[a] = "absent"
       /\ approval' = [approval EXCEPT ![a] = "pending"]
       /\ continuation' = [continuation EXCEPT ![a] = k]
       /\ UNCHANGED <<overdue, decidedBy, consumed, handled>>
    \/ /\ approval[a] # "absent"
       /\ UNCHANGED approvalVars

(* The clock passes expires_at; only pending requests' deadlines are read. *)
DeadlinePasses(a) ==
    /\ approval[a] = "pending"
    /\ ~overdue[a]
    /\ overdue' = [overdue EXCEPT ![a] = TRUE]
    /\ UNCHANGED <<approval, decidedBy, consumed, continuation, handled>>

Verdict == {"approved", "rejected"}

(* decide by the requester, before the deadline, with an event that has    *)
(* decided nothing yet.                                                    *)
Decide(a, verdict, who, e) ==
    /\ who = Requester[a]
    /\ approval[a] = "pending"
    /\ ~overdue[a]
    /\ handled[e] = NoRequest
    /\ handled' = [handled EXCEPT ![e] = a]
    /\ approval' = [approval EXCEPT ![a] = verdict]
    /\ decidedBy' = [decidedBy EXCEPT ![a] = who]
    /\ UNCHANGED <<overdue, consumed, continuation>>

(* decide by the requester after the deadline: the request expires and the *)
(* event is not recorded.                                                  *)
DecideTooLate(a, who) ==
    /\ who = Requester[a]
    /\ approval[a] = "pending"
    /\ overdue[a]
    /\ approval' = [approval EXCEPT ![a] = "expired"]
    /\ UNCHANGED <<overdue, decidedBy, consumed, continuation, handled>>

Expired(a) == approval[a] = "pending" /\ overdue[a]

(* expire_pending, part of load_for_resume and of recoverable.             *)
AfterExpiry == [a \in Request |-> IF Expired(a) THEN "expired"
                                               ELSE approval[a]]

ExpirePending ==
    /\ approval' = AfterExpiry
    /\ UNCHANGED <<overdue, decidedBy, consumed, continuation, handled>>

Move(a, from, to) ==
    /\ approval[a] = from
    /\ approval' = [approval EXCEPT ![a] = to]
    /\ UNCHANGED <<overdue, decidedBy, consumed, continuation, handled>>

(* Mutants: claim_execution does not look at the status; fail gives the    *)
(* confirmation back.                                                      *)
ClaimExecutionUnchecked(a) ==
    /\ approval[a] # "absent"
    /\ approval' = [approval EXCEPT ![a] = "executing"]
    /\ UNCHANGED <<overdue, decidedBy, consumed, continuation, handled>>

FailApprovalReopening(a) == Move(a, "executing", "approved")

ClaimExecution(a) == Move(a, "approved", "executing")
CompleteApproval(a) == Move(a, "executing", "completed")
FailApproval(a) == Move(a, "executing", "failed")

MarkConsumed(a) ==
    /\ approval[a] \in {"rejected", "expired"}
    /\ ~consumed[a]
    /\ consumed' = [consumed EXCEPT ![a] = TRUE]
    /\ UNCHANGED <<approval, overdue, decidedBy, continuation, handled>>

(* list_resumable: whether recovery picks up request a with status s.      *)
Resumable(a, s) == \/ s = "approved"
                   \/ s \in {"rejected", "expired"} /\ ~consumed[a]

-----------------------------------------------------------------------------
ApprovalNext ==
    \/ \E a \in Request :
         \/ \E k \in Continuation : CreateRequest(a, k)
         \/ DeadlinePasses(a)
         \/ \E who \in Actor :
              \/ DecideTooLate(a, who)
              \/ \E v \in Verdict, e \in Event : Decide(a, v, who, e)
         \/ ClaimExecution(a)
         \/ CompleteApproval(a)
         \/ FailApproval(a)
         \/ MarkConsumed(a)
    \/ ExpirePending

ApprovalSpec == ApprovalInit /\ [][ApprovalNext]_approvalVars

-----------------------------------------------------------------------------
(* Properties.                                                             *)

(* The rows have the columns' types (the tables of SQLiteApprovalStore).   *)
ApprovalTypeOK ==
    /\ approval \in [Request -> ApprovalStatus]
    /\ overdue \in [Request -> BOOLEAN]
    /\ decidedBy \in [Request -> Actor \cup {NoActor}]
    /\ consumed \in [Request -> BOOLEAN]
    /\ continuation \in [Request -> Continuation \cup {NoContinuation}]
    /\ handled \in [Event -> Request \cup {NoRequest}]

(* decide, expire_pending and claim_execution together: only a request     *)
(* that its own requester decided, by an event on record, is ever in the   *)
(* hands of an executor, and one that expired was decided by nobody.       *)
ExecutionNeedsDecision ==
    \A a \in Request :
        /\ approval[a] \in {"approved", "rejected", "executing", "completed",
                            "failed"} =>
             /\ decidedBy[a] = Requester[a]
             /\ \E e \in Event : handled[e] = a
        /\ approval[a] \in {"pending", "expired"} =>
             \A e \in Event : handled[e] # a

(* approval_events: a click delivered again, or two clicks racing, decide  *)
(* a request once.                                                         *)
DecidedByOneEvent ==
    \A e, f \in Event : handled[e] = handled[f] /\ handled[e] # NoRequest
                          => e = f

(* mark_consumed: a request the recovery loop will never offer again was   *)
(* refused or expired, so no confirmation is lost by consuming it.         *)
OnlyRefusalsAreConsumed ==
    \A a \in Request : consumed[a] => approval[a] \in {"rejected", "expired"}

ConsentOf == [a \in Request |->
    CASE approval[a] = "absent" -> "none"
      [] approval[a] = "pending" -> "asked"
      [] approval[a] \in {"rejected", "expired"} -> "refused"
      [] OTHER -> "granted"]

Spent == {a \in Request : approval[a] \in {"executing", "completed", "failed"}}

ConsentContract == INSTANCE Consent WITH consent <- ConsentOf, spent <- Spent

(* A decision is final and pays for one execution: the contract of         *)
(* Consent, for every order of clicks, expiries and recoveries.            *)
ImplementsConsent == ConsentContract!Spec
=============================================================================
