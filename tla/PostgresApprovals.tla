-------------------------- MODULE PostgresApprovals --------------------------
(***************************************************************************)
(* The approval store in PostgreSQL (PostgresApprovalStore).  The updates  *)
(* of one row are single statements: they wait for the row and test its    *)
(* newest version, so they are the operations of ApprovalStore.  create    *)
(* and decide read before they write, under an advisory lock and under the *)
(* lock of the row; what they have read is in "deciding", statement by     *)
(* statement.  decide compares the deadline with a clock it read before it *)
(* waited for the row, so a decision may be accepted after a deadline that *)
(* nobody else has noticed: the store implements Consent, which has no     *)
(* clock, and not every step is one of ApprovalStore.                      *)
(***************************************************************************)
EXTENDS ApprovalStore, Connections

VARIABLE deciding \* the open transaction of each connection

pgApprovalVars == <<approvalVars, deciding>>

(* create has found no row of the call; decide has read the clock; decide  *)
(* holds the row and has found it pending and the event new.               *)
CreateTx == [op : {"create"}, a : Request]
ClickTx == [op : {"click"}, a : Request, verdict : Verdict, e : Event,
            late : BOOLEAN]
DecideTx == [op : {"decide"}, a : Request, verdict : Verdict, e : Event]

PgApprovalInit == ApprovalInit /\ deciding = [t \in Connection |-> Idle]

HoldsCreation(t, a) == deciding[t].op = "create" /\ deciding[t].a = a
HoldsRequest(t, a) == deciding[t].op = "decide" /\ deciding[t].a = a
Free(a) == \A t \in Connection : ~HoldsRequest(t, a)

Proceed(t, state) == deciding' = [deciding EXCEPT ![t] = state]
End(t) == Proceed(t, Idle)

(* A transaction ends without a change: the request is decided or expired, *)
(* the event was handled, the insert of the event found its key taken, or  *)
(* the connection was lost.                                                *)
GiveUp(t) ==
    /\ deciding[t] # Idle
    /\ End(t)
    /\ UNCHANGED approvalVars

-----------------------------------------------------------------------------
(* create: the advisory lock of the call, the link is read, two inserts.   *)

LookForRequest(t, a) ==
    /\ deciding[t] = Idle
    /\ \A u \in Connection : ~HoldsCreation(u, a)
    /\ approval[a] = "absent"
    /\ Proceed(t, [op |-> "create", a |-> a])
    /\ UNCHANGED approvalVars

(* Its own row is new; the link of the call has a primary key.             *)
InsertRequest(t, k) ==
    /\ deciding[t].op = "create"
    /\ approval[deciding[t].a] = "absent"
    /\ approval' = [approval EXCEPT ![deciding[t].a] = "pending"]
    /\ continuation' = [continuation EXCEPT ![deciding[t].a] = k]
    /\ UNCHANGED <<overdue, decidedBy, consumed, handled>>
    /\ End(t)

-----------------------------------------------------------------------------
(* decide by the requester (any other sender is turned away).              *)

ReadClock(t, a, verdict, e) ==
    /\ deciding[t] = Idle
    /\ approval[a] # "absent"
    /\ Proceed(t, [op |-> "click", a |-> a, verdict |-> verdict, e |-> e,
                   late |-> overdue[a]])
    /\ UNCHANGED approvalVars

(* Mutant: decide reads the request without FOR UPDATE.                    *)
LockRequestUnlocked(t) ==
    LET click == deciding[t]
    IN  /\ click.op = "click"
        /\ approval[click.a] = "pending"
        /\ ~click.late
        /\ handled[click.e] = NoRequest
        /\ Proceed(t, [op |-> "decide", a |-> click.a,
                       verdict |-> click.verdict, e |-> click.e])
        /\ UNCHANGED approvalVars

LockRequest(t) ==
    LET click == deciding[t]
    IN  /\ click.op = "click"
        /\ Free(click.a)
        /\ approval[click.a] = "pending"
        /\ ~click.late
        /\ handled[click.e] = NoRequest
        /\ Proceed(t, [op |-> "decide", a |-> click.a,
                       verdict |-> click.verdict, e |-> click.e])
        /\ UNCHANGED approvalVars

ExpireClicked(t) ==
    /\ deciding[t].op = "click"
    /\ Free(deciding[t].a)
    /\ approval[deciding[t].a] = "pending"
    /\ deciding[t].late
    /\ approval' = [approval EXCEPT ![deciding[t].a] = "expired"]
    /\ UNCHANGED <<overdue, decidedBy, consumed, continuation, handled>>
    /\ End(t)

(* The event is inserted, or its key raises; then the pending row changes. *)
RecordDecision(t) ==
    LET d == deciding[t]
    IN  /\ d.op = "decide"
        /\ handled[d.e] = NoRequest
        /\ handled' = [handled EXCEPT ![d.e] = d.a]
        /\ IF approval[d.a] = "pending"
           THEN /\ approval' = [approval EXCEPT ![d.a] = d.verdict]
                /\ decidedBy' = [decidedBy EXCEPT ![d.a] = Requester[d.a]]
           ELSE UNCHANGED <<approval, decidedBy>>
        /\ UNCHANGED <<overdue, consumed, continuation>>
        /\ End(t)

-----------------------------------------------------------------------------
(* Transactions of one statement.                                          *)

UpdateRequest(a) ==
    /\ Free(a)
    /\ \/ ClaimExecution(a)
       \/ CompleteApproval(a)
       \/ FailApproval(a)
       \/ MarkConsumed(a)
    /\ UNCHANGED deciding

(* One update of every request whose deadline has passed; it waits for the *)
(* rows that are locked.                                                   *)
ExpireRequests ==
    /\ \A a \in Request : Expired(a) => Free(a)
    /\ ExpirePending
    /\ UNCHANGED deciding

DeadlinePassesBy(a) == DeadlinePasses(a) /\ UNCHANGED deciding

PgApprovalNext ==
    \/ \E t \in Connection :
         \/ \E a \in Request :
              \/ LookForRequest(t, a)
              \/ \E v \in Verdict, e \in Event : ReadClock(t, a, v, e)
         \/ \E k \in Continuation : InsertRequest(t, k)
         \/ LockRequest(t)
         \/ ExpireClicked(t)
         \/ RecordDecision(t)
         \/ GiveUp(t)
    \/ \E a \in Request : UpdateRequest(a) \/ DeadlinePassesBy(a)
    \/ ExpireRequests

PgApprovalSpec == PgApprovalInit /\ [][PgApprovalNext]_pgApprovalVars

-----------------------------------------------------------------------------
(* Properties.  ExecutionNeedsDecision, DecidedByOneEvent and              *)
(* ImplementsConsent of ApprovalStore are checked of this specification.   *)

(* The rows and the open transactions have their types.                    *)
PgApprovalTypeOK ==
    /\ ApprovalTypeOK
    /\ deciding \in [Connection -> {Idle} \cup CreateTx \cup ClickTx
                                     \cup DecideTx]

(* What create and decide have read still holds when they write: no row of *)
(* the call yet; the request still pending.                                *)
DecisionsStandOnReads ==
    \A t \in Connection :
        /\ deciding[t].op = "create" => approval[deciding[t].a] = "absent"
        /\ deciding[t].op = "decide" => approval[deciding[t].a] = "pending"
=============================================================================
