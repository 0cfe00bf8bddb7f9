------------------------------ MODULE RunStore ------------------------------
(***************************************************************************)
(* The session store (SQLiteSessionStore and the administrator's           *)
(* operations on the same tables): runs with an owner, a lease and a       *)
(* fencing token, the inbound table that deduplicates messages and caches  *)
(* answers, the latest checkpoint of each run and the ledger of tool       *)
(* executions.  A method of the store is one transaction, so it is one     *)
(* action; a call that finds its condition false changes nothing and       *)
(* returns False or raises, which is the negation of the action's guard.   *)
(* Two methods are two transactions in SQLite: complete_tool and fail_tool *)
(* open none before _assert_owner reads, so their update comes later, when *)
(* the caller may have lost the run.                                       *)
(*                                                                         *)
(* The module is used alone, with callers that may present any owner and   *)
(* any token, and as the storage of AgentRuntime.                          *)
(***************************************************************************)
EXTENDS Naturals

CONSTANTS Run,       \* run identifiers
          Owner,     \* owner_id of a store instance, one per process start
          Message,   \* (platform, message_id) of an inbound message
          Call,      \* tool call identifiers
          Tool,      \* a tool name with its canonical arguments
          State,     \* checkpoint contents
          Text,      \* responses
          NoRun, NoOwner, NoTool, NoState, NoText, \* SQL NULL of each column
          MaxToken   \* bound on execution_token

NoToken == 0         \* execution_token=None; a real token starts at 1

ASSUME RunStoreAssumption ==
    /\ NoRun \notin Run
    /\ NoOwner \notin Owner
    /\ NoTool \notin Tool
    /\ NoState \notin State
    /\ NoText \notin Text
    /\ MaxToken \in Nat \ {0}

VARIABLES
    status,     \* runs.status, "absent" before the row exists
    owner,      \* runs.owner_id
    lease,      \* runs.lease_expires_at: "none", in the future, or past
    token,      \* runs.execution_token
    inbound,    \* inbound_messages.run_id by message
    response,   \* inbound_messages.response by message
    answers,    \* number of assistant rows of a run in messages
    checkpoint, \* the latest checkpoint of a run and the token that wrote it
    ledger      \* tool_executions by run and call, and the token that wrote

runVars == <<status, owner, lease, token>>
inboundVars == <<inbound, response, answers>>
storeVars == <<runVars, inboundVars, checkpoint, ledger>>

RunStatus == {"absent", "running", "waiting_approval", "interrupted",
              "completed", "failed", "cancelled"}
Lease == {"none", "live", "expired"}
Token == 1..MaxToken
ToolStatus == {"absent", "running", "completed", "failed"}

(* A write remembers in "by" the token it was made under.  The column does *)
(* not exist in the database: no guard reads it.                           *)
Checkpoint == [state : State \cup {NoState}, by : Token \cup {NoToken}]
Execution == [status : ToolStatus, tool : Tool \cup {NoTool},
              by : Token \cup {NoToken}]

NoCheckpoint == [state |-> NoState, by |-> NoToken]
NoExecution == [status |-> "absent", tool |-> NoTool, by |-> NoToken]

StoreInit ==
    /\ status = [r \in Run |-> "absent"]
    /\ owner = [r \in Run |-> NoOwner]
    /\ lease = [r \in Run |-> "none"]
    /\ token = [r \in Run |-> NoToken]
    /\ inbound = [m \in Message |-> NoRun]
    /\ response = [m \in Message |-> NoText]
    /\ answers = [r \in Run |-> 0]
    /\ checkpoint = [r \in Run |-> NoCheckpoint]
    /\ ledger = [r \in Run |-> [c \in Call |-> NoExecution]]

-----------------------------------------------------------------------------
(* Guards shared by several operations.                                    *)

(* RunStateMachine: the (source, target) pairs transition_run accepts.     *)
Transitions ==
    ({"interrupted", "waiting_approval"} \X {"running"})
      \cup ({"running", "interrupted"} \X {"waiting_approval"})
      \cup ({"running"} \X {"interrupted"})
      \cup ({"running", "waiting_approval", "interrupted"}
              \X {"failed", "cancelled"})

(* _assert_owner: the caller is store instance p holding token k.          *)
Owns(p, r, k) == /\ status[r] = "running"
                 /\ owner[r] = p
                 /\ token[r] = k

-----------------------------------------------------------------------------
(* Inbound messages and the life of a run.                                 *)

(* The rows start_inbound inserts: session, run, inbound row, user message *)
(* and first checkpoint.                                                   *)
WriteInbound(p, m, r, st) ==
    /\ status' = [status EXCEPT ![r] = "running"]
    /\ owner' = [owner EXCEPT ![r] = p]
    /\ lease' = [lease EXCEPT ![r] = "live"]
    /\ token' = [token EXCEPT ![r] = 1]
    /\ inbound' = [inbound EXCEPT ![m] = r]
    /\ checkpoint' = [checkpoint EXCEPT ![r] = [state |-> st, by |-> 1]]
    /\ UNCHANGED <<response, answers, ledger>>

(* start_inbound of a message seen for the first time, in one transaction. *)
(* A message with a row is answered from that row and nothing changes.     *)
BeginInbound(p, m, r, st) ==
    /\ inbound[m] = NoRun
    /\ status[r] = "absent"
    /\ WriteInbound(p, m, r, st)

WriteCheckpoint(r, k, st) ==
    /\ checkpoint' = [checkpoint EXCEPT ![r] = [state |-> st, by |-> k]]
    /\ UNCHANGED <<runVars, inboundVars, ledger>>

SaveCheckpoint(p, r, k, st) ==
    /\ Owns(p, r, k)
    /\ WriteCheckpoint(r, k, st)

(* Owner and token are compared only when the caller passes a token.  The  *)
(* row keeps its owner and its lease.                                      *)
MayTransition(p, r, target, k) ==
    /\ <<status[r], target>> \in Transitions
    /\ k # NoToken => owner[r] = p /\ token[r] = k

TransitionRun(p, r, target, k) ==
    /\ MayTransition(p, r, target, k)
    /\ status' = [status EXCEPT ![r] = target]
    /\ UNCHANGED <<owner, lease, token, inboundVars, checkpoint, ledger>>

(* Mutant: claim_run does not compare the status.                          *)
ClaimRunUnchecked(p, r, expected) ==
    /\ status[r] # "absent"
    /\ token[r] < MaxToken
    /\ status' = [status EXCEPT ![r] = "running"]
    /\ owner' = [owner EXCEPT ![r] = p]
    /\ lease' = [lease EXCEPT ![r] = "live"]
    /\ token' = [token EXCEPT ![r] = token[r] + 1]
    /\ UNCHANGED <<inboundVars, checkpoint, ledger>>

(* Compare-and-swap on the status; the new owner gets the next token.      *)
ClaimRun(p, r, expected) ==
    /\ status[r] \in expected
    /\ token[r] < MaxToken
    /\ status' = [status EXCEPT ![r] = "running"]
    /\ owner' = [owner EXCEPT ![r] = p]
    /\ lease' = [lease EXCEPT ![r] = "live"]
    /\ token' = [token EXCEPT ![r] = token[r] + 1]
    /\ UNCHANGED <<inboundVars, checkpoint, ledger>>

(* Status, assistant message and cached answer in one transaction.         *)
WriteCompletion(r, x) ==
    /\ status' = [status EXCEPT ![r] = "completed"]
    /\ owner' = [owner EXCEPT ![r] = NoOwner]
    /\ lease' = [lease EXCEPT ![r] = "none"]
    /\ answers' = [answers EXCEPT ![r] = answers[r] + 1]
    /\ response' = [m \in Message |->
                      IF inbound[m] = r THEN x ELSE response[m]]
    /\ UNCHANGED <<token, inbound, checkpoint, ledger>>

CompleteRun(p, r, k, x) == Owns(p, r, k) /\ WriteCompletion(r, x)

(* An expired lease may be renewed: the update tests only the fence.       *)
RenewRun(p, r, k) ==
    /\ Owns(p, r, k)
    /\ lease' = [lease EXCEPT ![r] = "live"]
    /\ UNCHANGED <<status, owner, token, inboundVars, checkpoint, ledger>>

Abandoned(p, r) == /\ status[r] = "running"
                   /\ owner[r] = p \/ lease[r] # "live"

(* Every process start: the runs no live lease protects are interrupted.   *)
(* Their token stays: the next claim raises it.  Rows that other           *)
(* transactions have locked are skipped (SKIP LOCKED; SQLite has none).    *)
InterruptIncomplete(p, locked) ==
    LET Interrupted == {r \in Run \ locked : Abandoned(p, r)}
    IN  /\ status' = [r \in Run |-> IF r \in Interrupted THEN "interrupted"
                                                        ELSE status[r]]
        /\ owner' = [r \in Run |-> IF r \in Interrupted THEN NoOwner
                                                       ELSE owner[r]]
        /\ lease' = [r \in Run |-> IF r \in Interrupted THEN "none"
                                                       ELSE lease[r]]
        /\ UNCHANGED <<token, inboundVars, checkpoint, ledger>>

(* The clock passes lease_expires_at; only running runs' leases are read.  *)
LeaseExpires(r) ==
    /\ status[r] = "running"
    /\ lease[r] = "live"
    /\ lease' = [lease EXCEPT ![r] = "expired"]
    /\ UNCHANGED <<status, owner, token, inboundVars, checkpoint, ledger>>

-----------------------------------------------------------------------------
(* The ledger of tool executions.                                          *)

Settled(r, c) == ledger[r][c].status \in {"completed", "failed"}

WriteExecution(r, k, c, tl) ==
    /\ ledger' = [ledger EXCEPT ![r][c] =
                    [status |-> "running", tool |-> tl, by |-> k]]
    /\ UNCHANGED <<runVars, inboundVars, checkpoint>>

(* Mutant: claim_tool gives an unfinished call to execute again.           *)
ClaimToolReplaying(p, r, k, c, tl) ==
    /\ ledger[r][c].status \in {"absent", "running"}
    /\ Owns(p, r, k)
    /\ WriteExecution(r, k, c, tl)

(* The row a claim finds decides the answer before ownership is looked at: *)
(* only an absent row is inserted, by the owner, and says "execute".       *)
ClaimTool(p, r, k, c, tl) ==
    /\ ledger[r][c].status = "absent"
    /\ Owns(p, r, k)
    /\ WriteExecution(r, k, c, tl)

SettleRow(r, c, k, outcome) ==
    /\ ledger[r][c].status = "running"
    /\ ledger' = [ledger EXCEPT ![r][c] =
                    [status |-> outcome, tool |-> ledger[r][c].tool, by |-> k]]

(* The second transaction of complete_tool and fail_tool: the update, by a *)
(* caller whose token k _assert_owner has found to be the newest some time *)
(* before.  It tests the row of the call and nothing of the run.           *)
SettleTool(r, k, c, outcome) ==
    /\ SettleRow(r, c, k, outcome)
    /\ UNCHANGED <<runVars, inboundVars, checkpoint>>

CompleteTool(r, k, c) == SettleTool(r, k, c, "completed")
FailTool(r, k, c) == SettleTool(r, k, c, "failed")

-----------------------------------------------------------------------------
(* The administrator.                                                      *)

ControlAction == {"pause", "cancel", "recover"}

ControlTarget(action) ==
    CASE action = "pause" -> "interrupted"
      [] action = "cancel" -> "cancelled"
      [] action = "recover" -> "interrupted"

ControlSources(action) ==
    CASE action = "pause" -> {"running", "waiting_approval"}
      [] action = "cancel" -> {"running", "waiting_approval", "interrupted",
                               "failed"}
      [] action = "recover" -> {"failed"}

(* A fresh operation that changes the run: the owner is evicted and the    *)
(* token raised.  Repeated, late or inapplicable operations change only    *)
(* the audit tables.                                                       *)
AdminControlRun(r, action) ==
    /\ status[r] \in ControlSources(action)
    /\ token[r] < MaxToken
    /\ status' = [status EXCEPT ![r] = ControlTarget(action)]
    /\ owner' = [owner EXCEPT ![r] = NoOwner]
    /\ lease' = [lease EXCEPT ![r] = "none"]
    /\ token' = [token EXCEPT ![r] = token[r] + 1]
    /\ UNCHANGED <<inboundVars, checkpoint, ledger>>

(* Mutant: the disposition deletes the row, so that the call can be tried  *)
(* again.                                                                  *)
AdminResolveToolDeleting(r, c, outcome) ==
    /\ ledger[r][c].status = "running"
    /\ ledger' = [ledger EXCEPT ![r][c] = NoExecution]
    /\ UNCHANGED <<runVars, inboundVars, checkpoint>>

(* Manual disposition of a tool whose result is unknown, by a person and   *)
(* not under any token.                                                    *)
AdminResolveTool(r, c, outcome) ==
    /\ SettleRow(r, c, NoToken, outcome)
    /\ UNCHANGED <<runVars, inboundVars, checkpoint>>

-----------------------------------------------------------------------------
(* The store under arbitrary callers.                                      *)

(* The arguments the callers of claim_run and transition_run pass.         *)
ClaimableFrom == {{"interrupted"}, {"waiting_approval", "interrupted"}}
TransitionTargets == {"waiting_approval", "interrupted", "failed",
                      "cancelled"}

RunStep(p, r) ==
    \/ \E m \in Message, st \in State : BeginInbound(p, m, r, st)
    \/ \E expected \in ClaimableFrom : ClaimRun(p, r, expected)
    \/ \E k \in Token \cup {NoToken}, target \in TransitionTargets :
         TransitionRun(p, r, target, k)
    \/ \E k \in Token : \/ \E st \in State : SaveCheckpoint(p, r, k, st)
                        \/ \E x \in Text : CompleteRun(p, r, k, x)
                        \/ RenewRun(p, r, k)

(* Only tokens that were given out can have passed _assert_owner.          *)
ToolStep(p, r) ==
    \E k \in Token, c \in Call :
        \/ \E tl \in Tool : ClaimTool(p, r, k, c, tl)
        \/ /\ k <= token[r]
           /\ CompleteTool(r, k, c) \/ FailTool(r, k, c)

AdminStep(r) ==
    \/ \E action \in ControlAction : AdminControlRun(r, action)
    \/ \E c \in Call, outcome \in {"completed", "failed"} :
         AdminResolveTool(r, c, outcome)

StoreNext ==
    \/ \E p \in Owner : \/ \E r \in Run : RunStep(p, r) \/ ToolStep(p, r)
                        \/ \E locked \in SUBSET Run :
                             InterruptIncomplete(p, locked)
    \/ \E r \in Run : AdminStep(r) \/ LeaseExpires(r)

StoreSpec == StoreInit /\ [][StoreNext]_storeVars

-----------------------------------------------------------------------------
(* Properties.                                                             *)

(* The rows have the columns' types (the tables of SQLiteSessionStore).    *)
StoreTypeOK ==
    /\ status \in [Run -> RunStatus]
    /\ owner \in [Run -> Owner \cup {NoOwner}]
    /\ lease \in [Run -> Lease]
    /\ token \in [Run -> Token \cup {NoToken}]
    /\ inbound \in [Message -> Run \cup {NoRun}]
    /\ response \in [Message -> Text \cup {NoText}]
    /\ answers \in [Run -> Nat]
    /\ checkpoint \in [Run -> Checkpoint]
    /\ ledger \in [Run -> [Call -> Execution]]

(* begin_inbound: a message has one run and a run one message, however     *)
(* deliveries interleave; the run of a message exists.                     *)
OneRunPerMessage ==
    /\ \A m, n \in Message :
         inbound[m] = inbound[n] /\ inbound[m] # NoRun => m = n
    /\ \A r \in Run :
         status[r] # "absent" <=> \E m \in Message : inbound[m] = r

(* complete_run: completion, the single assistant message and the cached   *)
(* answer appear together, and no other history of claims, interruptions   *)
(* and administrator operations produces one without the others.           *)
CompletionIsAtomic ==
    /\ \A r \in Run :
         answers[r] = IF status[r] = "completed" THEN 1 ELSE 0
    /\ \A m \in Message :
         response[m] # NoText <=> /\ inbound[m] # NoRun
                                  /\ status[inbound[m]] = "completed"

(* A run that has ended has no owner left that could still hold a lease,   *)
(* and a running run always has an owner and a lease: interrupting and     *)
(* claiming never leave a run running that nobody was given.               *)
RunningIsOwned ==
    \A r \in Run :
        /\ status[r] = "running" => owner[r] # NoOwner /\ lease[r] # "none"
        /\ status[r] = "completed" => owner[r] = NoOwner

(* The fence never runs backwards: nothing recorded for a run was written  *)
(* under a token that has not been issued yet.                             *)
WritersAreIssued ==
    \A r \in Run :
        /\ checkpoint[r].by <= token[r]
        /\ \A c \in Call : ledger[r][c].by <= token[r]

OwnerChangeRaisesToken(r) ==
    /\ token'[r] >= token[r]
    /\ owner'[r] \notin {owner[r], NoOwner} => token'[r] > token[r]
    /\ status[r] # "running" /\ status'[r] = "running" => token'[r] > token[r]

(* Execution tokens (execution_token in claim_run, begin_inbound and       *)
(* admin_control_run): a token never decreases, and the run is never given *)
(* to another owner, nor back to one, without a token higher than all the  *)
(* previous ones.                                                          *)
OwnershipNeedsNewToken ==
    [][\A r \in Run : OwnerChangeRaisesToken(r)]_storeVars

(* What is written for r is written by the worker that owns it now, or is  *)
(* the disposition of an administrator.                                    *)
ProgressIsFenced(r) ==
    /\ checkpoint'[r] # checkpoint[r] => /\ status'[r] = "running"
                                         /\ checkpoint'[r].by = token'[r]
    /\ answers'[r] # answers[r] => status[r] = "running"

WrittenByOwner(r, c) == status[r] = "running" /\ ledger'[r][c].by = token[r]

OutcomesAreFenced(r) ==
    \A c \in Call : ledger'[r][c] # ledger[r][c] =>
        \/ WrittenByOwner(r, c)
        \/ ledger[r][c].status = "running" /\ ledger'[r][c].by = NoToken

(* Fencing, as docs/session-runtime-architecture.md promises it: whatever  *)
(* a worker writes for a run is written while the run is running, under    *)
(* the newest token; a worker whose run was claimed again has lost every   *)
(* write.  True of PostgresSessionStore, whose _assert_owner locks the row *)
(* of the run; not of SQLiteSessionStore.                                  *)
StaleWritersAreRejected ==
    [][\A r \in Run : ProgressIsFenced(r) /\ OutcomesAreFenced(r)]_storeVars

OutcomesSettleCalls(r) ==
    \A c \in Call : ledger'[r][c] # ledger[r][c] =>
        \/ ledger[r][c].status = "absent" /\ WrittenByOwner(r, c)
        \/ /\ ledger[r][c].status = "running"
           /\ ledger'[r][c].status \in {"completed", "failed"}
           /\ ledger'[r][c].by <= token[r]

(* What is left of it in SQLite, where the check and the update of         *)
(* complete_tool and fail_tool are two transactions: a worker that has     *)
(* lost its run can no longer save a checkpoint, answer a message or claim *)
(* a call (which is what gives leave to execute it); all it can still      *)
(* write is the outcome of a call that was claimed and has none.           *)
OnlyOutcomesComeLate ==
    [][\A r \in Run : ProgressIsFenced(r) /\ OutcomesSettleCalls(r)]_storeVars

RowIsKept(r, c) ==
    /\ ledger[r][c].status # "absent" =>
         /\ ledger'[r][c].status # "absent"
         /\ ledger'[r][c].tool = ledger[r][c].tool
    /\ Settled(r, c) => ledger'[r][c] = ledger[r][c]

(* The ledger never forgets: a call that was begun can never be claimed    *)
(* again, and its identity and its settled outcome stay, so a tool cannot  *)
(* be replayed by any sequence of crashes, claims and dispositions.        *)
LedgerNeverForgets == [][\A r \in Run, c \in Call : RowIsKept(r, c)]_storeVars

EndIsKept(r) ==
    /\ status[r] \in {"completed", "cancelled"} => status'[r] = status[r]
    /\ status[r] = "failed" /\ status'[r] # "failed" =>
         /\ status'[r] \in {"interrupted", "cancelled"}
         /\ token'[r] > token[r]

(* A completed or cancelled run stays so, and a failed run is reopened     *)
(* only by the administrator, who raises its token.                        *)
EndedRunsStayEnded == [][\A r \in Run : EndIsKept(r)]_storeVars

(* The store is an Inbox.                                                  *)
InboxContract == INSTANCE Inbox WITH
                accepted <- {m \in Message : inbound[m] # NoRun},
                answer <- response

(* Deduplicated messages, answered at most once: the contract of Inbox.    *)
ImplementsInbox == InboxContract!Spec
=============================================================================
