---------------------------- MODULE PostgresStore ----------------------------
(***************************************************************************)
(* The same tables in PostgreSQL (PostgresSessionStore and                 *)
(* PostgresAdminRepository), where transactions of different connections   *)
(* interleave statement by statement at READ COMMITTED.  The variables of  *)
(* RunStore are the committed rows.  What a transaction has read and not   *)
(* yet written is in "tx", with the rows and advisory locks it holds until *)
(* it ends; a statement that would need a lock of another transaction      *)
(* waits.  The last lock a transaction takes and everything after it is    *)
(* one action: from there on it waits for nobody, and its rows appear when *)
(* it commits.  (The row of the session, which begin_inbound and the       *)
(* administrator lock, is always such a last lock.)                        *)
(*                                                                         *)
(* The writes themselves test little: that they may rely on what the       *)
(* transaction read before is what the locks are for, and what             *)
(* ImplementsStore says.                                                   *)
(***************************************************************************)
EXTENDS RunStore, Connections

CONSTANTS Operation,            \* operation_id of administrator commands
          NoCommand, NoCall

ASSUME PostgresStoreAssumption ==
    /\ NoCall \notin Call
    /\ NoCommand \notin [r : Run, c : Call \cup {NoCall}, changed : BOOLEAN]

VARIABLES tx,        \* the open transaction of each connection
          operations \* admin_operations: the command an id is bound to

pgVars == <<storeVars, tx, operations>>

(* begin_inbound has seen no row of the message; _assert_owner found the   *)
(* caller to be the owner, and claim_tool then found no row of the call;   *)
(* an operation is fresh and has the rows it joins: the run, or first the  *)
(* tool execution ("tool") and then also its run ("resolve").              *)
BeginTx == [op : {"begin"}, m : Message]
OwnerTx == [op : {"owner"}, p : Owner, r : Run, k : Token]
ClaimTx == [op : {"claim"}, p : Owner, r : Run, k : Token, c : Call]
ControlTx == [op : {"control"}, o : Operation, r : Run]
ResolveTx == [op : {"tool", "resolve"}, o : Operation, r : Run, c : Call]
Transaction == {Idle} \cup BeginTx \cup OwnerTx \cup ClaimTx \cup ControlTx
                 \cup ResolveTx

Command == [r : Run, c : Call \cup {NoCall}, changed : BOOLEAN]

PgInit ==
    /\ StoreInit
    /\ tx = [t \in Connection |-> Idle]
    /\ operations = [o \in Operation |-> NoCommand]

-----------------------------------------------------------------------------
(* Locks: which transaction holds what.                                    *)

HoldsMessage(t, m) == tx[t].op = "begin" /\ tx[t].m = m
HoldsRun(t, r) == /\ tx[t].op \in {"owner", "claim", "control", "resolve"}
                  /\ tx[t].r = r
HoldsTool(t, r, c) == /\ tx[t].op \in {"tool", "resolve"}
                      /\ tx[t].r = r /\ tx[t].c = c
HoldsOperation(t, o) == /\ tx[t].op \in {"control", "tool", "resolve"}
                        /\ tx[t].o = o

Unlocked(r) == \A t \in Connection : ~HoldsRun(t, r)

Continue(t, state) == tx' = [tx EXCEPT ![t] = state]
Close(t) == Continue(t, Idle)

(* A transaction ends and has changed nothing: the caller does not own the *)
(* run, the row it was to insert exists, its connection is lost, or the    *)
(* deadlock detector chose it.                                             *)
Rollback(t) ==
    /\ tx[t] # Idle
    /\ Close(t)
    /\ UNCHANGED <<storeVars, operations>>

-----------------------------------------------------------------------------
(* begin_inbound: an advisory lock for the message, then its row is read.  *)

(* Mutant: no advisory lock.                                               *)
OpenInboundUnlocked(t, m) ==
    /\ tx[t] = Idle
    /\ inbound[m] = NoRun
    /\ Continue(t, [op |-> "begin", m |-> m])
    /\ UNCHANGED <<storeVars, operations>>

OpenInbound(t, m) ==
    /\ tx[t] = Idle
    /\ \A u \in Connection : ~HoldsMessage(u, m)
    /\ inbound[m] = NoRun
    /\ Continue(t, [op |-> "begin", m |-> m])
    /\ UNCHANGED <<storeVars, operations>>

InsertInbound(t, p, r, st) ==
    /\ tx[t].op = "begin"
    /\ status[r] = "absent"
    /\ WriteInbound(p, tx[t].m, r, st)
    /\ Close(t)
    /\ UNCHANGED operations

-----------------------------------------------------------------------------
(* What only the owner of a run may do.                                    *)

(* Mutant: _assert_owner without FOR UPDATE.                               *)
AssertOwnerUnlocked(t, p, r, k) ==
    /\ tx[t] = Idle
    /\ Owns(p, r, k)
    /\ Continue(t, [op |-> "owner", p |-> p, r |-> r, k |-> k])
    /\ UNCHANGED <<storeVars, operations>>

AssertOwner(t, p, r, k) ==
    /\ tx[t] = Idle
    /\ Unlocked(r)
    /\ Owns(p, r, k)
    /\ Continue(t, [op |-> "owner", p |-> p, r |-> r, k |-> k])
    /\ UNCHANGED <<storeVars, operations>>

(* save_checkpoint inserts unconditionally.                                *)
InsertCheckpoint(t, st) ==
    /\ tx[t].op = "owner"
    /\ WriteCheckpoint(tx[t].r, tx[t].k, st)
    /\ Close(t)
    /\ UNCHANGED operations

(* complete_run: its update repeats the tests of its locking read.         *)
UpdateCompletion(t, x) ==
    /\ tx[t].op = "owner"
    /\ Owns(tx[t].p, tx[t].r, tx[t].k)
    /\ WriteCompletion(tx[t].r, x)
    /\ Close(t)
    /\ UNCHANGED operations

(* claim_tool reads the ledger under the lock of the run, then inserts.    *)
ReadLedger(t, c) ==
    /\ tx[t].op = "owner"
    /\ ledger[tx[t].r][c].status = "absent"
    /\ Continue(t, [op |-> "claim", p |-> tx[t].p, r |-> tx[t].r,
                    k |-> tx[t].k, c |-> c])
    /\ UNCHANGED <<storeVars, operations>>

InsertExecution(t, tl) ==
    /\ tx[t].op = "claim"
    /\ WriteExecution(tx[t].r, tx[t].k, tx[t].c, tl)
    /\ Close(t)
    /\ UNCHANGED operations

(* complete_tool and fail_tool update the row of the call, if it is still  *)
(* running, and wait for the administrator who has locked it.              *)
UpdateExecution(t, c, outcome) ==
    /\ tx[t].op = "owner"
    /\ \A u \in Connection : ~HoldsTool(u, tx[t].r, c)
    /\ SettleRow(tx[t].r, c, tx[t].k, outcome)
    /\ UNCHANGED <<runVars, inboundVars, checkpoint>>
    /\ Close(t)
    /\ UNCHANGED operations

-----------------------------------------------------------------------------
(* Transactions of one statement: claim_run, transition_run and renew_run  *)
(* wait for the row and test its newest version.                           *)

SingleUpdate(p, r) ==
    /\ Unlocked(r)
    /\ \/ \E expected \in ClaimableFrom : ClaimRun(p, r, expected)
       \/ \E k \in Token \cup {NoToken}, target \in TransitionTargets :
            TransitionRun(p, r, target, k)
       \/ \E k \in Token : RenewRun(p, r, k)
    /\ UNCHANGED <<tx, operations>>

(* interrupt_incomplete_runs: FOR UPDATE SKIP LOCKED.                      *)
InterruptUnlocked(p) ==
    /\ InterruptIncomplete(p, {r \in Run : ~Unlocked(r)})
    /\ UNCHANGED <<tx, operations>>

ClockPasses(r) == LeaseExpires(r) /\ UNCHANGED <<tx, operations>>

-----------------------------------------------------------------------------
(* The administrator: an advisory lock for the operation, whose row must   *)
(* not exist; a repeated command is answered from it.                      *)

Fresh(t, o) == /\ tx[t] = Idle
               /\ \A u \in Connection : ~HoldsOperation(u, o)
               /\ operations[o] = NoCommand

(* The command and its audit event, in the transaction of the change.      *)
Record(o, r, c, changed) ==
    operations' = [operations EXCEPT ![o] =
                     [r |-> r, c |-> c, changed |-> changed]]

(* A command on a row that does not exist is bound to its id all the same. *)
RecordMissing(o, r, c) ==
    /\ \A u \in Connection : ~HoldsOperation(u, o)
    /\ operations[o] = NoCommand
    /\ IF c = NoCall THEN status[r] = "absent"
                     ELSE ledger[r][c].status = "absent"
    /\ Record(o, r, c, FALSE)
    /\ UNCHANGED <<storeVars, tx>>

(* admin_control_run.                                                      *)
LockControl(t, o, r) ==
    /\ Fresh(t, o)
    /\ status[r] # "absent"
    /\ Unlocked(r)
    /\ Continue(t, [op |-> "control", o |-> o, r |-> r])
    /\ UNCHANGED <<storeVars, operations>>

Control(t, action) ==
    /\ tx[t].op = "control"
    /\ \/ /\ AdminControlRun(tx[t].r, action)
          /\ Record(tx[t].o, tx[t].r, NoCall, TRUE)
       \/ /\ status[tx[t].r] \notin ControlSources(action)
          /\ Record(tx[t].o, tx[t].r, NoCall, FALSE)
          /\ UNCHANGED storeVars
    /\ Close(t)

(* admin_resolve_tool locks the rows of its join in their order: the tool  *)
(* execution, then the run.                                                *)
LockTool(t, o, r, c) ==
    /\ Fresh(t, o)
    /\ ledger[r][c].status # "absent"
    /\ \A u \in Connection : ~HoldsTool(u, r, c)
    /\ Continue(t, [op |-> "tool", o |-> o, r |-> r, c |-> c])
    /\ UNCHANGED <<storeVars, operations>>

LockRunOfTool(t) ==
    /\ tx[t].op = "tool"
    /\ Unlocked(tx[t].r)
    /\ Continue(t, [tx[t] EXCEPT !.op = "resolve"])
    /\ UNCHANGED <<storeVars, operations>>

(* Mutant: the operation is not recorded when it changes the ledger.       *)
ResolveUnrecorded(t, outcome) ==
    /\ tx[t].op = "resolve"
    /\ AdminResolveTool(tx[t].r, tx[t].c, outcome)
    /\ Close(t)
    /\ UNCHANGED operations

Resolve(t, outcome) ==
    /\ tx[t].op = "resolve"
    /\ \/ /\ AdminResolveTool(tx[t].r, tx[t].c, outcome)
          /\ Record(tx[t].o, tx[t].r, tx[t].c, TRUE)
       \/ /\ ledger[tx[t].r][tx[t].c].status # "running"
          /\ Record(tx[t].o, tx[t].r, tx[t].c, FALSE)
          /\ UNCHANGED storeVars
    /\ Close(t)

-----------------------------------------------------------------------------
OwnerStep(t) ==
    \/ \E p \in Owner, r \in Run, k \in Token : AssertOwner(t, p, r, k)
    \/ \E st \in State : InsertCheckpoint(t, st)
    \/ \E x \in Text : UpdateCompletion(t, x)
    \/ \E c \in Call : ReadLedger(t, c)
    \/ \E tl \in Tool : InsertExecution(t, tl)
    \/ \E c \in Call, outcome \in {"completed", "failed"} :
         UpdateExecution(t, c, outcome)

AdminTx(t) ==
    \/ \E o \in Operation, r \in Run : LockControl(t, o, r)
    \/ \E action \in ControlAction : Control(t, action)
    \/ \E o \in Operation, r \in Run, c \in Call : LockTool(t, o, r, c)
    \/ LockRunOfTool(t)
    \/ \E outcome \in {"completed", "failed"} : Resolve(t, outcome)

Transact(t) ==
    \/ \E m \in Message : OpenInbound(t, m)
    \/ \E p \in Owner, r \in Run, st \in State : InsertInbound(t, p, r, st)
    \/ OwnerStep(t)
    \/ AdminTx(t)
    \/ Rollback(t)

PgNext ==
    \/ \E t \in Connection : Transact(t)
    \/ \E p \in Owner : \/ \E r \in Run : SingleUpdate(p, r)
                        \/ InterruptUnlocked(p)
    \/ \E o \in Operation, r \in Run, c \in Call \cup {NoCall} :
         RecordMissing(o, r, c)
    \/ \E r \in Run : ClockPasses(r)

PgSpec == PgInit /\ [][PgNext]_pgVars

-----------------------------------------------------------------------------
(* Properties.                                                             *)

(* The rows and the open transactions have their types (the tables of      *)
(* migrations/postgres and the locals of PostgresSessionStore's methods).  *)
PgTypeOK ==
    /\ StoreTypeOK
    /\ tx \in [Connection -> Transaction]
    /\ operations \in [Operation -> Command \cup {NoCommand}]

(* No two transactions hold the same lock (FOR UPDATE of _assert_owner,    *)
(* complete_run and the administrator; pg_advisory_xact_lock).             *)
LocksAreExclusive ==
    \A t, u \in Connection : t # u =>
        /\ \A m \in Message : ~(HoldsMessage(t, m) /\ HoldsMessage(u, m))
        /\ \A r \in Run : ~(HoldsRun(t, r) /\ HoldsRun(u, r))
        /\ \A r \in Run, c \in Call :
             ~(HoldsTool(t, r, c) /\ HoldsTool(u, r, c))
        /\ \A o \in Operation : ~(HoldsOperation(t, o) /\ HoldsOperation(u, o))

Reads(t) ==
    /\ tx[t].op = "begin" => inbound[tx[t].m] = NoRun
    /\ tx[t].op \in {"owner", "claim"} => Owns(tx[t].p, tx[t].r, tx[t].k)
    /\ tx[t].op = "claim" => ledger[tx[t].r][tx[t].c].status = "absent"
    /\ tx[t].op \in {"control", "tool", "resolve"} =>
         operations[tx[t].o] = NoCommand

(* What a transaction has read and is going to rely on is still so when it *)
(* writes, whatever other connections commit in between (begin_inbound,    *)
(* _assert_owner, claim_tool and _existing against every other method).    *)
ReadsStayTrue == \A t \in Connection : Reads(t)

Disposes(o, r, c) == operations[o] = [r |-> r, c |-> c, changed |-> TRUE]

(* admin_resolve_tool: every disposition in the ledger was made by exactly *)
(* one operation on record, and an operation that says it changed a call   *)
(* did, so a command that a client repeats, at once on another connection  *)
(* or after its answer was lost, is applied once.                          *)
DispositionsAreAudited ==
    \A r \in Run, c \in Call :
        /\ (\E o \in Operation : Disposes(o, r, c))
             <=> Settled(r, c) /\ ledger[r][c].by = NoToken
        /\ \A o, q \in Operation :
             Disposes(o, r, c) /\ Disposes(q, r, c) => o = q

(* Statement by statement, PostgreSQL does what SQLite does method by      *)
(* method: every commit is an operation of RunStore, with its guard.       *)
ImplementsStore == StoreSpec
=============================================================================
