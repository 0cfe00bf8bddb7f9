------------------------------ MODULE PostgresProofs -------------------------
(***************************************************************************)
(* What holds of the four stores of the PostgreSQL database, whose         *)
(* transactions interleave statement by statement, for any number of       *)
(* connections, owners, runs, requests, memories and consumers.  The locks *)
(* keep what a transaction has read true until it writes; so each commit of *)
(* the session store is an operation of RunStore, and every step of the    *)
(* approval store is one of ApprovalStore or differs from it only in the   *)
(* clock it went by.                                                       *)
(***************************************************************************)
EXTENDS PostgresStore, PostgresApprovals, MemoryStore, RunQueue,
        RunStoreProofs, ApprovalStoreProofs

-----------------------------------------------------------------------------
(* PostgresStore.                                                          *)

TxTypeOK == /\ tx \in [Connection -> Transaction]
            /\ operations \in [Operation -> Command \cup {NoCommand}]

PgInv ==
    /\ StoreInv
    /\ TxTypeOK
    /\ LocksAreExclusive
    /\ ReadsStayTrue

(* What the kind of a transaction says of its fields.                      *)
LEMMA Shapes ==
    ASSUME TxTypeOK, NEW t \in Connection
    PROVE  /\ tx[t].op = "begin" => tx[t] \in BeginTx
           /\ tx[t].op = "owner" => tx[t] \in OwnerTx
           /\ tx[t].op = "claim" => tx[t] \in ClaimTx
           /\ tx[t].op = "control" => tx[t] \in ControlTx
           /\ tx[t].op \in {"tool", "resolve"} => tx[t] \in ResolveTx
           /\ tx[t] = Idle => tx[t].op = "idle"
<1>1. tx[t] \in Transaction
    BY DEF TxTypeOK
<1>2. QED
    BY <1>1 DEF Transaction, Idle, BeginTx, OwnerTx, ClaimTx, ControlTx,
                ResolveTx

(* A transaction that moves on to a state whose locks nobody else holds    *)
(* leaves the locks exclusive.                                             *)
LEMMA LocksStayExclusive ==
    ASSUME TxTypeOK, LocksAreExclusive, NEW u \in Connection, NEW state,
           Continue(u, state),
           \A w \in Connection \ {u} :
             /\ state.op = "begin" => ~HoldsMessage(w, state.m)
             /\ state.op \in {"owner", "claim", "control", "resolve"} =>
                  ~HoldsRun(w, state.r)
             /\ state.op \in {"tool", "resolve"} =>
                  ~HoldsTool(w, state.r, state.c)
             /\ state.op \in {"control", "tool", "resolve"} =>
                  ~HoldsOperation(w, state.o)
    PROVE  LocksAreExclusive'
<1>1. /\ tx'[u] = state
      /\ \A w \in Connection \ {u} : tx'[w] = tx[w]
    BY DEF Continue, TxTypeOK
<1>2. \A t \in Connection, w \in Connection : t # w =>
        /\ \A m \in Message : ~(HoldsMessage(t, m)' /\ HoldsMessage(w, m)')
        /\ \A r \in Run : ~(HoldsRun(t, r)' /\ HoldsRun(w, r)')
        /\ \A r \in Run, c \in Call :
             ~(HoldsTool(t, r, c)' /\ HoldsTool(w, r, c)')
        /\ \A o \in Operation :
             ~(HoldsOperation(t, o)' /\ HoldsOperation(w, o)')
    BY <1>1 DEF LocksAreExclusive, HoldsMessage, HoldsRun, HoldsTool,
                HoldsOperation
<1>3. QED
    BY <1>2 DEF LocksAreExclusive

(* A transaction that does not move keeps what it read if nobody changes a *)
(* row it has locked, nor a message or an operation it has locked.         *)
LEMMA ReadsAreKept ==
    ASSUME NEW t \in Connection, Reads(t), TxTypeOK,
           tx'[t] = tx[t],
           \A m \in Message : HoldsMessage(t, m) => inbound'[m] = inbound[m],
           \A r \in Run : HoldsRun(t, r) =>
             /\ status'[r] = status[r] /\ owner'[r] = owner[r]
             /\ token'[r] = token[r]
             /\ \A c \in Call : ledger[r][c].status = "absent" =>
                                  ledger'[r][c].status = "absent",
           \A o \in Operation : HoldsOperation(t, o) =>
             operations'[o] = operations[o]
    PROVE  Reads(t)'
<1>1. /\ tx[t].op = "begin" => tx[t].m \in Message
      /\ tx[t].op \in {"owner", "claim"} => tx[t].r \in Run
      /\ tx[t].op = "claim" => tx[t].c \in Call
      /\ tx[t].op \in {"control", "tool", "resolve"} => tx[t].o \in Operation
    BY Shapes DEF BeginTx, OwnerTx, ClaimTx, ControlTx, ResolveTx
<1>2. QED
    BY <1>1 DEF Reads, Owns, HoldsMessage, HoldsRun, HoldsOperation

-----------------------------------------------------------------------------
(* Every step is a step of RunStore on the rows, or leaves them.           *)

LEMMA WorkerStepImplementsStore ==
    ASSUME PgInv, NEW u \in Connection, Transact(u), ~AdminTx(u)
    PROVE  [StoreNext]_storeVars
<1> USE DEF PgInv
<1>0. Reads(u)
    BY DEF ReadsStayTrue
<1>1. ASSUME NEW p \in Owner, NEW r \in Run, NEW st \in State,
             InsertInbound(u, p, r, st)
      PROVE  StoreNext
    <2>1. tx[u].m \in Message
        BY <1>1, Shapes DEF InsertInbound, BeginTx
    <2>2. BeginInbound(p, tx[u].m, r, st)
        BY <1>0, <1>1 DEF InsertInbound, Reads, BeginInbound
    <2>3. QED
        BY <2>1, <2>2 DEF StoreNext, RunStep
<1>2. ASSUME NEW st \in State, InsertCheckpoint(u, st)
      PROVE  StoreNext
    <2>1. tx[u].p \in Owner /\ tx[u].r \in Run /\ tx[u].k \in Token
        BY <1>2, Shapes DEF InsertCheckpoint, OwnerTx
    <2>2. SaveCheckpoint(tx[u].p, tx[u].r, tx[u].k, st)
        BY <1>0, <1>2 DEF InsertCheckpoint, Reads, SaveCheckpoint
    <2>3. QED
        BY <2>1, <2>2 DEF StoreNext, RunStep
<1>3. ASSUME NEW x \in Text, UpdateCompletion(u, x)
      PROVE  StoreNext
    <2>1. tx[u].p \in Owner /\ tx[u].r \in Run /\ tx[u].k \in Token
        BY <1>3, Shapes DEF UpdateCompletion, OwnerTx
    <2>2. CompleteRun(tx[u].p, tx[u].r, tx[u].k, x)
        BY <1>3 DEF UpdateCompletion, CompleteRun
    <2>3. QED
        BY <2>1, <2>2 DEF StoreNext, RunStep
<1>4. ASSUME NEW tl \in Tool, InsertExecution(u, tl)
      PROVE  StoreNext
    <2>1. /\ tx[u].p \in Owner /\ tx[u].r \in Run /\ tx[u].k \in Token
          /\ tx[u].c \in Call
        BY <1>4, Shapes DEF InsertExecution, ClaimTx
    <2>2. ClaimTool(tx[u].p, tx[u].r, tx[u].k, tx[u].c, tl)
        BY <1>0, <1>4 DEF InsertExecution, Reads, ClaimTool
    <2>3. QED
        BY <2>1, <2>2 DEF StoreNext, ToolStep
<1>5. ASSUME NEW c \in Call, NEW outcome \in {"completed", "failed"},
             UpdateExecution(u, c, outcome)
      PROVE  StoreNext
    <2>1. tx[u].p \in Owner /\ tx[u].r \in Run /\ tx[u].k \in Token
        BY <1>5, Shapes DEF UpdateExecution, OwnerTx
    <2>2. SettleTool(tx[u].r, tx[u].k, c, outcome)
        BY <1>5 DEF UpdateExecution, SettleTool
    <2>3. tx[u].k <= token[tx[u].r]
        BY <1>0, <1>5, <2>1 DEF UpdateExecution, Reads, Owns, Token
    <2>4. ToolStep(tx[u].p, tx[u].r)
        BY <2>1, <2>2, <2>3 DEF ToolStep, CompleteTool, FailTool
    <2>5. QED
        BY <2>1, <2>4 DEF StoreNext
<1>6. QED
    BY <1>1, <1>2, <1>3, <1>4, <1>5
       DEF Transact, OwnerStep, OpenInbound, AssertOwner, ReadLedger, Rollback

LEMMA AdminTxImplementsStore ==
    ASSUME PgInv, NEW u \in Connection, AdminTx(u)
    PROVE  [StoreNext]_storeVars
<1> USE DEF PgInv
<1>1. ASSUME NEW action \in ControlAction, Control(u, action)
      PROVE  [StoreNext]_storeVars
    <2>1. tx[u].r \in Run
        BY <1>1, Shapes DEF Control, ControlTx
    <2>2. QED
        BY <1>1, <2>1 DEF Control, StoreNext, AdminStep
<1>2. ASSUME NEW outcome \in {"completed", "failed"}, Resolve(u, outcome)
      PROVE  [StoreNext]_storeVars
    <2>1. tx[u].r \in Run /\ tx[u].c \in Call
        BY <1>2, Shapes DEF Resolve, ResolveTx
    <2>2. QED
        BY <1>2, <2>1 DEF Resolve, StoreNext, AdminStep
<1>3. QED
    BY <1>1, <1>2 DEF AdminTx, LockControl, LockTool, LockRunOfTool

LEMMA StepImplementsStore ==
    ASSUME PgInv, [PgNext]_pgVars
    PROVE  [StoreNext]_storeVars
<1>1. ASSUME NEW p \in Owner, NEW r \in Run, SingleUpdate(p, r)
      PROVE  StoreNext
    BY <1>1 DEF SingleUpdate, StoreNext, RunStep
<1>2. ASSUME NEW p \in Owner, InterruptUnlocked(p)
      PROVE  StoreNext
    <2>1. {r \in Run : ~Unlocked(r)} \in SUBSET Run
        OBVIOUS
    <2>2. QED
        BY <1>2, <2>1 DEF InterruptUnlocked, StoreNext
<1>3. ASSUME NEW r \in Run, ClockPasses(r)
      PROVE  StoreNext
    BY <1>3 DEF ClockPasses, StoreNext
<1>4. QED
    BY <1>1, <1>2, <1>3, WorkerStepImplementsStore, AdminTxImplementsStore
       DEF PgNext, RecordMissing, pgVars

-----------------------------------------------------------------------------
(* The locks keep what was read true.                                      *)

TxInv == TxTypeOK /\ LocksAreExclusive /\ ReadsStayTrue

(* Steps that read and lock.                                               *)
LEMMA LockingKeepsTxInv ==
    ASSUME PgInv, NEW u \in Connection, NEW state \in Transaction,
           Continue(u, state), UNCHANGED <<storeVars, operations>>,
           Reads(u)',
           \A w \in Connection \ {u} :
             /\ state.op = "begin" => ~HoldsMessage(w, state.m)
             /\ state.op \in {"owner", "claim", "control", "resolve"} =>
                  ~HoldsRun(w, state.r)
             /\ state.op \in {"tool", "resolve"} =>
                  ~HoldsTool(w, state.r, state.c)
             /\ state.op \in {"control", "tool", "resolve"} =>
                  ~HoldsOperation(w, state.o)
    PROVE  TxInv'
<1> USE DEF PgInv
<1>1. TxTypeOK'
    BY DEF TxTypeOK, Continue
<1>2. LocksAreExclusive'
    BY LocksStayExclusive
<1>3. ASSUME NEW t \in Connection, t # u PROVE Reads(t)'
    <2>1. tx'[t] = tx[t]
        BY <1>3 DEF Continue, TxTypeOK
    <2>2. QED
        BY <2>1, ReadsAreKept DEF ReadsStayTrue, storeVars, runVars,
                                  inboundVars
<1>4. QED
    BY <1>1, <1>2, <1>3 DEF TxInv, ReadsStayTrue

LEMMA ReadStepKeepsTxInv ==
    ASSUME PgInv, NEW u \in Connection,
           \/ Rollback(u)
           \/ \E m \in Message : OpenInbound(u, m)
           \/ \E p \in Owner, r \in Run, k \in Token : AssertOwner(u, p, r, k)
           \/ \E c \in Call : ReadLedger(u, c)
           \/ \E o \in Operation, r \in Run : LockControl(u, o, r)
           \/ \E o \in Operation, r \in Run, c \in Call : LockTool(u, o, r, c)
           \/ LockRunOfTool(u)
    PROVE  TxInv'
<1> USE DEF PgInv
<1>0. Reads(u)
    BY DEF ReadsStayTrue
<1>1. CASE Rollback(u)
    <2>1. Idle \in Transaction /\ Idle.op = "idle"
        BY DEF Transaction, Idle
    <2>2. Reads(u)'
        BY <1>1, <2>1 DEF Rollback, Close, Continue, Reads, TxTypeOK
    <2>3. QED
        BY <1>1, <2>1, <2>2, LockingKeepsTxInv DEF Rollback, Close
<1>2. ASSUME NEW m \in Message, OpenInbound(u, m) PROVE TxInv'
    <2> DEFINE state == [op |-> "begin", m |-> m]
    <2>1. state \in Transaction /\ state.op = "begin" /\ state.m = m
        BY DEF Transaction, BeginTx
    <2>2. tx'[u] = state /\ Continue(u, state)
        BY <1>2 DEF OpenInbound, Continue, TxTypeOK
    <2> HIDE DEF state
    <2>3. Reads(u)'
        BY <1>2, <2>1, <2>2 DEF OpenInbound, Reads, storeVars, inboundVars
    <2>4. QED
        BY <1>2, <2>1, <2>2, <2>3, LockingKeepsTxInv DEF OpenInbound
<1>3. ASSUME NEW p \in Owner, NEW r \in Run, NEW k \in Token,
             AssertOwner(u, p, r, k)
      PROVE  TxInv'
    <2> DEFINE state == [op |-> "owner", p |-> p, r |-> r, k |-> k]
    <2>1. /\ state \in Transaction
          /\ state.op = "owner" /\ state.p = p /\ state.r = r /\ state.k = k
        BY DEF Transaction, OwnerTx
    <2>2. tx'[u] = state /\ Continue(u, state)
        BY <1>3 DEF AssertOwner, Continue, TxTypeOK
    <2> HIDE DEF state
    <2>3. Reads(u)'
        BY <1>3, <2>1, <2>2
           DEF AssertOwner, Reads, Owns, storeVars, runVars
    <2>4. QED
        BY <1>3, <2>1, <2>2, <2>3, LockingKeepsTxInv
           DEF AssertOwner, Unlocked
<1>4. ASSUME NEW c \in Call, ReadLedger(u, c) PROVE TxInv'
    <2> DEFINE state == [op |-> "claim", p |-> tx[u].p, r |-> tx[u].r,
                         k |-> tx[u].k, c |-> c]
    <2>0. tx[u] \in OwnerTx /\ tx[u].op = "owner"
        BY <1>4, Shapes DEF ReadLedger
    <2>1. /\ state \in Transaction
          /\ state.op = "claim" /\ state.p = tx[u].p /\ state.r = tx[u].r
          /\ state.k = tx[u].k /\ state.c = c
        BY <2>0 DEF Transaction, OwnerTx, ClaimTx
    <2>2. tx'[u] = state /\ Continue(u, state)
        BY <1>4 DEF ReadLedger, Continue, TxTypeOK
    <2> HIDE DEF state
    <2>3. Reads(u)'
        BY <1>0, <1>4, <2>0, <2>1, <2>2
           DEF ReadLedger, Reads, Owns, storeVars, runVars
    <2>4. \A w \in Connection \ {u} : ~HoldsRun(w, state.r)
        BY <2>0, <2>1 DEF LocksAreExclusive, HoldsRun, OwnerTx
    <2>5. QED
        BY <1>4, <2>1, <2>2, <2>3, <2>4, LockingKeepsTxInv DEF ReadLedger
<1>5. ASSUME NEW o \in Operation, NEW r \in Run, LockControl(u, o, r)
      PROVE  TxInv'
    <2> DEFINE state == [op |-> "control", o |-> o, r |-> r]
    <2>1. /\ state \in Transaction
          /\ state.op = "control" /\ state.o = o /\ state.r = r
        BY DEF Transaction, ControlTx
    <2>2. tx'[u] = state /\ Continue(u, state)
        BY <1>5 DEF LockControl, Continue, TxTypeOK
    <2> HIDE DEF state
    <2>3. Reads(u)'
        BY <1>5, <2>1, <2>2 DEF LockControl, Fresh, Reads
    <2>4. QED
        BY <1>5, <2>1, <2>2, <2>3, LockingKeepsTxInv
           DEF LockControl, Fresh, Unlocked
<1>6. ASSUME NEW o \in Operation, NEW r \in Run, NEW c \in Call,
             LockTool(u, o, r, c)
      PROVE  TxInv'
    <2> DEFINE state == [op |-> "tool", o |-> o, r |-> r, c |-> c]
    <2>1. /\ state \in Transaction /\ state.op = "tool"
          /\ state.o = o /\ state.r = r /\ state.c = c
        BY DEF Transaction, ResolveTx
    <2>2. tx'[u] = state /\ Continue(u, state)
        BY <1>6 DEF LockTool, Continue, TxTypeOK
    <2> HIDE DEF state
    <2>3. Reads(u)'
        BY <1>6, <2>1, <2>2 DEF LockTool, Fresh, Reads
    <2>4. QED
        BY <1>6, <2>1, <2>2, <2>3, LockingKeepsTxInv DEF LockTool, Fresh
<1>7. CASE LockRunOfTool(u)
    <2> DEFINE state == [tx[u] EXCEPT !.op = "resolve"]
    <2>0. tx[u] \in ResolveTx /\ tx[u].op = "tool"
        BY <1>7, Shapes DEF LockRunOfTool
    <2>1. /\ state \in Transaction /\ state.op = "resolve"
          /\ state.o = tx[u].o /\ state.r = tx[u].r /\ state.c = tx[u].c
        BY <2>0 DEF Transaction, ResolveTx
    <2>2. tx'[u] = state /\ Continue(u, state)
        BY <1>7 DEF LockRunOfTool, Continue, TxTypeOK
    <2> HIDE DEF state
    <2>3. Reads(u)'
        BY <1>0, <1>7, <2>0, <2>1, <2>2 DEF LockRunOfTool, Reads
    <2>4. \A w \in Connection \ {u} : /\ ~HoldsTool(w, state.r, state.c)
                                     /\ ~HoldsOperation(w, state.o)
        BY <2>0, <2>1 DEF LocksAreExclusive, HoldsTool, HoldsOperation,
                          ResolveTx
    <2>5. QED
        BY <1>7, <2>1, <2>2, <2>3, <2>4, LockingKeepsTxInv
           DEF LockRunOfTool, Unlocked
<1>8. QED
    BY <1>1, <1>2, <1>3, <1>4, <1>5, <1>6, <1>7

(* Steps that write and commit: the rows belong to locks of this           *)
(* transaction, or did not exist before.                                   *)
LEMMA CommitKeepsTxInv ==
    ASSUME PgInv, NEW u \in Connection, Close(u),
           operations' \in [Operation -> Command \cup {NoCommand}],
           \A m \in Message : inbound'[m] = inbound[m] \/ HoldsMessage(u, m),
           \A r \in Run :
             \/ /\ status'[r] = status[r] /\ owner'[r] = owner[r]
                /\ token'[r] = token[r] /\ ledger'[r] = ledger[r]
             \/ HoldsRun(u, r)
             \/ status[r] = "absent" /\ ledger'[r] = ledger[r],
           \A o \in Operation :
             operations'[o] = operations[o] \/ HoldsOperation(u, o)
    PROVE  TxInv'
<1> USE DEF PgInv
<1>1. TxTypeOK'
    BY DEF TxTypeOK, Close, Continue, Transaction
<1>2. Idle.op = "idle" /\ tx'[u] = Idle
    BY DEF Idle, Close, Continue, TxTypeOK
<1>3. LocksAreExclusive'
    BY <1>2, LocksStayExclusive DEF Close
<1>4. Reads(u)'
    BY <1>2 DEF Reads
<1>5. ASSUME NEW t \in Connection, t # u PROVE Reads(t)'
    <2>1. tx'[t] = tx[t] /\ Reads(t)
        BY <1>5 DEF Close, Continue, TxTypeOK, ReadsStayTrue
    <2>2. \A r \in Run : HoldsRun(t, r) =>
            /\ ~HoldsRun(u, r)
            /\ tx[t].op \in {"owner", "claim"} => status[r] # "absent"
        BY <1>5, <2>1 DEF LocksAreExclusive, HoldsRun, Reads, Owns
    <2>3. \A m \in Message : HoldsMessage(t, m) => inbound'[m] = inbound[m]
        BY <1>5 DEF LocksAreExclusive
    <2>4. \A o \in Operation : HoldsOperation(t, o) =>
            operations'[o] = operations[o]
        BY <1>5 DEF LocksAreExclusive
    <2>5. \A r \in Run : tx[t].op \in {"owner", "claim"} /\ tx[t].r = r =>
            /\ status'[r] = status[r] /\ owner'[r] = owner[r]
            /\ token'[r] = token[r] /\ ledger'[r] = ledger[r]
        BY <2>2 DEF HoldsRun
    <2>6. /\ tx[t].op = "begin" => tx[t].m \in Message
          /\ tx[t].op \in {"owner", "claim"} => tx[t].r \in Run
          /\ tx[t].op \in {"control", "tool", "resolve"} =>
               tx[t].o \in Operation
        BY Shapes DEF BeginTx, OwnerTx, ClaimTx, ControlTx, ResolveTx
    <2>7. QED
        BY <2>1, <2>3, <2>4, <2>5, <2>6
           DEF Reads, Owns, HoldsMessage, HoldsOperation
<1>6. QED
    BY <1>1, <1>3, <1>4, <1>5 DEF TxInv, ReadsStayTrue

LEMMA RecordIsTyped ==
    ASSUME TxTypeOK, NEW o \in Operation, NEW r \in Run,
           NEW c \in Call \cup {NoCall}, NEW changed \in BOOLEAN,
           Record(o, r, c, changed)
    PROVE  /\ operations' \in [Operation -> Command \cup {NoCommand}]
           /\ operations'[o] = [r |-> r, c |-> c, changed |-> changed]
           /\ \A q \in Operation \ {o} : operations'[q] = operations[q]
    BY DEF TxTypeOK, Record, Command

LEMMA WriteStepKeepsTxInv ==
    ASSUME PgInv, NEW u \in Connection,
           \/ \E p \in Owner, r \in Run, st \in State :
                InsertInbound(u, p, r, st)
           \/ \E st \in State : InsertCheckpoint(u, st)
           \/ \E x \in Text : UpdateCompletion(u, x)
           \/ \E tl \in Tool : InsertExecution(u, tl)
           \/ \E c \in Call, outcome \in {"completed", "failed"} :
                UpdateExecution(u, c, outcome)
           \/ \E action \in ControlAction : Control(u, action)
           \/ \E outcome \in {"completed", "failed"} : Resolve(u, outcome)
    PROVE  TxInv'
<1> USE DEF PgInv
<1>0. operations \in [Operation -> Command \cup {NoCommand}]
    BY DEF TxTypeOK
<1>1. ASSUME NEW p \in Owner, NEW r \in Run, NEW st \in State,
             InsertInbound(u, p, r, st)
      PROVE  TxInv'
    <2>1. tx[u] \in BeginTx
        BY <1>1, Shapes DEF InsertInbound
    <2>2. \A m \in Message : inbound'[m] = inbound[m] \/ HoldsMessage(u, m)
        BY <1>1, <2>1
           DEF InsertInbound, WriteInbound, HoldsMessage, StoreInv,
               StoreTypeOK, BeginTx
    <2>3. \A q \in Run :
            \/ /\ status'[q] = status[q] /\ owner'[q] = owner[q]
               /\ token'[q] = token[q] /\ ledger'[q] = ledger[q]
            \/ status[q] = "absent" /\ ledger'[q] = ledger[q]
        BY <1>1 DEF InsertInbound, WriteInbound, StoreInv, StoreTypeOK
    <2>4. QED
        BY <1>0, <1>1, <2>2, <2>3, CommitKeepsTxInv DEF InsertInbound
<1>2. ASSUME NEW st \in State, InsertCheckpoint(u, st) PROVE TxInv'
    BY <1>0, <1>2, CommitKeepsTxInv
       DEF InsertCheckpoint, WriteCheckpoint, runVars, inboundVars
<1>3. ASSUME NEW x \in Text, UpdateCompletion(u, x) PROVE TxInv'
    <2>1. tx[u].r \in Run
        BY <1>3, Shapes DEF UpdateCompletion, OwnerTx
    <2>2. HoldsRun(u, tx[u].r)
        BY <1>3 DEF UpdateCompletion, HoldsRun
    <2>3. \A q \in Run \ {tx[u].r} :
            /\ status'[q] = status[q] /\ owner'[q] = owner[q]
            /\ token'[q] = token[q] /\ ledger'[q] = ledger[q]
        BY <1>3, <2>1 DEF UpdateCompletion, WriteCompletion, StoreInv,
                          StoreTypeOK
    <2>4. UNCHANGED <<inbound, operations>> /\ Close(u)
        BY <1>3 DEF UpdateCompletion, WriteCompletion
    <2>5. QED
        BY <1>0, <2>2, <2>3, <2>4, CommitKeepsTxInv
<1>4. ASSUME NEW tl \in Tool, InsertExecution(u, tl) PROVE TxInv'
    <2>1. tx[u].r \in Run /\ HoldsRun(u, tx[u].r)
        BY <1>4, Shapes DEF InsertExecution, ClaimTx, HoldsRun
    <2>2. \A q \in Run \ {tx[u].r} : ledger'[q] = ledger[q]
        BY <1>4, <2>1 DEF InsertExecution, WriteExecution, StoreInv,
                          StoreTypeOK
    <2>3. UNCHANGED <<runVars, inboundVars, operations>> /\ Close(u)
        BY <1>4 DEF InsertExecution, WriteExecution
    <2>4. QED
        BY <1>0, <2>1, <2>2, <2>3, CommitKeepsTxInv DEF runVars, inboundVars
<1>5. ASSUME NEW c \in Call, NEW outcome \in {"completed", "failed"},
             UpdateExecution(u, c, outcome)
      PROVE  TxInv'
    <2>1. tx[u].r \in Run /\ HoldsRun(u, tx[u].r)
        BY <1>5, Shapes DEF UpdateExecution, OwnerTx, HoldsRun
    <2>2. \A q \in Run \ {tx[u].r} : ledger'[q] = ledger[q]
        BY <1>5, <2>1 DEF UpdateExecution, SettleRow, StoreInv, StoreTypeOK
    <2>3. UNCHANGED <<runVars, inboundVars, operations>> /\ Close(u)
        BY <1>5 DEF UpdateExecution
    <2>4. QED
        BY <1>0, <2>1, <2>2, <2>3, CommitKeepsTxInv DEF runVars, inboundVars
<1>6. ASSUME NEW action \in ControlAction, Control(u, action) PROVE TxInv'
    <2>1. /\ tx[u].r \in Run /\ HoldsRun(u, tx[u].r)
          /\ tx[u].o \in Operation /\ HoldsOperation(u, tx[u].o)
        BY <1>6, Shapes DEF Control, ControlTx, HoldsRun, HoldsOperation
    <2>2. \A q \in Run \ {tx[u].r} :
            /\ status'[q] = status[q] /\ owner'[q] = owner[q]
            /\ token'[q] = token[q] /\ ledger'[q] = ledger[q]
        BY <1>6, <2>1 DEF Control, AdminControlRun, StoreInv, StoreTypeOK,
                          storeVars, runVars
    <2>3. inbound' = inbound /\ Close(u)
        BY <1>6 DEF Control, AdminControlRun, storeVars, inboundVars
    <2>4. /\ operations' \in [Operation -> Command \cup {NoCommand}]
          /\ \A q \in Operation \ {tx[u].o} : operations'[q] = operations[q]
        BY <1>6, <2>1, RecordIsTyped DEF Control
    <2>5. QED
        BY <2>1, <2>2, <2>3, <2>4, CommitKeepsTxInv
<1>7. ASSUME NEW outcome \in {"completed", "failed"}, Resolve(u, outcome)
      PROVE  TxInv'
    <2>1. /\ tx[u].r \in Run /\ HoldsRun(u, tx[u].r) /\ tx[u].c \in Call
          /\ tx[u].o \in Operation /\ HoldsOperation(u, tx[u].o)
        BY <1>7, Shapes DEF Resolve, ResolveTx, HoldsRun, HoldsOperation
    <2>2. \A q \in Run \ {tx[u].r} : ledger'[q] = ledger[q]
        BY <1>7, <2>1 DEF Resolve, AdminResolveTool, SettleRow, StoreInv,
                          StoreTypeOK, storeVars
    <2>3. UNCHANGED <<runVars, inboundVars>> /\ Close(u)
        BY <1>7 DEF Resolve, AdminResolveTool, storeVars
    <2>4. /\ operations' \in [Operation -> Command \cup {NoCommand}]
          /\ \A q \in Operation \ {tx[u].o} : operations'[q] = operations[q]
        BY <1>7, <2>1, RecordIsTyped DEF Resolve
    <2>5. QED
        BY <2>1, <2>2, <2>3, <2>4, CommitKeepsTxInv DEF runVars, inboundVars
<1>8. QED
    BY <1>1, <1>2, <1>3, <1>4, <1>5, <1>6, <1>7

(* Transactions of one statement wait for, or skip, what is locked.        *)
LEMMA SingleStatementKeepsTxInv ==
    ASSUME PgInv, UNCHANGED <<tx, operations, inbound, ledger>>,
           \A r \in Run : Unlocked(r) \/ UNCHANGED <<status[r], owner[r],
                                                    token[r]>>
    PROVE  TxInv'
<1> USE DEF PgInv
<1>1. TxTypeOK'
    BY DEF TxTypeOK
<1>2. LocksAreExclusive'
    BY DEF LocksAreExclusive, HoldsMessage, HoldsRun, HoldsTool,
           HoldsOperation
<1>3. ASSUME NEW t \in Connection PROVE Reads(t)'
    <2>1. \A r \in Run : HoldsRun(t, r) =>
            /\ status'[r] = status[r] /\ owner'[r] = owner[r]
            /\ token'[r] = token[r]
        BY DEF Unlocked
    <2>2. QED
        BY <2>1, ReadsAreKept DEF ReadsStayTrue
<1>4. QED
    BY <1>1, <1>2, <1>3 DEF TxInv, ReadsStayTrue

(* A command on a missing row is recorded under a lock nobody holds.       *)
LEMMA MissingKeepsTxInv ==
    ASSUME PgInv, NEW o \in Operation, NEW r \in Run,
           NEW c \in Call \cup {NoCall}, RecordMissing(o, r, c)
    PROVE  TxInv'
<1> USE DEF PgInv
<1>1. /\ operations' \in [Operation -> Command \cup {NoCommand}]
      /\ \A q \in Operation \ {o} : operations'[q] = operations[q]
    BY RecordIsTyped DEF RecordMissing
<1>2. TxTypeOK'
    BY <1>1 DEF TxTypeOK, RecordMissing
<1>3. LocksAreExclusive'
    BY DEF RecordMissing, LocksAreExclusive, HoldsMessage, HoldsRun, HoldsTool,
           HoldsOperation
<1>4. ASSUME NEW t \in Connection PROVE Reads(t)'
    <2>1. /\ tx' = tx /\ inbound' = inbound /\ ledger' = ledger
          /\ status' = status /\ owner' = owner /\ token' = token
        BY DEF RecordMissing, storeVars, runVars, inboundVars
    <2>2. tx[t].op \in {"control", "tool", "resolve"} =>
            tx[t].o \in Operation \ {o}
        BY Shapes DEF RecordMissing, HoldsOperation, ControlTx, ResolveTx
    <2>3. Reads(t)
        BY DEF ReadsStayTrue
    <2>4. QED
        BY <1>1, <2>1, <2>2, <2>3 DEF Reads, Owns
<1>5. QED
    BY <1>2, <1>3, <1>4 DEF TxInv, ReadsStayTrue

LEMMA StepKeepsPgInv == PgInv /\ [PgNext]_pgVars => PgInv'
<1> SUFFICES ASSUME PgInv, [PgNext]_pgVars PROVE PgInv'
    OBVIOUS
<1>1. StoreInv'
    BY StepImplementsStore, StepKeepsInv DEF PgInv
<1>2. ASSUME UNCHANGED pgVars PROVE TxInv'
    <2>1. UNCHANGED <<tx, operations, inbound, ledger, status, owner, token>>
        BY <1>2 DEF pgVars, storeVars, runVars, inboundVars
    <2>2. QED
        BY <2>1, SingleStatementKeepsTxInv
<1>3. ASSUME NEW t \in Connection, Transact(t) PROVE TxInv'
    BY <1>3, ReadStepKeepsTxInv, WriteStepKeepsTxInv
       DEF Transact, OwnerStep, AdminTx
<1>4. ASSUME NEW p \in Owner, NEW r \in Run, SingleUpdate(p, r) PROVE TxInv'
    <2>1. UNCHANGED <<tx, operations, inbound, ledger>>
        BY <1>4 DEF SingleUpdate, ClaimRun, TransitionRun, RenewRun,
                    inboundVars
    <2>2. \A q \in Run \ {r} : UNCHANGED <<status[q], owner[q], token[q]>>
        BY <1>4 DEF SingleUpdate, ClaimRun, TransitionRun, RenewRun, PgInv,
                    StoreInv, StoreTypeOK
    <2>3. QED
        BY <1>4, <2>1, <2>2, SingleStatementKeepsTxInv DEF SingleUpdate
<1>5. ASSUME NEW p \in Owner, InterruptUnlocked(p) PROVE TxInv'
    <2>1. UNCHANGED <<tx, operations, inbound, ledger>>
        BY <1>5 DEF InterruptUnlocked, InterruptIncomplete, inboundVars
    <2>2. \A q \in Run : Unlocked(q) \/ UNCHANGED <<status[q], owner[q],
                                                    token[q]>>
        BY <1>5 DEF InterruptUnlocked, InterruptIncomplete, PgInv, StoreInv,
                    StoreTypeOK
    <2>3. QED
        BY <2>1, <2>2, SingleStatementKeepsTxInv
<1>6. ASSUME NEW r \in Run, ClockPasses(r) PROVE TxInv'
    <2>1. UNCHANGED <<tx, operations, inbound, ledger, status, owner, token>>
        BY <1>6 DEF ClockPasses, LeaseExpires, inboundVars
    <2>2. QED
        BY <2>1, SingleStatementKeepsTxInv
<1>7. ASSUME NEW o \in Operation, NEW r \in Run,
             NEW c \in Call \cup {NoCall}, RecordMissing(o, r, c)
      PROVE  TxInv'
    BY <1>7, MissingKeepsTxInv
<1>8. TxInv'
    BY <1>2, <1>3, <1>4, <1>5, <1>6, <1>7 DEF PgNext
<1>9. QED
    BY <1>1, <1>8 DEF PgInv, TxInv

LEMMA PgInitEstablishesInv == PgInit => PgInv
<1> SUFFICES ASSUME PgInit PROVE PgInv
    OBVIOUS
<1>1. \A t \in Connection : tx[t] = Idle /\ tx[t].op = "idle"
    BY DEF PgInit, Idle
<1>2. StoreInv
    BY InitEstablishesInv DEF PgInit
<1>3. TxTypeOK
    BY DEF PgInit, TxTypeOK, Transaction
<1>4. LocksAreExclusive /\ ReadsStayTrue
    BY <1>1 DEF LocksAreExclusive, ReadsStayTrue, Reads, HoldsMessage,
                HoldsRun, HoldsTool, HoldsOperation
<1>5. QED
    BY <1>2, <1>3, <1>4 DEF PgInv

-----------------------------------------------------------------------------
(* The rows and the locks of PostgreSQL are sound together.                *)
THEOREM PostgresIsSound == PgSpec => []PgInv
<1>1. QED
    BY PgInitEstablishesInv, StepKeepsPgInv, PTL DEF PgSpec

(* PgTypeOK: the types of the rows, the transactions and the commands.     *)
THEOREM PostgresIsWellTyped == PgSpec => []PgTypeOK
<1>1. PgInv => PgTypeOK
    BY DEF PgInv, PgTypeOK, StoreInv, TxTypeOK
<1>2. QED
    BY <1>1, PostgresIsSound, PTL

(* FOR UPDATE and the advisory locks exclude each other as they should.    *)
THEOREM LocksExclude == PgSpec => []LocksAreExclusive
<1>1. PgInv => LocksAreExclusive
    BY DEF PgInv
<1>2. QED
    BY <1>1, PostgresIsSound, PTL

(* A transaction may rely on what _assert_owner, the inbound row, the      *)
(* ledger or admin_operations told it, for any number of connections.      *)
THEOREM ReadsAreStable == PgSpec => []ReadsStayTrue
<1>1. PgInv => ReadsStayTrue
    BY DEF PgInv
<1>2. QED
    BY <1>1, PostgresIsSound, PTL

(* PostgresSessionStore and PostgresAdminRepository implement the store of *)
(* whole-method transactions, so all its theorems hold of them.            *)
THEOREM PostgresImplementsStore == PgSpec => ImplementsStore
<1>1. PgInit => StoreInit
    BY DEF PgInit
<1>2. PgInv /\ [PgNext]_pgVars => [StoreNext]_storeVars
    BY StepImplementsStore
<1>3. QED
    BY <1>1, <1>2, PostgresIsSound, PTL
       DEF PgSpec, ImplementsStore, StoreSpec

(* The outcome of a call is written by the transaction that has the run    *)
(* locked and found its caller to own it, or by the administrator's.       *)
LEMMA WorkerOutcomesAreFenced ==
    ASSUME PgInv, NEW u \in Connection, OwnerStep(u), NEW q \in Run
    PROVE  OutcomesAreFenced(q)
<1> USE DEF PgInv, StoreInv, OutcomesAreFenced, WrittenByOwner
<1>0. Reads(u)
    BY DEF ReadsStayTrue
<1>1. ASSUME NEW tl \in Tool, InsertExecution(u, tl)
      PROVE  OutcomesAreFenced(q)
    <2>1. tx[u].r \in Run /\ tx[u].c \in Call
        BY <1>1, Shapes DEF InsertExecution, ClaimTx
    <2>2. Owns(tx[u].p, tx[u].r, tx[u].k)
        BY <1>0, <1>1 DEF InsertExecution, Reads
    <2>3. QED
        BY <1>1, <2>1, <2>2
           DEF InsertExecution, WriteExecution, Owns, StoreTypeOK
<1>2. ASSUME NEW c \in Call, NEW outcome \in {"completed", "failed"},
             UpdateExecution(u, c, outcome)
      PROVE  OutcomesAreFenced(q)
    <2>1. tx[u].r \in Run
        BY <1>2, Shapes DEF UpdateExecution, OwnerTx
    <2>2. Owns(tx[u].p, tx[u].r, tx[u].k)
        BY <1>0, <1>2 DEF UpdateExecution, Reads
    <2>3. QED
        BY <1>2, <2>1, <2>2 DEF UpdateExecution, SettleRow, Owns, StoreTypeOK
<1>3. QED
    BY <1>1, <1>2
       DEF OwnerStep, AssertOwner, InsertCheckpoint, WriteCheckpoint,
           UpdateCompletion, WriteCompletion, ReadLedger, storeVars

LEMMA AdminOutcomesAreFenced ==
    ASSUME PgInv, NEW u \in Connection, AdminTx(u), NEW q \in Run
    PROVE  OutcomesAreFenced(q)
<1> USE DEF PgInv, StoreInv, OutcomesAreFenced
<1>1. ASSUME NEW outcome \in {"completed", "failed"}, Resolve(u, outcome)
      PROVE  OutcomesAreFenced(q)
    <2>1. tx[u].r \in Run /\ tx[u].c \in Call
        BY <1>1, Shapes DEF Resolve, ResolveTx
    <2>2. CASE UNCHANGED storeVars
        BY <2>2 DEF storeVars
    <2>3. CASE AdminResolveTool(tx[u].r, tx[u].c, outcome)
        BY <2>1, <2>3 DEF AdminResolveTool, SettleRow, StoreTypeOK
    <2>4. QED
        BY <1>1, <2>2, <2>3 DEF Resolve
<1>2. QED
    BY <1>1 DEF AdminTx, LockControl, LockTool, LockRunOfTool, Control,
                AdminControlRun, storeVars

(* Fencing in PostgreSQL, complete: _assert_owner keeps the row of the run *)
(* locked until the write it protects commits, so a worker whose run was   *)
(* paused, cancelled or claimed again writes nothing more for it, the      *)
(* outcome of a tool included.                                             *)
THEOREM PostgresFencesWriters == PgSpec => StaleWritersAreRejected
<1>1. ASSUME PgInv, [PgNext]_pgVars
      PROVE  [\A r \in Run : ProgressIsFenced(r) /\ OutcomesAreFenced(r)]_storeVars
    <2>1. [StoreNext]_storeVars
        BY <1>1, StepImplementsStore
    <2>2. CASE UNCHANGED storeVars
        BY <2>2
    <2>3. CASE ~UNCHANGED storeVars
        <3>1. \A r \in Run : ProgressIsFenced(r)
            BY <1>1, <2>1, <2>3, StepIsFenced DEF PgInv
        <3>2. ASSUME NEW t \in Connection, Transact(t), NEW r \in Run
              PROVE  OutcomesAreFenced(r)
            <4>1. CASE OwnerStep(t)
                BY <1>1, <4>1, WorkerOutcomesAreFenced
            <4>2. CASE AdminTx(t)
                BY <1>1, <4>2, AdminOutcomesAreFenced
            <4>3. QED
                BY <3>2, <4>1, <4>2
                   DEF Transact, OpenInbound, InsertInbound, WriteInbound,
                       Rollback, storeVars, OutcomesAreFenced
        <3>3. (\E t \in Connection : Transact(t)) \/ UNCHANGED ledger
            BY <1>1
               DEF PgNext, SingleUpdate, ClaimRun, TransitionRun, RenewRun,
                   InterruptUnlocked, InterruptIncomplete, RecordMissing,
                   ClockPasses, LeaseExpires, pgVars, storeVars
        <3>4. \A r \in Run : OutcomesAreFenced(r)
            BY <3>2, <3>3 DEF OutcomesAreFenced
        <3>5. QED
            BY <3>1, <3>4
    <2>4. QED
        BY <2>2, <2>3
<1>2. QED
    BY <1>1, PostgresIsSound, PTL DEF PgSpec, StaleWritersAreRejected

-----------------------------------------------------------------------------
(* The audit of dispositions.                                              *)

LEMMA CommandsAreNotNull ==
    \A r \in Run, c \in Call \cup {NoCall}, b \in BOOLEAN :
        [r |-> r, c |-> c, changed |-> b] # NoCommand
    BY PostgresStoreAssumption

LEMMA CommandsAreDistinct ==
    ASSUME NEW r, NEW c, NEW b, NEW s, NEW d, NEW e,
           [r |-> r, c |-> c, changed |-> b] = [r |-> s, c |-> d, changed |-> e]
    PROVE  r = s /\ c = d /\ b = e
<1>1. /\ [r |-> r, c |-> c, changed |-> b].r = r
      /\ [r |-> r, c |-> c, changed |-> b].c = c
      /\ [r |-> r, c |-> c, changed |-> b].changed = b
      /\ [r |-> s, c |-> d, changed |-> e].r = s
      /\ [r |-> s, c |-> d, changed |-> e].c = d
      /\ [r |-> s, c |-> d, changed |-> e].changed = e
    OBVIOUS
<1>2. QED
    BY <1>1

(* Recording a command changes what its own operation disposes of, and     *)
(* nothing else.                                                           *)
LEMMA RecordedDisposition ==
    ASSUME TxTypeOK, NEW o \in Operation, NEW r \in Run,
           NEW c \in Call \cup {NoCall}, NEW changed \in BOOLEAN,
           operations[o] = NoCommand, Record(o, r, c, changed),
           NEW q \in Operation, NEW s \in Run, NEW d \in Call
    PROVE  /\ Disposes(q, s, d)' <=>
                \/ Disposes(q, s, d)
                \/ q = o /\ s = r /\ d = c /\ changed
           /\ ~Disposes(o, s, d)
<1>1. /\ operations'[o] = [r |-> r, c |-> c, changed |-> changed]
      /\ q # o => operations'[q] = operations[q]
    BY RecordIsTyped
<1>2. ~Disposes(o, s, d)
    BY CommandsAreNotNull DEF Disposes
<1>3. CASE q # o
    BY <1>1, <1>2, <1>3 DEF Disposes
<1>4. CASE q = o
    <2>1. Disposes(o, s, d)' <=>
            [r |-> r, c |-> c, changed |-> changed]
              = [r |-> s, c |-> d, changed |-> TRUE]
        BY <1>1 DEF Disposes
    <2>2. Disposes(o, s, d)' => r = s /\ c = d /\ changed = TRUE
        BY <2>1, CommandsAreDistinct
    <2>3. s = r /\ d = c /\ changed => Disposes(o, s, d)'
        <3>1. changed => changed = TRUE
            OBVIOUS
        <3>2. QED
            BY <2>1, <3>1
    <2>4. QED
        BY <1>2, <1>4, <2>2, <2>3
<1>5. QED
    BY <1>2, <1>3, <1>4

LEMMA ResolveKeepsAudit ==
    ASSUME PgInv, DispositionsAreAudited, NEW u \in Connection,
           NEW outcome \in {"completed", "failed"}, Resolve(u, outcome)
    PROVE  DispositionsAreAudited'
<1> USE DEF PgInv
<1>1. PICK o \in Operation, r \in Run, c \in Call :
        o = tx[u].o /\ r = tx[u].r /\ c = tx[u].c
    BY Shapes DEF Resolve, ResolveTx
<1>2. operations[o] = NoCommand
    BY <1>1 DEF Resolve, ReadsStayTrue, Reads
<1>3. CASE /\ AdminResolveTool(r, c, outcome)
           /\ Record(o, r, c, TRUE)
    <2>1. /\ ~Settled(r, c)
          /\ ledger'[r][c].status = outcome
          /\ ledger'[r][c].by = NoToken
        BY <1>1, <1>3 DEF AdminResolveTool, SettleRow, Settled, StoreInv,
                          StoreTypeOK
    <2>2. \A s \in Run, d \in Call :
            s # r \/ d # c => ledger'[s][d] = ledger[s][d]
        BY <1>1, <1>3 DEF AdminResolveTool, SettleRow, StoreInv, StoreTypeOK
    <2>3. Settled(r, c)'
        BY <2>1 DEF Settled
    <2>4. \A s \in Run, d \in Call :
            s # r \/ d # c => (Settled(s, d)' <=> Settled(s, d))
        BY <2>2 DEF Settled
    <2>5. \A q \in Operation : ~Disposes(q, r, c)
        BY <1>1, <2>1 DEF DispositionsAreAudited
    <2>6. \A q \in Operation, s \in Run, d \in Call :
            Disposes(q, s, d)' <=>
              Disposes(q, s, d) \/ (q = o /\ s = r /\ d = c)
        <3>1. PICK done \in BOOLEAN : done = TRUE
            OBVIOUS
        <3>2. Record(o, r, c, done)
            BY <1>3, <3>1
        <3>3. TxTypeOK /\ c \in Call \cup {NoCall}
            OBVIOUS
        <3>4. \A q \in Operation, s \in Run, d \in Call :
                Disposes(q, s, d)' <=>
                  Disposes(q, s, d) \/ (q = o /\ s = r /\ d = c /\ done)
            <4> TAKE q \in Operation, s \in Run, d \in Call
            <4> HIDE DEF PgInv
            <4> QED
                BY <1>2, <3>2, <3>3, RecordedDisposition
        <3>5. QED
            BY <3>1, <3>4
    <2>7. ASSUME NEW s \in Run, NEW d \in Call
          PROVE  /\ (\E q \in Operation : Disposes(q, s, d)')
                      <=> Settled(s, d)' /\ ledger'[s][d].by = NoToken
                 /\ \A q1, q2 \in Operation :
                      Disposes(q1, s, d)' /\ Disposes(q2, s, d)' => q1 = q2
        <3>1. CASE s = r /\ d = c
            BY <1>1, <2>1, <2>3, <2>5, <2>6, <3>1
        <3>2. CASE s # r \/ d # c
            BY <2>2, <2>4, <2>6, <3>2 DEF DispositionsAreAudited
        <3>3. QED
            BY <3>1, <3>2
    <2>8. QED
        BY <2>7 DEF DispositionsAreAudited
<1>4. CASE Record(o, r, c, FALSE) /\ UNCHANGED storeVars
    <2>1. \A q \in Operation, s \in Run, d \in Call :
            Disposes(q, s, d)' <=> Disposes(q, s, d)
        <3>1. /\ TxTypeOK /\ o \in Operation /\ r \in Run
              /\ c \in Call \cup {NoCall} /\ FALSE \in BOOLEAN
            BY <1>1
        <3>2. QED
            BY <1>2, <1>4, <3>1, RecordedDisposition, Zenon
    <2>2. \A s \in Run, d \in Call : Settled(s, d)' <=> Settled(s, d)
        BY <1>4 DEF Settled, storeVars
    <2>3. QED
        BY <1>4, <2>1, <2>2 DEF DispositionsAreAudited, storeVars
<1>5. QED
    BY <1>1, <1>3, <1>4 DEF Resolve

LEMMA ControlKeepsAudit ==
    ASSUME PgInv, DispositionsAreAudited, NEW u \in Connection,
           NEW action \in ControlAction, Control(u, action)
    PROVE  DispositionsAreAudited'
<1> USE DEF PgInv
<1>1. tx[u].o \in Operation /\ tx[u].r \in Run
    BY Shapes DEF Control, ControlTx
<1>2. operations[tx[u].o] = NoCommand
    BY DEF Control, ReadsStayTrue, Reads
<1>3. PICK changed \in BOOLEAN : Record(tx[u].o, tx[u].r, NoCall, changed)
    BY DEF Control
<1>4. \A q \in Operation, s \in Run, d \in Call :
        Disposes(q, s, d)' <=> Disposes(q, s, d)
    BY <1>1, <1>2, <1>3, RecordedDisposition, PostgresStoreAssumption
<1>5. ledger' = ledger
    BY DEF Control, AdminControlRun, storeVars
<1>6. \A s \in Run, d \in Call : Settled(s, d)' <=> Settled(s, d)
    BY <1>5 DEF Settled
<1>7. QED
    BY <1>4, <1>5, <1>6 DEF DispositionsAreAudited

LEMMA ToolWriteKeepsAudit ==
    ASSUME PgInv, DispositionsAreAudited, NEW u \in Connection,
           \/ \E tl \in Tool : InsertExecution(u, tl)
           \/ \E c \in Call, outcome \in {"completed", "failed"} :
                UpdateExecution(u, c, outcome)
    PROVE  DispositionsAreAudited'
<1> USE DEF PgInv
<1>1. operations' = operations
    BY DEF InsertExecution, UpdateExecution
<1>2. \A s \in Run, d \in Call :
        (Settled(s, d) /\ ledger[s][d].by = NoToken)'
          <=> Settled(s, d) /\ ledger[s][d].by = NoToken
    <2>1. ASSUME NEW tl \in Tool, InsertExecution(u, tl)
          PROVE  \A s \in Run, d \in Call :
                   \/ ledger'[s][d] = ledger[s][d]
                   \/ ~Settled(s, d) /\ ~Settled(s, d)'
        <3>1. /\ tx[u].r \in Run /\ tx[u].c \in Call
              /\ ledger[tx[u].r][tx[u].c].status = "absent"
            BY <2>1, Shapes DEF InsertExecution, ClaimTx, ReadsStayTrue, Reads
        <3>2. QED
            BY <2>1, <3>1 DEF InsertExecution, WriteExecution, Settled,
                              StoreInv, StoreTypeOK
    <2>2. ASSUME NEW c \in Call, NEW outcome \in {"completed", "failed"},
                 UpdateExecution(u, c, outcome)
          PROVE  \A s \in Run, d \in Call :
                   \/ ledger'[s][d] = ledger[s][d]
                   \/ ~Settled(s, d) /\ ledger'[s][d].by # NoToken
        <3>1. tx[u].r \in Run /\ tx[u].k \in Token
            BY <2>2, Shapes DEF UpdateExecution, OwnerTx
        <3>2. tx[u].k # NoToken
            BY <3>1, RunStoreAssumption DEF Token, NoToken
        <3>3. QED
            BY <2>2, <3>1, <3>2 DEF UpdateExecution, SettleRow, Settled,
                                    StoreInv, StoreTypeOK
    <2>3. QED
        BY <2>1, <2>2 DEF Settled
<1>3. QED
    BY <1>1, <1>2 DEF DispositionsAreAudited, Disposes

LEMMA StepKeepsAudit ==
    PgInv /\ DispositionsAreAudited /\ [PgNext]_pgVars
      => DispositionsAreAudited'
<1> SUFFICES ASSUME PgInv, DispositionsAreAudited, [PgNext]_pgVars
             PROVE  DispositionsAreAudited'
    OBVIOUS
<1>1. ASSUME UNCHANGED <<ledger, operations>> PROVE DispositionsAreAudited'
    BY <1>1 DEF DispositionsAreAudited, Disposes, Settled
<1>2. ASSUME NEW t \in Connection, Transact(t) PROVE DispositionsAreAudited'
    BY <1>1, <1>2, ToolWriteKeepsAudit, ControlKeepsAudit, ResolveKeepsAudit
       DEF Transact, OwnerStep, AdminTx, OpenInbound, InsertInbound,
           WriteInbound, AssertOwner, InsertCheckpoint, WriteCheckpoint,
           UpdateCompletion, WriteCompletion, ReadLedger, LockControl,
           LockTool, LockRunOfTool, Rollback, storeVars
<1>3. ASSUME NEW o \in Operation, NEW r \in Run,
             NEW c \in Call \cup {NoCall}, RecordMissing(o, r, c)
      PROVE  DispositionsAreAudited'
    <2>1. \A q \in Operation, s \in Run, d \in Call :
            Disposes(q, s, d)' <=> Disposes(q, s, d)
        <3>1. TxTypeOK /\ FALSE \in BOOLEAN
            BY DEF PgInv
        <3>2. operations[o] = NoCommand /\ Record(o, r, c, FALSE)
            BY <1>3 DEF RecordMissing
        <3>3. QED
            BY <3>1, <3>2, RecordedDisposition, Zenon
    <2>2. ledger' = ledger
        BY <1>3 DEF RecordMissing, storeVars
    <2>3. QED
        BY <2>1, <2>2 DEF DispositionsAreAudited, Settled
<1>4. QED
    BY <1>1, <1>2, <1>3
       DEF PgNext, SingleUpdate, ClaimRun, TransitionRun, RenewRun,
           InterruptUnlocked, InterruptIncomplete, ClockPasses, LeaseExpires,
           pgVars, storeVars

(* The ledger and admin_operations agree, for any number of operators who  *)
(* repeat their commands on any number of connections.                     *)
THEOREM DispositionsAreRecorded == PgSpec => []DispositionsAreAudited
<1>1. PgInit => DispositionsAreAudited
    <2> SUFFICES ASSUME PgInit PROVE DispositionsAreAudited
        OBVIOUS
    <2>1. \A o \in Operation, r \in Run, c \in Call : ~Disposes(o, r, c)
        BY CommandsAreNotNull DEF PgInit, Disposes
    <2>2. \A r \in Run, c \in Call : ~Settled(r, c)
        BY DEF PgInit, StoreInit, NoExecution, Settled
    <2>3. QED
        BY <2>1, <2>2 DEF DispositionsAreAudited
<1>2. PgInv /\ DispositionsAreAudited /\ [PgNext]_pgVars
        => DispositionsAreAudited'
    BY StepKeepsAudit
<1>3. QED
    BY <1>1, <1>2, PostgresIsSound, PTL DEF PgSpec

-----------------------------------------------------------------------------
(* PostgresApprovals.  What makes the invariant inductive is that the      *)
(* locks exclude: then what create and decide have read still holds when   *)
(* they write.                                                             *)

(* The advisory lock of a call and the lock of a row have one holder.      *)
OneHolder ==
    \A t, u \in Connection, a \in Request :
        \/ HoldsCreation(t, a) /\ HoldsCreation(u, a)
        \/ HoldsRequest(t, a) /\ HoldsRequest(u, a)
        => t = u

PgApprovalInv == /\ PgApprovalTypeOK
                 /\ ApprovalInv
                 /\ OneHolder
                 /\ DecisionsStandOnReads

LEMMA TxShapes ==
    ASSUME PgApprovalTypeOK, NEW t \in Connection
    PROVE  /\ deciding[t].op = "create" => deciding[t] \in CreateTx
           /\ deciding[t].op = "click" => deciding[t] \in ClickTx
           /\ deciding[t].op = "decide" => deciding[t] \in DecideTx
    BY DEF PgApprovalTypeOK, Idle, CreateTx, ClickTx, DecideTx

(* What a step of the rows keeps is the invariant of the approval store;   *)
(* the rest is about the transactions.                                     *)
LEMMA PgApprovalInvFrom ==
    ASSUME PgApprovalTypeOK, ApprovalInv',
           deciding' \in [Connection -> {Idle} \cup CreateTx \cup ClickTx
                                         \cup DecideTx],
           OneHolder', DecisionsStandOnReads'
    PROVE  PgApprovalInv'
    BY DEF PgApprovalInv, PgApprovalTypeOK, ApprovalInv

LEMMA EndingLeaves ==
    ASSUME PgApprovalTypeOK, NEW t \in Connection, End(t)
    PROVE  /\ deciding'[t] = Idle
           /\ \A u \in Connection \ {t} : deciding'[u] = deciding[u]
           /\ deciding' \in [Connection -> {Idle} \cup CreateTx \cup ClickTx
                                            \cup DecideTx]
    BY DEF End, Proceed, PgApprovalTypeOK

(* The end of a transaction gives up its locks; the rows of the others     *)
(* must not have moved.                                                    *)
LEMMA EndingKeepsInv ==
    ASSUME PgApprovalInv, ApprovalInv', NEW t \in Connection, End(t),
           \A u \in Connection \ {t} :
             deciding[u].op \in {"create", "decide"} =>
               approval'[deciding[u].a] = approval[deciding[u].a]
    PROVE  PgApprovalInv'
<1> USE DEF PgApprovalInv
<1>1. /\ deciding'[t] = Idle
      /\ \A u \in Connection \ {t} : deciding'[u] = deciding[u]
      /\ deciding' \in [Connection -> {Idle} \cup CreateTx \cup ClickTx
                                       \cup DecideTx]
    BY EndingLeaves
<1>2. OneHolder'
    BY <1>1 DEF OneHolder, HoldsCreation, HoldsRequest, Idle
<1>3. DecisionsStandOnReads'
    BY <1>1 DEF DecisionsStandOnReads, Idle
<1>4. QED
    BY <1>1, <1>2, <1>3, PgApprovalInvFrom

LEMMA RowsStay ==
    ASSUME ApprovalInv, UNCHANGED approvalVars
    PROVE  ApprovalInv'
    BY DEF ApprovalInv, approvalVars, ApprovalTypeOK, ExecutionNeedsDecision,
       DecidedByOneEvent, OnlyRefusalsAreConsumed, NothingDecidedBeforeCreate

LEMMA GiveUpKeepsPgInv ==
    ASSUME PgApprovalInv, NEW t \in Connection, GiveUp(t)
    PROVE  PgApprovalInv'
<1>1. ApprovalInv'
    BY RowsStay DEF GiveUp, PgApprovalInv
<1>2. QED
    BY <1>1, EndingKeepsInv DEF GiveUp, approvalVars

LEMMA LookKeepsPgInv ==
    ASSUME PgApprovalInv, NEW t \in Connection, NEW a \in Request,
           LookForRequest(t, a)
    PROVE  PgApprovalInv'
<1> USE DEF PgApprovalInv
<1>1. ApprovalInv' /\ approval' = approval
    BY RowsStay DEF LookForRequest, approvalVars
<1>2. /\ deciding'[t] = [op |-> "create", a |-> a]
      /\ \A u \in Connection \ {t} : deciding'[u] = deciding[u]
    BY DEF LookForRequest, Proceed, PgApprovalTypeOK
<1>3. [op |-> "create", a |-> a] \in CreateTx
    BY DEF CreateTx
<1>4. deciding' \in [Connection -> {Idle} \cup CreateTx \cup ClickTx
                                    \cup DecideTx]
    BY <1>3 DEF LookForRequest, Proceed, PgApprovalTypeOK
<1>5. OneHolder'
    BY <1>2 DEF OneHolder, HoldsCreation, HoldsRequest, LookForRequest
<1>6. DecisionsStandOnReads'
    BY <1>1, <1>2 DEF DecisionsStandOnReads, LookForRequest
<1>7. QED
    BY <1>1, <1>4, <1>5, <1>6, PgApprovalInvFrom

LEMMA ReadClockKeepsPgInv ==
    ASSUME PgApprovalInv, NEW t \in Connection, NEW a \in Request,
           NEW v \in Verdict, NEW e \in Event, ReadClock(t, a, v, e)
    PROVE  PgApprovalInv'
<1> USE DEF PgApprovalInv
<1>1. ApprovalInv' /\ approval' = approval
    BY RowsStay DEF ReadClock, approvalVars
<1>2. /\ deciding'[t] = [op |-> "click", a |-> a, verdict |-> v, e |-> e,
                        late |-> overdue[a]]
      /\ \A u \in Connection \ {t} : deciding'[u] = deciding[u]
    BY DEF ReadClock, Proceed, PgApprovalTypeOK
<1>3. deciding'[t] \in ClickTx
    BY <1>2 DEF ClickTx, ApprovalInv, ApprovalTypeOK
<1>4. deciding' \in [Connection -> {Idle} \cup CreateTx \cup ClickTx
                                    \cup DecideTx]
    BY <1>2, <1>3 DEF ReadClock, Proceed, PgApprovalTypeOK
<1>5. OneHolder'
    BY <1>2 DEF OneHolder, HoldsCreation, HoldsRequest
<1>6. DecisionsStandOnReads'
    BY <1>1, <1>2 DEF DecisionsStandOnReads
<1>7. QED
    BY <1>1, <1>4, <1>5, <1>6, PgApprovalInvFrom

LEMMA LockRequestKeepsPgInv ==
    ASSUME PgApprovalInv, NEW t \in Connection, LockRequest(t)
    PROVE  PgApprovalInv'
<1> USE DEF PgApprovalInv
<1>1. ApprovalInv' /\ approval' = approval
    BY RowsStay DEF LockRequest, approvalVars
<1>2. deciding[t] \in ClickTx
    BY TxShapes DEF LockRequest
<1>3. /\ deciding'[t] = [op |-> "decide", a |-> deciding[t].a,
                        verdict |-> deciding[t].verdict, e |-> deciding[t].e]
      /\ \A u \in Connection \ {t} : deciding'[u] = deciding[u]
    BY DEF LockRequest, Proceed, PgApprovalTypeOK
<1>4. deciding'[t] \in DecideTx
    BY <1>2, <1>3 DEF ClickTx, DecideTx
<1>5. deciding' \in [Connection -> {Idle} \cup CreateTx \cup ClickTx
                                    \cup DecideTx]
    BY <1>3, <1>4 DEF LockRequest, Proceed, PgApprovalTypeOK
<1>6. OneHolder'
    BY <1>3 DEF OneHolder, HoldsCreation, HoldsRequest, LockRequest, Free
<1>7. DecisionsStandOnReads'
    BY <1>1, <1>3 DEF DecisionsStandOnReads, LockRequest
<1>8. QED
    BY <1>1, <1>5, <1>6, <1>7, PgApprovalInvFrom

LEMMA InsertIsCreate ==
    ASSUME PgApprovalInv, NEW t \in Connection, NEW k \in Continuation,
           InsertRequest(t, k)
    PROVE  deciding[t].a \in Request /\ CreateRequest(deciding[t].a, k)
<1>1. deciding[t] \in CreateTx
    BY TxShapes DEF InsertRequest, PgApprovalInv
<1>2. QED
    BY <1>1 DEF InsertRequest, CreateRequest, CreateTx

LEMMA InsertKeepsPgInv ==
    ASSUME PgApprovalInv, NEW t \in Connection, NEW k \in Continuation,
           InsertRequest(t, k)
    PROVE  PgApprovalInv'
<1> USE DEF PgApprovalInv
<1>1. ApprovalInv'
    BY InsertIsCreate, CreateRequestKeepsInv
<1>2. \A u \in Connection \ {t} :
        deciding[u].op \in {"create", "decide"} =>
          deciding[u].a # deciding[t].a
    BY InsertIsCreate
       DEF InsertRequest, OneHolder, HoldsCreation, DecisionsStandOnReads
<1>3. \A u \in Connection \ {t} :
        deciding[u].op \in {"create", "decide"} =>
          approval'[deciding[u].a] = approval[deciding[u].a]
    BY <1>2, TxShapes
       DEF InsertRequest, CreateTx, DecideTx, ApprovalInv, ApprovalTypeOK
<1>4. QED
    BY <1>1, <1>3, EndingKeepsInv DEF InsertRequest

LEMMA ExpireIsExpiry ==
    ASSUME PgApprovalInv, NEW t \in Connection, ExpireClicked(t)
    PROVE  deciding[t].a \in Request /\ Expires(deciding[t].a)
<1>1. deciding[t] \in ClickTx
    BY TxShapes DEF ExpireClicked, PgApprovalInv
<1>2. QED
    BY <1>1 DEF ExpireClicked, Expires, ClickTx

LEMMA ExpireClickedKeepsPgInv ==
    ASSUME PgApprovalInv, NEW t \in Connection, ExpireClicked(t)
    PROVE  PgApprovalInv'
<1> USE DEF PgApprovalInv
<1>1. ApprovalInv'
    BY ExpireIsExpiry, ExpiryKeepsInv
<1>2. \A u \in Connection \ {t} :
        deciding[u].op \in {"create", "decide"} =>
          deciding[u].a # deciding[t].a
    BY DEF ExpireClicked, Free, HoldsRequest, DecisionsStandOnReads
<1>3. \A u \in Connection \ {t} :
        deciding[u].op \in {"create", "decide"} =>
          approval'[deciding[u].a] = approval[deciding[u].a]
    BY <1>2, TxShapes
       DEF ExpireClicked, CreateTx, DecideTx, ApprovalInv, ApprovalTypeOK
<1>4. QED
    BY <1>1, <1>3, EndingKeepsInv DEF ExpireClicked

(* The request is still pending: the update of decide finds it.            *)
LEMMA RecordIsDecision ==
    ASSUME PgApprovalInv, NEW t \in Connection, RecordDecision(t)
    PROVE  /\ deciding[t] \in DecideTx
           /\ Requester[deciding[t].a] \in Actor
           /\ Records(deciding[t].a, deciding[t].verdict,
                      Requester[deciding[t].a], deciding[t].e)
<1>1. deciding[t] \in DecideTx
    BY TxShapes DEF RecordDecision, PgApprovalInv
<1>2. approval[deciding[t].a] = "pending"
    BY DEF RecordDecision, PgApprovalInv, DecisionsStandOnReads
<1>3. QED
    BY <1>1, <1>2, ApprovalStoreAssumption DEF RecordDecision, Records,
       DecideTx

LEMMA RecordKeepsPgInv ==
    ASSUME PgApprovalInv, NEW t \in Connection, RecordDecision(t)
    PROVE  PgApprovalInv'
<1> USE DEF PgApprovalInv
<1>1. ApprovalInv'
    BY RecordIsDecision, RecordKeepsInv DEF DecideTx
<1>2. \A u \in Connection \ {t} :
        deciding[u].op \in {"create", "decide"} =>
          deciding[u].a # deciding[t].a
    BY RecordIsDecision
       DEF RecordDecision, OneHolder, HoldsRequest, DecisionsStandOnReads,
           DecideTx
<1>3. \A u \in Connection \ {t} :
        deciding[u].op \in {"create", "decide"} =>
          approval'[deciding[u].a] = approval[deciding[u].a]
    BY <1>2, RecordIsDecision, TxShapes
       DEF Records, CreateTx, DecideTx, ApprovalInv, ApprovalTypeOK
<1>4. QED
    BY <1>1, <1>3, EndingKeepsInv DEF RecordDecision

(* The single statements move no row that a transaction stands on.         *)
LEMMA StatementsKeepPgInv ==
    ASSUME PgApprovalInv,
           \/ \E a \in Request : UpdateRequest(a) \/ DeadlinePassesBy(a)
           \/ ExpireRequests
    PROVE  PgApprovalInv'
<1> USE DEF PgApprovalInv
<1>1. ApprovalInv'
    <2>1. ApprovalNext
        BY DEF UpdateRequest, DeadlinePassesBy, ExpireRequests, ApprovalNext
    <2>2. QED
        BY <2>1, ApprovalStepKeepsInv
<1>2. deciding' = deciding
    BY DEF UpdateRequest, DeadlinePassesBy, ExpireRequests
<1>3. ASSUME NEW b \in Request, approval'[b] # approval[b]
      PROVE  Free(b) /\ approval[b] # "absent"
    <2>1. CASE \E a \in Request : UpdateRequest(a)
        BY <1>3, <2>1 DEF UpdateRequest, ClaimExecution, CompleteApproval,
           FailApproval, MarkConsumed, Move, ApprovalInv, ApprovalTypeOK
    <2>2. CASE \E a \in Request : DeadlinePassesBy(a)
        BY <1>3, <2>2 DEF DeadlinePassesBy, DeadlinePasses
    <2>3. CASE ExpireRequests
        BY <1>3, <2>3 DEF ExpireRequests, ExpirePending, AfterExpiry, Expired
    <2>4. QED
        BY <2>1, <2>2, <2>3
<1>4. OneHolder'
    BY <1>2 DEF OneHolder, HoldsCreation, HoldsRequest
<1>5. DecisionsStandOnReads'
    <2>1. \A t \in Connection :
            deciding[t].op \in {"create", "decide"} => deciding[t].a \in Request
        BY TxShapes DEF CreateTx, DecideTx
    <2>2. QED
        BY <1>2, <1>3, <2>1 DEF DecisionsStandOnReads, Free, HoldsRequest
<1>6. QED
    BY <1>1, <1>2, <1>4, <1>5, PgApprovalInvFrom DEF PgApprovalTypeOK

LEMMA PgApprovalStepKeepsInv ==
    PgApprovalInv /\ [PgApprovalNext]_pgApprovalVars => PgApprovalInv'
<1> SUFFICES ASSUME PgApprovalInv, [PgApprovalNext]_pgApprovalVars
             PROVE  PgApprovalInv'
    OBVIOUS
<1>1. CASE UNCHANGED pgApprovalVars
    <2>1. ApprovalInv' /\ deciding' = deciding /\ approval' = approval
        BY <1>1, RowsStay DEF pgApprovalVars, approvalVars, PgApprovalInv
    <2>2. OneHolder' /\ DecisionsStandOnReads'
        BY <2>1 DEF PgApprovalInv, OneHolder, HoldsCreation, HoldsRequest,
           DecisionsStandOnReads
    <2>3. QED
        BY <2>1, <2>2, PgApprovalInvFrom DEF PgApprovalInv, PgApprovalTypeOK
<1>2. QED
    BY <1>1, GiveUpKeepsPgInv, LookKeepsPgInv, ReadClockKeepsPgInv,
       LockRequestKeepsPgInv, InsertKeepsPgInv, ExpireClickedKeepsPgInv,
       RecordKeepsPgInv, StatementsKeepPgInv DEF PgApprovalNext

(* The invariant holds in every reachable state of the store.              *)
THEOREM PgApprovalsAreSound == PgApprovalSpec => []PgApprovalInv
<1>1. PgApprovalInit => PgApprovalInv
    <2> SUFFICES ASSUME PgApprovalInit PROVE PgApprovalInv
        OBVIOUS
    <2>1. ApprovalInv
        BY InitEstablishesApprovalInv DEF PgApprovalInit
    <2>2. \A t \in Connection : deciding[t] = Idle
        BY DEF PgApprovalInit
    <2>3. OneHolder /\ DecisionsStandOnReads
        BY <2>2 DEF OneHolder, HoldsCreation, HoldsRequest,
           DecisionsStandOnReads, Idle
    <2>4. QED
        BY <2>1, <2>3 DEF PgApprovalInit, PgApprovalInv, PgApprovalTypeOK,
           ApprovalInv
<1>2. PgApprovalInv /\ [PgApprovalNext]_pgApprovalVars => PgApprovalInv'
    BY PgApprovalStepKeepsInv
<1>3. QED
    BY <1>1, <1>2, PTL DEF PgApprovalSpec

(* decide, expire_pending and claim_execution, statement by statement on   *)
(* any number of connections: an executor has a request only after its own *)
(* requester decided it, by an event on record.                            *)
THEOREM PgExecutorsHaveDecisions == PgApprovalSpec => []ExecutionNeedsDecision
<1>1. PgApprovalInv => ExecutionNeedsDecision
    BY DEF PgApprovalInv, ApprovalInv
<1>2. QED
    BY <1>1, PgApprovalsAreSound, PTL

(* approval_events: no two events decide one request, though decide reads  *)
(* before it writes.                                                       *)
THEOREM PgEventsDecideOnce == PgApprovalSpec => []DecidedByOneEvent
<1>1. PgApprovalInv => DecidedByOneEvent
    BY DEF PgApprovalInv, ApprovalInv
<1>2. QED
    BY <1>1, PgApprovalsAreSound, PTL

-----------------------------------------------------------------------------
(* The store implements Consent.                                           *)

LEMMA PgStepImplementsConsent ==
    PgApprovalInv /\ [PgApprovalNext]_pgApprovalVars
      => [ConsentContract!Next]_(ConsentContract!vars)
<1> SUFFICES ASSUME PgApprovalInv, [PgApprovalNext]_pgApprovalVars
             PROVE  [ConsentContract!Next]_(ConsentContract!vars)
    OBVIOUS
<1>0. ApprovalInv /\ ApprovalTypeOK
    BY DEF PgApprovalInv, ApprovalInv
<1>1. CASE [ApprovalNext]_approvalVars
    BY <1>0, <1>1, StepImplementsConsent
<1>2. ASSUME NEW t \in Connection, NEW k \in Continuation, InsertRequest(t, k)
      PROVE  ApprovalNext
    BY <1>2, InsertIsCreate DEF ApprovalNext
<1>3. ASSUME NEW t \in Connection, ExpireClicked(t)
      PROVE  ConsentContract!Next
    BY <1>0, <1>3, ExpireIsExpiry, ExpiryIsSettle DEF ConsentContract!Next
<1>4. ASSUME NEW t \in Connection, RecordDecision(t)
      PROVE  ConsentContract!Next
    <2>1. /\ deciding[t].a \in Request
          /\ deciding[t].verdict \in Verdict
          /\ deciding[t].e \in Event
        BY <1>4, RecordIsDecision DEF DecideTx
    <2>2. \/ ConsentContract!Settle({deciding[t].a}, "granted")
          \/ ConsentContract!Settle({deciding[t].a}, "refused")
        BY <1>0, <1>4, <2>1, RecordIsDecision, RecordIsSettle
    <2>3. QED
        BY <2>1, <2>2 DEF ConsentContract!Next
<1>5. ASSUME NEW t \in Connection,
             \/ \E a \in Request : LookForRequest(t, a)
             \/ \E a \in Request, v \in Verdict, e \in Event :
                  ReadClock(t, a, v, e)
             \/ LockRequest(t)
             \/ GiveUp(t)
      PROVE  UNCHANGED approvalVars
    BY <1>5 DEF LookForRequest, ReadClock, LockRequest, GiveUp
<1>6. ASSUME \/ \E a \in Request : UpdateRequest(a) \/ DeadlinePassesBy(a)
             \/ ExpireRequests
      PROVE  ApprovalNext
    BY <1>6 DEF UpdateRequest, DeadlinePassesBy, ExpireRequests, ApprovalNext
<1>7. CASE UNCHANGED pgApprovalVars
    BY <1>1, <1>7 DEF pgApprovalVars
<1>8. QED
    BY <1>1, <1>2, <1>3, <1>4, <1>5, <1>6, <1>7 DEF PgApprovalNext

(* A decision is final and pays for one execution, for any number of       *)
(* connections: the clock that decide read too early changes when a        *)
(* request expires and never what is promised.                             *)
THEOREM PgApprovalsImplementConsent == PgApprovalSpec => ImplementsConsent
<1>1. PgApprovalInit => ConsentContract!Init
    BY DEF PgApprovalInit, ApprovalInit, ConsentContract!Init, ConsentOf, Spent
<1>2. PgApprovalInv /\ [PgApprovalNext]_pgApprovalVars
        => [ConsentContract!Next]_(ConsentContract!vars)
    BY PgStepImplementsConsent
<1>3. QED
    BY <1>1, <1>2, PgApprovalsAreSound, PTL
       DEF PgApprovalSpec, ImplementsConsent, ConsentContract!Spec

-----------------------------------------------------------------------------
(* MemoryStore.  The inductive invariant says of the ids that none is used *)
(* twice, of the rows that the versions of a chain agree on their readers  *)
(* and only one is live, and of the open transactions that what they have  *)
(* read of a row is still so if the row is still there.                    *)

Correcting(t) == editing[t].op \in {"correct", "replace"}
Forgetting(t) == editing[t].op \in {"clear", "delete"}

(* A version that is being made has an id of its own.                      *)
IdsAreFresh ==
    /\ \A m \in Stored : m \in minted /\ memories[m].root \in minted
    /\ \A t \in Connection : Correcting(t) =>
         /\ editing[t].m \in minted
         /\ editing[t].new \in minted \ Stored
         /\ \A u \in Connection : Correcting(u) =>
              /\ editing[t].m # editing[u].new
              /\ t # u => editing[t].new # editing[u].new
         /\ \A m \in Stored : memories[m].root # editing[t].new

(* The versions of a chain belong to one user and have the same readers.   *)
ChainsAgree ==
    /\ \A m, n \in Stored : memories[m].root = memories[n].root =>
         /\ memories[m].subject = memories[n].subject
         /\ memories[m].audience = memories[n].audience
    /\ \A t \in Connection : Correcting(t) /\ editing[t].m \in Stored =>
         /\ memories[editing[t].m].subject = editing[t].i.subject
         /\ memories[editing[t].m].audience = editing[t].audience

OneIsLive ==
    \A m, n \in Stored :
        memories[m].live /\ memories[n].live
          /\ memories[m].root = memories[n].root => m = n

(* What hard_delete has found, and what it has deleted.                    *)
ForgettingIsThorough ==
    /\ \A t \in Connection : Forgetting(t) =>
         /\ editing[t].known \subseteq minted
         /\ \A m \in editing[t].known \cap Stored :
              /\ memories[m].root = editing[t].root
              /\ editing[t].op = "delete" => m \in editing[t].rows
         /\ \A u \in Connection :
              Correcting(u) => editing[u].new \notin editing[t].known
    /\ \A f \in forgotten :
         /\ f.known \subseteq minted
         /\ f.known \cap Stored = {}
         /\ \A u \in Connection :
              Correcting(u) => editing[u].new \notin f.known

MemoryInv == /\ MemoryTypeOK
             /\ IdsAreFresh
             /\ ChainsAgree
             /\ OneIsLive
             /\ ForgettingIsThorough

-----------------------------------------------------------------------------
LEMMA EditShapes ==
    ASSUME MemoryTypeOK, NEW t \in Connection
    PROVE  /\ Correcting(t) => editing[t] \in CorrectTx
           /\ Forgetting(t) => editing[t] \in ForgetTx
           /\ editing[t].op = "purge" => editing[t] \in PurgeTx
           /\ editing[t] # Idle => editing[t].op # "idle"
    BY DEF MemoryTypeOK, Correcting, Forgetting, Idle, CorrectTx, ForgetTx,
           PurgeTx

LEMMA AudienceIsTyped ==
    ASSUME NEW i \in Identity, NEW visibility \in Visibility
    PROVE  AudienceOf(i, visibility) \in Audience
    BY MemoryStoreAssumption DEF AudienceOf, Audience

LEMMA RowsAreNotNull == \A row \in Row : row # Nothing
    BY MemoryStoreAssumption
(* A step that makes no version: rows go, lose their links or stay, and a  *)
(* transaction ends, stays, takes the lock of its row, or is a purge.      *)
RowsOnlyGo ==
    \A m \in Memory :
        \/ memories'[m] = memories[m]
        \/ memories'[m] = Nothing
        \/ /\ m \in Stored
           /\ memories'[m] = [memories[m] EXCEPT !.next = Nothing]

EditsGoOn ==
    \A t \in Connection :
        \/ editing'[t] = editing[t]
        \/ editing'[t].op \in {"idle", "purge"}
        \/ /\ editing[t].op = "correct"
           /\ editing'[t] = [editing[t] EXCEPT !.op = "replace"]

LEMMA StoredAfter ==
    ASSUME MemoryTypeOK, RowsOnlyGo
    PROVE  \A m \in Stored' :
             /\ m \in Stored
             /\ memories'[m].root = memories[m].root
             /\ memories'[m].subject = memories[m].subject
             /\ memories'[m].audience = memories[m].audience
             /\ memories'[m].live = memories[m].live
<1>1. ASSUME NEW m \in Stored'
      PROVE  /\ m \in Stored
             /\ memories'[m].root = memories[m].root
             /\ memories'[m].subject = memories[m].subject
             /\ memories'[m].audience = memories[m].audience
             /\ memories'[m].live = memories[m].live
    <2>1. m \in Memory /\ memories'[m] # Nothing
        BY DEF Stored
    <2>2. CASE memories'[m] = memories[m]
        BY <2>1, <2>2 DEF Stored
    <2>3. CASE /\ m \in Stored
               /\ memories'[m] = [memories[m] EXCEPT !.next = Nothing]
        <3>1. memories[m] \in Row
            BY <2>3 DEF Stored, MemoryTypeOK
        <3>2. QED
            BY <2>3, <3>1 DEF Row
    <2>4. QED
        BY <2>1, <2>2, <2>3 DEF RowsOnlyGo
<1>2. QED
    BY <1>1

LEMMA EditsAfter ==
    ASSUME MemoryTypeOK, EditsGoOn, NEW t \in Connection
    PROVE  /\ Correcting(t)' =>
                /\ Correcting(t)
                /\ editing'[t].i = editing[t].i
                /\ editing'[t].m = editing[t].m
                /\ editing'[t].new = editing[t].new
                /\ editing'[t].audience = editing[t].audience
           /\ Forgetting(t)' => editing'[t] = editing[t] /\ Forgetting(t)
<1>1. CASE editing'[t] = editing[t]
    BY <1>1 DEF Correcting, Forgetting
<1>2. CASE editing'[t].op \in {"idle", "purge"}
    BY <1>2 DEF Correcting, Forgetting
<1>3. CASE /\ editing[t].op = "correct"
           /\ editing'[t] = [editing[t] EXCEPT !.op = "replace"]
    <2>1. editing[t] \in CorrectTx
        BY <1>3, EditShapes DEF Correcting
    <2>2. QED
        BY <1>3, <2>1 DEF CorrectTx, Correcting, Forgetting
<1>4. QED
    BY <1>1, <1>2, <1>3 DEF EditsGoOn

LEMMA QuietEditKeepsInv ==
    ASSUME MemoryInv, MemoryTypeOK', RowsOnlyGo, EditsGoOn,
           minted' = minted, forgotten' = forgotten
    PROVE  MemoryInv'
<1> USE DEF MemoryInv
<1>1. \A m \in Stored' :
        /\ m \in Stored
        /\ memories'[m].root = memories[m].root
        /\ memories'[m].subject = memories[m].subject
        /\ memories'[m].audience = memories[m].audience
        /\ memories'[m].live = memories[m].live
    BY StoredAfter
<1>2. \A t \in Connection :
        /\ Correcting(t)' =>
             /\ Correcting(t)
             /\ editing'[t].i = editing[t].i
             /\ editing'[t].m = editing[t].m
             /\ editing'[t].new = editing[t].new
             /\ editing'[t].audience = editing[t].audience
        /\ Forgetting(t)' => editing'[t] = editing[t] /\ Forgetting(t)
    BY EditsAfter
<1>3. IdsAreFresh'
    BY <1>1, <1>2 DEF IdsAreFresh
<1>4. ChainsAgree'
    BY <1>1, <1>2 DEF ChainsAgree
<1>5. OneIsLive'
    BY <1>1 DEF OneIsLive
<1>6. ForgettingIsThorough'
    BY <1>1, <1>2 DEF ForgettingIsThorough
<1>7. QED
    BY <1>3, <1>4, <1>5, <1>6

-----------------------------------------------------------------------------
(* The steps that make no version.                                         *)

LEMMA EndingIsQuiet ==
    ASSUME MemoryTypeOK, NEW t \in Connection, Edit(t, Idle)
    PROVE  /\ EditsGoOn
           /\ editing' \in [Connection -> {Idle} \cup CorrectTx
                                \cup ForgetTx \cup PurgeTx]
    BY DEF Edit, EditsGoOn, Idle, MemoryTypeOK

LEMMA GiveUpKeepsInv ==
    ASSUME MemoryInv, NEW t \in Connection, GiveUpEdit(t)
    PROVE  MemoryInv'
<1>1. EditsGoOn /\ MemoryTypeOK'
    BY EndingIsQuiet DEF GiveUpEdit, MemoryInv, MemoryTypeOK
<1>2. RowsOnlyGo
    BY DEF GiveUpEdit, RowsOnlyGo
<1>3. QED
    BY <1>1, <1>2, QuietEditKeepsInv DEF GiveUpEdit

LEMMA LockVersionKeepsInv ==
    ASSUME MemoryInv, NEW t \in Connection, LockVersion(t)
    PROVE  MemoryInv'
<1>1. editing[t].op = "correct" /\ Edit(t,
[editing[t] EXCEPT !.op = "replace"])
    BY DEF LockVersion
<1>2. editing[t] \in CorrectTx
    BY <1>1, EditShapes DEF Correcting, MemoryInv
<1>3. [editing[t] EXCEPT !.op = "replace"] \in CorrectTx
    BY <1>2 DEF CorrectTx
<1>4. EditsGoOn /\ MemoryTypeOK'
    BY <1>1, <1>3 DEF LockVersion, Edit, EditsGoOn, MemoryInv, MemoryTypeOK
<1>5. RowsOnlyGo
    BY DEF LockVersion, RowsOnlyGo
<1>6. QED
    BY <1>4, <1>5, QuietEditKeepsInv DEF LockVersion

LEMMA UnlinkKeepsInv ==
    ASSUME MemoryInv, NEW t \in Connection, UnlinkExpired(t)
    PROVE  MemoryInv'
<1>1. PICK links \in SUBSET Memory :
        Edit(t, [op |-> "purge", rows |-> expired, links |-> links])
    BY DEF UnlinkExpired, Stored
<1>2. [op |-> "purge", rows |-> expired, links |-> links] \in PurgeTx
    BY DEF PurgeTx, MemoryInv, MemoryTypeOK
<1>3. /\ editing'[t].op = "purge"
      /\ \A u \in Connection \ {t} : editing'[u] = editing[u]
    BY <1>1 DEF Edit, MemoryInv, MemoryTypeOK
<1>4. EditsGoOn
    BY <1>3 DEF EditsGoOn
<1>5. MemoryTypeOK'
    BY <1>1, <1>2 DEF UnlinkExpired, Edit, MemoryInv, MemoryTypeOK
<1>6. RowsOnlyGo
    BY DEF UnlinkExpired, RowsOnlyGo
<1>7. QED
    BY <1>4, <1>5, <1>6, QuietEditKeepsInv DEF UnlinkExpired

LEMMA DeleteExpiredKeepsInv ==
    ASSUME MemoryInv, NEW t \in Connection, DeleteExpired(t)
    PROVE  MemoryInv'
<1>1. RowsOnlyGo
    BY DEF DeleteExpired, RowsOnlyGo
<1>2. memories' \in [Memory -> Row \cup {Nothing}]
    <2>1. \A m \in Stored : [memories[m] EXCEPT !.next = Nothing] \in Row
        BY DEF MemoryInv, MemoryTypeOK, Stored, Row
    <2>2. \A m \in Memory : memories'[m] \in Row \cup {Nothing}
        BY <1>1, <2>1 DEF RowsOnlyGo, MemoryInv, MemoryTypeOK
    <2>3. QED
        BY <2>2 DEF DeleteExpired
<1>3. EditsGoOn /\ MemoryTypeOK'
    BY <1>2, EndingIsQuiet DEF DeleteExpired, MemoryInv, MemoryTypeOK
<1>4. QED
    BY <1>1, <1>3, QuietEditKeepsInv DEF DeleteExpired

LEMMA MemoryExpiryKeepsInv ==
    ASSUME MemoryInv, NEW m \in Memory, ExpiryPasses(m)
    PROVE  MemoryInv'
<1>1. RowsOnlyGo /\ EditsGoOn
    BY DEF ExpiryPasses, RowsOnlyGo, EditsGoOn
<1>2. MemoryTypeOK'
    BY DEF ExpiryPasses, MemoryInv, MemoryTypeOK
<1>3. QED
    BY <1>1, <1>2, QuietEditKeepsInv DEF ExpiryPasses

-----------------------------------------------------------------------------
(* The steps of forget.                                                    *)

LEMMA LockChainKeepsInv ==
    ASSUME MemoryInv, NEW t \in Connection, NEW i \in Identity,
           NEW m \in Memory, LockChain(t, i, m)
    PROVE  MemoryInv'
<1> USE DEF MemoryInv
<1>1. PICK root \in Memory :
        /\ root = memories[m].root
        /\ Edit(t, [op |-> "clear", root |-> root, m |-> m,
                    known |-> Chain(root), rows |-> Chain(root)])
    <2>1. memories[m] \in Row
        BY DEF LockChain, Stored, MemoryTypeOK
    <2>2. QED
        BY <2>1 DEF LockChain, Row
<1>2. Chain(root) \subseteq Stored /\ Stored \subseteq Memory
    BY DEF Chain, Stored
<1>3. /\ editing'[t] = [op |-> "clear", root |-> root, m |-> m,
                        known |-> Chain(root), rows |-> Chain(root)]
      /\ \A u \in Connection \ {t} : editing'[u] = editing[u]
    BY <1>1 DEF Edit, MemoryTypeOK
<1>4. MemoryTypeOK'
    <2>1. editing'[t] \in ForgetTx
        BY <1>2, <1>3 DEF ForgetTx
    <2>2. QED
        BY <1>1, <2>1 DEF LockChain, Edit, MemoryTypeOK
<1>5. Stored' = Stored /\ UNCHANGED <<memories, minted, forgotten>>
    BY DEF LockChain, Stored
<1>6. /\ ~Correcting(t)'
      /\ \A u \in Connection \ {t} : /\ Correcting(u)' <=> Correcting(u)
                                     /\ Forgetting(u)' <=> Forgetting(u)
    BY <1>3 DEF Correcting, Forgetting
<1>7. IdsAreFresh'
    BY <1>3, <1>5, <1>6 DEF IdsAreFresh
<1>8. ChainsAgree' /\ OneIsLive'
    BY <1>3, <1>5, <1>6 DEF ChainsAgree, OneIsLive
<1>9. ForgettingIsThorough'
    <2>1. /\ editing'[t].known \subseteq minted
          /\ \A n \in editing'[t].known : memories[n].root = editing'[t].root
          /\ editing'[t].op # "delete"
          /\ editing'[t].known \subseteq Stored
        BY <1>2, <1>3 DEF Chain, IdsAreFresh
    <2>2. \A u \in Connection \ {t} :
            Correcting(u) => editing[u].new \notin Stored
        BY DEF IdsAreFresh
    <2>3. QED
        BY <1>3, <1>5, <1>6, <2>1, <2>2 DEF ForgettingIsThorough
<1>10. QED
    BY <1>4, <1>7, <1>8, <1>9

LEMMA ClearChainKeepsInv ==
    ASSUME MemoryInv, NEW t \in Connection, ClearChain(t)
    PROVE  MemoryInv'
<1> USE DEF MemoryInv
<1>1. editing[t] \in ForgetTx /\ Forgetting(t)
    BY EditShapes DEF ClearChain, Forgetting
<1>2. /\ editing'[t].op = "delete"
      /\ editing'[t].root = editing[t].root
      /\ editing'[t].known = editing[t].known
      /\ editing'[t].rows = Chain(editing[t].root)
      /\ editing'[t] \in ForgetTx
      /\ \A u \in Connection \ {t} : editing'[u] = editing[u]
    BY <1>1 DEF ClearChain, Edit, ForgetTx, MemoryTypeOK, Chain, Stored
<1>3. MemoryTypeOK'
    BY <1>2 DEF ClearChain, Edit, MemoryTypeOK
<1>4. Stored' = Stored /\ UNCHANGED <<memories, minted, forgotten>>
    BY DEF ClearChain, Stored
<1>5. /\ ~Correcting(t)'
      /\ \A u \in Connection \ {t} : /\ Correcting(u)' <=> Correcting(u)
                                     /\ Forgetting(u)' <=> Forgetting(u)
    BY <1>2 DEF Correcting, Forgetting
<1>6. IdsAreFresh'
    BY <1>2, <1>4, <1>5 DEF IdsAreFresh
<1>7. ChainsAgree' /\ OneIsLive'
    BY <1>2, <1>4, <1>5 DEF ChainsAgree, OneIsLive
<1>8. ForgettingIsThorough'
    BY <1>1, <1>2, <1>4, <1>5 DEF ForgettingIsThorough, Chain
<1>9. QED
    BY <1>3, <1>6, <1>7, <1>8

LEMMA DeleteChainKeepsInv ==
    ASSUME MemoryInv, NEW t \in Connection, DeleteChain(t)
    PROVE  MemoryInv'
<1> USE DEF MemoryInv
<1>1. editing[t] \in ForgetTx /\ Forgetting(t)
    BY EditShapes DEF DeleteChain, Forgetting
<1>2. RowsOnlyGo /\ memories' \in [Memory -> Row \cup {Nothing}]
    BY DEF DeleteChain, Without, RowsOnlyGo, MemoryTypeOK
<1>3. EditsGoOn /\ editing' \in [Connection -> {Idle} \cup CorrectTx
                                     \cup ForgetTx \cup PurgeTx]
    BY EndingIsQuiet DEF DeleteChain
<1>4. forgotten' = forgotten \cup {[root |-> editing[t].root,
                                   known |-> editing[t].known]}
    BY DEF DeleteChain
<1>5. MemoryTypeOK'
    BY <1>1, <1>2, <1>3, <1>4 DEF DeleteChain, MemoryTypeOK, ForgetTx
<1>6. \A m \in Stored' :
        /\ m \in Stored
        /\ memories'[m].root = memories[m].root
        /\ memories'[m].subject = memories[m].subject
        /\ memories'[m].audience = memories[m].audience
        /\ memories'[m].live = memories[m].live
    BY <1>2, StoredAfter
<1>7. \A u \in Connection :
        /\ Correcting(u)' =>
             /\ Correcting(u)
             /\ editing'[u].i = editing[u].i
             /\ editing'[u].m = editing[u].m
             /\ editing'[u].new = editing[u].new
             /\ editing'[u].audience = editing[u].audience
        /\ Forgetting(u)' => editing'[u] = editing[u] /\ Forgetting(u)
    BY <1>3, EditsAfter
<1>8. editing[t].known \cap Stored' = {}
    <2>1. \A m \in editing[t].rows : m \notin Stored'
        BY DEF DeleteChain, Without, Stored
    <2>2. editing[t].known \cap Stored \subseteq editing[t].rows
        BY <1>1 DEF DeleteChain, ForgettingIsThorough
    <2>3. QED
        BY <1>6, <2>1, <2>2
<1>9. minted' = minted
    BY DEF DeleteChain
<1>10. IdsAreFresh'
    BY <1>6, <1>7, <1>9 DEF IdsAreFresh
<1>11. ChainsAgree' /\ OneIsLive'
    BY <1>6, <1>7 DEF ChainsAgree, OneIsLive
<1>12. ForgettingIsThorough'
    BY <1>1, <1>4, <1>6, <1>7, <1>8, <1>9 DEF ForgettingIsThorough
<1>13. QED
    BY <1>5, <1>10, <1>11, <1>12

-----------------------------------------------------------------------------
(* The steps that make a version or an id for one.                         *)

LEMMA RememberKeepsInv ==
    ASSUME MemoryInv, NEW i \in Identity, NEW m \in Memory,
           NEW visibility \in Visibility, Remember(i, m, visibility)
    PROVE  MemoryInv'
<1> USE DEF MemoryInv
<1> DEFINE row == [root |-> m, subject |-> i.subject,
                   audience |-> AudienceOf(i, visibility),
                   live |-> TRUE, next |-> Nothing]
<1>1. row \in Row
    BY AudienceIsTyped, MemoryStoreAssumption DEF Row
<1>2. /\ m \notin minted
      /\ minted' = minted \cup {m}
      /\ memories' = [memories EXCEPT ![m] = row]
      /\ UNCHANGED <<expired, editing, forgotten>>
    BY DEF Remember
<1>3. MemoryTypeOK'
    BY <1>1, <1>2 DEF MemoryTypeOK
<1>4. /\ memories'[m] = row
      /\ \A n \in Memory \ {m} : memories'[n] = memories[n]
      /\ m \notin Stored
      /\ Stored' = Stored \cup {m}
    BY <1>1, <1>2, RowsAreNotNull DEF MemoryTypeOK, Stored, IdsAreFresh
<1>5. \A n \in Stored : /\ n # m /\ n \in Memory
                        /\ memories'[n] = memories[n]
                        /\ memories[n].root # m
    BY <1>2, <1>4 DEF IdsAreFresh, Stored
<1>6. \A t \in Connection : /\ Correcting(t)' <=> Correcting(t)
                            /\ Forgetting(t)' <=> Forgetting(t)
                            /\ Correcting(t) => editing[t].m # m
                            /\ Correcting(t) => editing[t].new # m
    BY <1>2 DEF Correcting, Forgetting, IdsAreFresh
<1> HIDE DEF row
<1>7. row.root = m
    BY DEF row
<1>8. IdsAreFresh'
    BY <1>2, <1>4, <1>5, <1>6, <1>7 DEF IdsAreFresh
<1>9. ChainsAgree'
    BY <1>2, <1>4, <1>5, <1>6, <1>7 DEF ChainsAgree
<1>10. OneIsLive'
    BY <1>4, <1>5, <1>7 DEF OneIsLive
<1>11. ForgettingIsThorough'
    <2>1. \A t \in Connection : Forgetting(t) =>
            editing[t].known \cap Stored' = editing[t].known \cap Stored
        BY <1>2, <1>4 DEF ForgettingIsThorough
    <2>2. \A f \in forgotten : f.known \cap Stored' = {}
        BY <1>2, <1>4 DEF ForgettingIsThorough
    <2>3. QED
        BY <1>2, <1>5, <1>6, <2>1, <2>2 DEF ForgettingIsThorough
<1>12. QED
    BY <1>3, <1>8, <1>9, <1>10, <1>11

LEMMA ReadVersionKeepsInv ==
    ASSUME MemoryInv, NEW t \in Connection, NEW i \in Identity,
           NEW m \in Memory, NEW new \in Memory, ReadVersion(t, i, m, new)
    PROVE  MemoryInv'
<1> USE DEF MemoryInv
<1>1. /\ m \in Stored
      /\ memories[m].subject = i.subject
      /\ new \notin minted
      /\ minted' = minted \cup {new}
      /\ UNCHANGED <<memories, expired, forgotten>>
      /\ Stored' = Stored
    BY DEF ReadVersion, Stored
<1>2. memories[m].audience \in Audience
    BY <1>1 DEF MemoryTypeOK, Stored, Row
<1>3. /\ editing'[t] = [op |-> "correct", i |-> i, m |-> m, new |-> new,
                        audience |-> memories[m].audience]
      /\ \A u \in Connection \ {t} : editing'[u] = editing[u]
    BY DEF ReadVersion, Edit, MemoryTypeOK
<1>4. MemoryTypeOK'
    <2>1. editing'[t] \in CorrectTx
        BY <1>2, <1>3 DEF CorrectTx
    <2>2. editing' \in [Connection -> {Idle} \cup CorrectTx \cup ForgetTx
                                         \cup PurgeTx]
        BY <1>3, <2>1 DEF ReadVersion, Edit, MemoryTypeOK
    <2>3. QED
        BY <1>1, <2>2 DEF MemoryTypeOK
<1>5. /\ editing'[t].m = m
      /\ editing'[t].new = new
      /\ editing'[t].i = i
      /\ editing'[t].audience = memories[m].audience
      /\ Correcting(t)'
      /\ ~Forgetting(t)'
    BY <1>3 DEF Correcting, Forgetting
<1>6. \A u \in Connection \ {t} : /\ Correcting(u)' <=> Correcting(u)
                                  /\ Forgetting(u)' <=> Forgetting(u)
    BY <1>3 DEF Correcting, Forgetting
<1>7. IdsAreFresh'
    <2>1. new \notin Stored /\ m \in minted /\ m # new
        BY <1>1 DEF IdsAreFresh
    <2>2. \A n \in Stored : memories[n].root # new
        BY <1>1 DEF IdsAreFresh
    <2>3. \A u \in Connection \ {t} : Correcting(u) =>
            /\ editing[u].m # new
            /\ editing[u].new # new
            /\ editing[u].new # m
        BY <1>1 DEF IdsAreFresh
    <2>4. QED
        BY <1>1, <1>3, <1>5, <1>6, <2>1, <2>2, <2>3 DEF IdsAreFresh
<1>8. ChainsAgree'
    BY <1>1, <1>3, <1>5, <1>6 DEF ChainsAgree
<1>9. OneIsLive'
    BY <1>1 DEF OneIsLive
<1>10. ForgettingIsThorough'
    <2>1. /\ \A u \in Connection : Forgetting(u) => new \notin editing[u].known
          /\ \A f \in forgotten : new \notin f.known
        BY <1>1 DEF ForgettingIsThorough
    <2>2. QED
        BY <1>1, <1>3, <1>5, <1>6, <2>1 DEF ForgettingIsThorough
<1>11. QED
    BY <1>4, <1>7, <1>8, <1>9, <1>10

LEMMA ReplaceVersionKeepsInv ==
    ASSUME MemoryInv, NEW t \in Connection, ReplaceVersion(t)
    PROVE  MemoryInv'
<1> USE DEF MemoryInv
<1> DEFINE m == editing[t].m
           new == editing[t].new
<1>1. editing[t] \in CorrectTx /\ Correcting(t) /\ ~Forgetting(t)
    BY EditShapes DEF ReplaceVersion, Correcting, Forgetting
<1>2. m \in Memory /\ new \in Memory /\ new \notin Stored
    BY <1>1 DEF CorrectTx, IdsAreFresh
<1>3. m \in Stored /\ memories[m] \in Row /\ memories[m].live
    BY DEF ReplaceVersion, MemoryTypeOK, Stored
<1>4. m # new
    BY <1>2, <1>3
<1>5. PICK row \in Row :
        /\ row = [root |-> memories[m].root, subject |-> editing[t].i.subject,
                  audience |-> editing[t].audience,
                  live |-> TRUE, next |-> Nothing]
        /\ memories' = [memories EXCEPT ![new] = row,
             ![m] = [memories[m] EXCEPT !.live = FALSE, !.next = new]]
    <2>1. editing[t].i \in Identity /\ editing[t].audience \in Audience
        BY <1>1 DEF CorrectTx
    <2>2. editing[t].i.subject \in Subject /\ memories[m].root \in Memory
        BY <1>3, <2>1, MemoryStoreAssumption DEF Row
    <2>3. [root |-> memories[m].root, subject |-> editing[t].i.subject,
           audience |-> editing[t].audience,
           live |-> TRUE, next |-> Nothing] \in Row
        BY <2>1, <2>2 DEF Row
    <2>4. QED
        BY <2>3 DEF ReplaceVersion
<1>6. /\ row.root = memories[m].root
      /\ row.subject = memories[m].subject
      /\ row.audience = memories[m].audience
      /\ row.live
    BY <1>1, <1>3, <1>5 DEF ChainsAgree
<1>7. [memories[m] EXCEPT !.live = FALSE, !.next = new] \in Row
    BY <1>2, <1>3 DEF Row
<1>8. /\ memories'[new] = row
      /\ memories'[m].root = memories[m].root
      /\ memories'[m].subject = memories[m].subject
      /\ memories'[m].audience = memories[m].audience
      /\ ~memories'[m].live
      /\ \A n \in Memory \ {m, new} : memories'[n] = memories[n]
      /\ memories' \in [Memory -> Row \cup {Nothing}]
    <2>1. memories'[m] = [memories[m] EXCEPT !.live = FALSE, !.next = new]
        BY <1>2, <1>3, <1>4, <1>5 DEF MemoryTypeOK
    <2>2. memories'[new] = row
        BY <1>2, <1>4, <1>5 DEF MemoryTypeOK
    <2>3. /\ memories'[m].root = memories[m].root
          /\ memories'[m].subject = memories[m].subject
          /\ memories'[m].audience = memories[m].audience
          /\ memories'[m].live = FALSE
        BY <1>3, <2>1 DEF Row
    <2>4. memories' \in [Memory -> Row \cup {Nothing}]
        BY <1>5, <1>7 DEF MemoryTypeOK
    <2>5. \A n \in Memory \ {m, new} : memories'[n] = memories[n]
        BY <1>5 DEF MemoryTypeOK
    <2>6. QED
        BY <2>2, <2>3, <2>4, <2>5
<1>9. Stored' = Stored \cup {new}
    <2>1. memories'[new] # Nothing
        BY <1>8, RowsAreNotNull
    <2>2. memories'[m] # Nothing
        <3>1. memories'[m] = [memories[m] EXCEPT !.live = FALSE, !.next = new]
            BY <1>2, <1>3, <1>4, <1>5 DEF MemoryTypeOK
        <3>2. QED
            BY <1>7, <3>1, RowsAreNotNull
    <2>3. \A n \in Memory \ {m, new} :
            memories'[n] # Nothing <=> memories[n] # Nothing
        BY <1>8
    <2>4. \A n \in Memory : n \in Stored' <=> n \in Stored \/ n = new
        BY <1>3, <2>1, <2>2, <2>3 DEF Stored
    <2>5. Stored \subseteq Memory /\ Stored' \subseteq Memory
        BY DEF Stored
    <2>6. QED
        BY <1>2, <2>4, <2>5
<1>10. \A n \in Stored : /\ n \in Memory /\ n # new
                         /\ memories'[n].root = memories[n].root
                         /\ memories'[n].subject = memories[n].subject
                         /\ memories'[n].audience = memories[n].audience
                         /\ memories'[n].live => memories[n].live
    BY <1>2, <1>8 DEF Stored
<1>11. /\ editing'[t] = Idle
       /\ \A u \in Connection \ {t} : editing'[u] = editing[u]
       /\ UNCHANGED <<minted, expired, forgotten>>
    BY DEF ReplaceVersion, Edit, MemoryTypeOK
<1>12. /\ ~Correcting(t)' /\ ~Forgetting(t)'
       /\ \A u \in Connection \ {t} : /\ Correcting(u)' <=> Correcting(u)
                                      /\ Forgetting(u)' <=> Forgetting(u)
    BY <1>11 DEF Correcting, Forgetting, Idle
<1>13. MemoryTypeOK'
    <2>1. Edit(t, Idle)
        BY DEF ReplaceVersion
    <2>2. QED
        BY <1>8, <1>11, <2>1, EndingIsQuiet DEF MemoryTypeOK
<1>14. \A u \in Connection \ {t} : Correcting(u) =>
         /\ editing[u].m # new
         /\ editing[u].new # new
         /\ memories[m].root # editing[u].new
    BY <1>1, <1>3 DEF IdsAreFresh
<1>15. new \in minted /\ memories[m].root \in minted
    BY <1>1, <1>3 DEF IdsAreFresh
<1> HIDE DEF m, new
<1>16. IdsAreFresh'
    BY <1>6, <1>8, <1>9, <1>10, <1>11, <1>12, <1>14, <1>15 DEF IdsAreFresh
<1>17. ChainsAgree'
    <2>1. \A n, o \in Stored' : memories'[n].root = memories'[o].root =>
            /\ memories'[n].subject = memories'[o].subject
            /\ memories'[n].audience = memories'[o].audience
        BY <1>3, <1>6, <1>8, <1>9, <1>10 DEF ChainsAgree
    <2>2. \A u \in Connection :
            Correcting(u)' /\ editing'[u].m \in Stored' =>
              /\ memories'[editing'[u].m].subject = editing'[u].i.subject
              /\ memories'[editing'[u].m].audience = editing'[u].audience
        BY <1>9, <1>10, <1>11, <1>12, <1>14 DEF ChainsAgree
    <2>3. QED
        BY <2>1, <2>2 DEF ChainsAgree
<1>18. OneIsLive'
    <2>1. \A n \in Stored : memories[n].root = memories[m].root =>
            ~memories'[n].live
        BY <1>3, <1>8, <1>10 DEF OneIsLive
    <2>2. QED
        BY <1>6, <1>8, <1>9, <1>10, <2>1 DEF OneIsLive
<1>19. ForgettingIsThorough'
    <2>1. /\ \A u \in Connection : Forgetting(u) => new \notin editing[u].known
          /\ \A f \in forgotten : new \notin f.known
        BY <1>1 DEF ForgettingIsThorough, new
    <2>2. QED
        BY <1>9, <1>10, <1>11, <1>12, <2>1 DEF ForgettingIsThorough
<1>20. QED
    BY <1>13, <1>16, <1>17, <1>18, <1>19

-----------------------------------------------------------------------------
(* The theorems.                                                           *)

LEMMA InitEstablishesMemoryInv == MemoryInit => MemoryInv
<1> SUFFICES ASSUME MemoryInit PROVE MemoryInv
    OBVIOUS
<1>1. Stored = {}
    BY DEF MemoryInit, Stored
<1>2. \A t \in Connection : ~Correcting(t) /\ ~Forgetting(t)
    BY DEF MemoryInit, Correcting, Forgetting, Idle
<1>3. forgotten = {} /\ MemoryTypeOK
    BY DEF MemoryInit, MemoryTypeOK
<1>4. QED
    BY <1>1, <1>2, <1>3 DEF MemoryInv, IdsAreFresh, ChainsAgree, OneIsLive,
       ForgettingIsThorough

LEMMA MemoryStepKeepsInv ==
    MemoryInv /\ [MemoryNext]_memoryVars => MemoryInv'
<1> SUFFICES ASSUME MemoryInv, [MemoryNext]_memoryVars
             PROVE  MemoryInv'
    OBVIOUS
<1>1. CASE UNCHANGED memoryVars
    <2>1. EditsGoOn /\ RowsOnlyGo
        BY <1>1 DEF memoryVars, EditsGoOn, RowsOnlyGo
    <2>2. MemoryTypeOK'
        BY <1>1 DEF memoryVars, MemoryInv, MemoryTypeOK
    <2>3. QED
        BY <1>1, <2>1, <2>2, QuietEditKeepsInv DEF memoryVars
<1>2. ASSUME NEW t \in Connection,
             \/ LockVersion(t) \/ ReplaceVersion(t) \/ ClearChain(t)
             \/ DeleteChain(t) \/ UnlinkExpired(t) \/ DeleteExpired(t)
             \/ GiveUpEdit(t)
      PROVE  MemoryInv'
    BY <1>2, LockVersionKeepsInv, ReplaceVersionKeepsInv, ClearChainKeepsInv,
       DeleteChainKeepsInv, UnlinkKeepsInv, DeleteExpiredKeepsInv,
       GiveUpKeepsInv
<1>3. QED
    BY <1>1, <1>2, RememberKeepsInv, ReadVersionKeepsInv, LockChainKeepsInv,
       MemoryExpiryKeepsInv DEF MemoryNext

(* The invariant holds in every reachable state of the memory store.       *)
THEOREM MemoryIsSound == MemorySpec => []MemoryInv
<1>1. MemoryInit => MemoryInv
    BY InitEstablishesMemoryInv
<1>2. MemoryInv /\ [MemoryNext]_memoryVars => MemoryInv'
    BY MemoryStepKeepsInv
<1>3. QED
    BY <1>1, <1>2, PTL DEF MemorySpec

(* correct: for any users, conversations and tenants, all the versions of  *)
(* a statement have the readers of the first one.                          *)
THEOREM AudiencesAreKept == MemorySpec => []CorrectionsKeepAudience
<1>1. MemoryInv => CorrectionsKeepAudience
    BY DEF MemoryInv, ChainsAgree, CorrectionsKeepAudience, MayRead
<1>2. QED
    BY <1>1, MemoryIsSound, PTL

(* replace, hard_delete and purge_expired: for any number of connections,  *)
(* retrieval finds one version of a statement at most.                     *)
THEOREM StatementsAreShownOnce == MemorySpec => []OneVersionIsShown
<1>1. MemoryInv => OneVersionIsShown
    BY DEF MemoryInv, OneIsLive, OneVersionIsShown, Visible
<1>2. QED
    BY <1>1, MemoryIsSound, PTL

(* hard_delete: no version that it found when it took its lock comes back, *)
(* for any number of corrections and purges beside it.                     *)
THEOREM ForgottenStayGone == MemorySpec => []ForgottenVersionsAreGone
<1>1. MemoryInv => ForgottenVersionsAreGone
    BY DEF MemoryInv, ForgettingIsThorough, ForgottenVersionsAreGone
<1>2. QED
    BY <1>1, MemoryIsSound, PTL

-----------------------------------------------------------------------------
(* RunQueue.  The invariant adds the types: a holder is a consumer only by *)
(* a claim.                                                                *)

QueueInv == QueueTypeOK /\ ClaimsAreExclusive

LEMMA ClaimKeepsInv ==
    ASSUME QueueInv, NEW r \in QueuedRun, NEW o \in Consumer, ClaimQueued(r, o)
    PROVE  QueueInv'
<1> USE DEF QueueInv
<1>1. /\ r \in queued /\ leased[r] # "live" /\ queued' = queued
      /\ working' = working \cup {<<r, o>>}
      /\ attempts[r] + 1 \in 0..MaxAttempts
    BY RunQueueAssumption DEF ClaimQueued, QueueTypeOK
<1>2. \A s \in QueuedRun : /\ holder'[s] = IF s = r THEN o ELSE holder[s]
                           /\ leased'[s] = IF s = r THEN "live" ELSE leased[s]
    BY DEF ClaimQueued, QueueTypeOK
<1>3. QueueTypeOK'
    BY <1>1 DEF ClaimQueued, QueueTypeOK
<1>4. \A p \in Consumer : <<r, p>> \notin working
    BY <1>1 DEF ClaimsAreExclusive
<1>5. ClaimsAreExclusive'
    BY <1>1, <1>2, <1>4 DEF ClaimsAreExclusive
<1>6. QED
    BY <1>3, <1>5

(* acknowledge and release: the caller is the holder, so the pair that     *)
(* ends is the only one of its run.                                        *)
LEMMA AnswerKeepsInv ==
    ASSUME QueueInv, NEW r \in QueuedRun, NEW o \in Consumer,
           \/ Acknowledge(r, o)
           \/ \E now \in BOOLEAN : Release(r, o, now)
    PROVE  QueueInv'
<1> USE DEF QueueInv
<1>1. /\ holder[r] = o
      /\ working' = working \ {<<r, o>>}
      /\ \A s \in QueuedRun \ {r} : /\ s \in queued' <=> s \in queued
                                    /\ holder'[s] = holder[s]
                                    /\ leased'[s] = leased[s]
    BY DEF Acknowledge, Release, QueueTypeOK
<1>2. QueueTypeOK'
    <2>1. CASE Acknowledge(r, o)
        BY <2>1 DEF Acknowledge, QueueTypeOK
    <2>2. CASE \E now \in BOOLEAN : Release(r, o, now)
        BY <2>2 DEF Release, QueueTypeOK
    <2>3. QED
        BY <2>1, <2>2
<1>3. \A p \in Consumer : <<r, p>> \notin working'
    BY <1>1 DEF ClaimsAreExclusive
<1>4. ClaimsAreExclusive'
    BY <1>1, <1>3 DEF ClaimsAreExclusive
<1>5. QED
    BY <1>2, <1>4

LEMMA EnqueueKeepsInv ==
    ASSUME QueueInv, NEW r \in QueuedRun, NEW now \in BOOLEAN, Enqueue(r, now)
    PROVE  QueueInv'
<1> USE DEF QueueInv
<1>1. QueueTypeOK'
    BY RunQueueAssumption DEF Enqueue, QueueTypeOK
<1>2. \A p \in Consumer : <<r, p>> \notin working
    BY DEF Enqueue, ClaimsAreExclusive
<1>3. ClaimsAreExclusive'
    BY <1>2 DEF Enqueue, ClaimsAreExclusive, QueueTypeOK
<1>4. QED
    BY <1>1, <1>3

LEMMA TimeKeepsInv ==
    ASSUME QueueInv, NEW r \in QueuedRun, BecomesDue(r) \/ QueueLeaseExpires(r)
    PROVE  QueueInv'
<1> USE DEF QueueInv
<1>1. CASE BecomesDue(r)
    BY <1>1 DEF BecomesDue, QueueTypeOK, ClaimsAreExclusive
<1>2. CASE QueueLeaseExpires(r)
    <2>1. QueueTypeOK'
        BY <1>2 DEF QueueLeaseExpires, QueueTypeOK
    <2>2. \A p \in Consumer : <<r, p>> \notin working'
        BY <1>2 DEF QueueLeaseExpires, ClaimsAreExclusive
    <2>3. ClaimsAreExclusive'
        BY <1>2, <2>2 DEF QueueLeaseExpires, ClaimsAreExclusive, QueueTypeOK
    <2>4. QED
        BY <2>1, <2>3
<1>3. QED
    BY <1>1, <1>2

(* claim, acknowledge, release: the run of a live lease belongs to its     *)
(* consumer, whatever the others answer late.                              *)
THEOREM LeasesAreExclusive == QueueSpec => []ClaimsAreExclusive
<1>1. QueueInit => QueueInv
    BY RunQueueAssumption
       DEF QueueInit, QueueInv, QueueTypeOK, ClaimsAreExclusive
<1>2. QueueInv /\ [QueueNext]_queueVars => QueueInv'
    <2> SUFFICES ASSUME QueueInv, [QueueNext]_queueVars PROVE QueueInv'
        OBVIOUS
    <2>1. CASE UNCHANGED queueVars
        BY <2>1 DEF queueVars, QueueInv, QueueTypeOK, ClaimsAreExclusive
    <2>2. QED
        BY <2>1, ClaimKeepsInv, AnswerKeepsInv, EnqueueKeepsInv, TimeKeepsInv
           DEF QueueNext
<1>3. QueueInv => ClaimsAreExclusive
    BY DEF QueueInv
<1>4. QED
    BY <1>1, <1>2, <1>3, PTL DEF QueueSpec
=============================================================================
