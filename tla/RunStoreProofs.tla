--------------------------- MODULE RunStoreProofs ---------------------------
(***************************************************************************)
(* What holds of the session store for any number of runs, owners,         *)
(* messages and calls, whoever calls it with whatever owner and token.     *)
(***************************************************************************)
EXTENDS RunStore, TLAPS

(* A run that does not exist has no token, no answers and no writers; this *)
(* is what makes the properties of RunStore inductive.                     *)
NothingBeforeBegin ==
    \A r \in Run : status[r] = "absent" =>
        /\ token[r] = NoToken
        /\ answers[r] = 0
        /\ checkpoint[r].by = NoToken
        /\ \A c \in Call : ledger[r][c].by = NoToken

StoreInv ==
    /\ StoreTypeOK
    /\ OneRunPerMessage
    /\ CompletionIsAtomic
    /\ RunningIsOwned
    /\ WritersAreIssued
    /\ NothingBeforeBegin

LEMMA InitEstablishesInv == StoreInit => StoreInv
<1> SUFFICES ASSUME StoreInit PROVE StoreInv
    OBVIOUS
<1>0. \A r \in Run : /\ token[r] = 0
                     /\ checkpoint[r].by = 0
                     /\ \A c \in Call : ledger[r][c].by = 0
    BY DEF StoreInit, NoCheckpoint, NoExecution, NoToken
<1>1. StoreTypeOK
    BY RunStoreAssumption DEF StoreInit, StoreTypeOK, RunStatus, Lease, Token,
       Checkpoint, Execution, ToolStatus, NoCheckpoint, NoExecution, NoToken
<1>2. OneRunPerMessage
    BY RunStoreAssumption DEF StoreInit, OneRunPerMessage
<1>3. CompletionIsAtomic
    BY DEF StoreInit, CompletionIsAtomic
<1>4. RunningIsOwned
    BY DEF StoreInit, RunningIsOwned
<1>5. WritersAreIssued
    <2>1. 0 <= 0
        OBVIOUS
    <2>2. QED
        BY <1>0, <2>1, Zenon DEF WritersAreIssued
<1>6. NothingBeforeBegin
    BY <1>0 DEF StoreInit, NothingBeforeBegin, NoToken
<1>7. QED
    BY <1>1, <1>2, <1>3, <1>4, <1>5, <1>6 DEF StoreInv

(* The conjuncts of the invariant that read no run's lease survive a step  *)
(* that begins no run, completes none, writes nothing and lowers no token. *)
LEMMA RunStepKeepsTheRest ==
    ASSUME StoreInv, StoreTypeOK',
           UNCHANGED <<inboundVars, checkpoint, ledger>>,
           \A q \in Run : /\ status'[q] = "absent" <=> status[q] = "absent"
                          /\ status'[q] = "completed"
                               <=> status[q] = "completed"
                          /\ token[q] <= token'[q]
                          /\ status[q] = "absent" => token'[q] = token[q]
    PROVE  /\ OneRunPerMessage'
           /\ CompletionIsAtomic'
           /\ WritersAreIssued'
           /\ NothingBeforeBegin'
<1> USE DEF StoreInv, inboundVars
<1>1. OneRunPerMessage'
    BY DEF OneRunPerMessage
<1>2. CompletionIsAtomic'
    <2>1. \A m \in Message : inbound[m] # NoRun => inbound[m] \in Run
        BY DEF StoreTypeOK
    <2>2. QED
        BY <2>1 DEF CompletionIsAtomic
<1>3. WritersAreIssued'
    <2>1. \A q \in Run : /\ token[q] \in Nat
                         /\ token'[q] \in Nat
        BY RunStoreAssumption DEF StoreTypeOK, Token, NoToken
    <2>2. \A q \in Run : checkpoint[q] \in Checkpoint
        BY DEF StoreTypeOK
    <2>3. \A q \in Run, c \in Call : ledger[q][c] \in Execution
        BY DEF StoreTypeOK
    <2>4. /\ \A q \in Run : checkpoint[q].by \in Nat
          /\ \A q \in Run, c \in Call : ledger[q][c].by \in Nat
        BY <2>2, <2>3, RunStoreAssumption DEF Checkpoint, Execution, Token,
           NoToken
    <2>5. QED
        BY <2>1, <2>4 DEF WritersAreIssued
<1>4. NothingBeforeBegin'
    BY DEF NothingBeforeBegin
<1>5. QED
    BY <1>1, <1>2, <1>3, <1>4

LEMMA BeginInboundKeepsInv ==
    ASSUME StoreInv,
           NEW p \in Owner, NEW m \in Message, NEW r \in Run,
           NEW st \in State, BeginInbound(p, m, r, st)
    PROVE  StoreInv'
<1> USE DEF StoreInv, BeginInbound, WriteInbound
<1>1. StoreTypeOK'
    BY RunStoreAssumption DEF StoreTypeOK, RunStatus, Lease, Token, Checkpoint
<1>2. OneRunPerMessage'
    BY RunStoreAssumption DEF OneRunPerMessage, StoreTypeOK
<1>3. CompletionIsAtomic'
    BY RunStoreAssumption DEF CompletionIsAtomic, NothingBeforeBegin,
       StoreTypeOK, OneRunPerMessage
<1>4. RunningIsOwned'
    BY RunStoreAssumption DEF RunningIsOwned, StoreTypeOK
<1>5. WritersAreIssued'
    BY RunStoreAssumption DEF WritersAreIssued, NothingBeforeBegin,
       StoreTypeOK,
       NoToken
<1>6. NothingBeforeBegin'
    BY DEF NothingBeforeBegin, StoreTypeOK
<1>7. QED
    BY <1>1, <1>2, <1>3, <1>4, <1>5, <1>6

LEMMA ClaimRunKeepsInv ==
    ASSUME StoreInv,
           NEW p \in Owner, NEW r \in Run, NEW expected \in ClaimableFrom,
           ClaimRun(p, r, expected)
    PROVE  StoreInv'
<1> USE DEF StoreInv, ClaimRun
<1>1. status[r] \in {"interrupted", "waiting_approval"}
    BY DEF ClaimableFrom
<1>2. /\ token[r] \in Nat
      /\ token[r] + 1 \in Token
    BY RunStoreAssumption DEF StoreTypeOK, Token, NoToken
<1>3. StoreTypeOK'
    BY <1>2 DEF StoreTypeOK, RunStatus, Lease, inboundVars
<1>4. RunningIsOwned'
    BY RunStoreAssumption DEF RunningIsOwned, StoreTypeOK
<1>5. \A q \in Run : /\ token[q] <= token'[q]
                     /\ q # r => token'[q] = token[q]
    BY <1>2, RunStoreAssumption DEF StoreTypeOK, Token, NoToken
<1>6. \A q \in Run : status'[q] = IF q = r THEN "running" ELSE status[q]
    BY DEF StoreTypeOK
<1>7. QED
    BY <1>1, <1>3, <1>4, <1>5, <1>6, RunStepKeepsTheRest

LEMMA TransitionRunKeepsInv ==
    ASSUME StoreInv,
           NEW p \in Owner, NEW r \in Run, NEW target \in TransitionTargets,
           NEW k \in Token \cup {NoToken}, TransitionRun(p, r, target, k)
    PROVE  StoreInv'
<1> USE DEF StoreInv, TransitionRun
<1>1. status[r] \in {"running", "waiting_approval", "interrupted"}
    BY DEF MayTransition, Transitions, TransitionTargets
<1>2. target \in RunStatus \ {"absent", "running", "completed"}
    BY DEF TransitionTargets, RunStatus
<1>3. StoreTypeOK'
    BY <1>2 DEF StoreTypeOK, inboundVars
<1>4. RunningIsOwned'
    BY <1>2 DEF RunningIsOwned, StoreTypeOK
<1>5. \A q \in Run : token[q] <= token'[q]
    BY RunStoreAssumption DEF StoreTypeOK, Token, NoToken
<1>6. \A q \in Run : status'[q] = IF q = r THEN target ELSE status[q]
    BY DEF StoreTypeOK
<1>7. QED
    BY <1>1, <1>2, <1>3, <1>4, <1>5, <1>6, RunStepKeepsTheRest

LEMMA RenewRunKeepsInv ==
    ASSUME StoreInv,
           NEW p \in Owner, NEW r \in Run, NEW k \in Token, RenewRun(p, r, k)
    PROVE  StoreInv'
<1> USE DEF StoreInv, RenewRun
<1>1. StoreTypeOK'
    BY DEF StoreTypeOK, Lease, inboundVars
<1>2. RunningIsOwned'
    BY DEF RunningIsOwned, StoreTypeOK
<1>3. \A q \in Run : token[q] <= token'[q]
    BY RunStoreAssumption DEF StoreTypeOK, Token, NoToken
<1>4. QED
    BY <1>1, <1>2, <1>3, RunStepKeepsTheRest

LEMMA LeaseExpiresKeepsInv ==
    ASSUME StoreInv, NEW r \in Run, LeaseExpires(r)
    PROVE  StoreInv'
<1> USE DEF StoreInv, LeaseExpires
<1>1. StoreTypeOK'
    BY DEF StoreTypeOK, Lease, inboundVars
<1>2. RunningIsOwned'
    BY DEF RunningIsOwned, StoreTypeOK
<1>3. \A q \in Run : token[q] <= token'[q]
    BY RunStoreAssumption DEF StoreTypeOK, Token, NoToken
<1>4. QED
    BY <1>1, <1>2, <1>3, RunStepKeepsTheRest

LEMMA InterruptIncompleteKeepsInv ==
    ASSUME StoreInv, NEW p \in Owner, NEW locked \in SUBSET Run,
             InterruptIncomplete(p, locked)
    PROVE  StoreInv'
<1> USE DEF StoreInv, InterruptIncomplete
<1>1. StoreTypeOK'
    BY DEF StoreTypeOK, Lease, RunStatus, inboundVars
<1>2. RunningIsOwned'
    BY DEF RunningIsOwned, StoreTypeOK, Abandoned
<1>3. \A q \in Run : token[q] <= token'[q]
    BY RunStoreAssumption DEF StoreTypeOK, Token, NoToken
<1>4. \A q \in Run : \/ status'[q] = status[q]
                     \/ status[q] = "running" /\ status'[q] = "interrupted"
    BY DEF Abandoned
<1>5. UNCHANGED <<token, inboundVars, checkpoint, ledger>>
    OBVIOUS
<1> HIDE DEF InterruptIncomplete
<1>6. QED
    BY <1>1, <1>2, <1>3, <1>4, <1>5, RunStepKeepsTheRest

LEMMA AdminControlRunKeepsInv ==
    ASSUME StoreInv,
           NEW r \in Run, NEW action \in ControlAction,
           AdminControlRun(r, action)
    PROVE  StoreInv'
<1> USE DEF StoreInv, AdminControlRun
<1>1. /\ status[r] \in {"running", "waiting_approval", "interrupted", "failed"}
      /\ ControlTarget(action) \in {"interrupted", "cancelled"}
    BY DEF ControlAction, ControlSources, ControlTarget
<1>2. /\ token[r] \in Nat
      /\ token[r] + 1 \in Token
    BY RunStoreAssumption DEF StoreTypeOK, Token, NoToken
<1>3. StoreTypeOK'
    BY <1>1, <1>2 DEF StoreTypeOK, RunStatus, Lease, inboundVars
<1>4. RunningIsOwned'
    BY <1>1 DEF RunningIsOwned, StoreTypeOK
<1>5. \A q \in Run : /\ token[q] <= token'[q]
                     /\ q # r => token'[q] = token[q]
    <2>1. token'[r] = token[r] + 1 /\ \A q \in Run \ {r} : token'[q] = token[q]
        BY DEF StoreTypeOK
    <2>2. \A q \in Run : token[q] \in Nat
        BY RunStoreAssumption DEF StoreTypeOK, Token, NoToken
    <2>3. token[r] <= token'[r]
        BY <1>2, <2>1
    <2>4. \A q \in Run \ {r} : token[q] <= token'[q]
        BY <2>1, <2>2
    <2>5. QED
        BY <2>1, <2>3, <2>4
<1>6. \A q \in Run :
        status'[q] = IF q = r THEN ControlTarget(action) ELSE status[q]
    BY DEF StoreTypeOK
<1>7. QED
    BY <1>1, <1>3, <1>4, <1>5, <1>6, RunStepKeepsTheRest

LEMMA CompleteRunKeepsInv ==
    ASSUME StoreInv,
           NEW p \in Owner, NEW r \in Run, NEW k \in Token, NEW x \in Text,
           CompleteRun(p, r, k, x)
    PROVE  StoreInv'
<1> USE DEF StoreInv, CompleteRun, WriteCompletion, Owns
<1>1. StoreTypeOK'
    BY DEF StoreTypeOK, RunStatus, Lease
<1>2. \A q \in Run : /\ status'[q] = IF q = r THEN "completed" ELSE status[q]
                     /\ answers'[q] = IF q = r THEN 1 ELSE answers[q]
    <2>1. answers[r] = 0
        BY DEF CompletionIsAtomic
    <2>2. answers'[r] = 1
        BY <2>1 DEF StoreTypeOK
    <2>3. QED
        BY <2>2 DEF StoreTypeOK
<1>3. OneRunPerMessage'
    BY <1>2 DEF OneRunPerMessage
<1>4. CompletionIsAtomic'
    <2>1. \A q \in Run :
            answers'[q] = IF status'[q] = "completed" THEN 1 ELSE 0
        BY <1>2 DEF CompletionIsAtomic
    <2>2. \A m \in Message :
            response'[m] # NoText <=> /\ inbound[m] # NoRun
                                      /\ status'[inbound[m]] = "completed"
        BY <1>2, RunStoreAssumption DEF CompletionIsAtomic, StoreTypeOK
    <2>3. QED
        BY <2>1, <2>2 DEF CompletionIsAtomic
<1>5. RunningIsOwned'
    BY <1>2 DEF RunningIsOwned, StoreTypeOK
<1>6. WritersAreIssued'
    BY DEF WritersAreIssued
<1>7. NothingBeforeBegin'
    BY <1>2 DEF NothingBeforeBegin
<1>8. QED
    BY <1>1, <1>3, <1>4, <1>5, <1>6, <1>7

(* A step that only writes for a run, under a token that was given out or  *)
(* under none, keeps the invariant.                                        *)
LEMMA WritesKeepInv ==
    ASSUME StoreInv, StoreTypeOK', UNCHANGED <<runVars, inboundVars>>,
           \A q \in Run :
             \/ checkpoint'[q] = checkpoint[q]
             \/ status[q] = "running" /\ checkpoint'[q].by = token[q],
           \A q \in Run, c \in Call :
             \/ ledger'[q][c] = ledger[q][c]
             \/ status[q] = "running" /\ ledger'[q][c].by = token[q]
             \/ /\ ledger[q][c].status = "running"
                /\ ledger'[q][c].by <= token[q]
    PROVE  StoreInv'
<1> USE DEF StoreInv, runVars, inboundVars
<1>1. OneRunPerMessage' /\ CompletionIsAtomic' /\ RunningIsOwned'
    BY DEF OneRunPerMessage, CompletionIsAtomic, RunningIsOwned
<1>2. \A q \in Run : token[q] \in Nat /\ NoToken <= token[q]
    BY RunStoreAssumption DEF StoreTypeOK, Token, NoToken
<1>3. WritersAreIssued'
    BY <1>2 DEF WritersAreIssued
<1>4. \A q \in Run, c \in Call : ledger'[q][c].by \in Nat
    BY RunStoreAssumption DEF StoreTypeOK, Execution, Token, NoToken
<1>5. NothingBeforeBegin'
    BY <1>4, RunStoreAssumption DEF NothingBeforeBegin, NoToken
<1>6. QED
    BY <1>1, <1>3, <1>5

LEMMA SaveCheckpointKeepsInv ==
    ASSUME StoreInv,
           NEW p \in Owner, NEW r \in Run, NEW k \in Token, NEW st \in State,
           SaveCheckpoint(p, r, k, st)
    PROVE  StoreInv'
<1> USE DEF StoreInv, SaveCheckpoint, WriteCheckpoint, Owns
<1>1. StoreTypeOK'
    BY DEF StoreTypeOK, Checkpoint, runVars, inboundVars
<1>2. \A q \in Run : q # r => checkpoint'[q] = checkpoint[q]
    BY DEF StoreTypeOK
<1>3. status[r] = "running" /\ checkpoint'[r].by = token[r]
    BY DEF StoreTypeOK
<1>4. QED
    BY <1>1, <1>2, <1>3, WritesKeepInv

LEMMA ClaimToolKeepsInv ==
    ASSUME StoreInv,
           NEW p \in Owner, NEW r \in Run, NEW k \in Token, NEW c \in Call,
           NEW tl \in Tool, ClaimTool(p, r, k, c, tl)
    PROVE  StoreInv'
<1> USE DEF StoreInv, ClaimTool, WriteExecution, Owns
<1>1. StoreTypeOK'
    BY DEF StoreTypeOK, Execution, ToolStatus, runVars, inboundVars
<1>2. \A q \in Run, d \in Call :
        ledger'[q][d] = IF q = r /\ d = c
                          THEN [status |-> "running", tool |-> tl, by |-> k]
                          ELSE ledger[q][d]
    BY DEF StoreTypeOK
<1>3. QED
    BY <1>1, <1>2, WritesKeepInv

(* What settling a row of the ledger does to it, and to no other.          *)
LEMMA SettledRow ==
    ASSUME StoreTypeOK, NEW r \in Run, NEW c \in Call,
           NEW outcome \in {"completed", "failed"},
           NEW k \in Token \cup {NoToken}, SettleRow(r, c, k, outcome)
    PROVE  /\ ledger' \in [Run -> [Call -> Execution]]
           /\ ledger'[r][c].by = k
           /\ \A q \in Run, d \in Call :
                q # r \/ d # c => ledger'[q][d] = ledger[q][d]
<1> USE DEF StoreTypeOK, SettleRow
<1>1. [status |-> outcome, tool |-> ledger[r][c].tool, by |-> k] \in Execution
    BY DEF Execution, ToolStatus
<1>2. QED
    BY <1>1

LEMMA SettleToolKeepsInv ==
    ASSUME StoreInv,
           NEW r \in Run, NEW k \in Token, NEW c \in Call,
           NEW outcome \in {"completed", "failed"},
           k <= token[r], SettleTool(r, k, c, outcome)
    PROVE  StoreInv'
<1> USE DEF StoreInv, SettleTool
<1>1. /\ ledger' \in [Run -> [Call -> Execution]]
      /\ ledger'[r][c].by = k
      /\ \A q \in Run, d \in Call :
           q # r \/ d # c => ledger'[q][d] = ledger[q][d]
    BY SettledRow
<1>2. StoreTypeOK'
    BY <1>1 DEF StoreTypeOK, runVars, inboundVars
<1>3. ledger[r][c].status = "running" /\ checkpoint' = checkpoint
    BY DEF SettleRow
<1>4. QED
    BY <1>1, <1>2, <1>3, WritesKeepInv

LEMMA AdminResolveToolKeepsInv ==
    ASSUME StoreInv,
           NEW r \in Run, NEW c \in Call,
           NEW outcome \in {"completed", "failed"},
           AdminResolveTool(r, c, outcome)
    PROVE  StoreInv'
<1> USE DEF StoreInv, AdminResolveTool
<1>1. /\ ledger' \in [Run -> [Call -> Execution]]
      /\ ledger'[r][c].by = NoToken
      /\ \A q \in Run, d \in Call :
           q # r \/ d # c => ledger'[q][d] = ledger[q][d]
    BY SettledRow
<1>2. StoreTypeOK'
    BY <1>1 DEF StoreTypeOK, runVars, inboundVars
<1>3. /\ ledger[r][c].status = "running" /\ checkpoint' = checkpoint
      /\ NoToken <= token[r]
    BY RunStoreAssumption DEF SettleRow, StoreTypeOK, Token, NoToken
<1>4. QED
    BY <1>1, <1>2, <1>3, WritesKeepInv

-----------------------------------------------------------------------------
LEMMA StepKeepsInv == StoreInv /\ [StoreNext]_storeVars => StoreInv'
<1> SUFFICES ASSUME StoreInv, [StoreNext]_storeVars PROVE StoreInv'
    OBVIOUS
<1>1. CASE UNCHANGED storeVars
    BY <1>1 DEF StoreInv, StoreTypeOK, OneRunPerMessage, CompletionIsAtomic,
       RunningIsOwned, WritersAreIssued, NothingBeforeBegin, storeVars,
       runVars, inboundVars
<1>2. ASSUME NEW p \in Owner, NEW r \in Run, RunStep(p, r) PROVE StoreInv'
    <2>1. ASSUME NEW m \in Message, NEW st \in State, BeginInbound(p, m, r, st)
          PROVE  StoreInv'
        BY <2>1, BeginInboundKeepsInv
    <2>2. ASSUME NEW expected \in ClaimableFrom, ClaimRun(p, r, expected)
          PROVE  StoreInv'
        BY <2>2, ClaimRunKeepsInv
    <2>3. ASSUME NEW k \in Token \cup {NoToken},
                 NEW target \in TransitionTargets,
                 TransitionRun(p, r, target, k)
          PROVE  StoreInv'
        BY <2>3, TransitionRunKeepsInv
    <2>4. ASSUME NEW k \in Token, NEW st \in State, SaveCheckpoint(p, r, k, st)
          PROVE  StoreInv'
        BY <2>4, SaveCheckpointKeepsInv
    <2>5. ASSUME NEW k \in Token, NEW x \in Text, CompleteRun(p, r, k, x)
          PROVE  StoreInv'
        BY <2>5, CompleteRunKeepsInv
    <2>6. ASSUME NEW k \in Token, RenewRun(p, r, k)
          PROVE  StoreInv'
        BY <2>6, RenewRunKeepsInv
    <2>7. QED
        BY <1>2, <2>1, <2>2, <2>3, <2>4, <2>5, <2>6 DEF RunStep
<1>3. ASSUME NEW p \in Owner, NEW r \in Run, ToolStep(p, r) PROVE StoreInv'
    <2>1. ASSUME NEW k \in Token, NEW c \in Call, NEW tl \in Tool,
                 ClaimTool(p, r, k, c, tl)
          PROVE  StoreInv'
        BY <2>1, ClaimToolKeepsInv
    <2>2. ASSUME NEW k \in Token, NEW c \in Call,
                 NEW outcome \in {"completed", "failed"},
                 k <= token[r], SettleTool(r, k, c, outcome)
          PROVE  StoreInv'
        BY <2>2, SettleToolKeepsInv
    <2>3. QED
        BY <1>3, <2>1, <2>2 DEF ToolStep, CompleteTool, FailTool
<1>4. ASSUME NEW r \in Run, AdminStep(r) PROVE StoreInv'
    BY <1>4, AdminControlRunKeepsInv, AdminResolveToolKeepsInv DEF AdminStep
<1>5. ASSUME NEW p \in Owner, NEW locked \in SUBSET Run,
             InterruptIncomplete(p, locked) PROVE StoreInv'
    BY <1>5, InterruptIncompleteKeepsInv
<1>6. ASSUME NEW r \in Run, LeaseExpires(r) PROVE StoreInv'
    BY <1>6, LeaseExpiresKeepsInv
<1>7. QED
    BY <1>1, <1>2, <1>3, <1>4, <1>5, <1>6 DEF StoreNext

(* The strengthened invariant holds in every reachable state of the store, *)
(* whatever its callers (begin_inbound, claim_run, complete_run, ...) do.  *)
THEOREM StoreIsSound == StoreSpec => []StoreInv
<1>1. StoreInit => StoreInv
    BY InitEstablishesInv
<1>2. StoreInv /\ [StoreNext]_storeVars => StoreInv'
    BY StepKeepsInv
<1>3. QED
    BY <1>1, <1>2, PTL DEF StoreSpec

(* The rows always have the columns' types; no token passes the bound.     *)
THEOREM StoreIsWellTyped == StoreSpec => []StoreTypeOK
<1>1. StoreInv => StoreTypeOK
    BY DEF StoreInv
<1>2. QED
    BY <1>1, StoreIsSound, PTL

(* begin_inbound deduplicates for any number of messages and gateways: a   *)
(* message has one run and a run one message.                              *)
THEOREM MessagesAreDeduplicated == StoreSpec => []OneRunPerMessage
<1>1. StoreInv => OneRunPerMessage
    BY DEF StoreInv
<1>2. QED
    BY <1>1, StoreIsSound, PTL

(* complete_run is all or nothing: completed status, one assistant message *)
(* and the cached response are never found apart.                          *)
THEOREM CompletionsAreAtomic == StoreSpec => []CompletionIsAtomic
<1>1. StoreInv => CompletionIsAtomic
    BY DEF StoreInv
<1>2. QED
    BY <1>1, StoreIsSound, PTL

(* A running run always has an owner and a lease, so that                  *)
(* interrupt_incomplete_runs can always find it.                           *)
THEOREM RunningRunsAreOwned == StoreSpec => []RunningIsOwned
<1>1. StoreInv => RunningIsOwned
    BY DEF StoreInv
<1>2. QED
    BY <1>1, StoreIsSound, PTL

(* Nothing in a checkpoint or in the ledger carries a token that           *)
(* claim_run or begin_inbound has not handed out.                          *)
THEOREM WritersWereIssued == StoreSpec => []WritersAreIssued
<1>1. StoreInv => WritersAreIssued
    BY DEF StoreInv
<1>2. QED
    BY <1>1, StoreIsSound, PTL

-----------------------------------------------------------------------------
(* What no step of the store may do.  A step changes one run, except       *)
(* InterruptIncomplete, so the facts about the run it changes are proved   *)
(* action by action from what the action does to that run.                 *)
LEMMA TokensAreNat ==
    ASSUME StoreTypeOK
    PROVE  \A q \in Run : token[q] \in Nat
    BY RunStoreAssumption DEF StoreTypeOK, Token, NoToken

LEMMA StepRaisesTokenWithOwner ==
    StoreInv /\ [StoreNext]_storeVars => \A q \in Run : OwnerChangeRaisesToken(q)
<1> SUFFICES ASSUME StoreInv, [StoreNext]_storeVars, NEW q \in Run
             PROVE  OwnerChangeRaisesToken(q)
    OBVIOUS
<1> USE DEF OwnerChangeRaisesToken
<1>0. StoreTypeOK /\ token[q] \in Nat
    BY TokensAreNat DEF StoreInv
<1>1. CASE UNCHANGED <<status, owner, token>>
    BY <1>0, <1>1
<1>2. ASSUME NEW p \in Owner, NEW r \in Run, RunStep(p, r)
      PROVE  OwnerChangeRaisesToken(q)
    <2>1. ASSUME NEW m \in Message, NEW st \in State, BeginInbound(p, m, r, st)
          PROVE  OwnerChangeRaisesToken(q)
        <3>1. token[r] = 0
            BY <2>1 DEF StoreInv, NothingBeforeBegin, BeginInbound,
               WriteInbound, NoToken
        <3>2. QED
            BY <1>0, <2>1, <3>1 DEF BeginInbound, WriteInbound, StoreTypeOK
    <2>2. ASSUME NEW expected \in ClaimableFrom, ClaimRun(p, r, expected)
          PROVE  OwnerChangeRaisesToken(q)
        BY <1>0, <2>2 DEF ClaimRun, StoreTypeOK
    <2>3. ASSUME NEW k \in Token \cup {NoToken},
                 NEW target \in TransitionTargets,
                 TransitionRun(p, r, target, k)
          PROVE  OwnerChangeRaisesToken(q)
        BY <1>0, <2>3 DEF TransitionRun, TransitionTargets, StoreTypeOK
    <2>4. ASSUME NEW k \in Token, NEW x \in Text, CompleteRun(p, r, k, x)
          PROVE  OwnerChangeRaisesToken(q)
        BY <1>0, <2>4 DEF CompleteRun, WriteCompletion, StoreTypeOK
    <2>5. QED
        BY <1>1, <1>2, <2>1, <2>2, <2>3, <2>4
           DEF RunStep, SaveCheckpoint, WriteCheckpoint, RenewRun, runVars
<1>3. ASSUME NEW r \in Run, NEW action \in ControlAction,
             AdminControlRun(r, action)
      PROVE  OwnerChangeRaisesToken(q)
    <2>1. ControlTarget(action) # "running"
        BY DEF ControlAction, ControlTarget
    <2>2. QED
        BY <1>0, <1>3, <2>1 DEF AdminControlRun, StoreTypeOK
<1>4. ASSUME NEW p \in Owner, NEW locked \in SUBSET Run,
             InterruptIncomplete(p, locked)
      PROVE  OwnerChangeRaisesToken(q)
    BY <1>0, <1>4 DEF InterruptIncomplete
<1>5. QED
    BY <1>1, <1>2, <1>3, <1>4
       DEF StoreNext, ToolStep, ClaimTool, WriteExecution, CompleteTool,
           FailTool, SettleTool,
           AdminStep, AdminResolveTool, LeaseExpires, storeVars, runVars

(* The fencing tokens: for any number of processes, workers and takeovers, *)
(* whoever comes to own a run has a token higher than every earlier one.   *)
THEOREM OwnersGetNewTokens == StoreSpec => OwnershipNeedsNewToken
<1>1. StoreInv /\ [StoreNext]_storeVars
        => [\A r \in Run : OwnerChangeRaisesToken(r)]_storeVars
    BY StepRaisesTokenWithOwner
<1>2. QED
    BY <1>1, StoreIsSound, PTL DEF StoreSpec, OwnershipNeedsNewToken

(* A row that is settled was running, and nothing else changes.            *)
LEMMA SettlingSettles ==
    ASSUME StoreTypeOK, NEW q \in Run, NEW r \in Run, NEW c \in Call,
           NEW outcome \in {"completed", "failed"},
           NEW k \in Token \cup {NoToken}, k <= token[r],
           SettleRow(r, c, k, outcome)
    PROVE  OutcomesSettleCalls(q)
<1> SUFFICES ASSUME NEW d \in Call, ledger'[q][d] # ledger[q][d]
             PROVE  /\ ledger[q][d].status = "running"
                    /\ ledger'[q][d].status \in {"completed", "failed"}
                    /\ ledger'[q][d].by <= token[q]
    BY DEF OutcomesSettleCalls
<1>1. q = r /\ d = c /\ ledger'[r][c].by = k
    BY SettledRow
<1>2. ledger[r][c].status = "running" /\ ledger'[r][c].status = outcome
    BY DEF SettleRow, StoreTypeOK
<1> QED BY <1>1, <1>2

LEMMA StepIsFenced ==
    StoreInv /\ [StoreNext]_storeVars
      => \A q \in Run : ProgressIsFenced(q) /\ OutcomesSettleCalls(q)
<1> SUFFICES ASSUME StoreInv, [StoreNext]_storeVars, NEW q \in Run
             PROVE  ProgressIsFenced(q) /\ OutcomesSettleCalls(q)
    OBVIOUS
<1> DEFINE Fenced == ProgressIsFenced(q) /\ OutcomesSettleCalls(q)
<1>0. StoreTypeOK
    BY DEF StoreInv
<1>a. ASSUME UNCHANGED <<answers, checkpoint>> PROVE ProgressIsFenced(q)
    BY <1>a DEF ProgressIsFenced
<1>b. ASSUME UNCHANGED ledger PROVE OutcomesSettleCalls(q)
    BY <1>b DEF OutcomesSettleCalls
<1>1. CASE UNCHANGED <<answers, checkpoint, ledger>>
    BY <1>1, <1>a, <1>b
<1>2. ASSUME NEW p \in Owner, NEW r \in Run, RunStep(p, r)
      PROVE  Fenced
    <2>1. ASSUME NEW m \in Message, NEW st \in State, BeginInbound(p, m, r, st)
          PROVE  Fenced
        BY <1>0, <1>b, <2>1
           DEF BeginInbound, WriteInbound, StoreTypeOK, ProgressIsFenced
    <2>2. ASSUME NEW k \in Token, NEW st \in State, SaveCheckpoint(p, r, k, st)
          PROVE  Fenced
        BY <1>0, <1>b, <2>2
           DEF SaveCheckpoint, WriteCheckpoint, Owns, runVars, inboundVars,
               StoreTypeOK, ProgressIsFenced
    <2>3. ASSUME NEW k \in Token, NEW x \in Text, CompleteRun(p, r, k, x)
          PROVE  Fenced
        BY <1>0, <1>b, <2>3
           DEF CompleteRun, WriteCompletion, Owns, StoreTypeOK,
               ProgressIsFenced
    <2>4. QED
        BY <1>1, <1>2, <2>1, <2>2, <2>3
           DEF RunStep, ClaimRun, TransitionRun, RenewRun, inboundVars
<1>3. ASSUME NEW p \in Owner, NEW r \in Run, ToolStep(p, r)
      PROVE  Fenced
    <2>1. ASSUME NEW k \in Token, NEW c \in Call, NEW tl \in Tool,
                 ClaimTool(p, r, k, c, tl)
          PROVE  Fenced
        <3>1. ProgressIsFenced(q)
            BY <2>1, <1>a DEF ClaimTool, WriteExecution, inboundVars
        <3>2. OutcomesSettleCalls(q)
            BY <1>0, <2>1
               DEF ClaimTool, WriteExecution, Owns, StoreTypeOK,
                   OutcomesSettleCalls, WrittenByOwner
        <3> QED BY <3>1, <3>2
    <2>2. ASSUME NEW k \in Token, NEW c \in Call, k <= token[r],
                 NEW outcome \in {"completed", "failed"},
                 SettleTool(r, k, c, outcome)
          PROVE  Fenced
        BY <1>0, <1>a, <2>2, SettlingSettles DEF SettleTool, inboundVars
    <2>3. QED
        BY <1>3, <2>1, <2>2 DEF ToolStep, CompleteTool, FailTool
<1>4. ASSUME NEW r \in Run, NEW c \in Call,
             NEW outcome \in {"completed", "failed"},
             AdminResolveTool(r, c, outcome)
      PROVE  Fenced
    <2>1. NoToken <= token[r]
        BY <1>0, TokensAreNat DEF NoToken
    <2> QED BY <1>0, <1>a, <1>4, <2>1, SettlingSettles
            DEF AdminResolveTool, inboundVars
<1>5. QED
    BY <1>1, <1>2, <1>3, <1>4
       DEF StoreNext, AdminStep, AdminControlRun, InterruptIncomplete,
           LeaseExpires, storeVars, inboundVars

(* Fencing, as far as SQLite has it: for any number of workers, a          *)
(* checkpoint, an answer or the claim of a call is written by the newest   *)
(* owner of a running run; a late worker (one whose token is no longer the *)
(* run's) can only settle a call that was claimed and has no outcome yet.  *)
THEOREM LateWorkersOnlySettle == StoreSpec => OnlyOutcomesComeLate
<1>1. StoreInv /\ [StoreNext]_storeVars
        => [\A r \in Run : ProgressIsFenced(r) /\ OutcomesSettleCalls(r)]_storeVars
    BY StepIsFenced
<1>2. QED
    BY <1>1, StoreIsSound, PTL DEF StoreSpec, OnlyOutcomesComeLate

LEMMA StepKeepsRows ==
    StoreInv /\ [StoreNext]_storeVars
      => \A q \in Run, d \in Call : RowIsKept(q, d)
<1> SUFFICES ASSUME StoreInv, [StoreNext]_storeVars,
                    NEW q \in Run, NEW d \in Call
             PROVE  RowIsKept(q, d)
    OBVIOUS
<1> USE DEF RowIsKept, Settled
<1>0. StoreTypeOK
    BY DEF StoreInv
<1>1. CASE UNCHANGED ledger
    BY <1>1
<1>2. ASSUME NEW r \in Run, NEW c \in Call, NEW k \in Token \cup {NoToken},
             NEW outcome \in {"completed", "failed"},
             SettleRow(r, c, k, outcome)
      PROVE  RowIsKept(q, d)
    BY <1>0, <1>2 DEF SettleRow, StoreTypeOK
<1>3. ASSUME NEW p \in Owner, NEW r \in Run, ToolStep(p, r)
      PROVE  RowIsKept(q, d)
    <2>1. ASSUME NEW k \in Token, NEW c \in Call, NEW tl \in Tool,
                 ClaimTool(p, r, k, c, tl)
          PROVE  RowIsKept(q, d)
        BY <1>0, <2>1 DEF ClaimTool, WriteExecution, StoreTypeOK
    <2>2. QED
        BY <1>2, <1>3, <2>1 DEF ToolStep, CompleteTool, FailTool, SettleTool
<1>4. ASSUME NEW r \in Run, AdminStep(r)
      PROVE  RowIsKept(q, d)
    BY <1>1, <1>2, <1>4 DEF AdminStep, AdminControlRun, AdminResolveTool
<1>5. QED
    BY <1>1, <1>3, <1>4
       DEF StoreNext, RunStep, BeginInbound, WriteInbound, ClaimRun,
           TransitionRun,
           SaveCheckpoint, WriteCheckpoint, CompleteRun, WriteCompletion,
           RenewRun, InterruptIncomplete,
           LeaseExpires, storeVars

(* The ledger: no sequence of calls to claim_tool, complete_tool,          *)
(* fail_tool and admin_resolve_tool, by any workers, erases or rewrites    *)
(* what is known of a tool execution.                                      *)
THEOREM LedgerIsPermanent == StoreSpec => LedgerNeverForgets
<1>1. StoreInv /\ [StoreNext]_storeVars
        => [\A r \in Run, c \in Call : RowIsKept(r, c)]_storeVars
    BY StepKeepsRows
<1>2. QED
    BY <1>1, StoreIsSound, PTL DEF StoreSpec, LedgerNeverForgets

LEMMA StepKeepsEnds ==
    StoreInv /\ [StoreNext]_storeVars => \A q \in Run : EndIsKept(q)
<1> SUFFICES ASSUME StoreInv, [StoreNext]_storeVars, NEW q \in Run
             PROVE  EndIsKept(q)
    OBVIOUS
<1> USE DEF EndIsKept
<1>0. StoreTypeOK /\ token[q] \in Nat
    BY TokensAreNat DEF StoreInv
<1>1. CASE status'[q] = status[q]
    BY <1>1
<1>2. ASSUME NEW p \in Owner, NEW r \in Run, RunStep(p, r)
      PROVE  EndIsKept(q)
    <2>1. ASSUME NEW m \in Message, NEW st \in State, BeginInbound(p, m, r, st)
          PROVE  EndIsKept(q)
        BY <1>0, <2>1 DEF BeginInbound, WriteInbound, StoreTypeOK
    <2>2. ASSUME NEW expected \in ClaimableFrom, ClaimRun(p, r, expected)
          PROVE  EndIsKept(q)
        BY <1>0, <2>2 DEF ClaimRun, ClaimableFrom, StoreTypeOK
    <2>3. ASSUME NEW k \in Token \cup {NoToken},
                 NEW target \in TransitionTargets,
                 TransitionRun(p, r, target, k)
          PROVE  EndIsKept(q)
        <3>1. status[r] \in {"running", "waiting_approval", "interrupted"}
            BY <2>3 DEF TransitionRun, MayTransition, Transitions,
                        TransitionTargets
        <3>2. QED
            BY <1>0, <2>3, <3>1 DEF TransitionRun, StoreTypeOK
    <2>4. ASSUME NEW k \in Token, NEW x \in Text, CompleteRun(p, r, k, x)
          PROVE  EndIsKept(q)
        BY <1>0, <2>4 DEF CompleteRun, WriteCompletion, Owns, StoreTypeOK
    <2>5. QED
        BY <1>1, <1>2, <2>1, <2>2, <2>3, <2>4
           DEF RunStep, SaveCheckpoint, WriteCheckpoint, RenewRun, runVars
<1>3. ASSUME NEW r \in Run, NEW action \in ControlAction,
             AdminControlRun(r, action)
      PROVE  EndIsKept(q)
    <2>1. /\ status[r] \in {"running", "waiting_approval", "interrupted",
                            "failed"}
          /\ ControlTarget(action) \in {"interrupted", "cancelled"}
        BY <1>3 DEF AdminControlRun, ControlAction, ControlSources,
                    ControlTarget
    <2>2. QED
        BY <1>0, <1>3, <2>1 DEF AdminControlRun, StoreTypeOK
<1>4. ASSUME NEW p \in Owner, NEW locked \in SUBSET Run,
             InterruptIncomplete(p, locked)
      PROVE  EndIsKept(q)
    BY <1>4 DEF InterruptIncomplete, Abandoned
<1>5. QED
    BY <1>1, <1>2, <1>3, <1>4
       DEF StoreNext, ToolStep, ClaimTool, WriteExecution, CompleteTool,
           FailTool, SettleTool,
           AdminStep, AdminResolveTool, LeaseExpires, storeVars, runVars

(* The state machine of runs: an ended run stays ended against every       *)
(* caller; the administrator alone reopens a failed one, evicting whoever  *)
(* held it.                                                                *)
THEOREM EndsAreFinal == StoreSpec => EndedRunsStayEnded
<1>1. StoreInv /\ [StoreNext]_storeVars
        => [\A r \in Run : EndIsKept(r)]_storeVars
    BY StepKeepsEnds
<1>2. QED
    BY <1>1, StoreIsSound, PTL DEF StoreSpec, EndedRunsStayEnded

-----------------------------------------------------------------------------
(* The store implements Inbox: beginning a run accepts its message, and    *)
(* completing it answers that message.  OneRunPerMessage says that there   *)
(* is one such message, CompletionIsAtomic that it has no answer yet.      *)
LEMMA StepImplementsInbox ==
    StoreInv /\ [StoreNext]_storeVars
      => [InboxContract!Next]_(InboxContract!vars)
<1> DEFINE Accepted == {m \in Message : inbound[m] # NoRun}
<1> SUFFICES ASSUME StoreInv, [StoreNext]_storeVars
             PROVE  \/ UNCHANGED <<Accepted, response>>
                    \/ \E m \in Message :
                         \/ InboxContract!Accept(m)
                         \/ \E x \in Text : InboxContract!Answer(m, x)
    BY DEF InboxContract!Next, InboxContract!vars
<1>0. StoreTypeOK
    BY DEF StoreInv
<1>1. CASE UNCHANGED <<inbound, response>>
    BY <1>1
<1>2. ASSUME NEW p \in Owner, NEW r \in Run, NEW m \in Message,
             NEW st \in State, BeginInbound(p, m, r, st)
      PROVE  InboxContract!Accept(m)
    <2>1. Accepted' = Accepted \cup {m}
        BY <1>0, <1>2, RunStoreAssumption DEF BeginInbound, WriteInbound,
           StoreTypeOK
    <2>2. QED
        BY <1>2, <2>1 DEF BeginInbound, WriteInbound, InboxContract!Accept
<1>3. ASSUME NEW p \in Owner, NEW r \in Run, NEW k \in Token, NEW x \in Text,
             CompleteRun(p, r, k, x)
      PROVE  \E m \in Message : InboxContract!Answer(m, x)
    <2>1. status[r] = "running"
        BY <1>3 DEF CompleteRun, WriteCompletion, Owns
    <2>2. PICK m \in Message : inbound[m] = r
        BY <2>1 DEF StoreInv, OneRunPerMessage
    <2>3. m \in Accepted /\ response[m] = NoText
        BY <2>1, <2>2, RunStoreAssumption DEF StoreInv, CompletionIsAtomic
    <2>4. \A n \in Message : inbound[n] = r <=> n = m
        BY <2>2, RunStoreAssumption DEF StoreInv, OneRunPerMessage
    <2>5. response' = [response EXCEPT ![m] = x]
        BY <1>0, <1>3, <2>4 DEF CompleteRun, WriteCompletion, StoreTypeOK
    <2>6. Accepted' = Accepted
        BY <1>3 DEF CompleteRun, WriteCompletion
    <2>7. QED
        BY <2>3, <2>5, <2>6 DEF InboxContract!Answer
<1>4. QED
    BY <1>1, <1>2, <1>3
       DEF StoreNext, RunStep, ClaimRun, TransitionRun, SaveCheckpoint,
           WriteCheckpoint,
           RenewRun, ToolStep, ClaimTool, WriteExecution, CompleteTool,
           FailTool, SettleTool,
           AdminStep, AdminControlRun, AdminResolveTool, InterruptIncomplete,
           LeaseExpires, storeVars, inboundVars

(* Whatever happens to runs, leases and tokens, the gateway sees an inbox: *)
(* each message is accepted once and answered at most once, for good.      *)
THEOREM StoreImplementsInbox == StoreSpec => ImplementsInbox
<1>1. StoreInit => InboxContract!Init
    BY DEF StoreInit, InboxContract!Init
<1>2. StoreInv /\ [StoreNext]_storeVars
        => [InboxContract!Next]_(InboxContract!vars)
    BY StepImplementsInbox
<1>3. QED
    BY <1>1, <1>2, StoreIsSound, PTL
       DEF StoreSpec, ImplementsInbox, InboxContract!Spec
=============================================================================
