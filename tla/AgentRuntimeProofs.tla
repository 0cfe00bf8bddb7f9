------------------------- MODULE AgentRuntimeProofs -------------------------
(***************************************************************************)
(* What holds of the agent loop for any number of processes, threads,      *)
(* messages, calls and crashes.  Its steps are steps of the two stores, so *)
(* what RunStoreProofs and ApprovalStoreProofs say of the stores holds of  *)
(* them under the loop; and a call has its side effect at most once, and   *)
(* only if it is allowed or was confirmed.                                 *)
(***************************************************************************)
EXTENDS AgentRuntime, TLAPS

Store == INSTANCE RunStoreProofs WITH State <- SavedState
Approvals == INSTANCE ApprovalStoreProofs WITH Continuation <- SavedState,
                                               NoContinuation <- NoState

-----------------------------------------------------------------------------
(* The inductive invariant.                                                *)

WorldTypeOK ==
    /\ th \in [Thread -> Frame]
    /\ up \subseteq Process
    /\ inc \in [Process -> Incarnation]
    /\ sent \subseteq Request
    /\ offered \in [Process -> SUBSET Request]
    /\ issued \in [Run -> SUBSET Call]
    /\ effect \in [Run -> [Call -> Nat]]

(* A process that crashed may be started again.                            *)
StartsRemain == \A p \in Process \ up : inc[p] + 1 \in Incarnation

(* A run that exists can be resumed from its checkpoint; one that waits    *)
(* for an approval names a request that exists.                            *)
RunsHaveCheckpoints ==
    \A r \in Run : status[r] # "absent" =>
        token[r] # NoToken /\ checkpoint[r].state # NoState

ParkedOnRequest(r, s) ==
    s # NoState /\ s.action = "approval" =>
        s.calls # <<>> /\ approval[<<r, Head(s.calls)>>] # "absent"

CheckpointsNameRequests ==
    \A r \in Run : ParkedOnRequest(r, checkpoint[r].state)

(* A request that exists is for a protected call and can be resumed.       *)
RequestsHaveContinuations ==
    \A a \in Request : approval[a] # "absent" =>
        /\ continuation[a] \in SavedState
        /\ continuation[a].calls # <<>>
        /\ Policy[a[2]] = "approve"

OfferedWereAsked ==
    \A p \in Process : \A a \in offered[p] : approval[a] # "absent"

Spending == {"executing", "completed", "failed"}

(* At a call; in the middle of executing it; before any approval is read.  *)
ClaimedLabels == {"execute", "complete_tool", "complete_row", "fail_tool",
                  "fail_row"}
ToolLabels == {"renew_tool", "claim_tool"} \cup ClaimedLabels
CallLabels == ToolLabels \cup
              {"after_call", "gate", "park_checkpoint", "park", "card",
               "cancel_unsent", "consume_unsent", "rr_approval", "rr_wait",
               "rs_load", "rs_run", "rs_claim", "rs_token", "rs_consume",
               "rs_ledger", "rs_settle", "rs_fail", "rs_execute",
               "approval_done", "approval_fail"}
LoopLabels == {"idle", "context", "before_model", "renew_model", "model",
               "before_finalize", "before_tools", "complete", "rr_get",
               "rr_checkpoint", "rr_approval", "rr_claim", "rr_token",
               "rr_claim_final", "rr_token_final"}

CallOf(f) == <<f.run, Head(f.calls)>>

(* The call is allowed, or its request was confirmed and this thread took  *)
(* the confirmation.                                                       *)
Paid(f, requests) == /\ f.seen = "approved"
                     /\ Policy[Head(f.calls)] = "approve"
                     /\ requests[CallOf(f)] \in Spending
Admitted(f, requests) ==
    \/ f.seen # "approved" /\ Policy[Head(f.calls)] = "allow"
    \/ Paid(f, requests)

(* The call was claimed; as long as it has no outcome, by this thread.     *)
Claimed(f, rows) ==
    LET row == rows[f.run][Head(f.calls)] IN
    /\ row.status # "absent"
    /\ row.status = "running" => row.by = f.token /\ f.token # NoToken

(* What the label of a frame says of its locals, of the stores and of the  *)
(* effects.  No step of another thread can make it false.                  *)
FrameFits(f, runs, requests, rows, effects) ==
    /\ f.pc # "idle" => f.run \in Run
    /\ f.pc \in CallLabels => f.calls # <<>>
    /\ f.pc \in LoopLabels => f.seen = "none"
    /\ f.pc = "gate" => Policy[Head(f.calls)] = "approve"
    /\ f.pc \in {"after_call", "approval_done", "approval_fail", "rs_settle"}
         => f.out # "none"
    /\ f.pc = "rr_checkpoint" => runs[f.run] # "absent"
    /\ f.pc \in {"park_checkpoint", "rr_approval", "rs_load"} =>
         requests[CallOf(f)] # "absent"
    /\ f.pc = "rs_execute" => f.seen = "approved"
    /\ f.pc \in ToolLabels => Admitted(f, requests)
    /\ f.pc \in ClaimedLabels => Claimed(f, rows)
    /\ f.pc \in {"complete_tool", "complete_row"} =>
         effects[f.run][Head(f.calls)] # 0
    /\ f.pc \in {"approval_done", "rs_settle"} =>
         rows[f.run][Head(f.calls)].status = "completed"

Fits(f) == FrameFits(f, status, approval, ledger, effect)

FramesFit == \A t \in Thread : Fits(th[t])

(* Who is about to execute: nobody else is, and nobody was.                *)
Executes(f) == f.pc = "execute"
WillExecute(f) == f.pc \in {"renew_tool", "claim_tool"} /\ f.seen = "approved"

ExecutorsAreAlone ==
    \A t, u \in Thread :
        /\ Executes(th[t]) => effect[th[t].run][Head(th[t].calls)] = 0
        /\ WillExecute(th[t]) =>
             ledger[th[t].run][Head(th[t].calls)].status = "absent"
        /\ t # u /\ Executes(th[t]) /\ Executes(th[u]) =>
             CallOf(th[t]) # CallOf(th[u])
        /\ t # u /\ WillExecute(th[t]) /\ WillExecute(th[u]) =>
             CallOf(th[t]) # CallOf(th[u])

LedgerNeedsConsent ==
    \A r \in Run, c \in Call : ledger[r][c].status # "absent" =>
        \/ Policy[c] = "allow"
        \/ Policy[c] = "approve" /\ approval[<<r, c>>] \in Spending

EffectInv ==
    /\ ExecutorsAreAlone
    /\ LedgerNeedsConsent
    /\ AtMostOneEffect
    /\ CompletedConsentIsInLedger

BaseInv ==
    /\ Store!StoreInv
    /\ Approvals!ApprovalInv
    /\ WorldTypeOK
    /\ StartsRemain
    /\ RunsHaveCheckpoints
    /\ CheckpointsNameRequests
    /\ RequestsHaveContinuations
    /\ OfferedWereAsked
    /\ FramesFit

RuntimeInv == BaseInv /\ EffectInv

-----------------------------------------------------------------------------
(* The stores under the loop are the stores of the two proof modules.      *)
LEMMA SameStore ==
    /\ StoreInit <=> Store!StoreInit
    /\ StoreTypeOK <=> Store!StoreTypeOK
    /\ [StoreNext]_storeVars <=> [Store!StoreNext]_(Store!storeVars)
<1>1. /\ StoreInit <=> Store!StoreInit
      /\ StoreTypeOK <=> Store!StoreTypeOK
    BY DEF StoreInit, Store!StoreInit, NoToken, Store!NoToken, NoCheckpoint,
           Store!NoCheckpoint, NoExecution, Store!NoExecution, StoreTypeOK,
           Store!StoreTypeOK, Store!RunStatus, RunStatus, Store!Lease,
           Lease, Store!Token, Token, Store!Checkpoint, Checkpoint,
           Store!Execution, Execution, Store!ToolStatus, ToolStatus
<1>2. StoreNext <=> Store!StoreNext
    <2>1. ASSUME NEW p \in Owner, NEW r \in Run
          PROVE  RunStep(p, r) <=> Store!RunStep(p, r)
      BY DEF RunStep, Store!RunStep, BeginInbound, Store!BeginInbound,
             WriteInbound, Store!WriteInbound, ClaimRun, Store!ClaimRun,
             TransitionRun, Store!TransitionRun, MayTransition,
             Store!MayTransition, Transitions, Store!Transitions,
             TransitionTargets, Store!TransitionTargets, ClaimableFrom,
             Store!ClaimableFrom, SaveCheckpoint, Store!SaveCheckpoint,
             WriteCheckpoint, Store!WriteCheckpoint, CompleteRun,
             Store!CompleteRun, WriteCompletion, Store!WriteCompletion,
             RenewRun, Store!RenewRun, Owns, Store!Owns, Token, Store!Token,
             NoToken, Store!NoToken, runVars, Store!runVars, inboundVars,
             Store!inboundVars
    <2>2. ASSUME NEW p \in Owner, NEW r \in Run
          PROVE  ToolStep(p, r) <=> Store!ToolStep(p, r)
      BY DEF ToolStep, Store!ToolStep, ClaimTool, Store!ClaimTool,
             WriteExecution, Store!WriteExecution, CompleteTool,
             Store!CompleteTool, FailTool, Store!FailTool, SettleTool,
             Store!SettleTool, SettleRow, Store!SettleRow, Owns, Store!Owns,
             Token, Store!Token, runVars, Store!runVars, inboundVars,
             Store!inboundVars
    <2>3. ASSUME NEW r \in Run PROVE AdminStep(r) <=> Store!AdminStep(r)
      BY DEF AdminStep, Store!AdminStep, AdminControlRun,
             Store!AdminControlRun, ControlAction, Store!ControlAction,
             ControlSources, Store!ControlSources, ControlTarget,
             Store!ControlTarget, AdminResolveTool, Store!AdminResolveTool,
             SettleRow, Store!SettleRow, NoToken, Store!NoToken, runVars,
             Store!runVars, inboundVars, Store!inboundVars
    <2>4. ASSUME NEW p \in Owner, NEW locked \in SUBSET Run
          PROVE  InterruptIncomplete(p, locked)
                   <=> Store!InterruptIncomplete(p, locked)
      BY DEF InterruptIncomplete, Store!InterruptIncomplete, Abandoned,
             Store!Abandoned, inboundVars, Store!inboundVars
    <2>5. ASSUME NEW r \in Run PROVE LeaseExpires(r) <=> Store!LeaseExpires(r)
      BY DEF LeaseExpires, Store!LeaseExpires, inboundVars,
             Store!inboundVars
    <2>6. QED
      BY <2>1, <2>2, <2>3, <2>4, <2>5 DEF StoreNext, Store!StoreNext
<1>3. UNCHANGED storeVars <=> UNCHANGED Store!storeVars
    BY DEF storeVars, Store!storeVars, runVars, Store!runVars, inboundVars,
           Store!inboundVars
<1>4. QED
    BY <1>1, <1>2, <1>3

LEMMA SameApprovals ==
    /\ ApprovalInit <=> Approvals!ApprovalInit
    /\ ApprovalTypeOK <=> Approvals!ApprovalTypeOK
    /\ [ApprovalNext]_approvalVars
         <=> [Approvals!ApprovalNext]_(Approvals!approvalVars)
    BY DEF ApprovalInit, Approvals!ApprovalInit, ApprovalTypeOK,
           Approvals!ApprovalTypeOK, ApprovalStatus,
           Approvals!ApprovalStatus, ApprovalNext, Approvals!ApprovalNext,
           CreateRequest, Approvals!CreateRequest, DeadlinePasses,
           Approvals!DeadlinePasses, DecideTooLate, Approvals!DecideTooLate,
           Decide, Approvals!Decide, Verdict, Approvals!Verdict,
           ClaimExecution, Approvals!ClaimExecution, CompleteApproval,
           Approvals!CompleteApproval, FailApproval, Approvals!FailApproval,
           Move, Approvals!Move, MarkConsumed, Approvals!MarkConsumed,
           ExpirePending, Approvals!ExpirePending, AfterExpiry,
           Approvals!AfterExpiry, Expired, Approvals!Expired, approvalVars,
           Approvals!approvalVars

LEMMA StoreStep ==
    ASSUME Store!StoreInv, [Store!StoreNext]_(Store!storeVars)
    PROVE  /\ Store!StoreInv'
           /\ \A r \in Run, c \in Call : Store!RowIsKept(r, c)
           /\ \A r \in Run : Store!OutcomesSettleCalls(r)
    BY StoresAssumption, Store!StepKeepsInv, Store!StepKeepsRows,
       Store!StepIsFenced

LEMMA ApprovalStep ==
    ASSUME Approvals!ApprovalInv,
           [Approvals!ApprovalNext]_(Approvals!approvalVars)
    PROVE  Approvals!ApprovalInv'
    BY StoresAssumption, Approvals!ApprovalStepKeepsInv

-----------------------------------------------------------------------------
(* What the steps of the stores never take back.                           *)
RunsStay == \A r \in Run : status[r] # "absent" => status'[r] # "absent"
RowsStay ==
    \A r \in Run, c \in Call :
        /\ ledger[r][c].status # "absent" => ledger'[r][c].status # "absent"
        /\ ledger[r][c].status = "completed" =>
             ledger'[r][c].status = "completed"
        /\ ledger[r][c].status # "absent" /\ ledger'[r][c].status = "running"
             => ledger'[r][c] = ledger[r][c]
EffectsStay == \A r \in Run, c \in Call : effect[r][c] # 0 => effect'[r][c] # 0
RequestsStay ==
    \A a \in Request :
        /\ approval[a] # "absent" =>
             approval'[a] # "absent" /\ continuation'[a] = continuation[a]
        /\ approval[a] \in Spending => approval'[a] \in Spending

LEMMA RunsAreKept ==
    ASSUME StoreTypeOK, RunsHaveCheckpoints, [StoreNext]_storeVars
    PROVE  RunsStay /\ RunsHaveCheckpoints'
<1> SUFFICES ASSUME NEW q \in Run
             PROVE  /\ status[q] # "absent" => status'[q] # "absent"
                    /\ status'[q] # "absent" =>
                         token'[q] # NoToken /\ checkpoint'[q].state # NoState
    BY DEF RunsStay, RunsHaveCheckpoints
<1> DEFINE Kept == /\ status[q] # "absent" <=> status'[q] # "absent"
                   /\ token[q] # NoToken => token'[q] # NoToken
                   /\ checkpoint[q].state # NoState =>
                        checkpoint'[q].state # NoState
<1>1. SUFFICES Kept \/ /\ status[q] = "absent" /\ status'[q] # "absent"
                       /\ token'[q] # NoToken
                       /\ checkpoint'[q].state # NoState
    BY DEF RunsHaveCheckpoints
<1>2. CASE UNCHANGED storeVars
    BY <1>2 DEF storeVars, runVars
<1>3. ASSUME NEW p \in Owner, NEW m \in Message, NEW r \in Run,
             NEW st \in SavedState, BeginInbound(p, m, r, st)
      PROVE  Kept \/ /\ status[q] = "absent" /\ status'[q] # "absent"
                     /\ token'[q] # NoToken
                     /\ checkpoint'[q].state # NoState
    BY <1>3, StoresAssumption
       DEF BeginInbound, WriteInbound, StoreTypeOK, NoToken
<1>4. ASSUME NEW p \in Owner, NEW r \in Run,
             \/ \E expected \in ClaimableFrom : ClaimRun(p, r, expected)
             \/ \E k \in Token \cup {NoToken}, target \in TransitionTargets :
                  TransitionRun(p, r, target, k)
             \/ \E k \in Token, x \in Text : CompleteRun(p, r, k, x)
             \/ \E k \in Token : RenewRun(p, r, k)
      PROVE  Kept
    BY <1>4 DEF ClaimableFrom, ClaimRun, TransitionTargets, TransitionRun,
                MayTransition, Transitions, CompleteRun, WriteCompletion, Owns,
                RenewRun, StoreTypeOK, Token, NoToken
<1>5. ASSUME NEW p \in Owner, NEW r \in Run, NEW k \in Token,
             NEW st \in SavedState, SaveCheckpoint(p, r, k, st)
      PROVE  Kept
    BY <1>5, StoresAssumption
       DEF SaveCheckpoint, WriteCheckpoint, runVars, StoreTypeOK
<1>6. ASSUME NEW p \in Owner, NEW r \in Run, ToolStep(p, r)
      PROVE  Kept
    BY <1>6 DEF ToolStep, ClaimTool, WriteExecution, CompleteTool, FailTool,
                SettleTool, runVars
<1>7. ASSUME NEW p \in Owner, NEW locked \in SUBSET Run,
             InterruptIncomplete(p, locked)
      PROVE  Kept
    BY <1>7 DEF InterruptIncomplete, Abandoned
<1>8. ASSUME NEW p \in Owner, NEW r \in Run, RunStep(p, r)
      PROVE  Kept \/ /\ status[q] = "absent" /\ status'[q] # "absent"
                     /\ token'[q] # NoToken
                     /\ checkpoint'[q].state # NoState
    BY <1>3, <1>4, <1>5, <1>8 DEF RunStep
<1>9. ASSUME NEW r \in Run, AdminStep(r) \/ LeaseExpires(r)
      PROVE  Kept
    BY <1>9 DEF AdminStep, AdminControlRun, ControlAction, ControlSources,
                ControlTarget, AdminResolveTool, LeaseExpires, runVars,
                StoreTypeOK, Token, NoToken
<1> HIDE DEF Kept
<1>10. QED
    BY <1>2, <1>6, <1>7, <1>8, <1>9 DEF StoreNext

LEMMA RequestsAreKept ==
    ASSUME ApprovalTypeOK, [ApprovalNext]_approvalVars
    PROVE  RequestsStay
    BY DEF RequestsStay, Spending, ApprovalTypeOK, ApprovalNext, approvalVars,
           CreateRequest, DeadlinePasses, DecideTooLate, Decide, Verdict,
           ClaimExecution, CompleteApproval, FailApproval, Move, MarkConsumed,
           ExpirePending, AfterExpiry, Expired

(* A step of the stores keeps their invariants and everything above.       *)
StoresStep == [StoreNext]_storeVars /\ [ApprovalNext]_approvalVars

LEMMA StoresKeepInv ==
    ASSUME BaseInv, StoresStep
    PROVE  /\ Store!StoreInv' /\ Approvals!ApprovalInv' /\ RunsHaveCheckpoints'
           /\ RunsStay /\ RowsStay /\ RequestsStay
<1>1. StoreTypeOK /\ ApprovalTypeOK
    BY SameStore, SameApprovals
       DEF BaseInv, Store!StoreInv, Approvals!ApprovalInv
<1>2. RunsHaveCheckpoints' /\ RunsStay /\ RequestsStay
    BY <1>1, RunsAreKept, RequestsAreKept DEF BaseInv, StoresStep
<1>3. /\ Store!StoreInv'
      /\ \A r \in Run, c \in Call : Store!RowIsKept(r, c)
      /\ \A r \in Run : Store!OutcomesSettleCalls(r)
    <2>1. Store!StoreInv /\ [Store!StoreNext]_(Store!storeVars)
        BY SameStore DEF BaseInv, StoresStep
    <2>2. QED
        BY <2>1, StoreStep
<1>4. RowsStay
    BY <1>3 DEF RowsStay, Store!RowIsKept, Store!Settled,
                Store!OutcomesSettleCalls
<1>5. Approvals!ApprovalInv'
    <2>1. /\ Approvals!ApprovalInv
          /\ [Approvals!ApprovalNext]_(Approvals!approvalVars)
        BY SameApprovals DEF BaseInv, StoresStep
    <2>2. QED
        BY <2>1, ApprovalStep
<1>6. QED
    BY <1>2, <1>3, <1>4, <1>5

-----------------------------------------------------------------------------
(* Frames.                                                                 *)

LEMMA CallOfFrame ==
    ASSUME NEW f \in Frame, f.calls # <<>>
    PROVE  /\ Head(f.calls) \in Call
           /\ Tail(f.calls) \in Seq(Call)
           /\ f.run \in Run => CallOf(f) \in Request
    BY DEF Frame, CallOf, Request

LEMMA SavedIsState ==
    ASSUME NEW f \in Frame,
           NEW action \in {"model", "tools", "approval", "finalize"}
    PROVE  Saved(action, f) \in SavedState
    BY DEF Saved, SavedState, Frame

(* What a frame was fit for it stays fit for.                              *)
LEMMA FrameStaysFit ==
    ASSUME NEW f \in Frame, Fits(f), RunsStay, RowsStay, RequestsStay,
           EffectsStay
    PROVE  FrameFits(f, status', approval', ledger', effect')
<1>1. CASE f.pc \in CallLabels
    <2>1. f.run \in Run /\ Head(f.calls) \in Call /\ CallOf(f) \in Request
        BY <1>1, CallOfFrame
           DEF Fits, FrameFits, CallLabels, ToolLabels, ClaimedLabels
    <2>2. QED
        BY <1>1, <2>1
           DEF Fits, FrameFits, RunsStay, RowsStay, RequestsStay, EffectsStay,
               CallLabels, ToolLabels, ClaimedLabels, Admitted, Paid, Claimed
<1>2. CASE f.pc \notin CallLabels
    BY <1>2
       DEF Fits, FrameFits, RunsStay, CallLabels, ToolLabels, ClaimedLabels
<1>3. QED
    BY <1>1, <1>2

(* A frame a thread can be left with that executes nothing next.           *)
Quiet(f) == ~Executes(f) /\ ~WillExecute(f)
Calm(f) == f \in Frame /\ Fits(f) /\ Quiet(f)

LEMMA IdleIsCalm == Calm(Idle)
    BY DEF Calm, Idle, Frame, Labels, Fits, FrameFits, CallLabels, ToolLabels,
           ClaimedLabels, Quiet, Executes, WillExecute, NoToken

(* Labels at which only the run matters.                                   *)
LEMMA LabelIsCalm ==
    ASSUME NEW f \in Frame, f.run \in Run,
           NEW l \in {"context", "before_model", "renew_model", "model",
                      "before_finalize", "before_tools", "complete",
                      "interrupt", "rr_get", "rr_claim", "rr_token",
                      "rr_claim_final", "rr_token_final"},
           l # "interrupt" => f.seen = "none"
    PROVE  Calm([f EXCEPT !.pc = l])
    BY DEF Calm, Frame, Labels, Fits, FrameFits, CallLabels, ToolLabels,
           ClaimedLabels, LoopLabels, Quiet, Executes, WillExecute

(* Labels at which only the run and the call matter.                       *)
LEMMA CallLabelIsCalm ==
    ASSUME NEW f \in Frame, f.run \in Run, f.calls # <<>>,
           NEW l \in {"after_call", "park", "card", "cancel_unsent",
                      "consume_unsent", "rr_wait", "rs_run",
                      "rs_claim", "rs_token", "rs_consume", "rs_ledger",
                      "rs_fail", "rs_execute", "approval_fail"},
           l \in {"after_call", "approval_fail"} => f.out # "none",
           l = "rs_execute" => f.seen = "approved"
    PROVE  Calm([f EXCEPT !.pc = l])
    BY DEF Calm, Frame, Labels, Fits, FrameFits, CallLabels, ToolLabels,
           ClaimedLabels, LoopLabels, Quiet, Executes, WillExecute

(* Labels of a call at which the gate, the request or the result matters   *)
(* too.                                                                    *)
LEMMA CallIsCalm ==
    ASSUME NEW g \in Frame, g.run \in Run, g.calls # <<>>,
           g.pc \in {"after_call", "gate", "rs_load", "rs_settle",
                     "approval_done"},
           g.pc \in {"after_call", "approval_done", "rs_settle"} =>
             g.out # "none",
           g.pc = "gate" => Policy[Head(g.calls)] = "approve",
           g.pc = "rs_load" => approval[CallOf(g)] # "absent",
           g.pc \in {"approval_done", "rs_settle"} =>
             ledger[g.run][Head(g.calls)].status = "completed"
    PROVE  Calm(g)
<1>1. /\ g.pc \notin LoopLabels /\ g.pc \notin ToolLabels
      /\ g.pc \notin ClaimedLabels
      /\ g.pc \notin {"complete_tool", "complete_row"}
    BY DEF LoopLabels, ToolLabels, ClaimedLabels
<1>2. Fits(g)
    BY <1>1 DEF Fits, FrameFits
<1>3. Quiet(g)
    BY DEF Quiet, Executes, WillExecute
<1>4. QED
    BY <1>2, <1>3 DEF Calm

LEMMA ProceedIsCalm ==
    ASSUME NEW f \in Frame, f.run \in Run, f.seen = "none"
    PROVE  Calm(Proceed(f))
<1>1. CASE f.calls = <<>>
    <2>1. \/ Proceed(f) = [f EXCEPT !.pc = "before_model"]
          \/ Proceed(f) = [f EXCEPT !.pc = "complete"]
        BY <1>1 DEF Proceed
    <2>2. QED
        BY <2>1, LabelIsCalm
<1>2. CASE f.calls # <<>>
    <2>1. Head(f.calls) \in Call
        BY <1>2, CallOfFrame
    <2>2. CASE Policy[Head(f.calls)] = "allow"
        <3> DEFINE g == [f EXCEPT !.pc = "renew_tool"]
        <3>1. Proceed(f) = g
            BY <1>2, <2>2 DEF Proceed
        <3>2. "renew_tool" \in Labels
            BY DEF Labels
        <3>3. /\ g \in Frame /\ g.pc = "renew_tool" /\ g.run = f.run
              /\ g.calls = f.calls /\ g.seen = "none"
            BY <3>2 DEF Frame
        <3> HIDE DEF g
        <3>4. /\ g.pc \in CallLabels /\ g.pc \in ToolLabels
              /\ g.pc \notin LoopLabels /\ g.pc \notin ClaimedLabels
            BY <3>3 DEF CallLabels, ToolLabels, LoopLabels, ClaimedLabels
        <3>5. Admitted(g, approval)
            BY <2>2, <3>3 DEF Admitted
        <3>6. Fits(g)
            BY <1>2, <3>3, <3>4, <3>5 DEF Fits, FrameFits
        <3>7. Quiet(g)
            BY <3>3 DEF Quiet, Executes, WillExecute
        <3>8. QED
            BY <3>1, <3>3, <3>6, <3>7 DEF Calm
    <2>3. CASE Policy[Head(f.calls)] = "approve"
        <3> DEFINE g == [f EXCEPT !.pc = "gate"]
        <3>1. Proceed(f) = g
            BY <1>2, <2>3 DEF Proceed
        <3>2. "gate" \in Labels
            BY DEF Labels
        <3>3. /\ g \in Frame /\ g.pc = "gate" /\ g.run = f.run
              /\ g.calls = f.calls
            BY <3>2 DEF Frame
        <3> HIDE DEF g
        <3>4. QED
            BY <1>2, <2>3, <3>1, <3>3, CallIsCalm
    <2>4. CASE Policy[Head(f.calls)] \notin {"allow", "approve"}
        <3> DEFINE g == [f EXCEPT !.pc = "after_call", !.out = "denied"]
        <3>1. Proceed(f) = g
            BY <1>2, <2>4 DEF Proceed
        <3>2. "after_call" \in Labels /\ "denied" \in Output
            BY DEF Labels, Output
        <3>3. /\ g \in Frame /\ g.pc = "after_call" /\ g.run = f.run
              /\ g.calls = f.calls /\ g.out = "denied"
            BY <3>2 DEF Frame
        <3> HIDE DEF g
        <3>4. QED
            BY <1>2, <3>1, <3>3, CallIsCalm
    <2>5. QED
        BY <2>2, <2>3, <2>4
<1>3. QED
    BY <1>1, <1>2

LEMMA RaiseIsCalm ==
    ASSUME NEW t \in Thread, th[t] \in Frame, th[t].run \in Run, Raise(t)
    PROVE  \E g \in Frame : Calm(g) /\ Become(t, g)
<1>1. CASE th[t].guarded
    <2>1. Become(t, [th[t] EXCEPT !.pc = "interrupt"])
        BY <1>1 DEF Raise, Goto
    <2>2. QED
        BY <2>1, LabelIsCalm DEF Calm
<1>2. CASE ~th[t].guarded
    BY <1>2, IdleIsCalm DEF Raise, Return, Calm
<1>3. QED
    BY <1>1, <1>2

LEMMA ToolRaisesIsCalm ==
    ASSUME NEW f \in Frame, f.run \in Run, f.calls # <<>>
    PROVE  Calm(ToolRaises(f))
<1> DEFINE h == [f EXCEPT !.out = "failed"]
<1>1. h \in Frame /\ h.run \in Run /\ h.calls # <<>> /\ h.out # "none"
    BY DEF Frame, Output
<1>2. \/ ToolRaises(f) = [h EXCEPT !.pc = "approval_fail"]
      \/ ToolRaises(f) = [h EXCEPT !.pc = "after_call"]
    BY DEF ToolRaises, Frame
<1> HIDE DEF h
<1>3. QED
    BY <1>1, <1>2, CallLabelIsCalm

-----------------------------------------------------------------------------
(* Steps.                                                                  *)

(* The base of the invariant, from what a step does to its parts.          *)
LEMMA BaseIsKept ==
    ASSUME BaseInv, StoresStep, WorldTypeOK', StartsRemain',
           CheckpointsNameRequests', RequestsHaveContinuations',
           OfferedWereAsked', EffectsStay,
           \A t \in Thread :
             \/ th'[t] = th[t]
             \/ FrameFits(th'[t], status', approval', ledger', effect')
    PROVE  BaseInv'
<1>1. /\ Store!StoreInv' /\ Approvals!ApprovalInv' /\ RunsHaveCheckpoints'
      /\ RunsStay /\ RowsStay /\ RequestsStay
    BY StoresKeepInv
<1>2. ASSUME NEW t \in Thread
      PROVE  Fits(th[t])'
    <2>1. th[t] \in Frame /\ Fits(th[t])
        BY DEF BaseInv, WorldTypeOK, FramesFit
    <2>2. FrameFits(th'[t], status', approval', ledger', effect')
        BY <1>1, <2>1, FrameStaysFit
    <2>3. QED
        BY <2>2 DEF Fits
<1>3. QED
    BY <1>1, <1>2 DEF BaseInv, FramesFit

(* Requests and parked checkpoints still fit together after a step that    *)
(* makes no request.                                                       *)
LEMMA RequestsStayFit ==
    ASSUME BaseInv, RequestsStay,
           \A r \in Run : ParkedOnRequest(r, checkpoint'[r].state),
           \A r \in Run : checkpoint'[r].state \in SavedState \cup {NoState},
           \A a \in Request : approval'[a] # "absent" => approval[a] # "absent"
    PROVE  CheckpointsNameRequests' /\ RequestsHaveContinuations'
<1>1. CheckpointsNameRequests'
    <2> SUFFICES ASSUME NEW r \in Run, checkpoint'[r].state # NoState,
                        checkpoint'[r].state.action = "approval"
                 PROVE  /\ checkpoint'[r].state.calls # <<>>
                        /\ approval'[<<r, Head(checkpoint'[r].state.calls)>>]
                             # "absent"
        BY DEF CheckpointsNameRequests, ParkedOnRequest
    <2>1. <<r, Head(checkpoint'[r].state.calls)>> \in Request
        BY DEF ParkedOnRequest, SavedState, Request
    <2>2. QED
        BY <2>1 DEF ParkedOnRequest, RequestsStay
<1>2. RequestsHaveContinuations'
    BY DEF BaseInv, RequestsHaveContinuations, RequestsStay
<1>3. QED
    BY <1>1, <1>2

(* The effects, for a step that executes nothing and prepares nothing.     *)
SameExecutors ==
    \A t \in Thread :
        /\ Executes(th'[t]) => Executes(th[t]) /\ CallOf(th'[t]) = CallOf(th[t])
        /\ WillExecute(th'[t]) =>
             WillExecute(th[t]) /\ CallOf(th'[t]) = CallOf(th[t])

LEMMA EffectsAreKept ==
    ASSUME RuntimeInv, StoresStep, UNCHANGED effect, SameExecutors,
           \A r \in Run, c \in Call :
             ledger'[r][c].status # "absent" => ledger[r][c].status # "absent",
           \A r \in Run, c \in Call :
             approval'[<<r, c>>] = "completed" =>
               approval[<<r, c>>] = "completed" \/ ledger[r][c].status = "completed"
    PROVE  EffectInv'
<1>1. RowsStay /\ RequestsStay
    BY StoresKeepInv DEF RuntimeInv
<1>2. ExecutorsAreAlone'
    <2> SUFFICES ASSUME NEW t \in Thread, NEW u \in Thread
                 PROVE
        /\ Executes(th'[t]) => effect'[th'[t].run][Head(th'[t].calls)] = 0
        /\ WillExecute(th'[t]) =>
             ledger'[th'[t].run][Head(th'[t].calls)].status = "absent"
        /\ t # u /\ Executes(th'[t]) /\ Executes(th'[u]) =>
             CallOf(th'[t]) # CallOf(th'[u])
        /\ t # u /\ WillExecute(th'[t]) /\ WillExecute(th'[u]) =>
             CallOf(th'[t]) # CallOf(th'[u])
        BY DEF ExecutorsAreAlone, Executes, WillExecute, CallOf
    <2>1. ASSUME NEW v \in Thread, Executes(th[v]) \/ WillExecute(th[v])
          PROVE  th[v].run \in Run /\ Head(th[v].calls) \in Call
        <3>1. th[v] \in Frame /\ Fits(th[v])
            BY DEF RuntimeInv, BaseInv, WorldTypeOK, FramesFit
        <3>2. QED
            BY <2>1, <3>1, CallOfFrame
               DEF Executes, WillExecute, Fits, FrameFits, CallLabels,
                   ToolLabels, ClaimedLabels
    <2>2. QED
        BY <2>1 DEF RuntimeInv, EffectInv, ExecutorsAreAlone, SameExecutors,
                    CallOf
<1>3. LedgerNeedsConsent'
    <2> SUFFICES ASSUME NEW r \in Run, NEW c \in Call,
                        ledger'[r][c].status # "absent"
                 PROVE  \/ Policy[c] = "allow"
                        \/ /\ Policy[c] = "approve"
                           /\ approval'[<<r, c>>] \in Spending
        BY DEF LedgerNeedsConsent
    <2>1. <<r, c>> \in Request
        BY DEF Request
    <2>2. QED
        BY <1>1, <2>1 DEF RuntimeInv, EffectInv, LedgerNeedsConsent,
                          RequestsStay
<1>4. AtMostOneEffect'
    BY <1>1 DEF RuntimeInv, EffectInv, AtMostOneEffect, RowsStay
<1>5. CompletedConsentIsInLedger'
    BY <1>1 DEF RuntimeInv, EffectInv, CompletedConsentIsInLedger, RowsStay
<1>6. QED
    BY <1>2, <1>3, <1>4, <1>5 DEF EffectInv

(* What most steps of threads have in common, apart from the frame: no     *)
(* request is made; and no call begins or has an effect, and an approval   *)
(* is completed only if the ledger is.                                     *)
RoutineBase ==
    /\ StoresStep
    /\ UNCHANGED <<up, inc>>
    /\ sent' \subseteq Request
    /\ issued' \in [Run -> SUBSET Call]
    /\ effect' \in [Run -> [Call -> Nat]]
    /\ EffectsStay
    /\ offered' \in [Process -> SUBSET Request]
    /\ \A p \in Process : offered'[p] \subseteq offered[p]
    /\ \A r \in Run : ParkedOnRequest(r, checkpoint'[r].state)
    /\ \A a \in Request : approval'[a] # "absent" => approval[a] # "absent"

Routine ==
    /\ RoutineBase
    /\ UNCHANGED effect
    /\ \A r \in Run, c \in Call :
         /\ ledger'[r][c].status # "absent" => ledger[r][c].status # "absent"
         /\ approval'[<<r, c>>] = "completed" =>
              \/ approval[<<r, c>>] = "completed"
              \/ ledger[r][c].status = "completed"

LEMMA CheckpointsAreStates ==
    ASSUME StoreTypeOK
    PROVE  \A r \in Run : checkpoint[r].state \in SavedState \cup {NoState}
    BY DEF StoreTypeOK, Checkpoint

LEMMA RoutineKeepsBase ==
    ASSUME BaseInv, RoutineBase, th' \in [Thread -> Frame],
           \A t \in Thread :
             \/ th'[t] = th[t]
             \/ FrameFits(th'[t], status', approval', ledger', effect')
    PROVE  BaseInv'
<1>1. StoresStep /\ RequestsStay /\ Store!StoreInv'
    BY StoresKeepInv DEF RoutineBase
<1>2. \A r \in Run : checkpoint'[r].state \in SavedState \cup {NoState}
    BY <1>1 DEF Store!StoreInv, Store!StoreTypeOK, Store!Checkpoint
<1>3. WorldTypeOK' /\ StartsRemain'
    BY DEF RoutineBase, BaseInv, WorldTypeOK, StartsRemain
<1>4. CheckpointsNameRequests' /\ RequestsHaveContinuations'
    BY <1>1, <1>2, RequestsStayFit DEF RoutineBase
<1>5. OfferedWereAsked'
    BY <1>1
         DEF RoutineBase, BaseInv, WorldTypeOK, OfferedWereAsked, RequestsStay
<1>6. QED
    BY <1>1, <1>3, <1>4, <1>5, BaseIsKept DEF RoutineBase

(* What is proved of every step.                                           *)
SoundStep == RuntimeInv' /\ StoresStep

LEMMA RoutineStepTo ==
    ASSUME RuntimeInv, Routine, NEW t \in Thread, NEW g \in Frame,
           FrameFits(g, status', approval', ledger', effect'), Quiet(g),
           Become(t, g)
    PROVE  SoundStep
<1>1. th \in [Thread -> Frame] /\ th' \in [Thread -> Frame]
    BY DEF RuntimeInv, BaseInv, WorldTypeOK, Become
<1>2. \A u \in Thread : th'[u] = IF u = t THEN g ELSE th[u]
    BY <1>1 DEF Become
<1>3. BaseInv'
    BY <1>1, <1>2, RoutineKeepsBase DEF RuntimeInv, Routine
<1>4. EffectInv'
    BY <1>2, EffectsAreKept DEF Routine, RoutineBase, SameExecutors, Quiet
<1>5. QED
    BY <1>3, <1>4 DEF RuntimeInv, SoundStep, Routine, RoutineBase

LEMMA RoutineStep ==
    ASSUME RuntimeInv, Routine, NEW t \in Thread, NEW g, Calm(g), Become(t, g)
    PROVE  SoundStep
<1>1. RunsStay /\ RowsStay /\ RequestsStay /\ EffectsStay
    BY StoresKeepInv DEF Routine, RoutineBase, RuntimeInv
<1>2. FrameFits(g, status', approval', ledger', effect')
    BY <1>1, FrameStaysFit DEF Calm
<1>3. QED
    BY <1>2, RoutineStepTo DEF Calm

LEMMA ThreadFacts ==
    ASSUME BaseInv, NEW t \in Thread
    PROVE  /\ th[t] \in Frame /\ Fits(th[t])
           /\ Me(t) \in Owner
           /\ th[t].pc # "idle" => th[t].run \in Run
           /\ th[t].pc # "idle" /\ Owning(t) => th[t].token \in Token
<1>1. th[t] \in Frame /\ Fits(th[t])
    BY DEF BaseInv, WorldTypeOK, FramesFit
<1>2. Me(t) \in Owner
    BY RuntimeAssumption DEF BaseInv, WorldTypeOK, Me, Owner
<1>3. th[t].pc # "idle" => th[t].run \in Run
    BY <1>1 DEF Fits, FrameFits
<1>4. StoreTypeOK /\ RunsHaveCheckpoints
    BY SameStore DEF BaseInv, Store!StoreInv
<1>5. th[t].pc # "idle" /\ Owning(t) => th[t].token \in Token
    BY <1>3, <1>4 DEF StoreTypeOK, RunsHaveCheckpoints, Owning, Owns
<1>6. QED
    BY <1>1, <1>2, <1>3, <1>5

(* Steps that leave the databases alone, that change rows of runs or a     *)
(* checkpoint, and that change approvals.                                  *)
LEMMA ThreadOnlyIsRoutine ==
    ASSUME RuntimeInv, OnlyThread
    PROVE  Routine
    BY DEF RuntimeInv, BaseInv, WorldTypeOK, CheckpointsNameRequests,
           OnlyThread, Routine, RoutineBase, EffectsStay, StoresStep,
           storeVars, runVars,
           inboundVars,
           approvalVars, sessionDb, approvalDb, processVars, worldVars

LEMMA RunStepIsRoutine ==
    ASSUME RuntimeInv, [StoreNext]_storeVars,
           UNCHANGED <<ledger, approvalDb, processVars, worldVars>>,
           \A r \in Run : \/ checkpoint'[r] = checkpoint[r]
                          \/ ParkedOnRequest(r, checkpoint'[r].state)
    PROVE  Routine
    BY DEF RuntimeInv, BaseInv, WorldTypeOK, CheckpointsNameRequests,
           Routine, RoutineBase, EffectsStay, StoresStep, approvalVars,
           approvalDb,
           processVars,
           worldVars

LEMMA ApprovalStepIsRoutine ==
    ASSUME RuntimeInv, [ApprovalNext]_approvalVars,
           UNCHANGED <<sessionDb, processVars, worldVars>>,
           \A a \in Request : approval'[a] # "absent" => approval[a] # "absent",
           \A r \in Run, c \in Call :
             approval'[<<r, c>>] = "completed" =>
               approval[<<r, c>>] = "completed" \/ ledger[r][c].status = "completed"
    PROVE  Routine
    BY DEF RuntimeInv, BaseInv, WorldTypeOK, CheckpointsNameRequests,
           Routine, RoutineBase, EffectsStay, StoresStep, storeVars, runVars,
           inboundVars,
           sessionDb,
           processVars, worldVars

LEMMA SaveStep ==
    ASSUME RuntimeInv, NEW t \in Thread, th[t].pc # "idle",
           NEW state \in SavedState, ParkedOnRequest(th[t].run, state),
           NEW next, Calm(next), Save(t, state, next)
    PROVE  SoundStep
<1>1. /\ th[t] \in Frame /\ th[t].run \in Run /\ Me(t) \in Owner
      /\ Owning(t) => th[t].token \in Token
    BY ThreadFacts DEF RuntimeInv
<1>2. CASE SaveCheckpoint(Me(t), th[t].run, th[t].token, state)
           /\ Become(t, next)
    <2>1. StoreNext
        <3>1. th[t].token \in Token
            BY <1>1, <1>2 DEF SaveCheckpoint, Owning
        <3>2. RunStep(Me(t), th[t].run)
            BY <1>2, <3>1 DEF RunStep
        <3>3. QED
            BY <1>1, <3>2 DEF StoreNext
    <2>2. \A r \in Run : \/ checkpoint'[r] = checkpoint[r]
                         \/ ParkedOnRequest(r, checkpoint'[r].state)
        <3>1. checkpoint \in [Run -> Checkpoint]
            BY SameStore DEF RuntimeInv, BaseInv, Store!StoreInv, StoreTypeOK
        <3>2. QED
            BY <1>2, <3>1 DEF SaveCheckpoint, WriteCheckpoint, ParkedOnRequest
    <2>3. Routine
        BY <1>2, <2>1, <2>2, RunStepIsRoutine
           DEF Save, SaveCheckpoint, WriteCheckpoint
    <2>4. QED
        BY <1>2, <2>3, RoutineStep
<1>3. CASE Raise(t) /\ UNCHANGED sessionDb
    <2>1. Routine
        BY <1>3, ThreadOnlyIsRoutine DEF Save, OnlyThread
    <2>2. QED
        BY <1>1, <1>3, <2>1, RaiseIsCalm, RoutineStep
<1>4. QED
    BY <1>2, <1>3 DEF Save

(* The thread renews, completes, moves or claims its run.                  *)
LEMMA RunMoveIsRoutine ==
    ASSUME RuntimeInv, NEW t \in Thread, th[t].pc # "idle",
           UNCHANGED <<approvalDb, processVars, worldVars>>,
           \/ RenewRun(Me(t), th[t].run, th[t].token)
           \/ \E x \in Text : CompleteRun(Me(t), th[t].run, th[t].token, x)
           \/ \E target \in TransitionTargets, k \in {th[t].token, NoToken} :
                TransitionRun(Me(t), th[t].run, target, k)
           \/ \E expected \in ClaimableFrom :
                ClaimRun(Me(t), th[t].run, expected)
    PROVE  Routine
<1>1. /\ th[t] \in Frame /\ th[t].run \in Run /\ Me(t) \in Owner
      /\ Owning(t) => th[t].token \in Token
    BY ThreadFacts DEF RuntimeInv
<1>2. StoreTypeOK
    BY SameStore DEF RuntimeInv, BaseInv, Store!StoreInv
<1>3. UNCHANGED <<ledger, checkpoint>>
    BY DEF RenewRun, CompleteRun, WriteCompletion, TransitionRun, ClaimRun
<1>4. RunStep(Me(t), th[t].run)
    <2>1. CASE RenewRun(Me(t), th[t].run, th[t].token)
        BY <1>1, <2>1 DEF RenewRun, Owning, RunStep
    <2>2. CASE \E x \in Text : CompleteRun(Me(t), th[t].run, th[t].token, x)
        BY <1>1, <2>2 DEF CompleteRun, Owning, RunStep
    <2>3. ASSUME NEW target \in TransitionTargets,
                 NEW k \in {th[t].token, NoToken},
                 TransitionRun(Me(t), th[t].run, target, k)
          PROVE  RunStep(Me(t), th[t].run)
        <3>1. k \in Token \cup {NoToken}
            BY <1>1, <1>2, <2>3 DEF TransitionRun, MayTransition, StoreTypeOK
        <3>2. QED
            BY <2>3, <3>1 DEF RunStep
    <2>4. CASE \E expected \in ClaimableFrom :
                 ClaimRun(Me(t), th[t].run, expected)
        BY <2>4 DEF RunStep
    <2>5. QED
        BY <2>1, <2>2, <2>3, <2>4
<1>5. QED
    BY <1>1, <1>3, <1>4, RunStepIsRoutine DEF StoreNext

LEMMA TryTransitionIsRoutine ==
    ASSUME RuntimeInv, NEW t \in Thread, th[t].pc # "idle",
           UNCHANGED <<approvalDb, processVars, worldVars>>,
           NEW target \in TransitionTargets,
           TryTransition(t, target, th[t].token)
             \/ TryTransition(t, target, NoToken)
    PROVE  Routine
    BY RunMoveIsRoutine, ThreadOnlyIsRoutine DEF TryTransition, OnlyThread

-----------------------------------------------------------------------------
(* The turns of the model.                                                 *)

LEMMA OtherStatesNameNoRequest ==
    ASSUME NEW r, NEW f, NEW action \in {"model", "tools", "finalize"}
    PROVE  ParkedOnRequest(r, Saved(action, f))
    BY DEF ParkedOnRequest, Saved

LEMMA SaveLoopStep ==
    ASSUME RuntimeInv, NEW t \in Thread, th[t].pc # "idle",
           NEW f \in Frame, NEW action \in {"model", "tools", "finalize"},
           NEW next, Calm(next), Save(t, Saved(action, f), next)
    PROVE  SoundStep
    BY SaveStep, SavedIsState, OtherStatesNameNoRequest

LEMMA LoopLabel ==
    ASSUME BaseInv, NEW t \in Thread,
           NEW label \in LoopLabels \ {"idle"}, At(t, label)
    PROVE  th[t] \in Frame /\ th[t].run \in Run /\ th[t].seen = "none"
    BY ThreadFacts DEF Fits, FrameFits, LoopLabels, At

LEMMA RaiseStep ==
    ASSUME RuntimeInv, NEW t \in Thread, th[t].pc # "idle", Raise(t),
           OnlyThread
    PROVE  SoundStep
<1>1. th[t] \in Frame /\ th[t].run \in Run
    BY ThreadFacts DEF RuntimeInv
<1>2. QED
    BY <1>1, RaiseIsCalm, ThreadOnlyIsRoutine, RoutineStep

LEMMA BuildContextKeepsInv ==
    ASSUME RuntimeInv, NEW t \in Thread, BuildContext(t)
    PROVE  SoundStep
<1>1. At(t, "context") /\ th[t].pc # "idle"
    BY DEF BuildContext, At
<1>2. th[t] \in Frame /\ th[t].run \in Run /\ th[t].seen = "none"
    BY <1>1, LoopLabel DEF RuntimeInv, LoopLabels
<1>3. CASE Save(t, Saved("model", th[t]),
                Proceed([th[t] EXCEPT !.guarded = TRUE]))
    <2>1. Calm(Proceed([th[t] EXCEPT !.guarded = TRUE]))
        BY <1>2, ProceedIsCalm DEF Frame
    <2>2. QED
        BY <1>1, <1>2, <1>3, <2>1, SaveLoopStep
<1>4. CASE Raise(t) /\ OnlyThread
    BY <1>1, <1>4, RaiseStep
<1>5. QED
    BY <1>3, <1>4 DEF BuildContext

LEMMA ModelStepKeepsInv ==
    ASSUME RuntimeInv, NEW t \in Thread, ModelStep(t)
    PROVE  SoundStep
<1>1. CASE SaveBeforeModel(t)
    <2>1. At(t, "before_model") /\ th[t].pc # "idle"
        BY <1>1 DEF SaveBeforeModel, At
    <2>2. th[t] \in Frame /\ th[t].run \in Run /\ th[t].seen = "none"
        BY <2>1, LoopLabel DEF RuntimeInv, LoopLabels
    <2>3. Calm([th[t] EXCEPT !.pc = "renew_model"])
        BY <2>2, LabelIsCalm
    <2>4. QED
        BY <1>1, <2>1, <2>2, <2>3, SaveLoopStep DEF SaveBeforeModel
<1>2. CASE RenewForModel(t)
    <2>1. At(t, "renew_model") /\ th[t].pc # "idle"
        BY <1>2 DEF RenewForModel, At
    <2>2. th[t] \in Frame /\ th[t].run \in Run /\ th[t].seen = "none"
        BY <2>1, LoopLabel DEF RuntimeInv, LoopLabels
    <2>3. CASE RenewLease(t, "model")
        <3>1. Calm([th[t] EXCEPT !.pc = "model"])
            BY <2>2, LabelIsCalm
        <3>2. Routine
            BY <2>1, <2>3, RunMoveIsRoutine DEF RenewLease
        <3>3. QED
            BY <2>3, <3>1, <3>2, RoutineStep DEF RenewLease, Goto
    <2>4. CASE Raise(t) /\ OnlyThread
        BY <2>1, <2>4, RaiseStep
    <2>5. QED
        BY <1>2, <2>3, <2>4 DEF RenewForModel
<1>3. CASE ModelAnswers(t)
    <2>1. At(t, "model") /\ th[t].pc # "idle"
        BY <1>3 DEF ModelAnswers, At
    <2>2. th[t] \in Frame /\ th[t].run \in Run /\ th[t].seen = "none"
        BY <2>1, LoopLabel DEF RuntimeInv, LoopLabels
    <2>3. CASE Goto(t, "before_finalize") /\ OnlyThread
        <3>1. Calm([th[t] EXCEPT !.pc = "before_finalize"])
            BY <2>2, LabelIsCalm
        <3>2. QED
            BY <2>3, <3>1, ThreadOnlyIsRoutine, RoutineStep DEF Goto
    <2>4. ASSUME NEW batch \in Batches,
                 issued' = [issued EXCEPT ![th[t].run] = @ \cup Range(batch)],
                 Become(t, [th[t] EXCEPT
                   !.pc = "before_tools", !.calls = batch, !.turn = @ + 1,
                   !.history = @ \o [i \in DOMAIN batch |-> Asked(batch[i])]]),
                 UNCHANGED <<sessionDb, approvalDb, processVars, sent, effect>>
          PROVE  SoundStep
        <3> DEFINE asks == [i \in DOMAIN batch |-> Asked(batch[i])]
                   f == [th[t] EXCEPT !.calls = batch, !.turn = @ + 1,
                                      !.history = @ \o asks]
        <3>1. batch \in Seq(Call)
            BY RuntimeAssumption
        <3>2. asks \in Seq(Entry)
            BY <3>1 DEF Asked, Entry
        <3> HIDE DEF asks
        <3>3. th[t].history \o asks \in Seq(Entry) /\ th[t].turn + 1 \in Nat
            <4>1. th[t].history \in Seq(Entry) /\ th[t].turn \in Nat
                BY <2>2 DEF Frame
            <4> HIDE DEF asks
            <4>2. QED
                BY <3>2, <4>1
        <3>4. f \in Frame /\ f.run \in Run /\ f.seen = "none"
            BY <2>2, <3>1, <3>3 DEF Frame
        <3>5. Become(t, [f EXCEPT !.pc = "before_tools"])
            BY <2>2, <2>4 DEF Frame, asks
        <3>6. Calm([f EXCEPT !.pc = "before_tools"])
            BY <3>4, LabelIsCalm
        <3>7. issued' \in [Run -> SUBSET Call]
            BY <2>2, <2>4, <3>1 DEF RuntimeInv, BaseInv, WorldTypeOK, Range
        <3>8. Routine
            BY <2>4, <3>7
               DEF RuntimeInv, BaseInv, WorldTypeOK, CheckpointsNameRequests,
                   Routine, RoutineBase, EffectsStay, StoresStep, storeVars,
                   runVars,
                   inboundVars,
                   approvalVars, sessionDb, approvalDb, processVars
        <3>9. QED
            BY <3>5, <3>6, <3>8, RoutineStep
    <2>5. QED
        BY <1>3, <2>3, <2>4 DEF ModelAnswers
<1>4. CASE ModelFails(t)
    BY <1>4, RaiseStep DEF ModelFails, At
<1>5. CASE SaveBeforeFinalize(t)
    <2>1. At(t, "before_finalize") /\ th[t].pc # "idle"
        BY <1>5 DEF SaveBeforeFinalize, At
    <2>2. th[t] \in Frame /\ th[t].run \in Run /\ th[t].seen = "none"
        BY <2>1, LoopLabel DEF RuntimeInv, LoopLabels
    <2>3. Calm([th[t] EXCEPT !.pc = "complete"])
        BY <2>2, LabelIsCalm
    <2>4. QED
        BY <1>5, <2>1, <2>2, <2>3, SaveLoopStep DEF SaveBeforeFinalize
<1>6. CASE SaveBeforeTools(t)
    <2>1. At(t, "before_tools") /\ th[t].pc # "idle"
        BY <1>6 DEF SaveBeforeTools, At
    <2>2. th[t] \in Frame /\ th[t].run \in Run /\ th[t].seen = "none"
        BY <2>1, LoopLabel DEF RuntimeInv, LoopLabels
    <2>3. Calm(Proceed(th[t]))
        BY <2>2, ProceedIsCalm
    <2>4. QED
        BY <1>6, <2>1, <2>2, <2>3, SaveLoopStep DEF SaveBeforeTools
<1>7. CASE Finish(t)
    <2>1. th[t].pc # "idle"
        BY <1>7 DEF Finish, At
    <2>2. CASE /\ \E x \in Text :
                    CompleteRun(Me(t), th[t].run, th[t].token, x)
               /\ Return(t)
               /\ UNCHANGED <<approvalDb, processVars, worldVars>>
        BY <2>1, <2>2, RunMoveIsRoutine, IdleIsCalm, RoutineStep DEF Return
    <2>3. CASE Raise(t) /\ OnlyThread
        BY <2>1, <2>3, RaiseStep
    <2>4. QED
        BY <1>7, <2>2, <2>3 DEF Finish
<1>8. CASE Interrupt(t)
    <2>1. th[t].pc # "idle" /\ "interrupted" \in TransitionTargets
        BY <1>8 DEF Interrupt, At, TransitionTargets
    <2>2. QED
        BY <1>8, <2>1, TryTransitionIsRoutine, IdleIsCalm, RoutineStep
           DEF Interrupt, Return
<1>9. QED
    BY <1>1, <1>2, <1>3, <1>4, <1>5, <1>6, <1>7, <1>8 DEF ModelStep

-----------------------------------------------------------------------------
(* One call of a tool.                                                     *)

LEMMA CallLabel ==
    ASSUME BaseInv, NEW t \in Thread, NEW label \in CallLabels, At(t, label)
    PROVE  /\ th[t] \in Frame /\ th[t].pc # "idle"
           /\ th[t].run \in Run /\ th[t].calls # <<>>
           /\ Head(th[t].calls) \in Call /\ Pending(t) \in Request
           /\ Pending(t) = CallOf(th[t])
<1>1. /\ th[t] \in Frame /\ th[t].pc # "idle"
      /\ th[t].run \in Run /\ th[t].calls # <<>>
    BY ThreadFacts
       DEF Fits, FrameFits, CallLabels, ToolLabels, ClaimedLabels, At
<1>2. QED
    BY <1>1, CallOfFrame DEF Pending, CallOf, Request

LEMMA ToolReturnsIsCalm ==
    ASSUME NEW f \in Frame, f.run \in Run, f.calls # <<>>, NEW out \in Output,
           f.seen = "approved" =>
             ledger[f.run][Head(f.calls)].status = "completed"
    PROVE  Calm(ToolReturns(f, out))
<1> DEFINE h == [f EXCEPT !.out = out]
<1>1. h \in Frame /\ h.run \in Run /\ h.calls # <<>> /\ h.out # "none"
    BY DEF Frame, Output
<1>2. CASE f.seen # "approved"
    <2>1. ToolReturns(f, out) = [h EXCEPT !.pc = "after_call"]
        BY <1>2 DEF ToolReturns, Frame
    <2> HIDE DEF h
    <2>2. QED
        BY <1>1, <2>1, CallLabelIsCalm
<1>3. CASE f.seen = "approved"
    <2> DEFINE g == ToolReturns(f, out)
    <2>1. "approval_done" \in Labels /\ out # "none"
        BY DEF Labels, Output
    <2>2. /\ g \in Frame /\ g.pc = "approval_done" /\ g.run = f.run
          /\ g.calls = f.calls /\ g.out = out
        BY <1>3, <2>1 DEF ToolReturns, Frame
    <2> HIDE DEF g
    <2>3. Calm(g)
        BY <1>3, <2>1, <2>2, CallIsCalm
    <2>4. QED
        BY <2>3 DEF g
<1>4. QED
    BY <1>2, <1>3

LEMMA ToolLabelFits ==
    ASSUME NEW f \in Frame, Fits(f), f.pc \in ToolLabels,
           NEW l \in ToolLabels, NEW runs, NEW rows, NEW effects,
           l \in ClaimedLabels => Claimed(f, rows),
           l \in {"complete_tool", "complete_row"} =>
             effects[f.run][Head(f.calls)] # 0
    PROVE  /\ [f EXCEPT !.pc = l] \in Frame
           /\ FrameFits([f EXCEPT !.pc = l], runs, approval, rows, effects)
<1> DEFINE g == [f EXCEPT !.pc = l]
<1>1. Admitted(f, approval) /\ f.run \in Run /\ f.calls # <<>>
    BY DEF Fits, FrameFits, CallLabels, ToolLabels, ClaimedLabels
<1>2. /\ g \in Frame /\ g.pc = l /\ g.run = f.run
      /\ g.calls = f.calls /\ g.seen = f.seen /\ g.token = f.token
    BY DEF Frame, Labels, ToolLabels, ClaimedLabels
<1> HIDE DEF g
<1>3. /\ Admitted(g, approval)
      /\ l \in ClaimedLabels => Claimed(g, rows)
    BY <1>1, <1>2 DEF Admitted, Paid, CallOf, Claimed
<1>4. QED
    BY <1>1, <1>2, <1>3 DEF FrameFits, LoopLabels, ToolLabels, ClaimedLabels, g

LEMMA RenewForToolKeepsInv ==
    ASSUME RuntimeInv, NEW t \in Thread, RenewForTool(t)
    PROVE  SoundStep
<1> DEFINE f == th[t]
           g == [f EXCEPT !.pc = "claim_tool"]
<1>1. At(t, "renew_tool")
    BY DEF RenewForTool
<1>2. /\ f \in Frame /\ f.pc # "idle" /\ f.run \in Run /\ f.calls # <<>>
    BY <1>1, CallLabel DEF RuntimeInv, CallLabels, ToolLabels, ClaimedLabels
<1>3. CASE RenewLease(t, "claim_tool")
    <2>1. Routine /\ UNCHANGED <<ledger, approval, effect>>
        BY <1>2, <1>3, RunMoveIsRoutine
           DEF RenewLease, RenewRun, approvalDb, worldVars
    <2>2. Become(t, g)
        BY <1>3 DEF RenewLease, Goto
    <2>3. g \in Frame /\ Fits(g)
        <3>1. f.pc = "renew_tool" /\ Fits(f)
            BY <1>1, ThreadFacts DEF RuntimeInv, At
        <3>2. QED
            BY <1>2, <3>1, ToolLabelFits DEF Fits, ToolLabels, ClaimedLabels
    <2>4. th \in [Thread -> Frame] /\ th' \in [Thread -> Frame]
        BY <2>2, <2>3 DEF RuntimeInv, BaseInv, WorldTypeOK, Become
    <2>5. \A u \in Thread : th'[u] = IF u = t THEN g ELSE th[u]
        BY <2>2, <2>4 DEF Become
    <2>6. FrameFits(g, status', approval', ledger', effect')
        <3>1. RunsStay /\ RowsStay /\ RequestsStay /\ EffectsStay
            BY <2>1, StoresKeepInv DEF Routine, RoutineBase, RuntimeInv
        <3>2. QED
            BY <2>3, <3>1, FrameStaysFit
    <2>7. BaseInv'
        BY <2>1, <2>4, <2>5, <2>6, RoutineKeepsBase DEF RuntimeInv, Routine
    <2>8. SameExecutors
        BY <1>1, <1>2, <2>5
           DEF SameExecutors, Executes, WillExecute, CallOf, At, Frame
    <2>9. QED
        BY <2>1, <2>7, <2>8, EffectsAreKept
           DEF RuntimeInv, SoundStep, Routine, RoutineBase
<1>4. CASE Become(t, ToolRaises(f)) /\ OnlyThread
    BY <1>2, <1>4, ToolRaisesIsCalm, ThreadOnlyIsRoutine, RoutineStep
<1>5. QED
    BY <1>3, <1>4 DEF RenewForTool

LEMMA ClaimCallKeepsInv ==
    ASSUME RuntimeInv, NEW t \in Thread, ClaimCall(t)
    PROVE  SoundStep
<1> DEFINE f == th[t]
           c == Head(f.calls)
           g == [f EXCEPT !.pc = "execute"]
<1>1. At(t, "claim_tool")
    BY DEF ClaimCall
<1>2. /\ f \in Frame /\ f.pc # "idle" /\ f.run \in Run /\ f.calls # <<>>
      /\ c \in Call /\ CallOf(f) = <<f.run, c>>
    BY <1>1, CallLabel
       DEF RuntimeInv, CallLabels, ToolLabels, ClaimedLabels, CallOf
<1>3. Fits(f) /\ f.pc = "claim_tool" /\ Admitted(f, approval)
    BY <1>1, ThreadFacts
       DEF RuntimeInv, At, Fits, FrameFits, ToolLabels, ClaimedLabels
<1>4. ASSUME NEW tl \in Tool, ClaimTool(Me(t), f.run, f.token, c, tl),
             Goto(t, "execute"),
             UNCHANGED <<approvalDb, processVars, worldVars>>
      PROVE  SoundStep
    <2>1. /\ ledger[f.run][c].status = "absent"
          /\ ledger'[f.run][c].status = "running"
          /\ \A r \in Run, d \in Call :
               r # f.run \/ d # c => ledger'[r][d] = ledger[r][d]
          /\ UNCHANGED <<status, approval, checkpoint, effect, up, inc>>
        <3>1. ledger \in [Run -> [Call -> Execution]]
            BY SameStore DEF RuntimeInv, BaseInv, Store!StoreInv, StoreTypeOK
        <3>2. QED
            BY <1>2, <1>4, <3>1
               DEF ClaimTool, WriteExecution, runVars, approvalDb, worldVars,
                   processVars
    <2>0. Me(t) \in Owner /\ f.token \in Token
        BY <1>2, <1>4, ThreadFacts DEF RuntimeInv, ClaimTool, Owning
    <2>2. RoutineBase
        <3>2. StoreNext
            BY <1>2, <1>4, <2>0 DEF StoreNext, ToolStep
        <3>3. QED
            BY <1>4, <2>1, <3>2
               DEF RuntimeInv, BaseInv, WorldTypeOK, CheckpointsNameRequests,
                   RoutineBase, EffectsStay, StoresStep, approvalVars,
                   approvalDb,
                   processVars, worldVars
    <2>3. th \in [Thread -> Frame] /\ g \in Frame
        <3>1. "execute" \in Labels
            BY DEF Labels
        <3>2. th \in [Thread -> Frame]
            BY DEF RuntimeInv, BaseInv, WorldTypeOK
        <3>3. QED
            BY <1>2, <3>1, <3>2 DEF Frame
    <2>4. /\ th' \in [Thread -> Frame]
          /\ \A u \in Thread : th'[u] = IF u = t THEN g ELSE th[u]
        BY <1>4, <2>3 DEF Goto, Become
    <2>5. FrameFits(g, status', approval', ledger', effect')
        <3>1. ledger'[f.run][c].by = f.token
            BY <1>2, <1>4, SameStore
               DEF RuntimeInv, BaseInv, Store!StoreInv, StoreTypeOK, ClaimTool,
                   WriteExecution
        <3>2. Claimed(f, ledger')
            BY <2>0, <2>1, <3>1 DEF Claimed, Token, NoToken
        <3>3. QED
            BY <1>2, <1>3, <2>1, <3>2, ToolLabelFits
               DEF ToolLabels, ClaimedLabels
    <2>6. BaseInv'
        BY <2>2, <2>4, <2>5, RoutineKeepsBase DEF RuntimeInv
    <2>7. effect[f.run][c] = 0
        <3>1. effect[f.run][c] \in Nat
            BY <1>2 DEF RuntimeInv, BaseInv, WorldTypeOK
        <3>2. AtMostOneEffect
            BY DEF RuntimeInv, EffectInv
        <3>3. effect[f.run][c] <= 1 /\ effect[f.run][c] # 1
            BY <1>2, <2>1, <3>2 DEF AtMostOneEffect
        <3>4. QED
            BY <3>1, <3>3
    <2>8. ASSUME NEW u \in Thread, u # t,
                 Executes(th[u]) \/ WillExecute(th[u])
          PROVE  /\ CallOf(th[u]) # CallOf(f)
                 /\ th[u].run \in Run /\ Head(th[u].calls) \in Call
        <3>1. /\ th[u] \in Frame /\ Fits(th[u]) /\ th[u].run \in Run
              /\ Head(th[u].calls) \in Call
            BY <2>8, ThreadFacts, CallOfFrame
               DEF RuntimeInv, Executes, WillExecute, Fits, FrameFits,
                   CallLabels, ToolLabels, ClaimedLabels
        <3>2. CASE Executes(th[u])
            BY <2>1, <3>1, <3>2
               DEF Executes, Fits, FrameFits, CallOf, ClaimedLabels, Claimed
        <3>3. CASE WillExecute(th[u])
            <4>1. Policy[Head(th[u].calls)] = "approve"
                BY <3>1, <3>3
                   DEF WillExecute, Fits, FrameFits, ToolLabels, ClaimedLabels,
                       Admitted, Paid
            <4>2. CASE f.seen # "approved"
                BY <1>3, <3>1, <4>1, <4>2 DEF Admitted, Paid, CallOf
            <4>3. CASE f.seen = "approved"
                BY <1>3, <2>8, <3>1, <3>3, <4>3
                   DEF WillExecute, RuntimeInv, EffectInv, ExecutorsAreAlone
            <4>4. QED
                BY <3>1, <4>2, <4>3
        <3>4. QED
            BY <2>8, <3>1, <3>2, <3>3
    <2>9. ExecutorsAreAlone'
        <3> SUFFICES ASSUME NEW v \in Thread, NEW u \in Thread
                     PROVE
            /\ Executes(th'[v]) => effect'[th'[v].run][Head(th'[v].calls)] = 0
            /\ WillExecute(th'[v]) =>
                 ledger'[th'[v].run][Head(th'[v].calls)].status = "absent"
            /\ v # u /\ Executes(th'[v]) /\ Executes(th'[u]) =>
                 CallOf(th'[v]) # CallOf(th'[u])
            /\ v # u /\ WillExecute(th'[v]) /\ WillExecute(th'[u]) =>
                 CallOf(th'[v]) # CallOf(th'[u])
            BY DEF ExecutorsAreAlone, Executes, WillExecute, CallOf
        <3>1. /\ ~WillExecute(g) /\ CallOf(g) = CallOf(f)
              /\ g.run = f.run /\ Head(g.calls) = c
            BY <1>2 DEF WillExecute, CallOf, Frame
        <3> HIDE DEF g
        <3>2. CASE v = t
            <4>1. th'[v] = g
                BY <2>4, <3>2
            <4>2. effect'[g.run][Head(g.calls)] = 0
                BY <2>1, <2>7, <3>1
            <4>3. ASSUME u # t, Executes(th'[u]) \/ WillExecute(th'[u])
                  PROVE  CallOf(g) # CallOf(th'[u])
                BY <2>4, <2>8, <3>1, <4>3
            <4>4. QED
                BY <3>1, <3>2, <4>1, <4>2, <4>3
        <3>3. CASE v # t /\ (Executes(th[v]) \/ WillExecute(th[v]))
            <4>1. \/ th[v].run # f.run
                  \/ Head(th[v].calls) # c
                BY <2>8, <3>3 DEF CallOf
            <4>2. /\ th'[v] = th[v] /\ effect' = effect
                  /\ ledger'[th[v].run][Head(th[v].calls)]
                       = ledger[th[v].run][Head(th[v].calls)]
                BY <2>1, <2>4, <2>8, <3>3, <4>1
            <4>3. ExecutorsAreAlone
                BY DEF RuntimeInv, EffectInv
            <4>4. /\ Executes(th[v]) =>
                       effect[th[v].run][Head(th[v].calls)] = 0
                  /\ WillExecute(th[v]) =>
                       ledger[th[v].run][Head(th[v].calls)].status = "absent"
                BY <4>3 DEF ExecutorsAreAlone
            <4>5. CASE u = t
                BY <2>4, <2>8, <3>1, <3>3, <4>2, <4>4, <4>5
            <4>6. CASE u # t
                <5>1. th'[u] = th[u]
                    BY <2>4, <4>6
                <5>2. v # u => /\ Executes(th[v]) /\ Executes(th[u]) =>
                                    CallOf(th[v]) # CallOf(th[u])
                               /\ WillExecute(th[v]) /\ WillExecute(th[u]) =>
                                    CallOf(th[v]) # CallOf(th[u])
                    BY <4>3 DEF ExecutorsAreAlone
                <5>3. QED
                    BY <4>2, <4>4, <5>1, <5>2
            <4>7. QED
                BY <4>5, <4>6
        <3>4. QED
            BY <2>4, <3>2, <3>3
    <2>10. LedgerNeedsConsent'
        BY <1>2, <1>3, <2>1
           DEF RuntimeInv, EffectInv, LedgerNeedsConsent, Admitted, Paid
    <2>11. AtMostOneEffect' /\ CompletedConsentIsInLedger'
        <3>1. AtMostOneEffect /\ CompletedConsentIsInLedger
            BY DEF RuntimeInv, EffectInv
        <3>2. AtMostOneEffect'
            BY <1>2, <2>1, <2>7, <3>1 DEF AtMostOneEffect
        <3>3. CompletedConsentIsInLedger'
            BY <1>2, <2>1, <3>1 DEF CompletedConsentIsInLedger
        <3>4. QED
            BY <3>2, <3>3
    <2>12. QED
        BY <2>2, <2>6, <2>9, <2>10, <2>11
           DEF RuntimeInv, EffectInv, SoundStep, RoutineBase
<1>5. CASE Become(t, ToolRaises(f)) /\ OnlyThread
    BY <1>2, <1>5, ToolRaisesIsCalm, ThreadOnlyIsRoutine, RoutineStep
<1>6. CASE /\ ledger[f.run][c].status = "completed"
           /\ Become(t, ToolReturns(f, "output")) /\ OnlyThread
    BY <1>2, <1>6, ToolReturnsIsCalm, ThreadOnlyIsRoutine, RoutineStep
       DEF Output
<1>7. CASE /\ ledger[f.run][c].status \in {"running", "failed"}
           /\ Become(t, ToolReturns(f, "uncertain")) /\ OnlyThread
    <2>1. f.seen # "approved"
        BY <1>3, <1>7
           DEF RuntimeInv, EffectInv, ExecutorsAreAlone, WillExecute
    <2>2. QED
        BY <1>2, <1>7, <2>1, ToolReturnsIsCalm, ThreadOnlyIsRoutine,
           RoutineStep DEF Output
<1>8. QED
    BY <1>4, <1>5, <1>6, <1>7 DEF ClaimCall

LEMMA ExecuteKeepsInv ==
    ASSUME RuntimeInv, NEW t \in Thread, Execute(t)
    PROVE  SoundStep
<1> DEFINE f == th[t]
           c == Head(f.calls)
<1>1. At(t, "execute")
    BY DEF Execute
<1>2. /\ f \in Frame /\ f.pc # "idle" /\ f.run \in Run /\ f.calls # <<>>
      /\ c \in Call /\ CallOf(f) = <<f.run, c>>
    BY <1>1, CallLabel
       DEF RuntimeInv, CallLabels, ToolLabels, ClaimedLabels, CallOf
<1>3. Fits(f) /\ f.pc = "execute" /\ Executes(f)
    BY <1>1, ThreadFacts DEF RuntimeInv, At, Executes
<1>4. ASSUME NEW label \in {"complete_tool", "fail_tool"}, NEW effects,
             label = "complete_tool" => effects[f.run][c] # 0
      PROVE  /\ [f EXCEPT !.pc = label] \in Frame
             /\ Quiet([f EXCEPT !.pc = label])
             /\ FrameFits([f EXCEPT !.pc = label], status, approval, ledger,
                          effects)
    <2>1. Claimed(f, ledger)
        BY <1>3 DEF Fits, FrameFits, ClaimedLabels
    <2>2. f.pc \in ToolLabels /\ label \in ToolLabels
        BY <1>3 DEF ToolLabels, ClaimedLabels
    <2>3. Quiet([f EXCEPT !.pc = label])
        BY <1>2 DEF Quiet, Executes, WillExecute, Frame
    <2>4. label \in {"complete_tool", "complete_row"} =>
            effects[f.run][Head(f.calls)] # 0
        BY <1>4
    <2>5. QED
        BY <1>2, <1>3, <2>1, <2>2, <2>3, <2>4, ToolLabelFits
<1>5. ASSUME NEW label \in {"complete_tool", "fail_tool"}, Goto(t, label),
             effect' = [effect EXCEPT ![f.run][c] = @ + 1],
             UNCHANGED <<sessionDb, approvalDb, processVars, sent, issued>>
      PROVE  SoundStep
    <2> DEFINE g == [f EXCEPT !.pc = label]
    <2>1. effect[f.run][c] = 0 /\ ledger[f.run][c].status # "absent"
        BY <1>3
           DEF RuntimeInv, EffectInv, ExecutorsAreAlone, Fits, FrameFits,
               ClaimedLabels, Claimed
    <2>2. /\ effect' \in [Run -> [Call -> Nat]]
          /\ effect'[f.run][c] = 1
          /\ \A r \in Run, d \in Call :
               r # f.run \/ d # c => effect'[r][d] = effect[r][d]
        <3>1. effect \in [Run -> [Call -> Nat]]
            BY DEF RuntimeInv, BaseInv, WorldTypeOK
        <3>2. effect[f.run] \in [Call -> Nat]
            BY <1>2, <3>1
        <3>3. effect' = [effect EXCEPT
                           ![f.run] = [effect[f.run] EXCEPT ![c] = 1]]
            BY <1>2, <1>5, <2>1, <3>1
        <3>4. QED
            BY <1>2, <3>1, <3>2, <3>3
    <2>3. UNCHANGED <<status, approval, ledger, checkpoint, continuation>>
        BY <1>5 DEF sessionDb, approvalDb
    <2>4. /\ g \in Frame /\ Quiet(g)
          /\ FrameFits(g, status', approval', ledger', effect')
        <3>1. effect'[f.run][c] # 0
            BY <2>2
        <3>2. /\ g \in Frame /\ Quiet(g)
              /\ FrameFits(g, status, approval, ledger, effect')
            BY <1>4, <3>1
        <3> HIDE DEF g
        <3>3. QED
            BY <2>3, <3>2
    <2> HIDE DEF g
    <2>5. /\ th' \in [Thread -> Frame]
          /\ \A u \in Thread : th'[u] = IF u = t THEN g ELSE th[u]
        BY <1>5, <2>4 DEF Goto, Become, RuntimeInv, BaseInv, WorldTypeOK, g
    <2>6. BaseInv' /\ StoresStep
        <3>0. EffectsStay
            BY <1>2, <2>1, <2>2 DEF EffectsStay
        <3>1. RoutineBase
            BY <1>5, <2>2, <3>0
               DEF RuntimeInv, BaseInv, WorldTypeOK, CheckpointsNameRequests,
                   RoutineBase, StoresStep, storeVars, runVars, inboundVars,
                   approvalVars, sessionDb, approvalDb, processVars
        <3>2. QED
            BY <2>4, <2>5, <3>1, RoutineKeepsBase DEF RuntimeInv, RoutineBase
    <2>7. ASSUME NEW u \in Thread,
                 Executes(th'[u]) \/ WillExecute(th'[u])
          PROVE  /\ u # t /\ th'[u] = th[u]
                 /\ th[u].run \in Run /\ Head(th[u].calls) \in Call
        <3>1. u # t /\ th'[u] = th[u]
            BY <2>4, <2>5, <2>7 DEF Quiet
        <3>2. QED
            BY <2>7, <3>1, ThreadFacts, CallOfFrame
               DEF RuntimeInv, Executes, WillExecute, Fits, FrameFits,
                   CallLabels, ToolLabels, ClaimedLabels
    <2>8. ExecutorsAreAlone'
        <3> SUFFICES ASSUME NEW v \in Thread, NEW u \in Thread
                     PROVE
            /\ Executes(th'[v]) => effect'[th'[v].run][Head(th'[v].calls)] = 0
            /\ WillExecute(th'[v]) =>
                 ledger'[th'[v].run][Head(th'[v].calls)].status = "absent"
            /\ v # u /\ Executes(th'[v]) /\ Executes(th'[u]) =>
                 CallOf(th'[v]) # CallOf(th'[u])
            /\ v # u /\ WillExecute(th'[v]) /\ WillExecute(th'[u]) =>
                 CallOf(th'[v]) # CallOf(th'[u])
            BY DEF ExecutorsAreAlone, Executes, WillExecute, CallOf
        <3>1. ASSUME Executes(th'[v])
              PROVE  effect'[th'[v].run][Head(th'[v].calls)] = 0
            <4>1. /\ v # t /\ th'[v] = th[v] /\ Executes(th[v])
                  /\ th[v].run \in Run /\ Head(th[v].calls) \in Call
                BY <2>7, <3>1
            <4>2. CallOf(th[v]) # CallOf(f)
                BY <1>3, <4>1 DEF RuntimeInv, EffectInv, ExecutorsAreAlone
            <4>3. effect[th[v].run][Head(th[v].calls)] = 0
                BY <4>1 DEF RuntimeInv, EffectInv, ExecutorsAreAlone
            <4>4. QED
                BY <2>2, <4>1, <4>2, <4>3 DEF CallOf
        <3>2. QED
            BY <2>3, <2>7, <3>1 DEF RuntimeInv, EffectInv, ExecutorsAreAlone
    <2>9. AtMostOneEffect'
        BY <2>1, <2>2, <2>3 DEF RuntimeInv, EffectInv, AtMostOneEffect
    <2>10. LedgerNeedsConsent' /\ CompletedConsentIsInLedger'
        BY <2>3 DEF RuntimeInv, EffectInv, LedgerNeedsConsent,
                    CompletedConsentIsInLedger
    <2>11. QED
        BY <2>6, <2>8, <2>9, <2>10 DEF RuntimeInv, EffectInv, SoundStep
<1>6. CASE Goto(t, "fail_tool") /\ OnlyThread
    BY <1>4, <1>6, ThreadOnlyIsRoutine, RoutineStep DEF Goto, Calm, Fits
<1>7. QED
    BY <1>5, <1>6 DEF Execute

(* The check of complete_tool and fail_tool, before their update.          *)
LEMMA CheckOwnerKeepsInv ==
    ASSUME RuntimeInv, NEW t \in Thread,
           \/ CheckOwner(t, "complete_tool", "complete_row")
           \/ CheckOwner(t, "fail_tool", "fail_row")
    PROVE  SoundStep
<1> DEFINE f == th[t]
<1>1. /\ f \in Frame /\ f.pc \in {"complete_tool", "fail_tool"} /\ Fits(f)
      /\ f.run \in Run /\ f.calls # <<>>
    BY CallLabel, ThreadFacts
       DEF CheckOwner, RuntimeInv, CallLabels, ToolLabels, ClaimedLabels, At
<1>2. Routine
    BY ThreadOnlyIsRoutine DEF CheckOwner
<1>3. ASSUME NEW l \in {"complete_row", "fail_row"}, Goto(t, l),
             l = "complete_row" => f.pc = "complete_tool"
      PROVE  SoundStep
    <2> DEFINE g == [f EXCEPT !.pc = l]
    <2>1. /\ Claimed(f, ledger)
          /\ l = "complete_row" => effect[f.run][Head(f.calls)] # 0
        BY <1>1, <1>3 DEF Fits, FrameFits, ClaimedLabels
    <2>2. /\ g \in Frame
          /\ FrameFits(g, status, approval, ledger, effect)
        BY <1>1, <2>1, ToolLabelFits DEF ToolLabels, ClaimedLabels
    <2>3. Quiet(g) /\ Become(t, g)
        BY <1>1, <1>3 DEF Quiet, Executes, WillExecute, Frame, Goto
    <2> HIDE DEF g
    <2>4. QED
        BY <1>2, <2>2, <2>3, RoutineStep DEF Calm, Fits
<1>4. CASE Become(t, ToolRaises(f))
    BY <1>1, <1>2, <1>4, ToolRaisesIsCalm, RoutineStep
<1>5. QED
    BY <1>1, <1>3, <1>4 DEF CheckOwner, At

(* A row that is still running belongs to the claim of the thread, and its *)
(* token was given out: the update is one StoreNext allows.                *)
LEMMA SettleToolIsRoutine ==
    ASSUME RuntimeInv, NEW t \in Thread, th[t].pc \in ClaimedLabels,
           NEW c \in Call, c = Head(th[t].calls),
           NEW outcome \in {"completed", "failed"},
           SettleTool(th[t].run, th[t].token, c, outcome),
           UNCHANGED <<approvalDb, processVars, worldVars>>
    PROVE  /\ Routine
           /\ ledger[th[t].run][c].by = th[t].token
           /\ ledger'[th[t].run][c].by = th[t].token
           /\ ledger'[th[t].run][c].status = outcome
           /\ \A r \in Run, d \in Call :
                r # th[t].run \/ d # c => ledger'[r][d] = ledger[r][d]
<1> DEFINE r0 == th[t].run
           k == th[t].token
<1>1. /\ th[t] \in Frame /\ r0 \in Run /\ Me(t) \in Owner
      /\ Claimed(th[t], ledger)
    BY ThreadFacts DEF RuntimeInv, Fits, FrameFits, ClaimedLabels
<1>2. /\ ledger \in [Run -> [Call -> Execution]]
      /\ \A r \in Run : token[r] \in Token \cup {NoToken}
      /\ \A r \in Run, d \in Call : ledger[r][d].by <= token[r]
    BY SameStore DEF RuntimeInv, BaseInv, Store!StoreInv, StoreTypeOK,
       Store!WritersAreIssued
<1>3. ledger[r0][c].status = "running"
    BY DEF SettleTool, SettleRow
<1>4. ledger[r0][c].by = k /\ k # NoToken
    BY <1>1, <1>3 DEF Claimed
<1>5. k \in Token /\ k <= token[r0]
    BY <1>1, <1>2, <1>4 DEF Execution
<1>6. /\ ledger'[r0][c].status = outcome /\ ledger'[r0][c].by = k
      /\ \A r \in Run, d \in Call :
           r # r0 \/ d # c => ledger'[r][d] = ledger[r][d]
    BY <1>1, <1>2 DEF SettleTool, SettleRow
<1>7. StoreNext
    <2>1. ToolStep(Me(t), r0)
        BY <1>5 DEF ToolStep, CompleteTool, FailTool
    <2>2. QED
        BY <1>1, <2>1 DEF StoreNext
<1>8. Routine
    BY <1>1, <1>3, <1>6, <1>7
       DEF RuntimeInv, BaseInv, WorldTypeOK, CheckpointsNameRequests, Routine,
           RoutineBase, EffectsStay, StoresStep, SettleTool, approvalVars,
           approvalDb, processVars, worldVars
<1>9. QED
    BY <1>4, <1>6, <1>8

LEMMA CompleteCallKeepsInv ==
    ASSUME RuntimeInv, NEW t \in Thread, CompleteCall(t)
    PROVE  SoundStep
<1> DEFINE f == th[t]
           c == Head(f.calls)
           g == ToolReturns(f, "output")
<1>1. CASE CheckOwner(t, "complete_tool", "complete_row")
    BY <1>1, CheckOwnerKeepsInv
<1>2. CASE RecordOutcome(t, "complete_row", "completed", g)
    <2>0. /\ f \in Frame /\ f.pc \in ClaimedLabels /\ f.run \in Run
          /\ f.calls # <<>> /\ c \in Call
        BY <1>2, CallLabel
           DEF RecordOutcome, RuntimeInv, CallLabels, ToolLabels,
               ClaimedLabels, At
    <2>1. CASE /\ SettleTool(f.run, f.token, c, "completed") /\ Become(t, g)
               /\ UNCHANGED <<approvalDb, processVars, worldVars>>
        <3>1. Routine /\ ledger'[f.run][c].status = "completed"
            BY <2>0, <2>1, SettleToolIsRoutine
        <3>2. /\ g \in Frame /\ g.pc \in {"after_call", "approval_done"}
              /\ g.run = f.run /\ g.calls = f.calls /\ g.out = "output"
            <4>1. /\ "after_call" \in Labels /\ "approval_done" \in Labels
                  /\ "output" \in Output
                BY DEF Labels, Output
            <4>2. QED
                BY <2>0, <4>1 DEF ToolReturns, Frame
        <3> HIDE DEF g
        <3>3. FrameFits(g, status', approval', ledger', effect') /\ Quiet(g)
            BY <2>0, <3>1, <3>2
               DEF FrameFits, CallLabels, ToolLabels, ClaimedLabels,
                   LoopLabels, Quiet, Executes, WillExecute
        <3>4. QED
            BY <2>1, <3>1, <3>2, <3>3, RoutineStepTo
    <2>2. CASE Become(t, ToolRaises(f)) /\ OnlyThread
        BY <2>0, <2>2, ToolRaisesIsCalm, ThreadOnlyIsRoutine, RoutineStep
    <2>3. QED
        BY <1>2, <2>1, <2>2 DEF RecordOutcome, OnlyThread
<1>3. QED
    BY <1>1, <1>2 DEF CompleteCall

LEMMA FailCallKeepsInv ==
    ASSUME RuntimeInv, NEW t \in Thread, FailCall(t)
    PROVE  SoundStep
<1> DEFINE f == th[t]
<1>1. CASE CheckOwner(t, "fail_tool", "fail_row")
    BY <1>1, CheckOwnerKeepsInv
<1>2. CASE RecordOutcome(t, "fail_row", "failed", ToolRaises(f))
    <2>1. /\ f \in Frame /\ f.pc \in ClaimedLabels /\ f.run \in Run
          /\ f.calls # <<>> /\ Head(f.calls) \in Call
        BY <1>2, CallLabel
           DEF RecordOutcome, RuntimeInv, CallLabels, ToolLabels,
               ClaimedLabels, At
    <2>2. Calm(ToolRaises(f)) /\ Become(t, ToolRaises(f))
        BY <1>2, <2>1, ToolRaisesIsCalm DEF RecordOutcome
    <2>3. Routine
        BY <1>2, <2>1, SettleToolIsRoutine, ThreadOnlyIsRoutine
           DEF RecordOutcome, OnlyThread
    <2>4. QED
        BY <2>2, <2>3, RoutineStep
<1>3. QED
    BY <1>1, <1>2 DEF FailCall

LEMMA SaveAfterCallKeepsInv ==
    ASSUME RuntimeInv, NEW t \in Thread, SaveAfterCall(t)
    PROVE  SoundStep
<1> DEFINE f == th[t]
           g == [f EXCEPT !.history = Append(@, Result(Head(f.calls), f.out)),
                          !.calls = Tail(@), !.out = "none", !.seen = "none"]
<1>1. At(t, "after_call")
    BY DEF SaveAfterCall
<1>2. /\ f \in Frame /\ f.pc # "idle" /\ f.run \in Run /\ f.calls # <<>>
      /\ Head(f.calls) \in Call /\ Tail(f.calls) \in Seq(Call)
    BY <1>1, CallLabel, CallOfFrame DEF RuntimeInv, CallLabels
<1>3. f.out \in Output
    BY <1>1, <1>2, ThreadFacts DEF RuntimeInv, At, Fits, FrameFits, Frame
<1>4. Append(f.history, Result(Head(f.calls), f.out)) \in Seq(Entry)
    <2>1. f.history \in Seq(Entry)
        BY <1>2 DEF Frame
    <2>2. Result(Head(f.calls), f.out) \in Entry
        BY <1>2, <1>3 DEF Result, Entry
    <2>3. QED
        BY <2>1, <2>2
<1>5. g \in Frame /\ g.run \in Run /\ g.seen = "none"
    BY <1>2, <1>4 DEF Frame
<1>6. Save(t, Saved(IF g.calls = <<>> THEN "model" ELSE "tools", g),
Proceed(g))
    BY DEF SaveAfterCall
<1> HIDE DEF g
<1>7. Calm(Proceed(g))
    BY <1>5, ProceedIsCalm
<1>8. \/ Save(t, Saved("model", g), Proceed(g))
      \/ Save(t, Saved("tools", g), Proceed(g))
    BY <1>6
<1>9. QED
    BY <1>2, <1>5, <1>7, <1>8, SaveLoopStep

LEMMA ToolCallStepKeepsInv ==
    ASSUME RuntimeInv, NEW t \in Thread, ToolCallStep(t)
    PROVE  SoundStep
    BY RenewForToolKeepsInv, ClaimCallKeepsInv, ExecuteKeepsInv,
       CompleteCallKeepsInv, FailCallKeepsInv, SaveAfterCallKeepsInv
       DEF ToolCallStep

-----------------------------------------------------------------------------
(* A call that needs approval.                                             *)

LEMMA CallLabelStep ==
    ASSUME RuntimeInv, Routine, NEW t \in Thread,
           th[t].calls # <<>>, th[t].run \in Run,
           NEW l \in {"after_call", "park", "card", "cancel_unsent",
                      "consume_unsent", "rr_wait", "rs_run", "rs_claim",
                      "rs_token", "rs_consume", "rs_ledger", "rs_fail",
                      "rs_execute", "approval_fail"},
           l \in {"after_call", "approval_fail"} => th[t].out # "none",
           l = "rs_execute" => th[t].seen = "approved",
           Goto(t, l)
    PROVE  SoundStep
    BY ThreadFacts, CallLabelIsCalm, RoutineStep DEF Goto, RuntimeInv

LEMMA ReturnStep ==
    ASSUME RuntimeInv, Routine, NEW t \in Thread, Return(t)
    PROVE  SoundStep
    BY IdleIsCalm, RoutineStep DEF Return

LEMMA RequestApprovalKeepsInv ==
    ASSUME RuntimeInv, NEW t \in Thread, RequestApproval(t)
    PROVE  SoundStep
<1> DEFINE f == th[t]
           a == Pending(t)
           g == [f EXCEPT !.pc = "park_checkpoint"]
<1>1. At(t, "gate") /\ CreateRequest(a, Saved("approval", f))
      /\ Become(t, g) /\ UNCHANGED <<sessionDb, processVars, worldVars>>
    BY DEF RequestApproval, Goto
<1>2. /\ f \in Frame /\ f.pc = "gate" /\ f.run \in Run /\ f.calls # <<>>
      /\ Head(f.calls) \in Call /\ a \in Request /\ a = CallOf(f)
    BY <1>1, CallLabel DEF RuntimeInv, CallLabels, At
<1>3. Policy[Head(f.calls)] = "approve"
    BY <1>2, ThreadFacts DEF RuntimeInv, Fits, FrameFits
<1>4. Saved("approval", f) \in SavedState /\ Saved("approval", f).calls # <<>>
    BY <1>2, SavedIsState DEF Saved
<1>5. ApprovalTypeOK
    BY SameApprovals DEF RuntimeInv, BaseInv, Approvals!ApprovalInv
<1>6. /\ approval'[a] # "absent"
      /\ \A b \in Request :
           \/ approval'[b] = approval[b] /\ continuation'[b] = continuation[b]
           \/ /\ b = a /\ approval'[b] = "pending"
              /\ continuation'[b] = Saved("approval", f)
    BY <1>1, <1>2, <1>5 DEF CreateRequest, approvalVars, ApprovalTypeOK
<1>7. StoresStep
    BY <1>1, <1>2, <1>4 DEF StoresStep, ApprovalNext, storeVars, runVars,
                            inboundVars, sessionDb
<1>8. /\ th' \in [Thread -> Frame] /\ g \in Frame
      /\ \A u \in Thread : th'[u] = IF u = t THEN g ELSE th[u]
    BY <1>1, <1>2 DEF RuntimeInv, BaseInv, WorldTypeOK, Become, Frame, Labels
<1>9. BaseInv'
    <2>1. /\ WorldTypeOK' /\ StartsRemain'
          /\ UNCHANGED <<checkpoint, offered>>
        BY <1>1, <1>8 DEF RuntimeInv, BaseInv, WorldTypeOK, StartsRemain,
                          sessionDb, processVars, worldVars
    <2>2. RequestsStay
        BY <1>7, StoresKeepInv DEF RuntimeInv
    <2>3. CheckpointsNameRequests'
        <3> SUFFICES ASSUME NEW r \in Run, checkpoint[r].state # NoState,
                            checkpoint[r].state.action = "approval"
                     PROVE  /\ checkpoint[r].state.calls # <<>>
                            /\ approval'[<<r, Head(checkpoint[r].state.calls)>>]
                                 # "absent"
            BY <2>1 DEF CheckpointsNameRequests, ParkedOnRequest
        <3>1. /\ checkpoint[r].state.calls # <<>>
              /\ approval[<<r, Head(checkpoint[r].state.calls)>>] # "absent"
            BY DEF RuntimeInv, BaseInv, CheckpointsNameRequests,
                   ParkedOnRequest
        <3>2. checkpoint[r].state \in SavedState
            BY SameStore, CheckpointsAreStates
               DEF RuntimeInv, BaseInv, Store!StoreInv
        <3>3. <<r, Head(checkpoint[r].state.calls)>> \in Request
            BY <3>1, <3>2 DEF SavedState, Request
        <3>4. QED
            BY <2>2, <3>1, <3>3 DEF RequestsStay
    <2>4. RequestsHaveContinuations'
        BY <1>2, <1>3, <1>4, <1>6
           DEF RuntimeInv, BaseInv, RequestsHaveContinuations, CallOf
    <2>5. OfferedWereAsked'
        BY <2>1, <2>2
           DEF RuntimeInv, BaseInv, WorldTypeOK, OfferedWereAsked, RequestsStay
    <2>6. FrameFits(g, status', approval', ledger', effect')
        <3>1. /\ g.pc = "park_checkpoint" /\ g.run = f.run
              /\ g.calls = f.calls /\ CallOf(g) = a
            BY <1>2 DEF Frame, CallOf
        <3> HIDE DEF g
        <3>2. QED
            BY <1>2, <1>6, <3>1
               DEF FrameFits, CallLabels, ToolLabels, ClaimedLabels, LoopLabels
    <2>7. EffectsStay
        BY <1>1 DEF EffectsStay, worldVars
    <2>8. QED
        BY <1>7, <1>8, <2>1, <2>3, <2>4, <2>5, <2>6, <2>7, BaseIsKept
           DEF RuntimeInv
<1>10. EffectInv'
    <2>1. SameExecutors
        BY <1>2, <1>8 DEF SameExecutors, Executes, WillExecute, Frame
    <2>2. UNCHANGED <<effect, ledger>>
        BY <1>1 DEF sessionDb, worldVars
    <2>3. \A r \in Run, c \in Call :
            approval'[<<r, c>>] = "completed" => approval[<<r, c>>] = "completed"
        BY <1>6 DEF Request
    <2>4. QED
        BY <1>7, <2>1, <2>2, <2>3, EffectsAreKept
<1>11. QED
    BY <1>7, <1>9, <1>10 DEF RuntimeInv, SoundStep

LEMMA SaveWaitingKeepsInv ==
    ASSUME RuntimeInv, NEW t \in Thread, SaveWaiting(t)
    PROVE  SoundStep
<1> DEFINE f == th[t]
           s == [Saved("approval", f) EXCEPT !.calls = <<Head(@)>>]
<1>1. At(t, "park_checkpoint")
    BY DEF SaveWaiting
<1>2. /\ f \in Frame /\ f.pc # "idle" /\ f.run \in Run /\ f.calls # <<>>
      /\ Head(f.calls) \in Call
    BY <1>1, CallLabel DEF RuntimeInv, CallLabels
<1>3. approval[CallOf(f)] # "absent"
    BY <1>1, ThreadFacts DEF RuntimeInv, At, Fits, FrameFits
<1>4. s \in SavedState /\ s.calls = <<Head(f.calls)>>
    <2>1. s = [action |-> "approval", calls |-> <<Head(f.calls)>>,
               turn |-> f.turn, history |-> f.history]
        BY DEF Saved
    <2>2. <<Head(f.calls)>> \in Seq(Call)
        BY <1>2
    <2> HIDE DEF s
    <2>3. QED
        BY <1>2, <2>1, <2>2 DEF SavedState, Frame
<1>5. ParkedOnRequest(f.run, s)
    BY <1>3, <1>4 DEF ParkedOnRequest, CallOf, SavedState
<1>6. Calm([f EXCEPT !.pc = "park"])
    BY <1>2, CallLabelIsCalm
<1> HIDE DEF s
<1>7. Save(t, s, [f EXCEPT !.pc = "park"])
    BY DEF SaveWaiting, s
<1>8. QED
    BY <1>2, <1>4, <1>5, <1>6, <1>7, SaveStep

LEMMA ParkedStep ==
    ASSUME RuntimeInv, Routine, NEW t \in Thread,
           th[t].calls # <<>>, th[t].run \in Run, Parked(t)
    PROVE  SoundStep
    BY CallLabelStep, ReturnStep DEF Parked

(* Approvals that are decided in the requester's name, consumed or expire. *)
LEMMA ExpiryIsRoutine ==
    ASSUME RuntimeInv, ExpirePending,
           UNCHANGED <<sessionDb, processVars, worldVars>>
    PROVE  Routine
<1>1. \A a \in Request : approval'[a] \in {approval[a], "expired"}
                         /\ (approval[a] = "absent" => approval'[a] = "absent")
    BY DEF ExpirePending, AfterExpiry, Expired
<1>2. QED
    BY <1>1, ApprovalStepIsRoutine DEF ApprovalNext, Request

LEMMA TryConsumeIsRoutine ==
    ASSUME RuntimeInv, NEW a \in Request, TryConsume(a),
           UNCHANGED <<sessionDb, processVars, worldVars>>
    PROVE  Routine
<1>1. [ApprovalNext]_approvalVars /\ UNCHANGED approval
    BY DEF TryConsume, MarkConsumed, ApprovalNext, approvalDb, approvalVars
<1>2. QED
    BY <1>1, ApprovalStepIsRoutine

LEMMA ParkStepKeepsInv ==
    ASSUME RuntimeInv, NEW t \in Thread, ParkStep(t)
    PROVE  SoundStep
<1>1. CASE Park(t)
    <2>1. th[t].pc # "idle" /\ th[t].run \in Run /\ th[t].calls # <<>>
        BY <1>1, CallLabel DEF Park, RuntimeInv, CallLabels
    <2>2. Routine
        BY <1>1, <2>1, TryTransitionIsRoutine DEF Park, TransitionTargets
    <2>3. QED
        BY <1>1, <2>1, <2>2, ParkedStep DEF Park
<1>2. CASE SendCard(t)
    <2>1. /\ th[t].pc # "idle" /\ th[t].run \in Run /\ th[t].calls # <<>>
          /\ Pending(t) \in Request
        BY <1>2, CallLabel DEF SendCard, RuntimeInv, CallLabels
    <2>2. Routine
        BY <1>2, <2>1
           DEF SendCard, RuntimeInv, BaseInv, WorldTypeOK,
               CheckpointsNameRequests, Routine, RoutineBase, EffectsStay,
               StoresStep,
               storeVars, runVars, inboundVars, approvalVars, sessionDb,
               approvalDb, processVars
    <2>3. QED
        BY <1>2, <2>1, <2>2, CallLabelStep, ReturnStep DEF SendCard
<1>3. CASE CancelUnsent(t)
    <2> DEFINE a == Pending(t)
    <2>1. /\ th[t].pc # "idle" /\ th[t].run \in Run /\ th[t].calls # <<>>
          /\ a \in Request
        BY <1>3, CallLabel DEF CancelUnsent, RuntimeInv, CallLabels
    <2>2. Requester[a] \in Actor /\ <<a, "unsent">> \in Event
        BY <2>1, StoresAssumption DEF Event
    <2>3. UNCHANGED <<sessionDb, processVars, worldVars>>
        BY <1>3 DEF CancelUnsent
    <2>4. ApprovalTypeOK
        BY SameApprovals DEF RuntimeInv, BaseInv, Approvals!ApprovalInv
    <2>5. CASE Decide(a, "rejected", Requester[a], <<a, "unsent">>)
               /\ Goto(t, "consume_unsent")
        <3>1. ApprovalNext
            BY <2>1, <2>2, <2>5 DEF ApprovalNext, Verdict
        <3>2. \A b \in Request :
                \/ approval'[b] = approval[b]
                \/ approval'[b] = "rejected" /\ approval[b] = "pending"
            BY <2>4, <2>5 DEF Decide, ApprovalTypeOK
        <3>3. Routine
            BY <2>3, <3>1, <3>2, ApprovalStepIsRoutine DEF Request
        <3>4. QED
            BY <2>1, <2>5, <3>3, CallLabelStep
    <2>6. CASE DecideTooLate(a, Requester[a]) /\ Return(t)
        <3>1. ApprovalNext
            BY <2>1, <2>2, <2>6 DEF ApprovalNext
        <3>2. \A b \in Request :
                \/ approval'[b] = approval[b]
                \/ approval'[b] = "expired" /\ approval[b] = "pending"
            BY <2>4, <2>6 DEF DecideTooLate, ApprovalTypeOK
        <3>3. Routine
            BY <2>3, <3>1, <3>2, ApprovalStepIsRoutine DEF Request
        <3>4. QED
            BY <2>6, <3>3, ReturnStep
    <2>7. CASE Return(t) /\ UNCHANGED approvalDb
        BY <2>3, <2>7, ThreadOnlyIsRoutine, ReturnStep DEF OnlyThread
    <2>8. QED
        BY <1>3, <2>5, <2>6, <2>7 DEF CancelUnsent
<1>4. CASE ConsumeUnsent(t)
    <2>1. Pending(t) \in Request
        BY <1>4, CallLabel DEF ConsumeUnsent, RuntimeInv, CallLabels
    <2>2. QED
        BY <1>4, <2>1, TryConsumeIsRoutine, ReturnStep DEF ConsumeUnsent
<1>5. QED
    BY <1>1, <1>2, <1>3, <1>4, RequestApprovalKeepsInv, SaveWaitingKeepsInv
       DEF ParkStep

-----------------------------------------------------------------------------
(* Runs that are resumed.                                                  *)

LEMMA ClaimStep ==
    ASSUME RuntimeInv, NEW t \in Thread, th[t].pc # "idle",
           NEW expected \in ClaimableFrom, NEW next,
           Calm([th[t] EXCEPT !.pc = next]), Claim(t, expected, next)
    PROVE  SoundStep
<1>1. CASE ClaimRun(Me(t), th[t].run, expected) /\ Goto(t, next)
    BY <1>1, RunMoveIsRoutine, RoutineStep DEF Claim, Goto
<1>2. CASE Return(t) /\ UNCHANGED sessionDb
    BY <1>2, ThreadOnlyIsRoutine, ReturnStep DEF Claim, OnlyThread
<1>3. QED
    BY <1>1, <1>2 DEF Claim

LEMMA ReadRunKeepsInv ==
    ASSUME RuntimeInv, NEW t \in Thread, ReadRun(t)
    PROVE  SoundStep
<1>1. th[t] \in Frame /\ th[t].run \in Run /\ th[t].seen = "none"
    BY LoopLabel DEF ReadRun, RuntimeInv, LoopLabels
<1>2. Routine
    BY ThreadOnlyIsRoutine DEF ReadRun
<1>3. CASE status[th[t].run] \in {"running", "interrupted"}
    <2>1. Calm([th[t] EXCEPT !.pc = "rr_checkpoint"])
        BY <1>1, <1>3
           DEF Calm, Frame, Labels, Fits, FrameFits, CallLabels, ToolLabels,
               ClaimedLabels, Quiet, Executes, WillExecute
    <2>2. QED
        BY <1>2, <1>3, <2>1, RoutineStep DEF ReadRun, Goto
<1>4. CASE status[th[t].run] \notin {"running", "interrupted"}
    BY <1>2, <1>4, ReturnStep DEF ReadRun
<1>5. QED
    BY <1>3, <1>4

LEMMA ReadCheckpointKeepsInv ==
    ASSUME RuntimeInv, NEW t \in Thread, ReadCheckpoint(t)
    PROVE  SoundStep
<1> DEFINE f == th[t]
           s == checkpoint[f.run].state
           h == Loaded(f, s)
<1>1. At(t, "rr_checkpoint") /\ OnlyThread
    BY DEF ReadCheckpoint
<1>2. f \in Frame /\ f.run \in Run /\ f.seen = "none"
    BY <1>1, LoopLabel DEF RuntimeInv, LoopLabels
<1>3. status[f.run] # "absent"
    BY <1>1, ThreadFacts DEF RuntimeInv, At, Fits, FrameFits
<1>4. s \in SavedState /\ s # NoState
    BY <1>2, <1>3, SameStore, CheckpointsAreStates
       DEF RuntimeInv, BaseInv, Store!StoreInv, RunsHaveCheckpoints
<1>5. /\ h \in Frame /\ h.run = f.run /\ h.seen = "none" /\ h.calls = s.calls
    BY <1>2, <1>4 DEF Loaded, Frame, SavedState
<1>6. \/ s.action = "approval" /\ Become(t, [h EXCEPT !.pc = "rr_approval"])
      \/ Become(t, [h EXCEPT !.pc = "rr_claim_final"])
      \/ Become(t, [h EXCEPT !.pc = "rr_claim"])
    <2>1. CASE s.action = "approval"
        BY <2>1 DEF ReadCheckpoint
    <2>2. CASE s.action = "finalize"
        BY <2>2 DEF ReadCheckpoint
    <2>3. CASE s.action \notin {"approval", "finalize"}
        BY <2>3 DEF ReadCheckpoint
    <2>4. QED
        BY <2>1, <2>2, <2>3
<1> HIDE DEF h
<1>7. CASE s.action = "approval" /\ Become(t, [h EXCEPT !.pc = "rr_approval"])
    <2>1. h.calls # <<>> /\ approval[CallOf(h)] # "absent"
        BY <1>2, <1>4, <1>5, <1>7
           DEF RuntimeInv, BaseInv, CheckpointsNameRequests, ParkedOnRequest,
               CallOf
    <2>2. Calm([h EXCEPT !.pc = "rr_approval"])
        <3>1. [h EXCEPT !.pc = "rr_approval"] \in Frame
            BY <1>5 DEF Frame, Labels
        <3>2. QED
            BY <1>2, <1>5, <2>1, <3>1
               DEF Calm, Frame, Fits, FrameFits, CallLabels, ToolLabels,
                   ClaimedLabels, Quiet, Executes, WillExecute, CallOf
    <2>3. QED
        BY <1>1, <1>7, <2>2, ThreadOnlyIsRoutine, RoutineStep
<1>8. CASE \/ Become(t, [h EXCEPT !.pc = "rr_claim_final"])
           \/ Become(t, [h EXCEPT !.pc = "rr_claim"])
    <2>1. /\ Calm([h EXCEPT !.pc = "rr_claim_final"])
          /\ Calm([h EXCEPT !.pc = "rr_claim"])
        BY <1>2, <1>5, LabelIsCalm
    <2>2. QED
        BY <1>1, <1>8, <2>1, ThreadOnlyIsRoutine, RoutineStep
<1>9. QED
    BY <1>6, <1>7, <1>8

LEMMA LoadParkedKeepsInv ==
    ASSUME RuntimeInv, NEW t \in Thread, LoadParked(t)
    PROVE  SoundStep
<1> DEFINE f == th[t]
<1>1. At(t, "rr_approval") /\ Routine
    BY ExpiryIsRoutine DEF LoadParked
<1>2. f \in Frame /\ f.run \in Run /\ f.calls # <<>>
    BY <1>1, CallLabel DEF RuntimeInv, CallLabels
<1>3. approval[CallOf(f)] # "absent"
    BY <1>1, ThreadFacts DEF RuntimeInv, At, Fits, FrameFits
<1>4. Calm([f EXCEPT !.pc = "rs_load"])
    <2> DEFINE g == [f EXCEPT !.pc = "rs_load"]
    <2>1. "rs_load" \in Labels
        BY DEF Labels
    <2>2. /\ g \in Frame /\ g.pc = "rs_load" /\ g.run = f.run
          /\ g.calls = f.calls
        BY <1>2, <2>1 DEF Frame
    <2> HIDE DEF g
    <2>3. approval[CallOf(g)] # "absent"
        BY <1>3, <2>2 DEF CallOf
    <2>4. Calm(g)
        BY <1>2, <2>2, <2>3, CallIsCalm
    <2>5. QED
        BY <2>4 DEF g
<1>5. Calm([f EXCEPT !.pc = "rr_wait"])
    BY <1>2, CallLabelIsCalm
<1>6. QED
    BY <1>1, <1>4, <1>5, RoutineStep DEF LoadParked, Goto

LEMMA TokensAreNumbers ==
    ASSUME BaseInv, NEW r \in Run
    PROVE  token[r] \in Nat
<1>1. StoreTypeOK
    BY SameStore DEF BaseInv, Store!StoreInv
<1>2. QED
    BY <1>1, StoresAssumption DEF StoreTypeOK, Token, NoToken

LEMMA LearnTokenKeepsInv ==
    ASSUME RuntimeInv, NEW t \in Thread, LearnToken(t)
    PROVE  SoundStep
<1> DEFINE f == [th[t] EXCEPT !.token = token[th[t].run], !.guarded = TRUE]
<1>1. th[t] \in Frame /\ th[t].run \in Run /\ th[t].seen = "none"
    BY LoopLabel DEF LearnToken, RuntimeInv, LoopLabels
<1>2. token[th[t].run] \in Nat
    BY <1>1, TokensAreNumbers DEF RuntimeInv
<1>3. f \in Frame /\ f.run \in Run /\ f.seen = "none"
    BY <1>1, <1>2 DEF Frame
<1>4. \/ Become(t, Proceed(f)) \/ Become(t, [f EXCEPT !.pc = "complete"])
    BY DEF LearnToken
<1> HIDE DEF f
<1>5. Calm(Proceed(f)) /\ Calm([f EXCEPT !.pc = "complete"])
    BY <1>3, ProceedIsCalm, LabelIsCalm
<1>6. QED
    BY <1>4, <1>5, ThreadOnlyIsRoutine, RoutineStep DEF LearnToken

LEMMA LoadRequestKeepsInv ==
    ASSUME RuntimeInv, NEW t \in Thread, LoadRequest(t)
    PROVE  SoundStep
<1> DEFINE f == th[t]
           a == Pending(t)
           h == [Loaded(f, continuation[a]) EXCEPT !.seen = AfterExpiry[a]]
<1>1. At(t, "rs_load") /\ Routine
    BY ExpiryIsRoutine DEF LoadRequest
<1>2. /\ f \in Frame /\ f.run \in Run /\ f.calls # <<>>
      /\ a \in Request /\ a = CallOf(f)
    BY <1>1, CallLabel DEF RuntimeInv, CallLabels
<1>3. continuation[a] \in SavedState /\ continuation[a].calls # <<>>
    BY <1>1, <1>2, ThreadFacts
       DEF RuntimeInv, BaseInv, RequestsHaveContinuations, At, Fits, FrameFits
<1>4. AfterExpiry[a] \in ApprovalStatus
    BY <1>2, SameApprovals
       DEF RuntimeInv, BaseInv, Approvals!ApprovalInv, ApprovalTypeOK,
           ApprovalStatus, AfterExpiry
<1>5. h \in Frame /\ h.run \in Run /\ h.calls # <<>>
    BY <1>2, <1>3, <1>4 DEF Loaded, Frame, SavedState
<1>6. Become(t, [h EXCEPT !.pc = "rs_run"])
    <2>1. [Loaded(f, continuation[a]) EXCEPT !.pc = "rs_run",
                                             !.seen = AfterExpiry[a]]
            = [h EXCEPT !.pc = "rs_run"]
        BY <1>2 DEF Loaded, Frame
    <2>2. QED
        BY <2>1 DEF LoadRequest
<1> HIDE DEF h
<1>7. QED
    BY <1>1, <1>5, <1>6, CallLabelIsCalm, RoutineStep

LEMMA LearnTokenOfParkedKeepsInv ==
    ASSUME RuntimeInv, NEW t \in Thread, LearnTokenOfParked(t)
    PROVE  SoundStep
<1> DEFINE f == th[t]
           h == [f EXCEPT !.token = token[f.run]]
<1>1. f \in Frame /\ f.run \in Run /\ f.calls # <<>>
    BY CallLabel DEF LearnTokenOfParked, RuntimeInv, CallLabels
<1>2. token[f.run] \in Nat
    BY <1>1, TokensAreNumbers DEF RuntimeInv
<1>3. h \in Frame /\ h.run \in Run /\ h.calls # <<>> /\ h.seen = f.seen
    BY <1>1, <1>2 DEF Frame
<1>4. \/ Become(t, [h EXCEPT !.pc = "rs_consume"])
      \/ f.seen = "approved" /\ Become(t, [h EXCEPT !.pc = "rs_execute"])
      \/ Become(t, [h EXCEPT !.pc = "rs_ledger"])
    <2>1. CASE f.seen \in {"rejected", "expired"}
        BY <1>1, <2>1 DEF LearnTokenOfParked, Frame
    <2>2. CASE f.seen = "approved"
        BY <1>1, <2>2 DEF LearnTokenOfParked, Frame
    <2>3. CASE f.seen \notin {"rejected", "expired", "approved"}
        BY <1>1, <2>3 DEF LearnTokenOfParked, Frame
    <2>4. QED
        BY <2>1, <2>2, <2>3
<1> HIDE DEF h
<1>5. /\ Calm([h EXCEPT !.pc = "rs_consume"])
      /\ f.seen = "approved" => Calm([h EXCEPT !.pc = "rs_execute"])
      /\ Calm([h EXCEPT !.pc = "rs_ledger"])
    BY <1>3, CallLabelIsCalm
<1>6. QED
    BY <1>4, <1>5, ThreadOnlyIsRoutine, RoutineStep DEF LearnTokenOfParked

LEMMA ConsultLedgerKeepsInv ==
    ASSUME RuntimeInv, NEW t \in Thread, ConsultLedger(t)
    PROVE  SoundStep
<1> DEFINE f == th[t]
           Known == [f EXCEPT !.out = "output"]
           Unknown == [f EXCEPT !.out = "uncertain"]
<1>1. f \in Frame /\ f.run \in Run /\ f.calls # <<>>
    BY CallLabel DEF ConsultLedger, RuntimeInv, CallLabels
<1>2. Routine
    BY ThreadOnlyIsRoutine DEF ConsultLedger
<1>3. /\ Known \in Frame /\ Known.run \in Run /\ Known.calls # <<>>
      /\ Known.out # "none" /\ Known.run = f.run /\ Known.calls = f.calls
      /\ Unknown \in Frame /\ Unknown.run \in Run /\ Unknown.calls # <<>>
      /\ Unknown.out # "none"
    BY <1>1 DEF Frame, Output
<1>4. \/ /\ ledger[f.run][Head(f.calls)].status = "completed"
         /\ \/ Become(t, [Known EXCEPT !.pc = "rs_settle"])
            \/ Become(t, [Known EXCEPT !.pc = "after_call"])
      \/ Become(t, [Unknown EXCEPT !.pc = "after_call"])
      \/ Goto(t, "rs_fail")
    BY <1>1 DEF ConsultLedger, Frame
<1> HIDE DEF Known, Unknown
<1>5. ledger[f.run][Head(f.calls)].status = "completed" =>
        Calm([Known EXCEPT !.pc = "rs_settle"])
    <2> DEFINE g == [Known EXCEPT !.pc = "rs_settle"]
    <2>1. "rs_settle" \in Labels
        BY DEF Labels
    <2>2. /\ g \in Frame /\ g.pc = "rs_settle" /\ g.run = f.run
          /\ g.calls = f.calls /\ g.out = Known.out
        BY <1>3, <2>1 DEF Frame
    <2> HIDE DEF g
    <2>3. ledger[f.run][Head(f.calls)].status = "completed" => Calm(g)
        BY <1>1, <1>3, <2>2, CallIsCalm
    <2>4. QED
        BY <2>3 DEF g
<1>6. /\ Calm([Known EXCEPT !.pc = "after_call"])
      /\ Calm([Unknown EXCEPT !.pc = "after_call"])
      /\ Calm([f EXCEPT !.pc = "rs_fail"])
    BY <1>1, <1>3, CallLabelIsCalm
<1>7. QED
    BY <1>2, <1>4, <1>5, <1>6, RoutineStep DEF Goto

(* One request moves on from "executing" or "approved".                    *)
LEMMA MoveIsRoutine ==
    ASSUME RuntimeInv, NEW a \in Request,
           NEW from \in {"approved", "executing"}, NEW to \in Spending,
           Move(a, from, to), from = "approved" <=> to = "executing",
           to = "completed" => ledger[a[1]][a[2]].status = "completed",
           UNCHANGED <<sessionDb, processVars, worldVars>>
    PROVE  Routine /\ \A b \in Request :
             approval'[b] = IF b = a THEN to ELSE approval[b]
<1>1. ApprovalTypeOK
    BY SameApprovals DEF RuntimeInv, BaseInv, Approvals!ApprovalInv
<1>2. \A b \in Request : approval'[b] = IF b = a THEN to ELSE approval[b]
    BY <1>1 DEF Move, ApprovalTypeOK
<1>3. approval[a] # "absent"
    BY DEF Move
<1>4. ApprovalNext
    BY DEF Spending, ApprovalNext, ClaimExecution, CompleteApproval,
           FailApproval
<1>5. \A r \in Run, c \in Call :
        approval'[<<r, c>>] = "completed" =>
          approval[<<r, c>>] = "completed" \/ ledger[r][c].status = "completed"
    BY <1>2 DEF Request
<1>6. QED
    BY <1>2, <1>3, <1>4, <1>5, ApprovalStepIsRoutine

LEMMA TryMoveStep ==
    ASSUME RuntimeInv, NEW t \in Thread, th[t].run \in Run,
           th[t].calls # <<>>, th[t].out # "none", Pending(t) \in Request,
           NEW to \in {"completed", "failed"}, TryMove(Pending(t), to),
           to = "completed" =>
             ledger[th[t].run][Head(th[t].calls)].status = "completed",
           UNCHANGED <<sessionDb, processVars, worldVars>>,
           Goto(t, "after_call")
    PROVE  SoundStep
<1>1. CASE Move(Pending(t), "executing", to)
    BY <1>1, MoveIsRoutine, CallLabelStep DEF Spending, Pending
<1>2. CASE UNCHANGED approvalDb
    BY <1>2, ThreadOnlyIsRoutine, CallLabelStep DEF OnlyThread
<1>3. QED
    BY <1>1, <1>2 DEF TryMove

LEMMA TakeApprovalKeepsInv ==
    ASSUME RuntimeInv, NEW t \in Thread, TakeApproval(t)
    PROVE  SoundStep
<1> DEFINE f == th[t]
           c == Head(f.calls)
           a == Pending(t)
           g == [f EXCEPT !.pc = "renew_tool"]
<1>1. At(t, "rs_execute") /\ UNCHANGED <<sessionDb, processVars, worldVars>>
    BY DEF TakeApproval
<1>2. /\ f \in Frame /\ f.run \in Run /\ f.calls # <<>> /\ c \in Call
      /\ a \in Request /\ a = CallOf(f) /\ a = <<f.run, c>>
    BY <1>1, CallLabel DEF RuntimeInv, CallLabels, Pending
<1>3. f.pc = "rs_execute" /\ f.seen = "approved"
    BY <1>1, ThreadFacts DEF RuntimeInv, At, Fits, FrameFits
<1>4. ASSUME ClaimExecution(a)
      PROVE  /\ Routine
             /\ \A b \in Request :
                  approval'[b] = IF b = a THEN "executing" ELSE approval[b]
    BY <1>1, <1>2, <1>4, MoveIsRoutine DEF ClaimExecution, Spending
<1>5. CASE ClaimExecution(a) /\ Goto(t, "renew_tool")
    <2>1. approval[a] = "approved" /\ Policy[c] = "approve"
        BY <1>2, <1>5
           DEF ClaimExecution, Move, RuntimeInv, BaseInv,
               RequestsHaveContinuations
    <2>2. ledger[f.run][c].status = "absent"
        BY <1>2, <2>1 DEF RuntimeInv, EffectInv, LedgerNeedsConsent, Spending
    <2>3. /\ g \in Frame /\ g.pc = "renew_tool" /\ g.run = f.run
          /\ g.calls = f.calls /\ g.seen = "approved" /\ CallOf(g) = a
        BY <1>2, <1>3 DEF Frame, Labels, CallOf
    <2>4. /\ th' \in [Thread -> Frame]
          /\ \A u \in Thread : th'[u] = IF u = t THEN g ELSE th[u]
        BY <1>5, <2>3 DEF Goto, Become, RuntimeInv, BaseInv, WorldTypeOK
    <2> HIDE DEF g
    <2>5. FrameFits(g, status', approval', ledger', effect')
        BY <1>2, <1>4, <1>5, <2>1, <2>3
           DEF FrameFits, CallLabels, ToolLabels, ClaimedLabels, LoopLabels,
               Admitted, Paid, Spending
    <2>6. BaseInv'
        BY <1>4, <1>5, <2>4, <2>5, RoutineKeepsBase DEF RuntimeInv, Routine
    <2>7. UNCHANGED <<ledger, effect>>
        BY <1>1 DEF sessionDb, worldVars
    <2>8. ASSUME NEW u \in Thread, WillExecute(th[u])
          PROVE  CallOf(th[u]) # a
        BY <2>1, <2>8, ThreadFacts
           DEF RuntimeInv, WillExecute, Fits, FrameFits, ToolLabels,
               ClaimedLabels, Admitted, Paid, Spending
    <2>9. ExecutorsAreAlone'
        <3>1. ~Executes(g)
            BY <2>3 DEF Executes
        <3>2. ExecutorsAreAlone
            BY DEF RuntimeInv, EffectInv
        <3> SUFFICES ASSUME NEW v \in Thread, NEW u \in Thread
                     PROVE
            /\ Executes(th'[v]) => effect'[th'[v].run][Head(th'[v].calls)] = 0
            /\ WillExecute(th'[v]) =>
                 ledger'[th'[v].run][Head(th'[v].calls)].status = "absent"
            /\ v # u /\ Executes(th'[v]) /\ Executes(th'[u]) =>
                 CallOf(th'[v]) # CallOf(th'[u])
            /\ v # u /\ WillExecute(th'[v]) /\ WillExecute(th'[u]) =>
                 CallOf(th'[v]) # CallOf(th'[u])
            BY DEF ExecutorsAreAlone, Executes, WillExecute, CallOf
        <3>3. CASE v # t
            <4>1. th'[v] = th[v]
                BY <2>4, <3>3
            <4>2. CASE u = t
                BY <2>3, <2>4, <2>7, <2>8, <3>1, <3>2, <4>1, <4>2
                   DEF ExecutorsAreAlone
            <4>3. CASE u # t
                BY <2>4, <2>7, <3>2, <4>1, <4>3 DEF ExecutorsAreAlone
            <4>4. QED
                BY <4>2, <4>3
        <3>4. CASE v = t
            BY <2>2, <2>3, <2>4, <2>7, <2>8, <3>1, <3>4
        <3>5. QED
            BY <3>3, <3>4
    <2>10. LedgerNeedsConsent'
        BY <1>4, <1>5, <2>7
           DEF RuntimeInv, EffectInv, LedgerNeedsConsent, Spending, Request
    <2>11. AtMostOneEffect'
        BY <2>7 DEF RuntimeInv, EffectInv, AtMostOneEffect
    <2>12. CompletedConsentIsInLedger'
        BY <1>4, <1>5, <2>7
           DEF RuntimeInv, EffectInv, CompletedConsentIsInLedger, Request
    <2>13. QED
        BY <1>4, <1>5, <2>6, <2>9, <2>10, <2>11, <2>12
           DEF RuntimeInv, EffectInv, SoundStep, Routine, RoutineBase
<1>6. CASE /\ ClaimExecution(a)
           /\ Become(t, [f EXCEPT !.pc = "approval_fail", !.out = "refused"])
    <2> DEFINE h == [f EXCEPT !.out = "refused"]
    <2>1. h \in Frame /\ h.run \in Run /\ h.calls # <<>> /\ h.out # "none"
        BY <1>2 DEF Frame, Output
    <2>2. Become(t, [h EXCEPT !.pc = "approval_fail"])
        BY <1>2, <1>6 DEF Frame
    <2> HIDE DEF h
    <2>3. QED
        BY <1>4, <1>6, <2>1, <2>2, CallLabelIsCalm, RoutineStep
<1>7. CASE Return(t) /\ UNCHANGED approvalDb
    BY <1>1, <1>7, ThreadOnlyIsRoutine, ReturnStep DEF OnlyThread
<1>8. QED
    BY <1>5, <1>6, <1>7 DEF TakeApproval

LEMMA SettleApprovalKeepsInv ==
    ASSUME RuntimeInv, NEW t \in Thread,
           SettleApproval(t) \/ SettleForExecutor(t)
    PROVE  SoundStep
<1>1. \/ At(t, "approval_done") \/ At(t, "approval_fail")
      \/ At(t, "rs_settle")
    BY DEF SettleApproval, SettleForExecutor
<1>2. /\ th[t] \in Frame /\ th[t].run \in Run /\ th[t].calls # <<>>
      /\ Pending(t) \in Request
    BY <1>1, CallLabel DEF RuntimeInv, CallLabels
<1>3. /\ th[t].out # "none"
      /\ At(t, "approval_done") \/ At(t, "rs_settle") =>
           ledger[th[t].run][Head(th[t].calls)].status = "completed"
    BY <1>1, ThreadFacts DEF RuntimeInv, At, Fits, FrameFits
<1>4. CASE At(t, "approval_done") /\ Become(t, ToolRaises(th[t]))
           /\ UNCHANGED <<approvalDb, sessionDb, processVars, worldVars>>
    BY <1>2, <1>4, ToolRaisesIsCalm, ThreadOnlyIsRoutine, RoutineStep
       DEF OnlyThread
<1>5. QED
    BY <1>2, <1>3, <1>4, TryMoveStep DEF SettleApproval, SettleForExecutor

LEMMA ResumeStepKeepsInv ==
    ASSUME RuntimeInv, NEW t \in Thread, ResumeStep(t)
    PROVE  SoundStep
<1>1. CASE WaitAgain(t)
    <2>1. th[t].pc # "idle" /\ th[t].run \in Run /\ th[t].calls # <<>>
        BY <1>1, CallLabel DEF WaitAgain, RuntimeInv, CallLabels
    <2>2. Routine
        BY <1>1, <2>1, TryTransitionIsRoutine DEF WaitAgain, TransitionTargets
    <2>3. QED
        BY <1>1, <2>1, <2>2, ParkedStep DEF WaitAgain
<1>2. CASE ClaimInterrupted(t)
    <2>1. /\ th[t] \in Frame /\ th[t].run \in Run /\ th[t].seen = "none"
          /\ th[t].pc # "idle"
        BY <1>2, LoopLabel DEF ClaimInterrupted, RuntimeInv, LoopLabels, At
    <2>2. /\ Calm([th[t] EXCEPT !.pc = "rr_token"])
          /\ Calm([th[t] EXCEPT !.pc = "rr_token_final"])
        BY <2>1, LabelIsCalm
    <2>3. QED
        BY <1>2, <2>1, <2>2, ClaimStep DEF ClaimInterrupted, ClaimableFrom
<1>3. CASE CheckRun(t)
    <2>1. th[t].run \in Run /\ th[t].calls # <<>>
        BY <1>3, CallLabel DEF CheckRun, RuntimeInv, CallLabels
    <2>2. Routine
        BY <1>3, ThreadOnlyIsRoutine DEF CheckRun
    <2>3. Return(t) \/ Goto(t, "rs_claim")
        BY <1>3 DEF CheckRun
    <2>4. QED
        BY <2>1, <2>2, <2>3, CallLabelStep, ReturnStep
<1>4. CASE ClaimParked(t)
    <2>1. /\ th[t] \in Frame /\ th[t].run \in Run /\ th[t].calls # <<>>
          /\ th[t].pc # "idle"
        BY <1>4, CallLabel DEF ClaimParked, RuntimeInv, CallLabels
    <2>2. Calm([th[t] EXCEPT !.pc = "rs_token"])
        BY <2>1, CallLabelIsCalm
    <2>3. QED
        BY <1>4, <2>1, <2>2, ClaimStep DEF ClaimParked, ClaimableFrom
<1>5. CASE ConsumeRefusal(t)
    <2> DEFINE h == [th[t] EXCEPT !.out = "refused"]
    <2>1. /\ th[t] \in Frame /\ th[t].run \in Run /\ th[t].calls # <<>>
          /\ Pending(t) \in Request
        BY <1>5, CallLabel DEF ConsumeRefusal, RuntimeInv, CallLabels
    <2>2. Routine
        BY <1>5, <2>1, TryConsumeIsRoutine DEF ConsumeRefusal
    <2>3. h \in Frame /\ h.run \in Run /\ h.calls # <<>> /\ h.out # "none"
        BY <2>1 DEF Frame, Output
    <2>4. Become(t, [h EXCEPT !.pc = "after_call"])
        BY <1>5, <2>1 DEF ConsumeRefusal, Frame
    <2> HIDE DEF h
    <2>5. QED
        BY <2>2, <2>3, <2>4, CallLabelIsCalm, RoutineStep
<1>6. CASE FailUncertain(t)
    <2>1. th[t].pc # "idle" /\ "failed" \in TransitionTargets
        BY <1>6 DEF FailUncertain, At, TransitionTargets
    <2>2. QED
        BY <1>6, <2>1, TryTransitionIsRoutine, ReturnStep DEF FailUncertain
<1>7. QED
    BY <1>1, <1>2, <1>3, <1>4, <1>5, <1>6, ReadRunKeepsInv,
       ReadCheckpointKeepsInv, LoadParkedKeepsInv, LearnTokenKeepsInv,
       LoadRequestKeepsInv, LearnTokenOfParkedKeepsInv, ConsultLedgerKeepsInv,
       TakeApprovalKeepsInv, SettleApprovalKeepsInv DEF ResumeStep

-----------------------------------------------------------------------------
(* Threads that begin, processes, people and clocks.                       *)

LEMMA BeginKeepsInv ==
    ASSUME RuntimeInv, NEW t \in Thread, Begin(t)
    PROVE  SoundStep
<1>1. Idle \in Frame /\ Me(t) \in Owner
    BY IdleIsCalm, ThreadFacts DEF Calm, RuntimeInv
<1>2. StoreTypeOK
    BY SameStore DEF RuntimeInv, BaseInv, Store!StoreInv
<1>3. ASSUME NEW r \in Run, NEW k \in Nat,
             NEW l \in {"context", "rr_get"}
      PROVE  Calm([Idle EXCEPT !.pc = l, !.run = r, !.token = k])
    <2> DEFINE h == [Idle EXCEPT !.run = r, !.token = k]
    <2>1. h \in Frame /\ h.run \in Run /\ h.seen = "none"
        BY <1>1 DEF Frame, Idle
    <2>2. [Idle EXCEPT !.pc = l, !.run = r, !.token = k] = [h EXCEPT !.pc = l]
        BY DEF Idle
    <2> HIDE DEF h
    <2>3. QED
        BY <2>1, <2>2, LabelIsCalm
<1>4. ASSUME NEW r \in Run
      PROVE  Calm([Idle EXCEPT !.pc = "rr_get", !.run = r])
    <2> DEFINE h == [Idle EXCEPT !.run = r]
    <2>1. h \in Frame /\ h.run \in Run /\ h.seen = "none"
        BY <1>1 DEF Frame, Idle
    <2>2. [Idle EXCEPT !.pc = "rr_get", !.run = r] = [h EXCEPT !.pc = "rr_get"]
        BY DEF Idle
    <2> HIDE DEF h
    <2>3. QED
        BY <2>1, <2>2, LabelIsCalm
<1>5. ASSUME NEW m \in Message, NEW r \in Run,
             BeginInbound(Me(t), m, r, Saved("model", Idle)),
             Become(t, [Idle EXCEPT !.pc = "context", !.run = r, !.token = 1]),
             UNCHANGED <<approvalDb, processVars, worldVars>>
      PROVE  SoundStep
    <2>1. Saved("model", Idle) \in SavedState
        BY <1>1, SavedIsState
    <2>2. StoreNext
        BY <1>1, <1>5, <2>1 DEF StoreNext, RunStep
    <2>3. \A q \in Run : \/ checkpoint'[q] = checkpoint[q]
                         \/ ParkedOnRequest(q, checkpoint'[q].state)
        BY <1>2, <1>5, OtherStatesNameNoRequest
           DEF BeginInbound, WriteInbound, StoreTypeOK
    <2>4. Routine
        BY <1>5, <2>2, <2>3, RunStepIsRoutine DEF BeginInbound, WriteInbound
    <2>5. QED
        BY <1>3, <1>5, <2>4, RoutineStep
<1>6. ASSUME NEW m \in Message, inbound[m] # NoRun,
             Become(t, [Idle EXCEPT !.pc = "rr_get", !.run = inbound[m]]),
             OnlyThread
      PROVE  SoundStep
    <2>1. inbound[m] \in Run
        BY <1>2, <1>6 DEF StoreTypeOK
    <2>2. QED
        BY <1>4, <1>6, <2>1, ThreadOnlyIsRoutine, RoutineStep
<1>7. ASSUME NEW r \in Run, ResumeRun(t, r)
      PROVE  SoundStep
    BY <1>4, <1>7, ThreadOnlyIsRoutine, RoutineStep DEF ResumeRun
<1>8. ASSUME NEW a \in Request, Resume(t, a)
      PROVE  SoundStep
    <2> DEFINE g == [Idle EXCEPT !.pc = "rs_load", !.run = a[1],
                                 !.calls = <<a[2]>>]
               p == ProcessOf[t]
    <2>1. p \in Process /\ a \in offered[p]
        BY <1>8, RuntimeAssumption DEF Resume
    <2>2. approval[a] # "absent"
        BY <2>1 DEF RuntimeInv, BaseInv, OfferedWereAsked
    <2>3. a[1] \in Run /\ a[2] \in Call /\ a = <<a[1], a[2]>>
        BY DEF Request
    <2>4. /\ g \in Frame /\ g.pc = "rs_load" /\ g.run = a[1]
          /\ g.calls # <<>> /\ CallOf(g) = a
        <3>1. <<a[2]>> \in Seq(Call) /\ <<a[2]>> # <<>> /\ Head(<<a[2]>>) = a[2]
            BY <2>3
        <3>2. QED
            BY <1>1, <2>3, <3>1 DEF Frame, Labels, Idle, CallOf
    <2> HIDE DEF g
    <2>5. Calm(g)
        BY <2>2, <2>3, <2>4
           DEF Calm, Fits, FrameFits, CallLabels, ToolLabels, ClaimedLabels,
               LoopLabels, Quiet, Executes, WillExecute
    <2>6. Become(t, g)
        BY <1>8 DEF Resume, g
    <2>7. Routine
        BY <1>8, <2>1
           DEF Resume, RuntimeInv, BaseInv, WorldTypeOK,
               CheckpointsNameRequests, Routine, RoutineBase, EffectsStay,
               StoresStep,
               storeVars, runVars, inboundVars, approvalVars, sessionDb,
               approvalDb, worldVars
    <2>8. QED
        BY <2>5, <2>6, <2>7, RoutineStep
<1>9. QED
    BY <1>5, <1>6, <1>7, <1>8 DEF Begin, Deliver, OnlyThread

(* A step that moves no thread, except that threads may die.               *)
LEMMA EnvironmentStep ==
    ASSUME RuntimeInv, StoresStep, WorldTypeOK', StartsRemain',
           OfferedWereAsked', UNCHANGED <<checkpoint, effect>>,
           \A t \in Thread : th'[t] \in {th[t], Idle},
           \A a \in Request : approval'[a] # "absent" => approval[a] # "absent",
           \A a \in Request :
             approval'[a] = "completed" => approval[a] = "completed",
           \A r \in Run, c \in Call :
             ledger'[r][c].status # "absent" => ledger[r][c].status # "absent"
    PROVE  SoundStep
<1>1. RunsStay /\ RowsStay /\ RequestsStay /\ EffectsStay
    BY StoresKeepInv DEF RuntimeInv, EffectsStay
<1>2. \A r \in Run : checkpoint[r].state \in SavedState \cup {NoState}
    BY SameStore, CheckpointsAreStates DEF RuntimeInv, BaseInv, Store!StoreInv
<1>3. CheckpointsNameRequests' /\ RequestsHaveContinuations'
    BY <1>1, <1>2, RequestsStayFit
       DEF RuntimeInv, BaseInv, CheckpointsNameRequests
<1>4. FrameFits(Idle, status', approval', ledger', effect') /\ Quiet(Idle)
    BY <1>1, IdleIsCalm, FrameStaysFit DEF Calm
<1>5. BaseInv'
    BY <1>1, <1>3, <1>4, BaseIsKept DEF RuntimeInv
<1>6. SameExecutors
    BY <1>4 DEF SameExecutors, Quiet
<1>7. EffectInv'
    BY <1>6, EffectsAreKept DEF Request
<1>8. QED
    BY <1>5, <1>7 DEF RuntimeInv, SoundStep

LEMMA CrashKeepsInv ==
    ASSUME RuntimeInv, NEW p \in Process, Crash(p)
    PROVE  SoundStep
<1>1. StoresStep /\ UNCHANGED <<checkpoint, ledger, approval, effect>>
    BY DEF Crash, StoresStep, storeVars, runVars, inboundVars, approvalVars,
           sessionDb, approvalDb, worldVars
<1>2. \A t \in Thread : th'[t] \in {th[t], Idle}
    BY DEF Crash
<1>3. WorldTypeOK'
    BY IdleIsCalm DEF Crash, RuntimeInv, BaseInv, WorldTypeOK, Calm, worldVars
<1>4. StartsRemain' /\ OfferedWereAsked'
    BY <1>1 DEF Crash, RuntimeInv, BaseInv, WorldTypeOK, StartsRemain,
                OfferedWereAsked
<1>5. QED
    BY <1>1, <1>2, <1>3, <1>4, EnvironmentStep

LEMMA RestartKeepsInv ==
    ASSUME RuntimeInv, NEW p \in Process, Restart(p)
    PROVE  SoundStep
<1>1. inc[p] + 1 \in Incarnation
    BY DEF Restart, RuntimeInv, BaseInv, StartsRemain
<1>2. StoreNext
    BY <1>1 DEF Restart, StoreNext, Owner
<1>3. StoresStep /\ UNCHANGED <<checkpoint, ledger, approval, effect, th>>
    BY <1>2 DEF Restart, InterruptIncomplete, StoresStep, approvalVars,
                approvalDb, worldVars
<1>4. WorldTypeOK' /\ StartsRemain' /\ OfferedWereAsked'
    BY <1>1, <1>3
       DEF Restart, RuntimeInv, BaseInv, WorldTypeOK, StartsRemain,
           OfferedWereAsked, worldVars
<1>5. QED
    BY <1>3, <1>4, EnvironmentStep

(* A click and a tick of recovery change approvals and offer some.         *)
LEMMA OfferStep ==
    ASSUME RuntimeInv, NEW p \in Process, [ApprovalNext]_approvalVars,
           UNCHANGED <<sessionDb, th, up, inc, worldVars>>,
           \A a \in Request :
             approval'[a] \in {approval[a], "approved", "rejected", "expired"},
           \A a \in Request : approval'[a] # "absent" => approval[a] # "absent",
           NEW A \in SUBSET Request, \A a \in A : approval[a] # "absent",
           \/ offered' = [offered EXCEPT ![p] = @ \cup A]
           \/ UNCHANGED offered
    PROVE  SoundStep
<1>1. StoresStep /\ UNCHANGED <<checkpoint, ledger, effect>>
    BY DEF StoresStep, storeVars, runVars, inboundVars, sessionDb, worldVars
<1>2. RequestsStay
    BY <1>1, StoresKeepInv DEF RuntimeInv
<1>3. WorldTypeOK' /\ StartsRemain'
    BY DEF RuntimeInv, BaseInv, WorldTypeOK, StartsRemain, worldVars
<1>4. OfferedWereAsked'
    BY <1>2 DEF RuntimeInv, BaseInv, WorldTypeOK, OfferedWereAsked,
                RequestsStay
<1>5. \A a \in Request : approval'[a] = "completed" => approval[a] = "completed"
    OBVIOUS
<1>6. QED
    BY <1>1, <1>3, <1>4, <1>5, EnvironmentStep

LEMMA ClickKeepsInv ==
    ASSUME RuntimeInv, NEW p \in Process, NEW a \in Request,
           NEW v \in Verdict, Click(p, a, v)
    PROVE  SoundStep
<1>1. ApprovalTypeOK
    BY SameApprovals DEF RuntimeInv, BaseInv, Approvals!ApprovalInv
<1>2. Requester[a] \in Actor /\ <<a, "click">> \in Event
    BY StoresAssumption DEF Event
<1>3. approval[a] = "pending" /\ ApprovalNext
    BY <1>2 DEF Click, Decide, DecideTooLate, ApprovalNext
<1>4. \A b \in Request :
        approval'[b] = IF b = a THEN approval'[a] ELSE approval[b]
    BY <1>1 DEF Click, Decide, DecideTooLate, ApprovalTypeOK
<1>5. approval'[a] \in {"approved", "rejected", "expired"}
    BY <1>1 DEF Click, Decide, DecideTooLate, ApprovalTypeOK, Verdict
<1>6. /\ \/ offered' = [offered EXCEPT ![p] = @ \cup {a}]
         \/ UNCHANGED offered
      /\ UNCHANGED <<sessionDb, th, up, inc, worldVars>>
    BY DEF Click
<1>7. /\ {a} \in SUBSET Request
      /\ \A b \in {a} : approval[b] # "absent"
      /\ \A b \in Request : approval'[b] # "absent" => approval[b] # "absent"
      /\ \A b \in Request :
           approval'[b] \in {approval[b], "approved", "rejected", "expired"}
    BY <1>3, <1>4, <1>5
<1>8. QED
    BY <1>3, <1>6, <1>7, OfferStep

LEMMA RecoverTickKeepsInv ==
    ASSUME RuntimeInv, NEW p \in Process, RecoverTick(p)
    PROVE  SoundStep
<1> DEFINE A == {a \in Request : Resumable(a, AfterExpiry[a])}
<1>1. \A a \in Request :
        /\ approval'[a] \in {approval[a], "expired"}
        /\ approval[a] = "absent" => approval'[a] = "absent"
    BY DEF RecoverTick, ExpirePending, AfterExpiry, Expired
<1>2. \A a \in A : approval[a] # "absent"
    BY DEF Resumable, AfterExpiry, Expired
<1>3. /\ ApprovalNext /\ UNCHANGED <<sessionDb, th, up, inc, worldVars>>
      /\ offered' = [offered EXCEPT ![p] = @ \cup A]
    BY DEF RecoverTick, ApprovalNext
<1>4. QED
    BY <1>1, <1>2, <1>3, OfferStep

LEMMA AdministerKeepsInv ==
    ASSUME RuntimeInv, NEW r \in Run, Administer(r) \/ LeaseClock(r)
    PROVE  SoundStep
<1>1. UNCHANGED <<checkpoint, approvalDb, runtimeVars>>
    BY DEF Administer, AdminControlRun, AdminResolveTool, LeaseClock,
           LeaseExpires
<1>2. StoreNext
    BY DEF Administer, LeaseClock, StoreNext, AdminStep
<1>3. StoresStep
    BY <1>1, <1>2 DEF StoresStep, approvalVars, approvalDb
<1>4. ledger \in [Run -> [Call -> Execution]]
    BY SameStore DEF RuntimeInv, BaseInv, Store!StoreInv, StoreTypeOK
<1>5. \A q \in Run, c \in Call :
        ledger'[q][c].status # "absent" => ledger[q][c].status # "absent"
    BY <1>4 DEF Administer, AdminControlRun, AdminResolveTool, SettleRow,
                LeaseClock, LeaseExpires
<1>6. WorldTypeOK' /\ StartsRemain' /\ OfferedWereAsked'
    BY <1>1 DEF RuntimeInv, BaseInv, WorldTypeOK, StartsRemain,
                OfferedWereAsked, runtimeVars, processVars, worldVars,
                approvalDb
<1>7. QED
    BY <1>1, <1>3, <1>5, <1>6, EnvironmentStep
       DEF runtimeVars, worldVars, approvalDb

LEMMA ApprovalClockKeepsInv ==
    ASSUME RuntimeInv, NEW a \in Request, ApprovalClock(a)
    PROVE  SoundStep
<1>1. UNCHANGED <<checkpoint, ledger, approval, runtimeVars>>
    BY DEF ApprovalClock, DeadlinePasses, sessionDb
<1>2. StoresStep
    BY DEF ApprovalClock, StoresStep, ApprovalNext, storeVars, runVars,
           inboundVars, sessionDb
<1>3. WorldTypeOK' /\ StartsRemain' /\ OfferedWereAsked'
    BY <1>1 DEF RuntimeInv, BaseInv, WorldTypeOK, StartsRemain,
                OfferedWereAsked, runtimeVars, processVars, worldVars
<1>4. QED
    BY <1>1, <1>2, <1>3, EnvironmentStep DEF runtimeVars, worldVars

LEMMA EnvironmentKeepsInv ==
    ASSUME RuntimeInv, Environment
    PROVE  SoundStep
    BY CrashKeepsInv, RestartKeepsInv, RecoverTickKeepsInv, ClickKeepsInv,
       AdministerKeepsInv, ApprovalClockKeepsInv DEF Environment

LEMMA StutterKeepsInv ==
    ASSUME RuntimeInv, UNCHANGED vars
    PROVE  SoundStep
<1>1. StoresStep /\ UNCHANGED <<checkpoint, ledger, approval, runtimeVars>>
    BY DEF vars, StoresStep, storeVars, runVars, inboundVars, approvalVars,
           sessionDb, approvalDb
<1>2. WorldTypeOK' /\ StartsRemain' /\ OfferedWereAsked'
    BY <1>1 DEF RuntimeInv, BaseInv, WorldTypeOK, StartsRemain,
                OfferedWereAsked, runtimeVars, processVars, worldVars
<1>3. QED
    BY <1>1, <1>2, EnvironmentStep DEF runtimeVars, worldVars

LEMMA RuntimeStepIsSound ==
    RuntimeInv /\ [Next]_vars => SoundStep
<1> SUFFICES ASSUME RuntimeInv, [Next]_vars
             PROVE  SoundStep
    OBVIOUS
<1>1. ASSUME NEW t \in Thread, Work(t)
      PROVE  SoundStep
    BY <1>1, BuildContextKeepsInv, ModelStepKeepsInv, ToolCallStepKeepsInv,
       ParkStepKeepsInv, ResumeStepKeepsInv DEF Work
<1>2. QED
    BY <1>1, BeginKeepsInv, EnvironmentKeepsInv, StutterKeepsInv DEF Next

LEMMA InitEstablishesRuntimeInv == Init => RuntimeInv
<1> SUFFICES ASSUME Init
             PROVE  RuntimeInv
    OBVIOUS
<1>1. Store!StoreInv /\ Approvals!ApprovalInv
    BY StoresAssumption, SameStore, SameApprovals, Store!InitEstablishesInv,
       Approvals!InitEstablishesApprovalInv DEF Init
<1>2. /\ \A r \in Run : status[r] = "absent" /\ checkpoint[r].state = NoState
      /\ \A r \in Run, c \in Call :
           ledger[r][c].status = "absent" /\ effect[r][c] = 0
      /\ \A a \in Request : approval[a] = "absent"
      /\ \A p \in Process : offered[p] = {}
      /\ \A t \in Thread : th[t] = Idle
    BY DEF Init, StoreInit, ApprovalInit, NoCheckpoint, NoExecution
<1>3. WorldTypeOK /\ StartsRemain
    BY IdleIsCalm, RuntimeAssumption DEF Init, WorldTypeOK, StartsRemain, Calm
<1>4. /\ RunsHaveCheckpoints /\ CheckpointsNameRequests
      /\ RequestsHaveContinuations /\ OfferedWereAsked
    BY <1>2 DEF RunsHaveCheckpoints, CheckpointsNameRequests, ParkedOnRequest,
                RequestsHaveContinuations, OfferedWereAsked
<1>5. FramesFit
    BY <1>2, IdleIsCalm DEF FramesFit, Calm
<1>6. EffectInv
    <2>1. ExecutorsAreAlone
        BY <1>2 DEF ExecutorsAreAlone, Executes, WillExecute, Idle
    <2>2. QED
        BY <1>2, <2>1 DEF EffectInv, LedgerNeedsConsent, AtMostOneEffect,
                          CompletedConsentIsInLedger, Request
<1>7. QED
    BY <1>1, <1>3, <1>4, <1>5, <1>6 DEF RuntimeInv, BaseInv

(* The invariant holds in every reachable state of the loop.               *)
THEOREM RuntimeIsSound == Spec => []RuntimeInv
<1>1. Init => RuntimeInv
    BY InitEstablishesRuntimeInv
<1>2. RuntimeInv /\ [Next]_vars => RuntimeInv'
    BY RuntimeStepIsSound DEF SoundStep
<1>3. QED
    BY <1>1, <1>2, PTL DEF Spec

(* Frames, processes and both stores keep their types: the loop never      *)
(* passes a store an owner, a token or a state that it does not know.      *)
THEOREM RuntimeIsWellTyped == Spec => []RuntimeTypeOK
<1>1. RuntimeInv => RuntimeTypeOK
    BY SameStore, SameApprovals
       DEF RuntimeInv, BaseInv, WorldTypeOK, RuntimeTypeOK, Store!StoreInv,
           Approvals!ApprovalInv
<1>2. QED
    BY <1>1, RuntimeIsSound, PTL

(* ToolExecutionCoordinator.invoke and claim_tool: for any number of       *)
(* processes, threads, crashes, resumes and repeated deliveries a call has *)
(* its side effect at most once, and not without a row of the ledger.      *)
THEOREM EffectsHappenOnce == Spec => []AtMostOneEffect
<1>1. RuntimeInv => AtMostOneEffect
    BY DEF RuntimeInv, EffectInv
<1>2. QED
    BY <1>1, RuntimeIsSound, PTL

(* _process_calls and _resume_result: a call has its effect only if policy *)
(* allows it, or if its request was confirmed and taken by an executor.    *)
THEOREM EffectsHaveConsent == Spec => []EffectNeedsConsent
<1>1. RuntimeInv => EffectNeedsConsent
    <2> SUFFICES ASSUME RuntimeInv, NEW r \in Run, NEW c \in Call,
                        effect[r][c] > 0
                 PROVE  \/ Policy[c] = "allow"
                        \/ /\ Policy[c] = "approve"
                           /\ approval[<<r, c>>] \in Spending
        BY DEF EffectNeedsConsent, Spending
    <2>1. effect[r][c] \in Nat
        BY DEF RuntimeInv, BaseInv, WorldTypeOK
    <2>2. effect[r][c] = 1 /\ ledger[r][c].status # "absent"
        BY <2>1 DEF RuntimeInv, EffectInv, AtMostOneEffect
    <2>3. QED
        BY <2>2 DEF RuntimeInv, EffectInv, LedgerNeedsConsent
<1>2. QED
    BY <1>1, RuntimeIsSound, PTL

(* complete and the two databases: an approval is completed only after the *)
(* ledger has the outcome of its call, whoever settles it.                 *)
THEOREM CompletedConsentIsRecorded == Spec => []CompletedConsentIsInLedger
<1>1. RuntimeInv => CompletedConsentIsInLedger
    BY DEF RuntimeInv, EffectInv
<1>2. QED
    BY <1>1, RuntimeIsSound, PTL

(* Only a call, and the disposition of an administrator, write the ledger. *)
LEMMA WhoWritesTheLedger ==
    ASSUME [Next]_vars
    PROVE  \/ UNCHANGED ledger
           \/ \E t \in Thread : ClaimCall(t) \/ CompleteCall(t) \/ FailCall(t)
           \/ \E r \in Run : Administer(r)
<1> USE DEF sessionDb, OnlyThread
<1>1. ASSUME NEW t \in Thread, BuildContext(t) \/ ModelStep(t)
      PROVE  UNCHANGED ledger
    BY <1>1 DEF BuildContext, Save, SaveCheckpoint, WriteCheckpoint, ModelStep,
                SaveBeforeModel, RenewForModel, RenewLease, RenewRun,
                ModelAnswers, ModelFails, SaveBeforeFinalize, SaveBeforeTools,
                Finish, CompleteRun, WriteCompletion, Interrupt, TryTransition,
                TransitionRun
<1>2. ASSUME NEW t \in Thread, ToolCallStep(t)
      PROVE  \/ UNCHANGED ledger
             \/ ClaimCall(t) \/ CompleteCall(t) \/ FailCall(t)
    BY <1>2 DEF ToolCallStep, RenewForTool, RenewLease, RenewRun, Execute,
                SaveAfterCall, Save, SaveCheckpoint, WriteCheckpoint
<1>3. ASSUME NEW t \in Thread, ParkStep(t)
      PROVE  UNCHANGED ledger
    BY <1>3 DEF ParkStep, RequestApproval, SaveWaiting, Save, SaveCheckpoint,
                WriteCheckpoint, Park, TryTransition, TransitionRun, SendCard,
                CancelUnsent, ConsumeUnsent
<1>4. ASSUME NEW t \in Thread, ResumeStep(t)
      PROVE  UNCHANGED ledger
    BY <1>4 DEF ResumeStep, ReadRun, ReadCheckpoint, LoadParked, WaitAgain,
                ClaimInterrupted, Claim, ClaimRun, LearnToken, LoadRequest,
                CheckRun, ClaimParked, LearnTokenOfParked, ConsumeRefusal,
                ConsultLedger, SettleForExecutor, FailUncertain, TryTransition,
                TransitionRun, TakeApproval, SettleApproval
<1>5. ASSUME NEW t \in Thread, Begin(t)
      PROVE  UNCHANGED ledger
    BY <1>5 DEF Begin, Deliver, BeginInbound, WriteInbound, Resume, ResumeRun
<1>6. CASE Environment
    BY <1>6 DEF Environment, Crash, Restart, InterruptIncomplete, RecoverTick,
                Click, LeaseClock, LeaseExpires, ApprovalClock
<1>7. CASE UNCHANGED vars
    BY <1>7 DEF vars
<1>8. QED
    BY <1>1, <1>2, <1>3, <1>4, <1>5, <1>6, <1>7 DEF Next, Work

LEMMA RecordedOutcomeIsOfClaim ==
    ASSUME RuntimeInv, NEW t \in Thread, CompleteCall(t) \/ FailCall(t),
           NEW r \in Run, NEW c \in Call
    PROVE  OutcomeIsOfClaim(r, c)
<1> DEFINE f == th[t]
           d == Head(f.calls)
<1>1. CASE UNCHANGED ledger
    BY <1>1 DEF OutcomeIsOfClaim
<1>2. ASSUME NEW outcome \in {"completed", "failed"},
             SettleTool(f.run, f.token, d, outcome),
             UNCHANGED <<approvalDb, processVars, worldVars>>,
             f.pc = IF outcome = "completed" THEN "complete_row"
                                             ELSE "fail_row"
      PROVE  OutcomeIsOfClaim(r, c)
    <2>1. f.pc \in ClaimedLabels /\ f.run \in Run /\ d \in Call
        BY <1>2, CallLabel
           DEF RuntimeInv, CallLabels, ToolLabels, ClaimedLabels, At
    <2>2. /\ ledger[f.run][d].by = f.token /\ ledger'[f.run][d].by = f.token
          /\ ledger'[f.run][d].status = outcome
          /\ r # f.run \/ c # d => ledger'[r][c] = ledger[r][c]
        BY <1>2, <2>1, SettleToolIsRoutine
    <2>3. outcome = "completed" => effect[f.run][d] = 1
        <3>1. outcome = "completed" => effect[f.run][d] # 0
            BY <1>2, ThreadFacts DEF RuntimeInv, Fits, FrameFits
        <3>2. effect[f.run][d] \in Nat /\ effect[f.run][d] <= 1
            BY <2>1 DEF RuntimeInv, BaseInv, WorldTypeOK, EffectInv,
                        AtMostOneEffect
        <3>3. QED
            BY <3>1, <3>2
    <2>4. QED
        BY <2>2, <2>3 DEF OutcomeIsOfClaim
<1>3. QED
    BY <1>1, <1>2
       DEF CompleteCall, FailCall, CheckOwner, RecordOutcome, OnlyThread, At,
           sessionDb

(* Every outcome in the ledger is an administrator's disposition, or comes *)
(* from the one execution the ledger gave leave to, and a completed one    *)
(* from its effect: also when the worker that records it has long lost the *)
(* run, for any number of processes and takeovers.                         *)
THEOREM RecordedOutcomesAreTrue == Spec => OutcomesAreOfTheClaim
<1>1. ASSUME RuntimeInv, [Next]_vars
      PROVE  [\A r \in Run, c \in Call : OutcomeIsOfClaim(r, c)]_vars
    <2>1. CASE UNCHANGED ledger
        BY <2>1 DEF OutcomeIsOfClaim
    <2>2. ASSUME NEW t \in Thread, ClaimCall(t), ~UNCHANGED ledger
          PROVE  \A r \in Run, c \in Call : OutcomeIsOfClaim(r, c)
        <3>1. /\ ledger \in [Run -> [Call -> Execution]]
              /\ ledger[th[t].run][Head(th[t].calls)].status = "absent"
              /\ \E row : ledger' = [ledger EXCEPT
                            ![th[t].run][Head(th[t].calls)] = row]
            BY <1>1, <2>2, SameStore
               DEF RuntimeInv, BaseInv, Store!StoreInv, StoreTypeOK, ClaimCall,
                   ClaimTool, WriteExecution, OnlyThread, sessionDb
        <3>2. QED
            BY <3>1 DEF OutcomeIsOfClaim
    <2>3. ASSUME NEW t \in Thread, CompleteCall(t) \/ FailCall(t)
          PROVE  \A r \in Run, c \in Call : OutcomeIsOfClaim(r, c)
        BY <1>1, <2>3, RecordedOutcomeIsOfClaim
    <2>4. ASSUME NEW q \in Run, Administer(q), ~UNCHANGED ledger
          PROVE  \A r \in Run, c \in Call : OutcomeIsOfClaim(r, c)
        <3>1. /\ ledger \in [Run -> [Call -> Execution]]
              /\ \E d \in Call : \E row :
                   /\ row.by = NoToken
                   /\ ledger' = [ledger EXCEPT ![q][d] = row]
            BY <1>1, <2>4, SameStore
               DEF RuntimeInv, BaseInv, Store!StoreInv, StoreTypeOK,
                   Administer, AdminControlRun, AdminResolveTool, SettleRow
        <3>2. QED
            BY <3>1 DEF OutcomeIsOfClaim
    <2>5. QED
        BY <1>1, <2>1, <2>2, <2>3, <2>4, WhoWritesTheLedger
<1>2. QED
    BY <1>1, RuntimeIsSound, PTL DEF Spec, OutcomesAreOfTheClaim

(* A step of the loop is a step of each store or leaves it alone, so what  *)
(* is proved of the stores alone holds of them under the loop.             *)
THEOREM LoopUsesStores == Spec => Store!StoreSpec /\ Approvals!ApprovalSpec
<1>1. Init => Store!StoreInit /\ Approvals!ApprovalInit
    BY SameStore, SameApprovals DEF Init
<1>2. RuntimeInv /\ [Next]_vars =>
        /\ [Store!StoreNext]_(Store!storeVars)
        /\ [Approvals!ApprovalNext]_(Approvals!approvalVars)
    BY RuntimeStepIsSound, SameStore, SameApprovals DEF SoundStep, StoresStep
<1>3. QED
    BY <1>1, <1>2, RuntimeIsSound, PTL
       DEF Spec, Store!StoreSpec, Approvals!ApprovalSpec

(* Hence the loop is an Inbox and pays for executions as Consent says, and *)
(* every theorem about StoreSpec and ApprovalSpec carries over to it; so   *)
(* do those about late workers and about runs that have ended.             *)
THEOREM LoopKeepsContracts ==
    Spec => /\ Store!ImplementsInbox
            /\ Approvals!ImplementsConsent
            /\ Store!OnlyOutcomesComeLate
            /\ Store!EndedRunsStayEnded
<1>1. /\ Store!StoreSpec => Store!ImplementsInbox
      /\ Store!StoreSpec => Store!OnlyOutcomesComeLate
      /\ Store!StoreSpec => Store!EndedRunsStayEnded
    BY StoresAssumption, Store!StoreImplementsInbox,
       Store!LateWorkersOnlySettle, Store!EndsAreFinal
<1>2. Approvals!ApprovalSpec => Approvals!ImplementsConsent
    BY StoresAssumption, Approvals!ApprovalStoreImplementsConsent
<1>3. QED
    BY <1>1, <1>2, LoopUsesStores, PTL

-----------------------------------------------------------------------------
(* Runs in live processes.  ServedInv stands on RuntimeInv.                *)

(* No tool needs a person's approval and contexts can be built: without    *)
(* the first a late resume can leave its run running (TakeApproval), and   *)
(* one that fails does not interrupt it (Raise); without the second, nor   *)
(* does a new run that fails before the try of _run_turn (BuildContext).   *)
RunsUnattended ==
    /\ \A c \in Call : Policy[c] # "approve"
    /\ "context" \notin Faults

(* Where a thread has yet to learn the token of its claim, where an        *)
(* exception interrupts the run, and where the thread does not have it.    *)
LearnLabels == {"rr_token", "rr_token_final"}
GuardedLabels == {"before_model", "renew_model", "model", "before_finalize",
                  "before_tools", "complete", "interrupt", "after_call"}
                   \cup ToolLabels
LooseLabels == {"idle", "rr_get", "rr_checkpoint", "rr_claim",
                "rr_claim_final"}

Unattended(f) ==
    /\ f.pc \in LearnLabels \cup GuardedLabels \cup LooseLabels \cup {"context"}
    /\ f.seen = "none"
    /\ f.pc \in GuardedLabels => f.guarded = TRUE

(* A thread with this frame has the run under token k, or will learn k.    *)
Holds(f, r, k) ==
    /\ f.run = r
    /\ \/ f.pc \in LearnLabels
       \/ f.pc \in GuardedLabels \cup {"context"} /\ f.token = k

ServedInv ==
    /\ \A t \in Thread : Unattended(th[t])
    /\ \A r \in Run, p \in up :
         status[r] = "running" /\ owner[r] = <<p, inc[p]>> =>
           \E t \in Thread : ProcessOf[t] = p /\ Holds(th[t], r, token[r])

-----------------------------------------------------------------------------
(* A step of one thread on one run.                                        *)
LEMMA ServedStep ==
    ASSUME RuntimeInv, ServedInv, NEW t \in Thread, NEW f,
           Become(t, f), Unattended(f), UNCHANGED <<up, inc>>, NEW q,
           th[t].run = q \/ th[t].pc = "idle",
           \A r \in Run \ {q} :
             /\ status'[r] = status[r] /\ owner'[r] = owner[r]
             /\ token'[r] = token[r],
           q \in Run =>
             \/ status'[q] # "running"
             \/ owner'[q] = Me(t) /\ Holds(f, q, token'[q])
             \/ /\ status'[q] = status[q] /\ owner'[q] = owner[q]
                /\ token'[q] = token[q]
                /\ status[q] = "running" /\ owner[q] = Me(t) =>
                     ~Holds(th[t], q, token[q])
    PROVE  ServedInv'
<1>1. th \in [Thread -> Frame]
    BY DEF RuntimeInv, BaseInv, WorldTypeOK
<1>2. /\ th'[t] = f
      /\ \A u \in Thread : u # t => th'[u] = th[u]
    BY <1>1 DEF Become
<1>3. \A u \in Thread : Unattended(th'[u])
    BY <1>2 DEF ServedInv
<1>4. ASSUME NEW r \in Run, NEW p \in up,
             status'[r] = "running", owner'[r] = <<p, inc[p]>>
      PROVE  \E u \in Thread : ProcessOf[u] = p /\ Holds(th'[u], r, token'[r])
    <2>1. CASE r = q /\ owner'[q] = Me(t) /\ Holds(f, q, token'[q])
        BY <1>2, <1>4, <2>1 DEF Me
    <2>2. CASE /\ status'[r] = status[r] /\ owner'[r] = owner[r]
               /\ token'[r] = token[r]
               /\ owner[r] = Me(t) => ~Holds(th[t], r, token[r])
        <3>1. PICK u \in Thread : ProcessOf[u] = p /\ Holds(th[u], r, token[r])
            BY <1>4, <2>2 DEF ServedInv
        <3>2. u # t
            BY <1>4, <2>2, <3>1 DEF Me
        <3>3. QED
            BY <1>2, <2>2, <3>1, <3>2
    <2>3. r # q => ~Holds(th[t], r, token[r])
        BY DEF Holds, LearnLabels, GuardedLabels, ToolLabels, ClaimedLabels
    <2>4. QED
        BY <1>4, <2>1, <2>2, <2>3
<1>5. QED
    BY <1>3, <1>4 DEF ServedInv

(* The rows stay, and the thread goes on, has lost the run or never had it. *)
LEMMA ServedLocally ==
    ASSUME RuntimeInv, ServedInv, NEW t \in Thread, NEW f,
           Become(t, f), Unattended(f),
           UNCHANGED <<status, owner, token, up, inc>>,
           th[t].pc \notin LearnLabels,
           \/ /\ f.run = th[t].run /\ f.token = th[t].token
              /\ f.pc \in GuardedLabels
           \/ ~Owning(t)
           \/ th[t].pc \in LooseLabels
    PROVE  ServedInv'
<1> DEFINE q == th[t].run
<1>1. status[q] = "running" /\ owner[q] = Me(t) /\ Holds(th[t], q, token[q]) =>
        Owning(t) /\ th[t].pc \notin LooseLabels
    BY DEF Holds, Owning, Owns, LooseLabels, GuardedLabels, ToolLabels,
           ClaimedLabels
<1>2. \/ Holds(f, q, token[q])
      \/ status[q] = "running" /\ owner[q] = Me(t) => ~Holds(th[t], q, token[q])
    BY <1>1 DEF Holds
<1> HIDE DEF q
<1>3. owner[q] = Me(t) /\ Holds(f, q, token[q]) =>
        owner'[q] = Me(t) /\ Holds(f, q, token'[q])
    OBVIOUS
<1>4. \/ owner'[q] = Me(t) /\ Holds(f, q, token'[q])
      \/ /\ status'[q] = status[q] /\ owner'[q] = owner[q]
         /\ token'[q] = token[q]
         /\ status[q] = "running" /\ owner[q] = Me(t) =>
              ~Holds(th[t], q, token[q])
    BY <1>2, <1>3
<1>5. th[t].run = q
    BY DEF q
<1>6. QED
    BY <1>4, <1>5, ServedStep

LEMMA IdleIsUnattended == Unattended(Idle)
    BY DEF Unattended, Idle, LooseLabels, GuardedLabels, ToolLabels,
           ClaimedLabels

LEMMA UnattendedFrame ==
    ASSUME RuntimeInv, ServedInv, NEW t \in Thread
    PROVE  th[t] \in Frame /\ Unattended(th[t])
    BY DEF RuntimeInv, BaseInv, WorldTypeOK, ServedInv

(* The thread goes on to a label where exceptions interrupt the run.       *)
LEMMA GuardedStep ==
    ASSUME RuntimeInv, ServedInv, NEW t \in Thread,
           UNCHANGED <<status, owner, token, up, inc>>,
           th[t].pc \in GuardedLabels,
           NEW l \in GuardedLabels, Goto(t, l)
    PROVE  ServedInv'
<1> DEFINE f == [th[t] EXCEPT !.pc = l]
<1>1. th[t] \in Frame /\ Unattended(th[t])
    BY UnattendedFrame
<1>2. /\ Unattended(f) /\ f.pc = l
      /\ f.run = th[t].run /\ f.token = th[t].token
    BY <1>1 DEF Unattended, Frame
<1>3. Become(t, f)
    BY DEF Goto
<1>4. th[t].pc \notin LearnLabels
    BY DEF LearnLabels, GuardedLabels, ToolLabels, ClaimedLabels
<1> HIDE DEF f
<1>5. QED
    BY <1>2, <1>3, <1>4, ServedLocally

(* An exception after the run was lost.                                    *)
LEMMA LostStep ==
    ASSUME RuntimeInv, ServedInv, NEW t \in Thread,
           UNCHANGED <<status, owner, token, up, inc>>,
           th[t].pc \in GuardedLabels \cup {"context"},
           ~Owning(t), Raise(t)
    PROVE  ServedInv'
<1> DEFINE f == [th[t] EXCEPT !.pc = "interrupt"]
<1>1. th[t] \in Frame /\ Unattended(th[t])
    BY UnattendedFrame
<1>2. th[t].pc \notin LearnLabels
    BY DEF LearnLabels, GuardedLabels, ToolLabels, ClaimedLabels
<1>3. CASE th[t].guarded = TRUE
    <2>1. Become(t, f)
        BY <1>3 DEF Raise, Goto
    <2>2. Unattended(f)
        BY <1>1, <1>3 DEF Unattended, Frame, GuardedLabels
    <2> HIDE DEF f
    <2>3. QED
        BY <1>2, <2>1, <2>2, ServedLocally
<1>4. CASE th[t].guarded = FALSE
    <2>1. Become(t, Idle)
        BY <1>4 DEF Raise, Return
    <2>2. QED
        BY <1>2, <2>1, IdleIsUnattended, ServedLocally
<1>5. th[t].guarded \in BOOLEAN
    BY <1>1 DEF Frame
<1>6. QED
    BY <1>3, <1>4, <1>5

(* The thread puts its run out of running.                                 *)
LEMMA EndingStep ==
    ASSUME RuntimeInv, ServedInv, NEW t \in Thread, Return(t),
           UNCHANGED <<up, inc>>,
           \A r \in Run \ {th[t].run} :
             /\ status'[r] = status[r] /\ owner'[r] = owner[r]
             /\ token'[r] = token[r],
           th[t].run \in Run => status'[th[t].run] # "running"
    PROVE  ServedInv'
<1> DEFINE q == th[t].run
<1>1. /\ th[t].run = q
      /\ q \in Run => status'[q] # "running"
      /\ \A r \in Run \ {q} : /\ status'[r] = status[r] /\ owner'[r] = owner[r]
                              /\ token'[r] = token[r]
    OBVIOUS
<1> HIDE DEF q
<1>2. Become(t, Idle)
    BY DEF Return
<1>3. QED
    BY <1>1, <1>2, IdleIsUnattended, ServedStep

LEMMA SaveServed ==
    ASSUME RuntimeInv, ServedInv, NEW t \in Thread, NEW st, NEW g,
           Save(t, st, g), th[t].pc \in GuardedLabels \cup {"context"},
           Unattended(g), g.pc \in GuardedLabels,
           g.run = th[t].run, g.token = th[t].token
    PROVE  ServedInv'
<1>1. UNCHANGED <<status, owner, token, up, inc>>
    BY DEF Save, SaveCheckpoint, WriteCheckpoint, runVars, sessionDb,
           processVars
<1>2. th[t].pc \notin LearnLabels
    BY DEF LearnLabels, GuardedLabels, ToolLabels, ClaimedLabels
<1>3. CASE Become(t, g)
    BY <1>1, <1>2, <1>3, ServedLocally
<1>4. CASE ~Owning(t) /\ Raise(t)
    BY <1>1, <1>4, LostStep
<1>5. QED
    BY <1>3, <1>4 DEF Save

LEMMA ProceedIsUnattended ==
    ASSUME RunsUnattended, NEW g \in Frame, g.seen = "none", g.guarded = TRUE
    PROVE  /\ Unattended(Proceed(g)) /\ Proceed(g).pc \in GuardedLabels
           /\ Proceed(g).run = g.run /\ Proceed(g).token = g.token
<1>1. CASE g.calls = <<>>
    BY <1>1 DEF Proceed, Frame, Unattended, GuardedLabels
<1>2. CASE g.calls # <<>>
    <2>1. Policy[Head(g.calls)] # "approve"
        BY <1>2, CallOfFrame DEF RunsUnattended
    <2>2. CASE Policy[Head(g.calls)] = "allow"
        BY <1>2, <2>2
           DEF Proceed, Frame, Unattended, GuardedLabels, ToolLabels,
               ClaimedLabels
    <2>3. CASE Policy[Head(g.calls)] # "allow"
        BY <1>2, <2>1, <2>3
           DEF Proceed, Frame, Unattended, GuardedLabels, ToolLabels,
               ClaimedLabels
    <2>4. QED
        BY <2>2, <2>3
<1>3. QED
    BY <1>1, <1>2

-----------------------------------------------------------------------------
(* The steps of a thread that serves a run.                                *)
LEMMA BuildContextServes ==
    ASSUME RunsUnattended, RuntimeInv, ServedInv, NEW t \in Thread,
           BuildContext(t)
    PROVE  ServedInv'
<1> DEFINE g == [th[t] EXCEPT !.guarded = TRUE]
<1>1. th[t] \in Frame /\ Unattended(th[t]) /\ th[t].pc = "context"
    BY UnattendedFrame DEF BuildContext, At
<1>2. /\ g \in Frame /\ g.seen = "none" /\ g.guarded = TRUE
      /\ g.run = th[t].run /\ g.token = th[t].token
    BY <1>1 DEF Frame, Unattended
<1>3. Save(t, Saved("model", th[t]), Proceed(g))
    BY DEF BuildContext, RunsUnattended
<1> HIDE DEF g
<1>4. QED
    BY <1>1, <1>2, <1>3, ProceedIsUnattended, SaveServed

LEMMA SaveLabelServes ==
    ASSUME RuntimeInv, ServedInv, NEW t \in Thread, NEW st,
           th[t].pc \in GuardedLabels, NEW l \in GuardedLabels,
           Save(t, st, [th[t] EXCEPT !.pc = l])
    PROVE  ServedInv'
<1> DEFINE g == [th[t] EXCEPT !.pc = l]
<1>1. th[t] \in Frame /\ Unattended(th[t])
    BY UnattendedFrame
<1>2. /\ Unattended(g) /\ g.pc \in GuardedLabels
      /\ g.run = th[t].run /\ g.token = th[t].token
    BY <1>1 DEF Unattended, Frame
<1>3. Save(t, st, g)
    OBVIOUS
<1> HIDE DEF g
<1>4. QED
    BY <1>2, <1>3, SaveServed

LEMMA ModelStepServes ==
    ASSUME RunsUnattended, RuntimeInv, ServedInv, NEW t \in Thread,
           ModelStep(t)
    PROVE  ServedInv'
<1>1. th[t] \in Frame /\ Unattended(th[t])
    BY UnattendedFrame
<1>2. CASE SaveBeforeModel(t) \/ SaveBeforeFinalize(t)
    BY <1>2, SaveLabelServes
       DEF SaveBeforeModel, SaveBeforeFinalize, At, GuardedLabels
<1>3. CASE SaveBeforeTools(t)
    <2>1. /\ th[t].seen = "none" /\ th[t].guarded = TRUE
          /\ th[t].pc \in GuardedLabels
        BY <1>1, <1>3 DEF SaveBeforeTools, At, Unattended, GuardedLabels
    <2>2. QED
        BY <1>1, <1>3, <2>1, ProceedIsUnattended, SaveServed
           DEF SaveBeforeTools
<1>4. CASE RenewForModel(t)
    <2>1. UNCHANGED <<status, owner, token, up, inc>>
        BY <1>4 DEF RenewForModel, RenewLease, RenewRun, OnlyThread,
                    sessionDb, processVars
    <2>2. \/ Goto(t, "model")
          \/ ~Owning(t) /\ Raise(t)
        BY <1>4 DEF RenewForModel, RenewLease
    <2>3. QED
        BY <1>4, <2>1, <2>2, GuardedStep, LostStep
           DEF RenewForModel, At, GuardedLabels
<1>5. CASE ModelAnswers(t)
    <2>1. UNCHANGED <<status, owner, token, up, inc>>
        BY <1>5 DEF ModelAnswers, OnlyThread, sessionDb, processVars
    <2>2. th[t].pc \in GuardedLabels /\ th[t].pc \notin LearnLabels
        BY <1>5 DEF ModelAnswers, At, GuardedLabels, LearnLabels
    <2>3. CASE Goto(t, "before_finalize")
        BY <2>1, <2>2, <2>3, GuardedStep DEF GuardedLabels
    <2>4. ASSUME NEW g, Become(t, g), g.pc = "before_tools",
                 g.seen = "none", g.guarded = TRUE,
                 g.run = th[t].run, g.token = th[t].token
          PROVE  ServedInv'
        BY <2>1, <2>2, <2>4, ServedLocally DEF Unattended, GuardedLabels
    <2>5. ASSUME ~Goto(t, "before_finalize")
          PROVE  \E batch \in Batches : Become(t, [th[t] EXCEPT
                   !.pc = "before_tools", !.calls = batch, !.turn = @ + 1,
                   !.history = @ \o [i \in DOMAIN batch |-> Asked(batch[i])]])
        BY <1>5, <2>5 DEF ModelAnswers
    <2>6. th[t].seen = "none" /\ th[t].guarded = TRUE
        BY <1>1, <2>2 DEF Unattended
    <2>7. QED
        BY <1>1, <2>3, <2>4, <2>5, <2>6 DEF Frame
<1>6. CASE ModelFails(t)
    <2>1. /\ UNCHANGED <<status, owner, token, up, inc>>
          /\ th[t].pc \in GuardedLabels
        BY <1>6 DEF ModelFails, At, OnlyThread, sessionDb, processVars,
                    GuardedLabels
    <2>2. Goto(t, "interrupt")
        BY <1>1, <1>6, <2>1 DEF ModelFails, Raise, Unattended
    <2>3. QED
        BY <2>1, <2>2, GuardedStep DEF GuardedLabels
<1>7. CASE Finish(t)
    <2>1. CASE \E x \in Text : CompleteRun(Me(t), th[t].run, th[t].token, x)
        <3>1. StoreTypeOK
            BY SameStore DEF RuntimeInv, BaseInv, Store!StoreInv
        <3>2. /\ \A r \in Run \ {th[t].run} :
                   /\ status'[r] = status[r] /\ owner'[r] = owner[r]
                   /\ token'[r] = token[r]
              /\ th[t].run \in Run => status'[th[t].run] # "running"
            BY <2>1, <3>1 DEF CompleteRun, WriteCompletion, StoreTypeOK
        <3>3. Return(t) /\ UNCHANGED <<up, inc>>
            BY <1>7, <2>1 DEF Finish, CompleteRun, Owning, processVars
        <3>4. QED
            BY <3>2, <3>3, EndingStep
    <2>2. CASE ~Owning(t) /\ Raise(t) /\ OnlyThread
        BY <1>7, <2>2, LostStep DEF Finish, At, GuardedLabels, OnlyThread,
           sessionDb, processVars
    <2>3. QED
        BY <1>7, <2>1, <2>2 DEF Finish
<1>8. CASE Interrupt(t)
    <2>1. /\ th[t].pc = "interrupt" /\ Return(t) /\ UNCHANGED <<up, inc>>
          /\ TryTransition(t, "interrupted", th[t].token)
        BY <1>8 DEF Interrupt, At, processVars
    <2>2. CASE TransitionRun(Me(t), th[t].run, "interrupted", th[t].token)
        <3>1. StoreTypeOK
            BY SameStore DEF RuntimeInv, BaseInv, Store!StoreInv
        <3>2. /\ \A r \in Run \ {th[t].run} :
                   /\ status'[r] = status[r] /\ owner'[r] = owner[r]
                   /\ token'[r] = token[r]
              /\ th[t].run \in Run => status'[th[t].run] # "running"
            BY <2>2, <3>1 DEF TransitionRun, StoreTypeOK
        <3>3. QED
            BY <2>1, <3>2, EndingStep
    <2>3. CASE /\ ~MayTransition(Me(t), th[t].run, "interrupted", th[t].token)
               /\ UNCHANGED sessionDb
        <3>1. ~Owning(t)
            BY <2>3 DEF MayTransition, Transitions, Owning, Owns
        <3>2. UNCHANGED <<status, owner, token, up, inc>>
            BY <2>1, <2>3 DEF sessionDb
        <3>3. th[t].pc \notin LearnLabels /\ Become(t, Idle)
            BY <2>1 DEF LearnLabels, Return
        <3>4. QED
            BY <3>1, <3>2, <3>3, IdleIsUnattended, ServedLocally
    <2>4. QED
        BY <2>1, <2>2, <2>3 DEF TryTransition
<1>9. QED
    BY <1>2, <1>3, <1>4, <1>5, <1>6, <1>7, <1>8 DEF ModelStep

(* A tool that returns or raises leads on to the result, as no approval    *)
(* pays for the call.                                                      *)
LEMMA ToolResultServes ==
    ASSUME RuntimeInv, ServedInv, NEW t \in Thread,
           UNCHANGED <<status, owner, token, up, inc>>,
           th[t].pc \in ToolLabels, NEW out,
           \/ Become(t, ToolRaises(th[t]))
           \/ Become(t, ToolReturns(th[t], out))
    PROVE  ServedInv'
<1>1. th[t] \in Frame /\ Unattended(th[t])
    BY UnattendedFrame
<1>2. th[t].pc \in GuardedLabels /\ th[t].pc \notin LearnLabels
    BY DEF GuardedLabels, LearnLabels, ToolLabels, ClaimedLabels
<1>3. th[t].seen = "none" /\ th[t].guarded = TRUE
    BY <1>1, <1>2 DEF Unattended
<1>4. ASSUME NEW g, g \in {ToolRaises(th[t]), ToolReturns(th[t], out)}
      PROVE  /\ Unattended(g) /\ g.pc \in GuardedLabels
             /\ g.run = th[t].run /\ g.token = th[t].token
    BY <1>1, <1>3, <1>4
       DEF ToolRaises, ToolReturns, Frame, Unattended, GuardedLabels
<1>5. QED
    BY <1>2, <1>4, ServedLocally

LEMMA ToolCallStepServes ==
    ASSUME RunsUnattended, RuntimeInv, ServedInv, NEW t \in Thread,
           ToolCallStep(t)
    PROVE  ServedInv'
<1>1. th[t] \in Frame /\ Unattended(th[t])
    BY UnattendedFrame
<1>2. CASE RenewForTool(t)
    <2>1. UNCHANGED <<status, owner, token, up, inc>>
        BY <1>2 DEF RenewForTool, RenewLease, RenewRun, OnlyThread,
                    sessionDb, processVars
    <2>2. th[t].pc \in ToolLabels /\ th[t].pc \in GuardedLabels
        BY <1>2 DEF RenewForTool, At, ToolLabels, ClaimedLabels, GuardedLabels
    <2>3. Goto(t, "claim_tool") \/ Become(t, ToolRaises(th[t]))
        BY <1>2 DEF RenewForTool, RenewLease
    <2>4. QED
        BY <2>1, <2>2, <2>3, GuardedStep, ToolResultServes
           DEF GuardedLabels, ToolLabels, ClaimedLabels
<1>3. CASE ClaimCall(t)
    <2>1. UNCHANGED <<status, owner, token, up, inc>>
        BY <1>3 DEF ClaimCall, ClaimTool, WriteExecution, runVars, OnlyThread,
                    sessionDb, processVars
    <2>2. th[t].pc \in ToolLabels /\ th[t].pc \in GuardedLabels
        BY <1>3 DEF ClaimCall, At, ToolLabels, ClaimedLabels, GuardedLabels
    <2>3. \/ Goto(t, "execute")
          \/ Become(t, ToolRaises(th[t]))
          \/ Become(t, ToolReturns(th[t], "output"))
          \/ Become(t, ToolReturns(th[t], "uncertain"))
        BY <1>3 DEF ClaimCall
    <2>4. QED
        BY <2>1, <2>2, <2>3, GuardedStep, ToolResultServes
           DEF GuardedLabels, ToolLabels, ClaimedLabels
<1>4. CASE Execute(t)
    <2>1. UNCHANGED <<status, owner, token, up, inc>>
        BY <1>4 DEF Execute, OnlyThread, sessionDb, processVars
    <2>2. Goto(t, "complete_tool") \/ Goto(t, "fail_tool")
        BY <1>4 DEF Execute
    <2>3. QED
        BY <1>4, <2>1, <2>2, GuardedStep
           DEF Execute, At, GuardedLabels, ToolLabels, ClaimedLabels
<1>5. CASE CompleteCall(t) \/ FailCall(t)
    <2>1. UNCHANGED <<status, owner, token, up, inc>>
        BY <1>5 DEF CompleteCall, FailCall, CheckOwner, RecordOutcome,
                    SettleTool, OnlyThread, runVars, sessionDb, processVars
    <2>2. th[t].pc \in ToolLabels /\ th[t].pc \in GuardedLabels
        BY <1>5
           DEF CompleteCall, FailCall, CheckOwner, RecordOutcome, At,
               GuardedLabels, ToolLabels, ClaimedLabels
    <2>3. \/ Goto(t, "complete_row") \/ Goto(t, "fail_row")
          \/ Become(t, ToolRaises(th[t]))
          \/ Become(t, ToolReturns(th[t], "output"))
        BY <1>5 DEF CompleteCall, FailCall, CheckOwner, RecordOutcome
    <2>4. QED
        BY <2>1, <2>2, <2>3, GuardedStep, ToolResultServes
           DEF GuardedLabels, ToolLabels, ClaimedLabels
<1>6. CASE SaveAfterCall(t)
    <2> DEFINE h == Append(th[t].history,
                           Result(Head(th[t].calls), th[t].out))
               g == [th[t] EXCEPT !.history = h, !.calls = Tail(@),
                                  !.out = "none", !.seen = "none"]
    <2>1. th[t].pc = "after_call" /\ th[t].pc \in GuardedLabels
        BY <1>6 DEF SaveAfterCall, At, GuardedLabels
    <2>2. \E st : Save(t, st, Proceed(g))
        BY <1>1, <1>6 DEF SaveAfterCall, Frame
    <2>3. th[t].calls # <<>> /\ th[t].out \in Output
        BY <2>1, ThreadFacts
           DEF RuntimeInv, Fits, FrameFits, CallLabels, Frame
    <2>4. h \in Seq(Entry) /\ Tail(th[t].calls) \in Seq(Call)
        BY <1>1, <2>3, CallOfFrame DEF Frame, Entry, Result
    <2>5. /\ g \in Frame /\ g.seen = "none" /\ g.guarded = TRUE
          /\ g.run = th[t].run /\ g.token = th[t].token
        BY <1>1, <2>1, <2>4 DEF Frame, Unattended
    <2> HIDE DEF g
    <2>6. QED
        BY <2>1, <2>2, <2>5, ProceedIsUnattended, SaveServed
<1>7. QED
    BY <1>2, <1>3, <1>4, <1>5, <1>6 DEF ToolCallStep

-----------------------------------------------------------------------------
(* Resuming and beginning: who has no run yet.                             *)
LEMMA LooseStep ==
    ASSUME RuntimeInv, ServedInv, NEW t \in Thread, NEW f, Become(t, f),
           UNCHANGED <<status, owner, token, up, inc>>,
           th[t].pc \in LooseLabels, f.pc \in LooseLabels, f.seen = "none"
    PROVE  ServedInv'
<1>1. Unattended(f) /\ th[t].pc \notin LearnLabels
    BY DEF Unattended, LooseLabels, LearnLabels, GuardedLabels, ToolLabels,
           ClaimedLabels
<1>2. QED
    BY <1>1, ServedLocally

LEMMA NobodyAsks ==
    ASSUME RunsUnattended, RuntimeInv, NEW a \in Request
    PROVE  approval[a] = "absent"
    BY DEF RunsUnattended, RuntimeInv, BaseInv, RequestsHaveContinuations,
           Request

LEMMA ReadsServe ==
    ASSUME RunsUnattended, RuntimeInv, ServedInv, NEW t \in Thread,
           ReadRun(t) \/ ReadCheckpoint(t)
    PROVE  ServedInv'
<1>1. th[t] \in Frame /\ Unattended(th[t])
    BY UnattendedFrame
<1>2. UNCHANGED <<status, owner, token, up, inc>>
    BY DEF ReadRun, ReadCheckpoint, OnlyThread, sessionDb, processVars
<1>3. CASE ReadRun(t)
    <2>1. \/ Become(t, [th[t] EXCEPT !.pc = "rr_checkpoint"])
          \/ Become(t, Idle)
        BY <1>3 DEF ReadRun, Goto, Return
    <2>2. QED
        BY <1>1, <1>2, <1>3, <2>1, LooseStep
           DEF ReadRun, At, LooseLabels, Frame, Unattended, Idle
<1>4. CASE ReadCheckpoint(t)
    <2> DEFINE f == th[t]
               s == checkpoint[f.run].state
               h == Loaded(f, s)
    <2>1. f.pc = "rr_checkpoint" /\ f.run \in Run /\ status[f.run] # "absent"
        BY <1>4, ThreadFacts
           DEF ReadCheckpoint, At, RuntimeInv, Fits, FrameFits
    <2>2. s \in SavedState /\ s # NoState
        BY <2>1, SameStore, CheckpointsAreStates
           DEF RuntimeInv, BaseInv, Store!StoreInv, RunsHaveCheckpoints
    <2>3. s.action # "approval"
        <3>1. ASSUME s.calls # <<>>
              PROVE  <<f.run, Head(s.calls)>> \in Request
            BY <2>1, <2>2, <3>1 DEF SavedState, Request
        <3>2. QED
            BY <2>1, <2>2, <3>1, NobodyAsks
               DEF RuntimeInv, BaseInv, CheckpointsNameRequests,
                   ParkedOnRequest
    <2>4. \/ Become(t, [h EXCEPT !.pc = "rr_claim_final"])
          \/ Become(t, [h EXCEPT !.pc = "rr_claim"])
        BY <1>4, <2>3 DEF ReadCheckpoint
    <2>5. h \in Frame /\ h.seen = "none"
        BY <1>1, <2>2 DEF Loaded, Frame, SavedState, Unattended
    <2>6. ASSUME NEW l \in {"rr_claim", "rr_claim_final"}
          PROVE  /\ [h EXCEPT !.pc = l].pc \in LooseLabels
                 /\ [h EXCEPT !.pc = l].seen = "none"
        BY <2>5 DEF Frame, LooseLabels
    <2> HIDE DEF h
    <2>7. QED
        BY <1>2, <2>1, <2>4, <2>6, LooseStep DEF LooseLabels
<1>5. QED
    BY <1>3, <1>4

LEMMA ClaimInterruptedServes ==
    ASSUME RuntimeInv, ServedInv, NEW t \in Thread, ClaimInterrupted(t)
    PROVE  ServedInv'
<1>1. th[t] \in Frame /\ Unattended(th[t]) /\ th[t].pc \in LooseLabels
    BY UnattendedFrame DEF ClaimInterrupted, At, LooseLabels
<1>2. PICK l \in LearnLabels : Claim(t, {"interrupted"}, l)
    BY DEF ClaimInterrupted, LearnLabels
<1>3. UNCHANGED <<up, inc>>
    BY <1>2 DEF Claim, processVars
<1>4. CASE Return(t) /\ UNCHANGED sessionDb
    BY <1>1, <1>3, <1>4, LooseStep
       DEF Return, sessionDb, Idle, LooseLabels
<1>5. CASE ClaimRun(Me(t), th[t].run, {"interrupted"}) /\ Goto(t, l)
    <2> DEFINE f == [th[t] EXCEPT !.pc = l]
               q == th[t].run
    <2>1. Become(t, f) /\ Unattended(f) /\ f.run = q /\ f.pc \in LearnLabels
        BY <1>1, <1>5
           DEF Goto, Unattended, Frame, LearnLabels, GuardedLabels, ToolLabels,
               ClaimedLabels
    <2>2. StoreTypeOK
        BY SameStore DEF RuntimeInv, BaseInv, Store!StoreInv
    <2>3. /\ \A r \in Run \ {q} :
               /\ status'[r] = status[r] /\ owner'[r] = owner[r]
               /\ token'[r] = token[r]
          /\ q \in Run => owner'[q] = Me(t)
        BY <1>5, <2>2 DEF ClaimRun, StoreTypeOK
    <2>4. th[t].run = q
        OBVIOUS
    <2> HIDE DEF f, q
    <2>5. Holds(f, q, token'[q])
        BY <2>1 DEF Holds
    <2>6. QED
        BY <1>3, <2>1, <2>3, <2>4, <2>5, ServedStep
<1>6. QED
    BY <1>2, <1>4, <1>5 DEF Claim

LEMMA LearnTokenServes ==
    ASSUME RunsUnattended, RuntimeInv, ServedInv, NEW t \in Thread,
           LearnToken(t)
    PROVE  ServedInv'
<1> DEFINE q == th[t].run
           f == [th[t] EXCEPT !.token = token[q], !.guarded = TRUE]
<1>1. /\ th[t] \in Frame /\ Unattended(th[t]) /\ th[t].pc \in LearnLabels
      /\ UNCHANGED <<status, owner, token, up, inc>>
    BY UnattendedFrame
       DEF LearnToken, At, LearnLabels, OnlyThread, sessionDb, processVars
<1>2. q \in Run
    BY <1>1, ThreadFacts DEF RuntimeInv, LearnLabels
<1>3. token[q] \in Nat
    BY <1>2, TokensAreNumbers DEF RuntimeInv
<1>4. /\ f \in Frame /\ f.seen = "none" /\ f.guarded = TRUE
      /\ f.run = q /\ f.token = token[q]
    BY <1>1, <1>3 DEF Frame, Unattended
<1>5. Become(t, Proceed(f)) \/ Become(t, [f EXCEPT !.pc = "complete"])
    BY DEF LearnToken
<1>6. th[t].run = q
    OBVIOUS
<1> HIDE DEF f, q
<1>7. ASSUME NEW g \in {Proceed(f), [f EXCEPT !.pc = "complete"]}
      PROVE  Unattended(g) /\ Holds(g, q, token[q])
    <2>1. CASE g = Proceed(f)
        BY <1>4, <2>1, ProceedIsUnattended DEF Holds
    <2>2. CASE g = [f EXCEPT !.pc = "complete"]
        BY <1>4, <2>2 DEF Holds, Unattended, GuardedLabels, Frame
    <2>3. QED
        BY <2>1, <2>2
<1>8. ASSUME NEW g \in {Proceed(f), [f EXCEPT !.pc = "complete"]},
             Become(t, g)
      PROVE  ServedInv'
    <2>1. Holds(g, q, token'[q])
        BY <1>1, <1>7, <1>8
    <2>2. CASE owner[q] = Me(t)
        BY <1>1, <1>6, <1>7, <1>8, <2>1, <2>2, ServedStep
    <2>3. CASE owner[q] # Me(t)
        BY <1>1, <1>6, <1>7, <1>8, <2>3, ServedStep
    <2>4. QED
        BY <2>2, <2>3
<1>9. QED
    BY <1>5, <1>8

LEMMA DeliverServes ==
    ASSUME RuntimeInv, ServedInv, NEW t \in Thread, NEW m \in Message,
           Deliver(t, m)
    PROVE  ServedInv'
<1>1. th[t].pc = "idle" /\ UNCHANGED <<up, inc>>
    BY DEF Deliver, At, processVars
<1>2. ASSUME NEW r \in Run,
             BeginInbound(Me(t), m, r, Saved("model", Idle)),
             Become(t, [Idle EXCEPT !.pc = "context", !.run = r, !.token = 1])
      PROVE  ServedInv'
    <2> DEFINE f == [Idle EXCEPT !.pc = "context", !.run = r, !.token = 1]
    <2>1. Unattended(f) /\ Holds(f, r, 1)
        BY DEF Unattended, Holds, Idle, GuardedLabels, ToolLabels,
               ClaimedLabels, NoToken
    <2>2. StoreTypeOK
        BY SameStore DEF RuntimeInv, BaseInv, Store!StoreInv
    <2>3. /\ \A q \in Run \ {r} :
               /\ status'[q] = status[q] /\ owner'[q] = owner[q]
               /\ token'[q] = token[q]
          /\ owner'[r] = Me(t) /\ token'[r] = 1
        BY <1>2, <2>2 DEF BeginInbound, WriteInbound, StoreTypeOK
    <2> HIDE DEF f
    <2>4. Become(t, f)
        BY <1>2 DEF f
    <2>5. QED
        BY <1>1, <2>1, <2>3, <2>4, ServedStep
<1>3. ASSUME NEW r, Become(t, [Idle EXCEPT !.pc = "rr_get", !.run = r]),
             UNCHANGED sessionDb
      PROVE  ServedInv'
    <2> DEFINE f == [Idle EXCEPT !.pc = "rr_get", !.run = r]
    <2>1. f.pc \in LooseLabels /\ f.seen = "none"
        BY DEF Idle, LooseLabels
    <2> HIDE DEF f
    <2>2. Become(t, f)
        BY <1>3 DEF f
    <2>3. QED
        BY <1>1, <1>3, <2>1, <2>2, LooseStep DEF LooseLabels, sessionDb
<1>4. QED
    BY <1>2, <1>3 DEF Deliver

LEMMA BeginServes ==
    ASSUME RunsUnattended, RuntimeInv, ServedInv, NEW t \in Thread, Begin(t)
    PROVE  ServedInv'
<1>1. ASSUME NEW a \in Request, Resume(t, a)
      PROVE  FALSE
    <2>1. \A p \in Process : a \notin offered[p]
        BY NobodyAsks DEF RuntimeInv, BaseInv, OfferedWereAsked
    <2>2. ProcessOf[t] \in Process
        BY RuntimeAssumption
    <2>3. QED
        BY <1>1, <2>1, <2>2 DEF Resume
<1>2. ASSUME NEW r \in Run, ResumeRun(t, r)
      PROVE  ServedInv'
    <2> DEFINE f == [Idle EXCEPT !.pc = "rr_get", !.run = r]
    <2>1. /\ f.pc \in LooseLabels /\ f.seen = "none"
          /\ th[t].pc \in LooseLabels
        BY <1>2 DEF Idle, LooseLabels, ResumeRun, At
    <2>2. Become(t, f) /\ UNCHANGED <<status, owner, token, up, inc>>
        BY <1>2 DEF ResumeRun, OnlyThread, sessionDb, processVars
    <2> HIDE DEF f
    <2>3. QED
        BY <2>1, <2>2, LooseStep
<1>3. QED
    BY <1>1, <1>2, DeliverServes DEF Begin

(* No thread is at a label of an approval.                                 *)
LEMMA WorkServes ==
    ASSUME RunsUnattended, RuntimeInv, ServedInv, NEW t \in Thread, Work(t)
    PROVE  ServedInv'
<1>1. Unattended(th[t])
    BY UnattendedFrame
<1>2. ~ParkStep(t)
    BY <1>1
       DEF Unattended, LearnLabels, LooseLabels, GuardedLabels, ToolLabels,
           ClaimedLabels, ParkStep, RequestApproval, SaveWaiting, Park,
           SendCard, CancelUnsent, ConsumeUnsent, At
<1>3. ResumeStep(t) => \/ ReadRun(t) \/ ReadCheckpoint(t)
                       \/ ClaimInterrupted(t) \/ LearnToken(t)
    BY <1>1
       DEF Unattended, LearnLabels, LooseLabels, GuardedLabels, ToolLabels,
           ClaimedLabels, ResumeStep, LoadParked, WaitAgain, LoadRequest,
           CheckRun, ClaimParked, LearnTokenOfParked, ConsumeRefusal,
           ConsultLedger, SettleForExecutor, FailUncertain, TakeApproval,
           SettleApproval, At
<1>4. QED
    BY <1>2, <1>3, BuildContextServes, ModelStepServes, ToolCallStepServes,
       ReadsServe, ClaimInterruptedServes, LearnTokenServes DEF Work

-----------------------------------------------------------------------------
(* Crashes, restarts, people and clocks.                                   *)
LEMMA ServedAround ==
    ASSUME ServedInv, \A t \in Thread : th'[t] \in {th[t], Idle},
           \A r \in Run, p \in up' :
             status'[r] = "running" /\ owner'[r] = <<p, inc'[p]>> =>
               /\ p \in up /\ inc'[p] = inc[p] /\ status[r] = "running"
               /\ owner[r] = owner'[r] /\ token[r] = token'[r]
               /\ \A t \in Thread : ProcessOf[t] = p => th'[t] = th[t]
    PROVE  ServedInv'
<1>1. \A t \in Thread : Unattended(th'[t])
    BY IdleIsUnattended DEF ServedInv
<1>2. ASSUME NEW r \in Run, NEW p \in up',
             status'[r] = "running", owner'[r] = <<p, inc'[p]>>
      PROVE  \E t \in Thread : ProcessOf[t] = p /\ Holds(th'[t], r, token'[r])
    <2>1. PICK t \in Thread : ProcessOf[t] = p /\ Holds(th[t], r, token[r])
        BY <1>2 DEF ServedInv
    <2>2. QED
        BY <1>2, <2>1
<1>3. QED
    BY <1>1, <1>2 DEF ServedInv

LEMMA EnvironmentServes ==
    ASSUME RuntimeInv, ServedInv, Environment
    PROVE  ServedInv'
<1>1. StoreTypeOK /\ WorldTypeOK
    BY SameStore DEF RuntimeInv, BaseInv, Store!StoreInv
<1>2. ASSUME NEW p \in Process, Crash(p)
      PROVE  ServedInv'
    BY <1>2, ServedAround DEF Crash, sessionDb
<1>3. ASSUME NEW p \in Process, Restart(p)
      PROVE  ServedInv'
    <2>1. /\ UNCHANGED th /\ up' = up \cup {p}
          /\ \A q \in Process : inc'[q] = IF q = p THEN inc[p] + 1 ELSE inc[q]
        BY <1>1, <1>3 DEF Restart, WorldTypeOK
    <2>2. ASSUME NEW r \in Run, status'[r] = "running"
          PROVE  /\ status[r] = "running" /\ owner'[r] = owner[r]
                 /\ token'[r] = token[r]
                 /\ owner[r] # <<p, inc[p] + 1>>
        BY <1>3, <2>2 DEF Restart, InterruptIncomplete, Abandoned
    <2>3. up' \subseteq Process
        BY <1>1, <2>1 DEF WorldTypeOK
    <2>4. ASSUME NEW r \in Run, NEW q \in up', status'[r] = "running",
                 owner'[r] = <<q, inc'[q]>>
          PROVE  q \in up /\ inc'[q] = inc[q]
        BY <2>1, <2>2, <2>3, <2>4
    <2>5. QED
        BY <2>1, <2>2, <2>4, ServedAround
<1>4. ASSUME NEW r \in Run, Administer(r)
      PROVE  ServedInv'
    <2>1. UNCHANGED <<th, up, inc>>
        BY <1>4 DEF Administer, runtimeVars, processVars
    <2>2. ASSUME NEW q \in Run, status'[q] = "running"
          PROVE  /\ status[q] = "running" /\ owner'[q] = owner[q]
                 /\ token'[q] = token[q]
        BY <1>1, <1>4, <2>2
           DEF Administer, AdminControlRun, ControlAction, ControlTarget,
               AdminResolveTool, runVars, StoreTypeOK
    <2>3. QED
        BY <2>1, <2>2, ServedAround
<1>5. ASSUME UNCHANGED <<th, up, inc, status, owner, token>>
      PROVE  ServedInv'
    BY <1>5, ServedAround
<1>6. ASSUME NEW p \in Process, NEW a \in Request, NEW v \in Verdict,
             RecoverTick(p) \/ Click(p, a, v)
      PROVE  ServedInv'
    BY <1>5, <1>6 DEF RecoverTick, Click, sessionDb
<1>7. ASSUME NEW p \in Process, RecoverTick(p)
      PROVE  ServedInv'
    BY <1>5, <1>7 DEF RecoverTick, sessionDb
<1>8. ASSUME NEW r \in Run, LeaseClock(r)
      PROVE  ServedInv'
    BY <1>5, <1>8 DEF LeaseClock, LeaseExpires, runtimeVars, processVars
<1>9. ASSUME NEW a \in Request, ApprovalClock(a)
      PROVE  ServedInv'
    BY <1>5, <1>9 DEF ApprovalClock, sessionDb, runtimeVars, processVars
<1>10. QED
    BY <1>2, <1>3, <1>4, <1>6, <1>7, <1>8, <1>9 DEF Environment

(* A run that is running in a live process is the work of some thread that *)
(* will finish or interrupt it, whatever crashes, takeovers, faults and    *)
(* administrators do, if no tool needs approval and contexts can be built. *)
THEOREM NoRunIsAbandoned ==
    ASSUME RunsUnattended
    PROVE  Spec => []RunningRunsAreServed
<1>1. Init => ServedInv
    <2> SUFFICES ASSUME Init
                 PROVE  ServedInv
        OBVIOUS
    <2>1. \A t \in Thread : Unattended(th[t])
        BY IdleIsUnattended DEF Init
    <2>2. \A r \in Run : status[r] # "running"
        BY DEF Init, StoreInit
    <2>3. QED
        BY <2>1, <2>2 DEF ServedInv
<1>2. RuntimeInv /\ ServedInv /\ [Next]_vars => ServedInv'
    <2> SUFFICES ASSUME RuntimeInv, ServedInv, [Next]_vars
                 PROVE  ServedInv'
        OBVIOUS
    <2>1. CASE UNCHANGED vars
        BY <2>1, ServedAround DEF vars, sessionDb, runtimeVars, processVars
    <2>2. QED
        BY <2>1, WorkServes, BeginServes, EnvironmentServes DEF Next
<1>3. ServedInv => RunningRunsAreServed
    BY DEF ServedInv, RunningRunsAreServed, Holds
<1>4. QED
    BY <1>1, <1>2, <1>3, RuntimeIsSound, PTL DEF Spec
=============================================================================
