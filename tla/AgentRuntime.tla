---------------------------- MODULE AgentRuntime ----------------------------
(***************************************************************************)
(* The agent loop (AgentRuntime, RunCoordinator, ToolExecutionCoordinator) *)
(* over the two stores: the threads of several processes take messages,    *)
(* call the model, run tools, wait for approvals, and resume runs that     *)
(* were interrupted or parked.  The session store and the approval store   *)
(* are two databases, so a step of a thread is at most one transaction of  *)
(* one of them, one effect of a tool, or one answer of the model; a        *)
(* process may crash between any two steps.                                *)
(*                                                                         *)
(* A thread is a frame: the label of the statement it is at and the local  *)
(* variables that it still needs there.                                    *)
(***************************************************************************)
EXTENDS Naturals, Sequences, Functions

CONSTANTS Run, Message, Call, Tool, Text, Actor,
          NoRun, NoOwner, NoTool, NoState, NoText, NoActor, NoRequest,
          Requester, MaxToken  \* as in RunStore and ApprovalStore

CONSTANTS Process,
          Incarnation,  \* bound on the starts of a process: 1..N
          Handler,      \* threads that run a gateway's message handler
          Resumer,      \* threads that run a gateway's resume tasks
          Operator,     \* threads of tasks and administrators (resume_run)
          ProcessOf,    \* the process of each thread
          Policy,       \* what ToolExecutor.decision answers for each call
          Batches,      \* the sequences of calls the model may ask for
          MaxTurns,     \* AgentRuntime.max_turns
          Faults,       \* what may fail: "context", "model", "tool", "card"
          Validity,     \* outcomes of the second policy check of a resume
          Control       \* operations the administrators use

Thread == Handler \cup Resumer \cup Operator

ASSUME RuntimeAssumption ==
    /\ Incarnation \subseteq Nat /\ 1 \in Incarnation
    /\ ProcessOf \in [Thread -> Process]
    /\ Policy \in [Call -> {"allow", "deny", "approve"}]
    /\ \A batch \in Batches : batch \in Seq(Call) /\ IsInjective(batch)
    /\ MaxTurns \in Nat
    /\ Faults \subseteq {"context", "model", "tool", "card"}
    /\ Validity \subseteq BOOLEAN
    /\ Control \subseteq {"pause", "cancel", "recover", "resolve"}

(* The message list: tool calls of the assistant and results of tools.     *)
Output == {"output", "denied", "refused", "failed", "uncertain"}
Entry == [kind : {"call"}, call : Call, text : {"none"}]
           \cup [kind : {"result"}, call : Call, text : Output]

Asked(c) == [kind |-> "call", call |-> c, text |-> "none"]
Result(c, out) == [kind |-> "result", call |-> c, text |-> out]

(* RunCoordinator.save and the continuation of an approval: what the loop  *)
(* needs to go on.                                                         *)
SavedState == [action : {"model", "tools", "approval", "finalize"},
               calls : Seq(Call), turn : Nat, history : Seq(Entry)]

Owner == Process \X Incarnation
Request == Run \X Call
Event == Request \X {"click", "unsent"}

VARIABLES status, owner, lease, token, inbound, response, answers, checkpoint,
          ledger

INSTANCE RunStore WITH State <- SavedState

VARIABLES approval, overdue, decidedBy, consumed, continuation, handled

INSTANCE ApprovalStore WITH Continuation <- SavedState,
                            NoContinuation <- NoState

(* RunStoreAssumption and ApprovalStoreAssumption of these instances.      *)
ASSUME StoresAssumption ==
    /\ NoRun \notin Run
    /\ NoOwner \notin Owner
    /\ NoTool \notin Tool
    /\ NoState \notin SavedState
    /\ NoText \notin Text
    /\ MaxToken \in Nat \ {0}
    /\ NoActor \notin Actor
    /\ NoRequest \notin Request
    /\ Requester \in [Request -> Actor]

VARIABLES
    th,       \* the frame of each thread
    up,       \* the processes that are running
    inc,      \* how often a process was started
    sent,     \* approvals whose card was sent
    offered,  \* approvals with a resume task that has not started
    issued,   \* the calls the model has asked for in each run
    effect    \* how often a call had its side effect

sessionDb == <<status, owner, lease, token, inbound, response, answers,
               checkpoint, ledger>>
approvalDb == <<approval, overdue, decidedBy, consumed, continuation, handled>>
processVars == <<up, inc, offered>>
worldVars == <<sent, issued, effect>>
runtimeVars == <<th, processVars, worldVars>>
vars == <<sessionDb, approvalDb, runtimeVars>>

-----------------------------------------------------------------------------
(* Frames.                                                                 *)

Idle == [pc |-> "idle", run |-> NoRun, token |-> NoToken, calls |-> <<>>,
         turn |-> 0, history |-> <<>>, out |-> "none", seen |-> "none",
         guarded |-> FALSE]

Saved(action, f) == [action |-> action, calls |-> f.calls, turn |-> f.turn,
                     history |-> f.history]

Loaded(f, s) == [f EXCEPT !.calls = s.calls, !.turn = s.turn,
                          !.history = s.history]

Me(t) == <<ProcessOf[t], inc[ProcessOf[t]]>>

At(t, label) == th[t].pc = label

Become(t, f) == th' = [th EXCEPT ![t] = f]

Goto(t, label) == Become(t, [th[t] EXCEPT !.pc = label])

Return(t) == Become(t, Idle)

(* Mutant: no except clause interrupts the run.                            *)
RaiseUnguarded(t) == Return(t)

(* An exception: _run_turn and _resume_run interrupt the run; _resume, the *)
(* context built by RunCoordinator.start and the reads before the try of   *)
(* _resume_run let it escape.                                              *)
Raise(t) == IF th[t].guarded THEN Goto(t, "interrupt") ELSE Return(t)

Owning(t) == Owns(Me(t), th[t].run, th[t].token)

(* The request for the call a frame is at.                                 *)
Pending(t) == <<th[t].run, Head(th[t].calls)>>

(* _process_calls at the head of the remaining calls, and _run_bound when  *)
(* none remain.                                                            *)
Proceed(f) ==
    IF f.calls = <<>>
    THEN [f EXCEPT !.pc = IF f.turn < MaxTurns THEN "before_model"
                                               ELSE "complete"]
    ELSE LET decision == Policy[Head(f.calls)] IN
         CASE decision = "allow" -> [f EXCEPT !.pc = "renew_tool"]
           [] decision = "approve" -> [f EXCEPT !.pc = "gate"]
           [] OTHER -> [f EXCEPT !.pc = "after_call", !.out = "denied"]

(* RunCoordinator.save: without ownership the store raises RunLeaseLost.   *)
Save(t, state, next) ==
    /\ \/ /\ SaveCheckpoint(Me(t), th[t].run, th[t].token, state)
          /\ Become(t, next)
       \/ /\ ~Owning(t)
          /\ Raise(t)
          /\ UNCHANGED sessionDb
    /\ UNCHANGED <<approvalDb, processVars, worldVars>>

(* transition_run, whose result the loop ignores.                          *)
TryTransition(t, target, k) ==
    \/ TransitionRun(Me(t), th[t].run, target, k)
    \/ /\ ~MayTransition(Me(t), th[t].run, target, k)
       /\ UNCHANGED sessionDb

OnlyThread == UNCHANGED <<sessionDb, approvalDb, processVars, worldVars>>

-----------------------------------------------------------------------------
(* run_turn: a gateway delivers a message, for the first time or again.    *)

(* The read of get_inbound and the transaction of start_inbound decide by  *)
(* the same row in the same way, so they are one step.  A message with an  *)
(* answer, or whose run is running, waiting or over, is answered at once   *)
(* and changes nothing.                                                    *)
Deliver(t, m) ==
    /\ At(t, "idle")
    /\ \/ \E r \in Run :
            /\ BeginInbound(Me(t), m, r, Saved("model", Idle))
            /\ Become(t, [Idle EXCEPT !.pc = "context", !.run = r,
                                      !.token = 1])
       \/ /\ inbound[m] # NoRun
          /\ status[inbound[m]] = "interrupted"
          /\ Become(t, [Idle EXCEPT !.pc = "rr_get", !.run = inbound[m]])
          /\ UNCHANGED sessionDb
    /\ UNCHANGED <<approvalDb, processVars, worldVars>>

(* The rest of RunCoordinator.start and of _run_turn up to its try.        *)
BuildContext(t) ==
    /\ At(t, "context")
    /\ \/ Save(t, Saved("model", th[t]),
               Proceed([th[t] EXCEPT !.guarded = TRUE]))
       \/ /\ "context" \in Faults
          /\ Raise(t)
          /\ OnlyThread

-----------------------------------------------------------------------------
(* _run_bound: one turn of the model.                                      *)

SaveBeforeModel(t) ==
    /\ At(t, "before_model")
    /\ Save(t, Saved("model", th[t]), [th[t] EXCEPT !.pc = "renew_model"])

(* RunCoordinator.heartbeat: renewed when it is entered, then by a thread. *)
RenewLease(t, next) ==
    /\ RenewRun(Me(t), th[t].run, th[t].token)
    /\ Goto(t, next)
    /\ UNCHANGED <<approvalDb, processVars, worldVars>>

RenewForModel(t) ==
    /\ At(t, "renew_model")
    /\ \/ RenewLease(t, "model")
       \/ ~Owning(t) /\ Raise(t) /\ OnlyThread

(* Call identifiers come from the provider and are new.  A checkpoint of a *)
(* fallback model differs from the one before it only in the provider.     *)
ModelAnswers(t) ==
    /\ At(t, "model")
    /\ \/ Goto(t, "before_finalize") /\ OnlyThread
       \/ \E batch \in Batches :
            LET f == th[t] IN
            /\ Range(batch) \cap issued[f.run] = {}
            /\ issued' = [issued EXCEPT ![f.run] = @ \cup Range(batch)]
            /\ Become(t, [f EXCEPT
                 !.pc = "before_tools", !.calls = batch, !.turn = @ + 1,
                 !.history = @ \o [i \in DOMAIN batch |-> Asked(batch[i])]])
            /\ UNCHANGED <<sessionDb, approvalDb, processVars, sent, effect>>

(* The provider fails, or the heartbeat noticed that the run was lost.     *)
ModelFails(t) ==
    /\ At(t, "model")
    /\ ("model" \in Faults \/ ~Owning(t))
    /\ Raise(t)
    /\ OnlyThread

SaveBeforeFinalize(t) ==
    /\ At(t, "before_finalize")
    /\ Save(t, Saved("finalize", th[t]), [th[t] EXCEPT !.pc = "complete"])

SaveBeforeTools(t) ==
    /\ At(t, "before_tools")
    /\ Save(t, Saved("tools", th[t]), Proceed(th[t]))

(* complete_run; it also succeeds on a run completed with the same answer. *)
Finish(t) ==
    /\ At(t, "complete")
    /\ \/ /\ \E x \in Text : CompleteRun(Me(t), th[t].run, th[t].token, x)
          /\ Return(t)
          /\ UNCHANGED <<approvalDb, processVars, worldVars>>
       \/ ~Owning(t) /\ Raise(t) /\ OnlyThread

(* RunCoordinator.interrupt, in the except clause.                         *)
Interrupt(t) ==
    /\ At(t, "interrupt")
    /\ TryTransition(t, "interrupted", th[t].token)
    /\ Return(t)
    /\ UNCHANGED <<approvalDb, processVars, worldVars>>

-----------------------------------------------------------------------------
(* _invoke_tool and ToolExecutionCoordinator.invoke.  A call an approval   *)
(* pays for (seen = "approved") settles the approval afterwards; for any   *)
(* other call _process_calls turns an exception into a result.             *)

ToolReturns(f, out) ==
    [f EXCEPT !.out = out,
              !.pc = IF f.seen = "approved" THEN "approval_done"
                                            ELSE "after_call"]

(* Mutant: the result of a failed tool is not one the loop knows.          *)
ToolRaisesError(f) ==
    [f EXCEPT !.out = "error",
              !.pc = IF f.seen = "approved" THEN "approval_fail"
                                            ELSE "after_call"]

ToolRaises(f) ==
    [f EXCEPT !.out = "failed",
              !.pc = IF f.seen = "approved" THEN "approval_fail"
                                            ELSE "after_call"]

RenewForTool(t) ==
    /\ At(t, "renew_tool")
    /\ \/ RenewLease(t, "claim_tool")
       \/ ~Owning(t) /\ Become(t, ToolRaises(th[t])) /\ OnlyThread

(* claim_tool: a row that exists decides without a look at the owner.  Its *)
(* output is reused; without one the call is reported as not executed.     *)
ClaimCall(t) ==
    LET f == th[t]
        c == Head(f.calls)
        found == ledger[f.run][c].status IN
    /\ At(t, "claim_tool")
    /\ \/ /\ \E tl \in Tool : ClaimTool(Me(t), f.run, f.token, c, tl)
          /\ Goto(t, "execute")
          /\ UNCHANGED <<approvalDb, processVars, worldVars>>
       \/ /\ found = "absent" /\ ~Owning(t)
          /\ Become(t, ToolRaises(f))
          /\ OnlyThread
       \/ /\ found = "completed"
          /\ Become(t, ToolReturns(f, "output"))
          /\ OnlyThread
       \/ /\ found \in {"running", "failed"}
          /\ Become(t, ToolReturns(f, "uncertain"))
          /\ OnlyThread

(* The tool itself: it may raise after it had its effect, or before.       *)
Execute(t) ==
    /\ At(t, "execute")
    /\ \/ /\ effect' = [effect EXCEPT
                          ![th[t].run][Head(th[t].calls)] = @ + 1]
          /\ \/ Goto(t, "complete_tool")
             \/ "tool" \in Faults /\ Goto(t, "fail_tool")
          /\ UNCHANGED <<sessionDb, approvalDb, processVars, sent, issued>>
       \/ /\ "tool" \in Faults
          /\ Goto(t, "fail_tool")
          /\ OnlyThread

(* complete_tool and fail_tool look first whether the run is still theirs. *)
CheckOwner(t, label, next) ==
    /\ At(t, label)
    /\ \/ Owning(t) /\ Goto(t, next)
       \/ ~Owning(t) /\ Become(t, ToolRaises(th[t]))
    /\ OnlyThread

(* Their update is a later transaction, whoever has the run by then.  A    *)
(* result that cannot be recorded raises.                                  *)
RecordOutcome(t, label, outcome, next) ==
    LET f == th[t]
        c == Head(f.calls) IN
    /\ At(t, label)
    /\ \/ /\ SettleTool(f.run, f.token, c, outcome)
          /\ Become(t, next)
       \/ /\ ledger[f.run][c].status # "running"
          /\ Become(t, ToolRaises(f))
          /\ UNCHANGED sessionDb
    /\ UNCHANGED <<approvalDb, processVars, worldVars>>

CompleteCall(t) ==
    \/ CheckOwner(t, "complete_tool", "complete_row")
    \/ RecordOutcome(t, "complete_row", "completed",
                     ToolReturns(th[t], "output"))
FailCall(t) ==
    \/ CheckOwner(t, "fail_tool", "fail_row")
    \/ RecordOutcome(t, "fail_row", "failed", ToolRaises(th[t]))

(* Mutants: the saved cursor stays at the call; a denied call gets no      *)
(* result.                                                                 *)
SaveAfterCallKeepingCursor(t) ==
    LET f == th[t]
        g == [f EXCEPT !.history = Append(@, Result(Head(f.calls), f.out)),
                       !.calls = Tail(@), !.out = "none", !.seen = "none"] IN
    /\ At(t, "after_call")
    /\ Save(t, Saved("tools", [g EXCEPT !.calls = f.calls]), Proceed(g))

SaveAfterCallDroppingDenial(t) ==
    LET f == th[t]
        h == IF f.out = "denied" THEN f.history
             ELSE Append(f.history, Result(Head(f.calls), f.out))
        g == [f EXCEPT !.history = h, !.calls = Tail(@), !.out = "none",
                       !.seen = "none"] IN
    /\ At(t, "after_call")
    /\ Save(t, Saved(IF g.calls = <<>> THEN "model" ELSE "tools", g),
            Proceed(g))

(* The result joins the messages, and the cursor moves past the call.      *)
SaveAfterCall(t) ==
    LET f == th[t]
        g == [f EXCEPT !.history = Append(@, Result(Head(f.calls), f.out)),
                       !.calls = Tail(@), !.out = "none", !.seen = "none"] IN
    /\ At(t, "after_call")
    /\ Save(t, Saved(IF g.calls = <<>> THEN "model" ELSE "tools", g),
            Proceed(g))

-----------------------------------------------------------------------------
(* A call that needs approval parks the run.                               *)

RequestApproval(t) ==
    /\ At(t, "gate")
    /\ CreateRequest(Pending(t), Saved("approval", th[t]))
    /\ Goto(t, "park_checkpoint")
    /\ UNCHANGED <<sessionDb, processVars, worldVars>>

(* The checkpoint names the request; its call stands for that here.        *)
SaveWaiting(t) ==
    /\ At(t, "park_checkpoint")
    /\ Save(t, [Saved("approval", th[t]) EXCEPT !.calls = <<Head(@)>>],
            [th[t] EXCEPT !.pc = "park"])

(* A PendingApproval goes to the user as a card if a gateway gets it.      *)
Parked(t) == IF t \in Operator THEN Return(t) ELSE Goto(t, "card")

Park(t) ==
    /\ At(t, "park")
    /\ TryTransition(t, "waiting_approval", th[t].token)
    /\ Parked(t)
    /\ UNCHANGED <<approvalDb, processVars, worldVars>>

(* When the card cannot be sent the message handler cancels the request; a *)
(* resume task only logs the failure.                                      *)
SendCard(t) ==
    /\ At(t, "card")
    /\ \/ /\ sent' = sent \cup {Pending(t)}
          /\ Return(t)
       \/ /\ "card" \in Faults
          /\ IF t \in Handler THEN Goto(t, "cancel_unsent") ELSE Return(t)
          /\ UNCHANGED sent
    /\ UNCHANGED <<sessionDb, approvalDb, processVars, issued, effect>>

(* cancel_approval: reject in the requester's name ...                     *)
CancelUnsent(t) ==
    LET a == Pending(t) IN
    /\ At(t, "cancel_unsent")
    /\ \/ /\ Decide(a, "rejected", Requester[a], <<a, "unsent">>)
          /\ Goto(t, "consume_unsent")
       \/ DecideTooLate(a, Requester[a]) /\ Return(t)
       \/ /\ approval[a] # "pending"
          /\ Return(t)
          /\ UNCHANGED approvalDb
    /\ UNCHANGED <<sessionDb, processVars, worldVars>>

TryConsume(a) == \/ MarkConsumed(a)
                 \/ /\ \/ approval[a] \notin {"rejected", "expired"}
                       \/ consumed[a]
                    /\ UNCHANGED approvalDb

(* ... and consume the rejection, so that recovery does not offer it.      *)
ConsumeUnsent(t) ==
    /\ At(t, "consume_unsent")
    /\ TryConsume(Pending(t))
    /\ Return(t)
    /\ UNCHANGED <<sessionDb, processVars, worldVars>>

-----------------------------------------------------------------------------
(* resume_run: an interrupted run goes on from its latest checkpoint.      *)

(* A task or an administrator asks for it; Deliver asks for it too.        *)
ResumeRun(t, r) ==
    /\ At(t, "idle")
    /\ status[r] # "absent"
    /\ Become(t, [Idle EXCEPT !.pc = "rr_get", !.run = r])
    /\ OnlyThread

ReadRun(t) ==
    /\ At(t, "rr_get")
    /\ IF status[th[t].run] \in {"running", "interrupted"}
       THEN Goto(t, "rr_checkpoint")
       ELSE Return(t)
    /\ OnlyThread

(* The checkpoint is read before the run is claimed.                       *)
ReadCheckpoint(t) ==
    LET s == checkpoint[th[t].run].state IN
    /\ At(t, "rr_checkpoint")
    /\ Become(t, [Loaded(th[t], s) EXCEPT
                    !.pc = CASE s.action = "approval" -> "rr_approval"
                             [] s.action = "finalize" -> "rr_claim_final"
                             [] OTHER -> "rr_claim"])
    /\ OnlyThread

(* load_for_resume expires overdue requests before it reads.               *)
LoadParked(t) ==
    /\ At(t, "rr_approval")
    /\ ExpirePending
    /\ Goto(t, IF AfterExpiry[Pending(t)] = "pending" THEN "rr_wait"
                                                      ELSE "rs_load")
    /\ UNCHANGED <<sessionDb, processVars, worldVars>>

(* This transition carries no token.                                       *)
WaitAgain(t) ==
    /\ At(t, "rr_wait")
    /\ TryTransition(t, "waiting_approval", NoToken)
    /\ Parked(t)
    /\ UNCHANGED <<approvalDb, processVars, worldVars>>

Claim(t, expected, next) ==
    /\ \/ ClaimRun(Me(t), th[t].run, expected) /\ Goto(t, next)
       \/ /\ status[th[t].run] \notin expected
          /\ Return(t)
          /\ UNCHANGED sessionDb
    /\ UNCHANGED <<approvalDb, processVars, worldVars>>

ClaimInterrupted(t) ==
    \/ At(t, "rr_claim") /\ Claim(t, {"interrupted"}, "rr_token")
    \/ At(t, "rr_claim_final")
         /\ Claim(t, {"interrupted"}, "rr_token_final")

(* RunCoordinator.claim learns the token by a second transaction.          *)
LearnToken(t) ==
    LET f == [th[t] EXCEPT !.token = token[th[t].run], !.guarded = TRUE] IN
    /\ \/ At(t, "rr_token") /\ Become(t, Proceed(f))
       \/ At(t, "rr_token_final")
            /\ Become(t, [f EXCEPT !.pc = "complete"])
    /\ OnlyThread

-----------------------------------------------------------------------------
(* resume: a decided approval continues its run from the continuation.     *)

(* A task for a request exists only once the request was decided or has    *)
(* expired, and so does the jump here from resume_run: the branch for a    *)
(* pending request is never taken.                                         *)
Resume(t, a) ==
    LET p == ProcessOf[t] IN
    /\ At(t, "idle")
    /\ a \in offered[p]
    /\ offered' = [offered EXCEPT ![p] = @ \ {a}]
    /\ Become(t, [Idle EXCEPT !.pc = "rs_load", !.run = a[1],
                              !.calls = <<a[2]>>])
    /\ UNCHANGED <<sessionDb, approvalDb, up, inc, worldVars>>

LoadRequest(t) ==
    LET a == Pending(t) IN
    /\ At(t, "rs_load")
    /\ ExpirePending
    /\ Become(t, [Loaded(th[t], continuation[a]) EXCEPT
                    !.pc = "rs_run", !.seen = AfterExpiry[a]])
    /\ UNCHANGED <<sessionDb, processVars, worldVars>>

CheckRun(t) ==
    /\ At(t, "rs_run")
    /\ IF status[th[t].run] \in {"completed", "failed", "cancelled"}
       THEN Return(t)
       ELSE Goto(t, "rs_claim")
    /\ OnlyThread

(* Mutant: a resume claims interrupted runs only.                          *)
ClaimParkedAsInterrupted(t) ==
    /\ At(t, "rs_claim")
    /\ Claim(t, {"interrupted"}, "rs_token")

ClaimParked(t) ==
    /\ At(t, "rs_claim")
    /\ Claim(t, {"waiting_approval", "interrupted"}, "rs_token")

(* _resume_result branches on the status read by LoadRequest.              *)
LearnTokenOfParked(t) ==
    LET f == th[t] IN
    /\ At(t, "rs_token")
    /\ Become(t, [f EXCEPT
         !.token = token[f.run],
         !.pc = CASE f.seen \in {"rejected", "expired"} -> "rs_consume"
                  [] f.seen = "approved" -> "rs_execute"
                  [] OTHER -> "rs_ledger"])
    /\ OnlyThread

ConsumeRefusal(t) ==
    /\ At(t, "rs_consume")
    /\ TryConsume(Pending(t))
    /\ Become(t, [th[t] EXCEPT !.pc = "after_call", !.out = "refused"])
    /\ UNCHANGED <<sessionDb, processVars, worldVars>>

(* Mutant: any row of the ledger counts as the outcome.                    *)
ConsultLedgerForAnyRow(t) ==
    LET f == th[t] IN
    /\ At(t, "rs_ledger")
    /\ IF ledger[f.run][Head(f.calls)].status # "absent"
       THEN Become(t, [f EXCEPT !.out = "output",
              !.pc = IF f.seen = "executing" THEN "rs_settle"
                                             ELSE "after_call"])
       ELSE Goto(t, "rs_fail")
    /\ OnlyThread

(* An approval that an executor has already taken: only the ledger can say *)
(* what became of the call.                                                *)
ConsultLedger(t) ==
    LET f == th[t] IN
    /\ At(t, "rs_ledger")
    /\ IF ledger[f.run][Head(f.calls)].status = "completed"
       THEN Become(t, [f EXCEPT !.out = "output",
              !.pc = IF f.seen = "executing" THEN "rs_settle"
                                             ELSE "after_call"])
       ELSE IF f.seen = "failed"
       THEN Become(t, [f EXCEPT !.pc = "after_call", !.out = "uncertain"])
       ELSE Goto(t, "rs_fail")
    /\ OnlyThread

TryMove(a, to) == \/ Move(a, "executing", to)
                  \/ approval[a] # "executing" /\ UNCHANGED approvalDb

(* The executor died between the ledger and the approval.                  *)
SettleForExecutor(t) ==
    /\ At(t, "rs_settle")
    /\ TryMove(Pending(t), "completed")
    /\ Goto(t, "after_call")
    /\ UNCHANGED <<sessionDb, processVars, worldVars>>

FailUncertain(t) ==
    /\ At(t, "rs_fail")
    /\ TryTransition(t, "failed", th[t].token)
    /\ Return(t)
    /\ UNCHANGED <<approvalDb, processVars, worldVars>>

(* Mutant: a resume executes what it read as approved, without taking it.  *)
TakeApprovalAsRead(t) ==
    /\ At(t, "rs_execute")
    /\ Goto(t, "renew_tool")
    /\ OnlyThread

(* Mutant: a call that policy no longer allows is refused before the       *)
(* approval is taken.                                                      *)
TakeApprovalIfAllowed(t) ==
    LET f == th[t]
        a == Pending(t) IN
    /\ At(t, "rs_execute")
    /\ \/ ClaimExecution(a) /\ Goto(t, "renew_tool")
       \/ /\ FALSE \in Validity
          /\ Become(t, [f EXCEPT !.pc = "after_call", !.out = "refused"])
          /\ UNCHANGED approvalDb
       \/ /\ approval[a] # "approved"
          /\ Return(t)
          /\ UNCHANGED approvalDb
    /\ UNCHANGED <<sessionDb, processVars, worldVars>>

(* Without the claim on the approval the resume gives up and leaves the    *)
(* run as it is: running.                                                  *)
TakeApproval(t) ==
    LET f == th[t]
        a == Pending(t) IN
    /\ At(t, "rs_execute")
    /\ \/ /\ ClaimExecution(a)
          /\ \E valid \in Validity :
               IF valid
               THEN Goto(t, "renew_tool")
               ELSE Become(t, [f EXCEPT !.pc = "approval_fail",
                                        !.out = "refused"])
       \/ /\ approval[a] # "approved"
          /\ Return(t)
          /\ UNCHANGED approvalDb
    /\ UNCHANGED <<sessionDb, processVars, worldVars>>

(* After the tool; a heartbeat that noticed the loss of the run makes      *)
(* _invoke_tool raise although the tool returned.                          *)
SettleApproval(t) ==
    LET f == th[t] IN
    /\ \/ /\ At(t, "approval_done")
          /\ TryMove(Pending(t), "completed")
          /\ Goto(t, "after_call")
       \/ /\ At(t, "approval_done") /\ ~Owning(t)
          /\ Become(t, ToolRaises(f))
          /\ UNCHANGED approvalDb
       \/ /\ At(t, "approval_fail")
          /\ TryMove(Pending(t), "failed")
          /\ Goto(t, "after_call")
    /\ UNCHANGED <<sessionDb, processVars, worldVars>>

-----------------------------------------------------------------------------
(* Processes, people and clocks.                                           *)

(* A click on a card reaches one process, which then makes a resume task.  *)
Click(p, a, verdict) ==
    /\ p \in up
    /\ a \in sent
    /\ \/ /\ Decide(a, verdict, Requester[a], <<a, "click">>)
          /\ offered' = [offered EXCEPT ![p] = @ \cup {a}]
       \/ DecideTooLate(a, Requester[a]) /\ UNCHANGED offered
    /\ UNCHANGED <<sessionDb, th, up, inc, worldVars>>

(* _recover_approvals, at every connection and ping: one more task for     *)
(* each request it finds, whether or not one was started before.  Tasks    *)
(* start in any order, as late as threads allow.                           *)
RecoverTick(p) ==
    /\ p \in up
    /\ ExpirePending
    /\ offered' = [offered EXCEPT ![p] = @ \cup
         {a \in Request : Resumable(a, AfterExpiry[a])}]
    /\ UNCHANGED <<sessionDb, th, up, inc, worldVars>>

Crash(p) ==
    /\ p \in up
    /\ inc[p] + 1 \in Incarnation
    /\ up' = up \ {p}
    /\ offered' = [offered EXCEPT ![p] = {}]
    /\ th' = [t \in Thread |-> IF ProcessOf[t] = p THEN Idle ELSE th[t]]
    /\ UNCHANGED <<sessionDb, approvalDb, inc, worldVars>>

(* AssistantService.__init__ in a new process, hence with a new owner_id.  *)
Restart(p) ==
    /\ p \notin up
    /\ up' = up \cup {p}
    /\ inc' = [inc EXCEPT ![p] = @ + 1]
    /\ InterruptIncomplete(<<p, inc[p] + 1>>, {})
    /\ UNCHANGED <<approvalDb, th, offered, worldVars>>

Administer(r) ==
    /\ \/ \E action \in Control \cap ControlAction : AdminControlRun(r, action)
       \/ /\ "resolve" \in Control
          /\ \E c \in Call, outcome \in {"completed", "failed"} :
               AdminResolveTool(r, c, outcome)
    /\ UNCHANGED <<approvalDb, runtimeVars>>

LeaseClock(r) == LeaseExpires(r) /\ UNCHANGED <<approvalDb, runtimeVars>>

ApprovalClock(a) == DeadlinePasses(a) /\ UNCHANGED <<sessionDb, runtimeVars>>

-----------------------------------------------------------------------------
Init ==
    /\ StoreInit
    /\ ApprovalInit
    /\ th = [t \in Thread |-> Idle]
    /\ up = Process
    /\ inc = [p \in Process |-> 1]
    /\ sent = {}
    /\ offered = [p \in Process |-> {}]
    /\ issued = [r \in Run |-> {}]
    /\ effect = [r \in Run |-> [c \in Call |-> 0]]

ModelStep(t) ==
    \/ SaveBeforeModel(t) \/ RenewForModel(t) \/ ModelAnswers(t)
    \/ ModelFails(t) \/ SaveBeforeFinalize(t) \/ SaveBeforeTools(t)
    \/ Finish(t) \/ Interrupt(t)

ToolCallStep(t) ==
    \/ RenewForTool(t) \/ ClaimCall(t) \/ Execute(t) \/ CompleteCall(t)
    \/ FailCall(t) \/ SaveAfterCall(t)

ParkStep(t) ==
    \/ RequestApproval(t) \/ SaveWaiting(t) \/ Park(t) \/ SendCard(t)
    \/ CancelUnsent(t) \/ ConsumeUnsent(t)

ResumeStep(t) ==
    \/ ReadRun(t) \/ ReadCheckpoint(t) \/ LoadParked(t) \/ WaitAgain(t)
    \/ ClaimInterrupted(t) \/ LearnToken(t)
    \/ LoadRequest(t) \/ CheckRun(t) \/ ClaimParked(t)
    \/ LearnTokenOfParked(t) \/ ConsumeRefusal(t) \/ ConsultLedger(t)
    \/ SettleForExecutor(t) \/ FailUncertain(t) \/ TakeApproval(t)
    \/ SettleApproval(t)

(* A thread that has work goes on; an idle thread need not find any.       *)
Work(t) == /\ ProcessOf[t] \in up
           /\ \/ BuildContext(t) \/ ModelStep(t) \/ ToolCallStep(t)
              \/ ParkStep(t) \/ ResumeStep(t)

Begin(t) == /\ ProcessOf[t] \in up
            /\ \/ t \in Handler /\ \E m \in Message : Deliver(t, m)
               \/ t \in Resumer /\ \E a \in Request : Resume(t, a)
               \/ t \in Operator /\ \E r \in Run : ResumeRun(t, r)

Environment ==
    \/ \E p \in Process : \/ Crash(p) \/ Restart(p) \/ RecoverTick(p)
                          \/ \E a \in Request, v \in Verdict : Click(p, a, v)
    \/ \E r \in Run : Administer(r) \/ LeaseClock(r)
    \/ \E a \in Request : ApprovalClock(a)

Next == (\E t \in Thread : Work(t) \/ Begin(t)) \/ Environment

Spec == Init /\ [][Next]_vars

(* Threads are scheduled, and models and tools return or time out; the     *)
(* ping loop ticks for ever; deadlines pass; the event loop starts every   *)
(* task it was given, whatever other tasks it starts.                      *)
Fairness ==
    /\ \A t \in Thread : WF_vars(Work(t))
    /\ \A p \in Process : WF_vars(RecoverTick(p))
    /\ \A a \in Request : WF_vars(ApprovalClock(a))
    /\ \A t \in Resumer, a \in Request :
         SF_vars(ProcessOf[t] \in up /\ Resume(t, a))

FairSpec == Spec /\ Fairness

-----------------------------------------------------------------------------
(* Properties.                                                             *)

Labels == {"idle", "context", "before_model", "renew_model", "model",
           "before_finalize", "before_tools", "complete", "interrupt",
           "renew_tool", "claim_tool", "execute", "complete_tool",
           "complete_row", "fail_tool", "fail_row", "after_call", "gate",
           "park_checkpoint", "park",
           "card", "cancel_unsent", "consume_unsent", "rr_get",
           "rr_checkpoint", "rr_approval", "rr_wait", "rr_claim", "rr_token",
           "rr_claim_final", "rr_token_final", "rs_load", "rs_run",
           "rs_claim", "rs_token", "rs_consume", "rs_ledger", "rs_settle",
           "rs_fail", "rs_execute", "approval_done", "approval_fail"}

Frame == [pc : Labels, run : Run \cup {NoRun}, token : Nat,
          calls : Seq(Call), turn : Nat, history : Seq(Entry),
          out : Output \cup {"none"}, seen : ApprovalStatus \cup {"none"},
          guarded : BOOLEAN]

(* Frames, processes and the world have their types, and the stores theirs *)
(* (StoreTypeOK, ApprovalTypeOK): the loop passes them nothing else.       *)
RuntimeTypeOK ==
    /\ StoreTypeOK
    /\ ApprovalTypeOK
    /\ th \in [Thread -> Frame]
    /\ up \subseteq Process
    /\ inc \in [Process -> Incarnation]
    /\ sent \subseteq Request
    /\ offered \in [Process -> SUBSET Request]
    /\ issued \in [Run -> SUBSET Call]
    /\ effect \in [Run -> [Call -> Nat]]

(* ToolExecutionCoordinator.invoke with claim_tool: whatever crashes,      *)
(* claims, resumes and duplicated deliveries happen, a call has its side   *)
(* effect at most once, and never without a row of the ledger.             *)
AtMostOneEffect ==
    \A r \in Run, c \in Call :
        /\ effect[r][c] <= 1
        /\ effect[r][c] = 1 => ledger[r][c].status # "absent"

OutcomeIsOfClaim(r, c) ==
    ledger[r][c].status = "running" /\ ledger'[r][c] # ledger[r][c] =>
        \/ ledger'[r][c].by = NoToken
        \/ /\ ledger'[r][c].by = ledger[r][c].by
           /\ ledger'[r][c].status = "completed" => effect[r][c] = 1

(* complete_tool and fail_tool by a worker that may have lost the run      *)
(* since it began the call: what is recorded as the outcome is an          *)
(* administrator's disposition, or comes from the execution that was given *)
(* leave, under the token of its claim, and "completed" only after the     *)
(* effect.  So the late writes of SQLite tell the truth.                   *)
OutcomesAreOfTheClaim ==
    [][\A r \in Run, c \in Call : OutcomeIsOfClaim(r, c)]_vars

(* _process_calls and _resume_result: a protected call has an effect only  *)
(* if its request was confirmed and an executor took the confirmation, on  *)
(* every path by which a run can come back to the call.                    *)
EffectNeedsConsent ==
    \A r \in Run, c \in Call :
        effect[r][c] > 0 =>
            \/ Policy[c] = "allow"
            \/ /\ Policy[c] = "approve"
               /\ approval[<<r, c>>] \in {"executing", "completed", "failed"}

(* An approval counts as completed only if the ledger knows the outcome of *)
(* the call: the two databases never disagree that way round, whichever    *)
(* thread settles the approval after a crash of its executor.              *)
CompletedConsentIsInLedger ==
    \A r \in Run, c \in Call :
        approval[<<r, c>>] = "completed" => ledger[r][c].status = "completed"

Positions(h, kind, c) ==
    {i \in DOMAIN h : h[i].kind = kind /\ h[i].call = c}

(* Each call in h is answered once, after it was asked, except those of    *)
(* open, which are not answered.                                           *)
Answered(h, open) ==
    \A c \in Call :
        LET asked == Positions(h, "call", c)
            told == Positions(h, "result", c) IN
        \/ asked = {} /\ told = {} /\ c \notin open
        \/ \E i \in asked : /\ asked = {i}
                            /\ IF c \in open THEN told = {}
                               ELSE \E j \in told : told = {j} /\ i < j

(* What save_checkpoint holds is always a conversation the loop can go on  *)
(* with: at the model every call has its one result, at the tools exactly  *)
(* the remaining calls lack theirs, also after resumes from continuations, *)
(* reused outputs, refusals and failures.                                  *)
CheckpointIsCoherent ==
    \A r \in Run :
        LET s == checkpoint[r].state IN
        s # NoState =>
            CASE s.action = "approval" ->
                   Positions(s.history, "result", Head(s.calls)) = {}
              [] s.action = "tools" -> Answered(s.history, Range(s.calls))
              [] OTHER -> Answered(s.history, {})

(* The same for the request about to be sent to a provider, which rejects  *)
(* a conversation with unanswered or doubly answered calls.                *)
RequestIsCoherent ==
    \A t \in Thread : At(t, "model") => Answered(th[t].history, {})

(* What the results in h say of the calls of a run.                        *)
Truthful(r, h) ==
    \A i \in DOMAIN h :
        h[i].kind = "result" =>
            /\ h[i].text = "output" => ledger[r][h[i].call].status = "completed"
            /\ h[i].text \in {"denied", "refused"} => effect[r][h[i].call] = 0

(* The model is never told an output that the ledger does not hold, nor    *)
(* that a call was denied or refused which had its effect, on whichever of *)
(* the racing paths the result came: the ledger, the approval, the second  *)
(* check of policy, or a resume that found the call settled by another.    *)
ResultsAreTrue ==
    /\ \A r \in Run : checkpoint[r].state # NoState =>
         Truthful(r, checkpoint[r].state.history)
    /\ \A t \in Thread : At(t, "model") => Truthful(th[t].run, th[t].history)

(* A message that was accepted is answered in the end: the loop, the parks *)
(* for approvals, their decision or expiry and the recovery ticks bring    *)
(* every run to its answer as long as processes, models and cards hold up. *)
EveryMessageIsAnswered ==
    \A m \in Message : inbound[m] # NoRun ~> response[m] # NoText

(* A decision the user made reaches the run: it is executed or consumed,   *)
(* or the run is over.                                                     *)
DecisionsTakeEffect ==
    \A a \in Request :
        approval[a] \in Verdict ~>
            \/ approval[a] \notin Verdict
            \/ consumed[a]
            \/ status[a[1]] \in {"completed", "failed", "cancelled"}

(* A completed run leaves no call behind whose outcome is unknown.         *)
CompletedRunsAreCertain ==
    \A r \in Run : status[r] = "completed" =>
        \A c \in Call : ledger[r][c].status # "running"

(* A run that is running in a live process is some thread's work.          *)
RunningRunsAreServed ==
    \A r \in Run, p \in up :
        status[r] = "running" /\ owner[r] = <<p, inc[p]>> =>
            \E t \in Thread : ProcessOf[t] = p /\ th[t].run = r
=============================================================================
