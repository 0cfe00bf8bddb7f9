----------------------------- MODULE TaskService -----------------------------
(***************************************************************************)
(* Persistent tasks (TaskService) and the cron scheduler over them         *)
(* (SchedulerService): threads of several processes execute, resume,       *)
(* pause, cancel and fail tasks, dispatch and recover triggers, resume     *)
(* runs whose approval was decided, and reconcile tasks with runs at       *)
(* start.  Tasks, triggers and runs are three databases; a step is one     *)
(* transaction of one of them.                                             *)
(*                                                                         *)
(* The work of the agent loop on a run is taken from AgentRuntime in       *)
(* outline: a worker that owns the run completes it, parks it for approval *)
(* or fails; the ledger and the calls are not needed here.  A claim and    *)
(* the reading of its token are one step.                                  *)
(***************************************************************************)
EXTENDS Naturals

CONSTANTS Task, Run, Trigger, NoRun, NoTrigger, Deps,  \* as in TaskGraph
          NoOwner, NoTool, NoState, NoText, MaxToken   \* as in RunStore

CONSTANTS Process, Incarnation, Thread, ProcessOf,     \* as in AgentRuntime
          TaskOf,      \* the task a trigger is for
          Scheduled,   \* the triggers that are cron slots of a schedule
          Operations,  \* what the callers of the services use
          Faults,      \* what may fail: "start", "context", "work", "approval"
          Control      \* operations the administrators use

ASSUME TaskServiceAssumption ==
    /\ Deps \in [Task -> SUBSET Task]
    /\ TaskOf \in [Trigger -> Task]
    /\ Scheduled \subseteq Trigger
    /\ NoTrigger \notin Trigger
    /\ ProcessOf \in [Thread -> Process]
    /\ Incarnation \subseteq Nat /\ 1 \in Incarnation
    /\ Operations \subseteq {"manual", "resume", "pause", "cancel", "fail",
                             "recover", "approval", "run"}
    /\ Faults \subseteq {"start", "context", "work", "approval"}
    /\ Control \subseteq {"pause", "cancel", "recover"}

VARIABLE task

INSTANCE TaskGraph

Owner == Process \X Incarnation

VARIABLES status, owner, lease, token, inbound, response, answers, checkpoint,
          ledger

INSTANCE RunStore WITH Message <- Trigger, Call <- {}, Tool <- {},
                       State <- {"loop", "approval"}, Text <- {"answer"}

(* RunStoreAssumption of this instance.                                    *)
ASSUME SessionsAssumption ==
    /\ NoRun \notin Run
    /\ NoOwner \notin Owner
    /\ NoState \notin {"loop", "approval"}
    /\ NoText # "answer"
    /\ MaxToken \in Nat \ {0}

VARIABLES
    trigger,  \* schedule_triggers.status by trigger
    verdict,  \* the approval a run is parked on
    th,       \* the frame of each thread
    up, inc,  \* as in AgentRuntime
    todo,     \* runs a starting process has still to reconcile
    finished  \* tasks that have been completed at some time

sessionDb == <<status, owner, lease, token, inbound, response, answers,
               checkpoint, ledger>>
databases == <<task, sessionDb, trigger, verdict>>
processVars == <<up, inc, todo>>
vars == <<databases, th, processVars, finished>>

-----------------------------------------------------------------------------
(* Frames.  op: which caller the result of the runtime goes back to; sched:*)
(* whether the scheduler called execute; rest: the triggers that the       *)
(* recovery of the scheduler has read and not yet executed.                *)

Idle == [pc |-> "idle", op |-> "none", sched |-> FALSE, trig |-> NoTrigger,
         task |-> "none", run |-> NoRun, token |-> NoToken, seen |-> "none",
         guarded |-> FALSE, rest |-> {}]

Me(x) == <<ProcessOf[x], inc[ProcessOf[x]]>>
At(x, label) == th[x].pc = label
Become(x, f) == th' = [th EXCEPT ![x] = f]

(* execute and resume return, with ok, or raise.                           *)
Left(f, ok) ==
    IF f.sched
    THEN [Idle EXCEPT !.pc = IF ok THEN "read_status" ELSE "trigger_failed",
                      !.task = f.task, !.trig = f.trig, !.sched = TRUE,
                      !.rest = f.rest]
    ELSE Idle

(* The runtime returns a result, or raises, to its caller.                 *)
Returned(f, out) ==
    LET g == [f EXCEPT !.seen = out, !.token = NoToken, !.guarded = FALSE] IN
    CASE f.op = "execute" -> [g EXCEPT !.pc = "bind_result", !.run = NoRun]
      [] f.op = "resume" -> [g EXCEPT !.pc = "apply", !.run = NoRun]
      [] f.op = "approval" -> [g EXCEPT !.pc = "find", !.seen = "none"]
      [] f.op = "run" -> Idle

Raised(f) ==
    LET g == [f EXCEPT !.token = NoToken, !.guarded = FALSE] IN
    CASE f.op = "execute" -> [g EXCEPT !.pc = "bind_failed", !.run = NoRun]
      [] f.op = "resume" -> [g EXCEPT !.pc = "interrupt_task", !.run = NoRun]
      [] OTHER -> Idle

OnlyThread == UNCHANGED <<databases, processVars>>
OnlyTask == UNCHANGED <<sessionDb, trigger, verdict, processVars>>
OnlyRuns == UNCHANGED <<task, trigger, verdict, processVars>>
OnlyTrigger == UNCHANGED <<task, sessionDb, verdict, processVars>>

(* The thread takes a step by itself, or with one of the databases.        *)
Step(x, f) == Become(x, f) /\ OnlyThread
InTasks(x, f) == Become(x, f) /\ OnlyTask
InRuns(x, f) == Become(x, f) /\ OnlyRuns

(* Updates whose result the caller ignores.                                *)
TryMove(t, expected, to, r, g) ==
    \/ TransitionTask(t, expected, to, r, g)
    \/ task[t].status \notin expected /\ UNCHANGED task

TryBind(t, r, g) ==
    \/ r # NoRun /\ BindRun(t, r, g)
    \/ (r = NoRun \/ ~MayBind(t, r)) /\ UNCHANGED task

TryTransition(x, r, target, k) ==
    \/ TransitionRun(Me(x), r, target, k)
    \/ ~MayTransition(Me(x), r, target, k) /\ UNCHANGED sessionDb

-----------------------------------------------------------------------------
(* TaskService.execute.                                                    *)

Ready(x) == /\ At(x, "idle")
            /\ todo[ProcessOf[x]] = {}

Start(x, op, label, t, g) ==
    Step(x, [Idle EXCEPT !.pc = label, !.op = op, !.task = t, !.trig = g])

Execute(x, g) ==
    /\ Ready(x)
    /\ "manual" \in Operations /\ g \notin Scheduled
    /\ Start(x, "execute", "load", TaskOf[g], g)

(* A parked or interrupted task is resumed, any other is claimed.          *)
Decided(f) ==
    LET row == task[f.task] IN
    IF row.status \in {"interrupted", "paused"} /\ row.run # NoRun
    THEN [f EXCEPT !.pc = "check_run", !.run = row.run]
    ELSE [f EXCEPT !.pc = "claim"]

Load(x) ==
    /\ At(x, "load")
    /\ LET f == th[x] IN
       Step(x, CASE task[f.task].status = "absent" -> Left(f, FALSE)
                 [] f.sched /\ task[f.task].status = "completed" ->
                      [f EXCEPT !.pc = "reset"]
                 [] OTHER -> Decided(f))

Reset(x) ==
    /\ At(x, "reset")
    /\ LET f == th[x] IN
       \/ ResetForTrigger(f.task, f.trig)
       \/ ~MayReset(f.task, f.trig) /\ UNCHANGED task
    /\ InTasks(x, [th[x] EXCEPT !.pc = "reload"])

Reload(x) == At(x, "reload") /\ Step(x, Decided(th[x]))

CheckRun(x) ==
    /\ At(x, "check_run")
    /\ Step(x, IF status[th[x].run] = "waiting_approval"
               THEN Left(th[x], TRUE)
               ELSE [th[x] EXCEPT !.pc = "resume", !.run = NoRun])

Claim(x) ==
    /\ At(x, "claim")
    /\ \/ /\ ClaimTask(th[x].task)
          /\ InTasks(x, [th[x] EXCEPT !.pc = "turn"])
       \/ /\ ~MayClaim(th[x].task)
          /\ Step(x, Left(th[x], TRUE))

(* run_turn up to the callback: the trigger is the message, so a trigger   *)
(* that was answered, or is being answered, makes no other run.            *)
NewTurn(x) ==
    /\ At(x, "turn")
    /\ inbound[th[x].trig] = NoRun
    /\ \E r \in Run :
         /\ BeginInbound(Me(x), th[x].trig, r, "loop")
         /\ \E label \in {"bind"} \cup (Faults \cap {"context"}) :
              InRuns(x, IF label = "bind"
                        THEN [th[x] EXCEPT !.pc = "bind", !.run = r,
                                           !.token = 1]
                        ELSE Raised(th[x]))

TurnFails(x) ==
    /\ At(x, "turn") /\ "start" \in Faults
    /\ Step(x, Raised(th[x]))

KnownTurn(x) ==
    /\ At(x, "turn")
    /\ LET f == th[x]
           r == inbound[f.trig] IN
       /\ r # NoRun
       /\ Step(x, CASE status[r] = "interrupted" ->
                         [f EXCEPT !.pc = "get_run", !.run = r]
                    [] status[r] \in {"running", "waiting_approval"} ->
                         Returned(f, "in_progress")
                    [] OTHER -> Returned(f, "completed"))

(* The callback: its result is ignored.                                    *)
Bind(x) ==
    /\ At(x, "bind")
    /\ TryBind(th[x].task, th[x].run, th[x].trig)
    /\ InTasks(x, [th[x] EXCEPT !.pc = "work", !.guarded = TRUE])

(* After run_turn: the run is bound again, then the result is applied.     *)
BindResult(x) ==
    /\ At(x, "bind_result")
    /\ TryBind(th[x].task, inbound[th[x].trig], th[x].trig)
    /\ InTasks(x, [th[x] EXCEPT !.pc = "apply"])

(* Mutant: a task that waits for approval is completed.                    *)
TargetOfAnyResult(out) == "completed"

TargetOf(out) == CASE out = "completed" -> "completed"
                   [] out = "pending" -> "paused"

Apply(x) ==
    /\ At(x, "apply")
    /\ LET f == th[x] IN
       /\ IF f.seen = "in_progress" THEN UNCHANGED task
          ELSE TryMove(f.task, {"in_progress"}, TargetOf(f.seen),
                       NoRun, NoTrigger)
       /\ InTasks(x, Left(f, TRUE))

BindFailed(x) ==
    /\ At(x, "bind_failed")
    /\ TryBind(th[x].task, inbound[th[x].trig], th[x].trig)
    /\ InTasks(x, [th[x] EXCEPT !.pc = "interrupt_task",
                                !.run = inbound[th[x].trig]])

(* The except clauses of execute, which knows run and trigger, and resume. *)
InterruptTask(x) ==
    /\ At(x, "interrupt_task")
    /\ LET f == th[x]
           mine == f.op = "execute" IN
       /\ TryMove(f.task, {"in_progress"}, "interrupted",
                  IF mine THEN f.run ELSE NoRun,
                  IF mine THEN f.trig ELSE NoTrigger)
       /\ InTasks(x, Left(f, FALSE))

-----------------------------------------------------------------------------
(* TaskService.resume, also for each interrupted task by recover.          *)

Resume(x, t) ==
    /\ Ready(x)
    /\ "resume" \in Operations
    /\ Start(x, "resume", "resume", t, NoTrigger)

ResumeLoad(x) ==
    /\ At(x, "resume")
    /\ LET f == th[x] IN
       Step(x, IF task[f.task].run = NoRun THEN Left(f, FALSE)
               ELSE [f EXCEPT !.pc = "resume_check",
                              !.run = task[f.task].run])

ResumeCheck(x) ==
    /\ At(x, "resume_check")
    /\ Step(x, IF status[th[x].run] = "waiting_approval"
               THEN Left(th[x], TRUE)
               ELSE [th[x] EXCEPT !.pc = "take"])

Take(x) ==
    /\ At(x, "take")
    /\ LET f == th[x]
           suspended == {"interrupted", "paused"} IN
       \/ /\ MoveTask(f.task, suspended, "in_progress")
          /\ InTasks(x, [f EXCEPT !.pc = "get_run", !.op = "resume"])
       \/ /\ task[f.task].status \notin suspended
          /\ Step(x, Left(f, TRUE))

-----------------------------------------------------------------------------
(* The runtime, in outline: resume_run, resume and the loop.               *)

Ended == {"completed", "failed", "cancelled"}

(* The gateway resumes an interrupted run itself, whoever bound it.        *)
ResumeRun(x, r) ==
    /\ Ready(x)
    /\ "run" \in Operations /\ status[r] = "interrupted"
    /\ Step(x, [Idle EXCEPT !.pc = "get_run", !.op = "run", !.run = r])

GetRun(x) ==
    /\ At(x, "get_run")
    /\ Step(x, IF status[th[x].run] \in Ended \cup {"waiting_approval"}
               THEN Returned(th[x], "completed")
               ELSE [th[x] EXCEPT !.pc = "read_checkpoint"])

ReadCheckpoint(x) ==
    /\ At(x, "read_checkpoint")
    /\ LET r == th[x].run IN
       Step(x, [th[x] EXCEPT !.pc =
                  IF checkpoint[r].state = "loop" THEN "claim_run"
                  ELSE IF verdict[r] = "pending" THEN "wait"
                  ELSE "approval"])

WaitAgain(x) ==
    /\ At(x, "wait")
    /\ TryTransition(x, th[x].run, "waiting_approval", NoToken)
    /\ InRuns(x, Returned(th[x], "pending"))

ClaimForWork(x, expected, f) ==
    LET r == th[x].run IN
    \/ /\ ClaimRun(Me(x), r, expected)
       /\ InRuns(x, [f EXCEPT !.token = token[r] + 1])
    \/ /\ status[r] \notin expected
       /\ Step(x, Returned(th[x], "in_progress"))

ClaimInterrupted(x) ==
    /\ At(x, "claim_run")
    /\ ClaimForWork(x, {"interrupted"},
                    [th[x] EXCEPT !.pc = "work", !.guarded = TRUE])

(* AssistantService.resume_approval, after the decision.                   *)
ResumeApproval(x, r) ==
    /\ Ready(x)
    /\ "approval" \in Operations /\ verdict[r] = "decided"
    /\ Step(x, [Idle EXCEPT !.pc = "approval", !.op = "approval", !.run = r])

CheckParked(x) ==
    /\ At(x, "approval")
    /\ Step(x, IF status[th[x].run] \in Ended
               THEN Returned(th[x], "completed")
               ELSE [th[x] EXCEPT !.pc = "claim_parked"])

ClaimParked(x) ==
    /\ At(x, "claim_parked")
    /\ ClaimForWork(x, {"waiting_approval", "interrupted"},
                    [th[x] EXCEPT !.pc = "approved"])

(* _resume_result: the decision is carried out and saved, or its outcome   *)
(* is uncertain and the run fails, or another thread has used it.  An      *)
(* exception here leaves the run running.                                  *)
CarryOut(x) ==
    /\ At(x, "approved")
    /\ LET f == th[x]
           r == f.run IN
       \/ /\ verdict[r] = "decided"
          /\ SaveCheckpoint(Me(x), r, f.token, "loop")
          /\ verdict' = [verdict EXCEPT ![r] = "none"]
          /\ Become(x, [f EXCEPT !.pc = "work"])
          /\ UNCHANGED <<task, trigger, processVars>>
       \/ /\ "approval" \in Faults /\ verdict[r] = "decided"
          /\ TryTransition(x, r, "failed", f.token)
          /\ InRuns(x, Returned(f, "completed"))
       \/ verdict[r] # "decided" /\ Step(x, Returned(f, "completed"))
       \/ ~Owns(Me(x), r, f.token) /\ Step(x, Raised(f))

Work(x) ==
    /\ At(x, "work")
    /\ LET f == th[x]
           r == f.run IN
       \/ /\ CompleteRun(Me(x), r, f.token, "answer")
          /\ InRuns(x, Returned(f, "completed"))
       \/ /\ "approval" \in Operations
          /\ SaveCheckpoint(Me(x), r, f.token, "approval")
          /\ verdict' = [verdict EXCEPT ![r] = "pending"]
          /\ Become(x, [f EXCEPT !.pc = "park"])
          /\ UNCHANGED <<task, trigger, processVars>>
       \/ /\ "work" \in Faults \/ ~Owns(Me(x), r, f.token)
          /\ Step(x, IF f.guarded THEN [f EXCEPT !.pc = "interrupt_run"]
                                  ELSE Raised(f))

Park(x) ==
    /\ At(x, "park")
    /\ TryTransition(x, th[x].run, "waiting_approval", th[x].token)
    /\ InRuns(x, Returned(th[x], "pending"))

InterruptRun(x) ==
    /\ At(x, "interrupt_run")
    /\ TryTransition(x, th[x].run, "interrupted", th[x].token)
    /\ InRuns(x, Raised(th[x]))

-----------------------------------------------------------------------------
(* pause, cancel and fail: the task first, then the run it was bound to    *)
(* when it was loaded.  "seen" is the task status that is set.             *)

Sources(target) == IF target = "paused" THEN {"in_progress", "interrupted"}
                   ELSE {"pending", "in_progress", "interrupted", "paused"}

RunTarget(target) == IF target = "paused" THEN "interrupted" ELSE target

Stop(x, t, target) ==
    /\ Ready(x)
    /\ CASE target = "paused" -> "pause" \in Operations
         [] target = "cancelled" -> "cancel" \in Operations
         [] target = "failed" -> "fail" \in Operations
    /\ task[t].status # "absent"
    /\ Step(x, [Idle EXCEPT !.pc = "stop_task", !.task = t, !.seen = target,
                            !.run = task[t].run])

StopTask(x) ==
    /\ At(x, "stop_task")
    /\ LET f == th[x] IN
       \/ /\ MoveTask(f.task, Sources(f.seen), f.seen)
          /\ InTasks(x, IF f.run = NoRun THEN Idle
                        ELSE [f EXCEPT !.pc = "stop_read"])
       \/ /\ task[f.task].status \notin Sources(f.seen)
          /\ Step(x, Idle)

(* _transition_run presents the token only if it sees the run running.     *)
StopRead(x) ==
    /\ At(x, "stop_read")
    /\ LET f == th[x] IN
       Step(x, CASE status[f.run] = "running" ->
                      [f EXCEPT !.pc = "stop_run", !.token = token[f.run]]
                 [] status[f.run] \in {"interrupted", "waiting_approval"} ->
                      [f EXCEPT !.pc = "stop_run"]
                 [] OTHER -> Idle)

StopRun(x) ==
    /\ At(x, "stop_run")
    /\ LET f == th[x] IN
       TryTransition(x, f.run, RunTarget(f.seen), f.token)
    /\ InRuns(x, Idle)

-----------------------------------------------------------------------------
(* reconcile_run: after a resumed approval, and for every run a starting   *)
(* process has interrupted.                                                *)

ReconcileAtStart(x, r) ==
    /\ At(x, "idle")
    /\ r \in todo[ProcessOf[x]]
    /\ \A y \in Thread : ProcessOf[y] = ProcessOf[x] => At(y, "idle")
    /\ Step(x, [Idle EXCEPT !.pc = "find", !.run = r])

Reconciled(x) ==
    /\ Become(x, Idle)
    /\ todo' = [todo EXCEPT ![ProcessOf[x]] = @ \ {th[x].run}]
    /\ UNCHANGED <<up, inc>>

Find(x) ==
    /\ At(x, "find")
    /\ \/ \E t \in Task :
            /\ task[t].run = th[x].run
            /\ Step(x, [th[x] EXCEPT !.pc = "compare", !.task = t,
                                     !.seen = task[t].status])
       \/ /\ \A t \in Task : task[t].run # th[x].run
          /\ Reconciled(x) /\ UNCHANGED databases

(* Mutant: the status of the run is copied.                                *)
TaskStatusOfRun(s) == s

(* Mutant: a run that waits for approval counts as completed.              *)
TaskStatusOfParked(s) ==
    CASE s = "waiting_approval" -> "completed"
      [] s = "running" -> "in_progress"
      [] OTHER -> s

TaskStatusOf(s) == CASE s = "waiting_approval" -> "paused"
                     [] s = "running" -> "in_progress"
                     [] OTHER -> s

Compare(x) ==
    /\ At(x, "compare")
    /\ LET target == TaskStatusOf(status[th[x].run]) IN
       IF th[x].seen = target THEN Reconciled(x) /\ UNCHANGED databases
       ELSE Step(x, [th[x] EXCEPT !.pc = "reconcile",
                                  !.trig = NoTrigger, !.op = target])

Reconcile(x) ==
    /\ At(x, "reconcile")
    /\ LET f == th[x] IN
       TryMove(f.task, {f.seen}, f.op, NoRun, NoTrigger)
    /\ Reconciled(x)
    /\ UNCHANGED <<sessionDb, trigger, verdict>>

-----------------------------------------------------------------------------
(* The scheduler.                                                          *)

ForTrigger(g, rest) ==
    [Idle EXCEPT !.pc = "load", !.op = "execute", !.sched = TRUE,
                 !.task = TaskOf[g], !.trig = g, !.rest = rest]

(* dispatch_due: the row of a slot is inserted once, whoever comes first.  *)
Dispatch(x, g) ==
    /\ Ready(x)
    /\ g \in Scheduled /\ trigger[g] = "absent"
    /\ trigger' = [trigger EXCEPT ![g] = "running"]
    /\ Become(x, ForTrigger(g, {}))
    /\ OnlyTrigger

(* recover reads the list once and executes it one by one, here in any     *)
(* order; an exception ends it.                                            *)
RecoverTriggers(x) ==
    /\ Ready(x)
    /\ "recover" \in Operations
    /\ LET list == {g \in Trigger :
                      trigger[g] \in {"running", "deferred", "interrupted"}} IN
       \E g \in list : Step(x, ForTrigger(g, list \ {g}))

TriggerStatusOf(s) ==
    CASE s = "pending" -> "deferred"
      [] s \in {"interrupted", "failed", "cancelled", "completed"} -> s
      [] OTHER -> "running"

ReadStatus(x) ==
    /\ At(x, "read_status")
    /\ LET f == th[x] IN
       Step(x, [f EXCEPT !.pc = "set_status",
                         !.seen = TriggerStatusOf(task[f.task].status)])

SetStatus(x) ==
    /\ th[x].pc \in {"set_status", "trigger_failed"}
    /\ LET f == th[x] IN
       trigger' = [trigger EXCEPT ![f.trig] =
                     IF f.pc = "set_status" THEN f.seen ELSE "interrupted"]
    /\ LET f == th[x] IN
       IF f.pc = "trigger_failed" \/ f.rest = {} THEN Become(x, Idle)
       ELSE \E g \in f.rest : Become(x, ForTrigger(g, f.rest \ {g}))
    /\ OnlyTrigger

-----------------------------------------------------------------------------
(* Users, processes, clocks and administrators.                            *)

Create(t) == CreateTask(t) /\ UNCHANGED <<sessionDb, trigger, verdict, th,
                                          processVars>>

Decide(r) ==
    /\ verdict[r] = "pending"
    /\ verdict' = [verdict EXCEPT ![r] = "decided"]
    /\ UNCHANGED <<task, sessionDb, trigger, th, processVars>>

Crash(p) ==
    /\ p \in up
    /\ up' = up \ {p}
    /\ th' = [x \in Thread |-> IF ProcessOf[x] = p THEN Idle ELSE th[x]]
    /\ todo' = [todo EXCEPT ![p] = {}]
    /\ UNCHANGED <<databases, inc>>

Restart(p) ==
    /\ p \notin up
    /\ inc[p] + 1 \in Incarnation
    /\ up' = up \cup {p}
    /\ inc' = [inc EXCEPT ![p] = @ + 1]
    /\ InterruptIncomplete(<<p, inc[p] + 1>>, {})
    /\ todo' = [todo EXCEPT ![p] = {r \in Run : status'[r] # status[r]}]
    /\ UNCHANGED <<task, trigger, verdict, th>>

Administer(r) ==
    /\ \E action \in Control : AdminControlRun(r, action)
    /\ UNCHANGED <<task, trigger, verdict, th, processVars>>

LeaseClock(r) ==
    LeaseExpires(r) /\ UNCHANGED <<task, trigger, verdict, th, processVars>>

Init ==
    /\ TaskInit
    /\ StoreInit
    /\ trigger = [g \in Trigger |-> "absent"]
    /\ verdict = [r \in Run |-> "none"]
    /\ th = [x \in Thread |-> Idle]
    /\ up = Process
    /\ inc = [p \in Process |-> 1]
    /\ todo = [p \in Process |-> {}]
    /\ finished = {}

ExecuteStep(x) ==
    \/ Load(x) \/ Reset(x) \/ Reload(x) \/ CheckRun(x) \/ Claim(x)
    \/ NewTurn(x) \/ TurnFails(x) \/ KnownTurn(x) \/ Bind(x)
    \/ BindResult(x) \/ Apply(x) \/ BindFailed(x) \/ InterruptTask(x)

RuntimeStep(x) ==
    \/ ResumeLoad(x) \/ ResumeCheck(x) \/ Take(x) \/ GetRun(x)
    \/ ReadCheckpoint(x) \/ WaitAgain(x) \/ ClaimInterrupted(x)
    \/ CheckParked(x) \/ ClaimParked(x) \/ CarryOut(x) \/ Work(x)
    \/ Park(x) \/ InterruptRun(x)

ServiceStep(x) ==
    \/ StopTask(x) \/ StopRead(x) \/ StopRun(x)
    \/ Find(x) \/ Compare(x) \/ Reconcile(x)
    \/ ReadStatus(x) \/ SetStatus(x)

Begin(x) ==
    \/ \E g \in Trigger : Execute(x, g) \/ Dispatch(x, g)
    \/ RecoverTriggers(x)
    \/ \E t \in Task : \/ Resume(x, t)
                       \/ \E target \in {"paused", "cancelled", "failed"} :
                            Stop(x, t, target)
    \/ \E r \in Run : ResumeApproval(x, r) \/ ResumeRun(x, r)
                      \/ ReconcileAtStart(x, r)

Environment ==
    \/ \E t \in Task : Create(t)
    \/ \E r \in Run : Decide(r) \/ Administer(r) \/ LeaseClock(r)
    \/ \E p \in Process : Crash(p) \/ Restart(p)

Next ==
    /\ \/ \E x \in Thread : /\ ProcessOf[x] \in up
                            /\ \/ ExecuteStep(x) \/ RuntimeStep(x)
                               \/ ServiceStep(x) \/ Begin(x)
       \/ Environment
    /\ finished' = finished \cup {t \in Task : task'[t].status = "completed"}

Spec == Init /\ [][Next]_vars

-----------------------------------------------------------------------------
(* Properties.                                                             *)

Labels == {"idle", "load", "reset", "reload", "check_run", "claim", "turn",
           "bind", "bind_result", "apply", "bind_failed", "interrupt_task",
           "resume", "resume_check", "take", "get_run", "read_checkpoint",
           "wait", "claim_run", "approval", "claim_parked", "approved",
           "work", "park", "interrupt_run", "stop_task", "stop_read",
           "stop_run", "find", "compare", "reconcile", "read_status",
           "set_status", "trigger_failed"}

TriggerStatus == {"absent", "running", "deferred", "interrupted", "failed",
                  "cancelled", "completed"}

(* Rows, triggers and frames have their types.                             *)
TaskTypeOK ==
    /\ StoreTypeOK
    /\ task \in [Task -> Row]
    /\ trigger \in [Trigger -> TriggerStatus]
    /\ verdict \in [Run -> {"none", "pending", "decided"}]
    /\ \A x \in Thread : th[x].pc \in Labels
    /\ up \subseteq Process
    /\ todo \in [Process -> SUBSET Run]

(* The task and the session databases agree: the run a task is bound to is *)
(* the run that its trigger made, through failures, resumes and resets.    *)
BoundRunAnswersTrigger ==
    \A t \in Task :
        task[t].run # NoRun =>
            /\ task[t].trigger # NoTrigger
            /\ TaskOf[task[t].trigger] = t
            /\ inbound[task[t].trigger] = task[t].run

(* A run is begun for a task only after each of its dependencies has been  *)
(* completed, on whatever path the task came to be executed.               *)
DependenciesComeFirst ==
    \A g \in Trigger :
        inbound[g] # NoRun => Deps[TaskOf[g]] \subseteq finished

RunsOf(t) == {inbound[g] : g \in {h \in Trigger : TaskOf[h] = t}} \ {NoRun}

(* execute and dispatch_due: the next slot of a recurring task begins its  *)
(* run only after the run of the slot before has ended; one that is        *)
(* interrupted or waits for an approval is not over, whatever has failed,  *)
(* been paused or been reconciled since.                                   *)
OneRunAtATime ==
    \A t \in Task : \A r, s \in RunsOf(t) :
        status[r] \notin Ended /\ status[s] \notin Ended => r = s

(* A live run is never forgotten: a task gives up the run it is bound to   *)
(* only after that run has ended.                                          *)
NoLiveRunIsDropped ==
    [][\A t \in Task :
         LET r == task[t].run IN
         r # NoRun /\ task'[t].run # r => status[r] \in Ended]_vars
=============================================================================
