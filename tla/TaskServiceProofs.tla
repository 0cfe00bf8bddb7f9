-------------------------- MODULE TaskServiceProofs --------------------------
(***************************************************************************)
(* What holds of tasks, triggers and their runs for any number of threads, *)
(* processes, tasks, triggers and crashes: they use the session store as   *)
(* its contract says, and no run is begun before the dependencies of its   *)
(* task.  And what holds, for as many of them, as long as no two threads   *)
(* work on one task at a time and no run is taken from the thread that     *)
(* carries out its approval: a task stays bound to the run of its trigger, *)
(* and has one live run.  A thread that is alone meets both conditions.    *)
(***************************************************************************)
EXTENDS TaskService, TLAPS

Store == INSTANCE RunStoreProofs WITH Message <- Trigger, Call <- {},
                                      Tool <- {}, State <- {"loop", "approval"},
                                      Text <- {"answer"}

-----------------------------------------------------------------------------
(* The inductive invariant for any number of threads.                      *)

Caller == {"execute", "resume", "approval", "run"}

(* What is read from a task or a trigger, or told by the runtime.          *)
Told == {"none"} \cup TaskStatus \cup TriggerStatus

Frame == [pc : Labels, op : {"none"} \cup Caller \cup TaskStatus,
          sched : BOOLEAN, trig : Trigger \cup {NoTrigger},
          task : Task \cup {"none"}, run : Run \cup {NoRun},
          token : Token \cup {NoToken}, seen : Told, guarded : BOOLEAN,
          rest : SUBSET Trigger]

WorldTypeOK ==
    /\ task \in [Task -> Row]
    /\ trigger \in [Trigger -> TriggerStatus]
    /\ verdict \in [Run -> {"none", "pending", "decided"}]
    /\ th \in [Thread -> Frame]
    /\ up \subseteq Process
    /\ inc \in [Process -> Incarnation]
    /\ todo \in [Process -> SUBSET Run]
    /\ finished \subseteq Task

(* A task that was claimed had its dependencies completed.  One that was   *)
(* not can still be cancelled or failed, but not bound.                    *)
Begun == {"in_progress", "interrupted", "paused", "completed"}

Prepared(t, done) == Deps[t] \subseteq done

RowFits(t, row, done) ==
    /\ row.status \in Begun \/ row.run # NoRun => Prepared(t, done)
    /\ row.status = "completed" => t \in done

RowsFit == \A t \in Task : RowFits(t, task[t], finished)

(* On the way to a turn; in the runtime; in resume; in stop; in            *)
(* reconciliation; back in the scheduler.                                  *)
ExecuteLabels == {"load", "reset", "reload", "check_run", "claim", "turn",
                  "bind", "bind_result", "bind_failed"}
RuntimeLabels == {"get_run", "read_checkpoint", "wait", "claim_run",
                  "approval", "claim_parked", "approved", "work", "park",
                  "interrupt_run"}
ResumeLabels == {"resume", "resume_check", "take"}
StopLabels == {"stop_task", "stop_read", "stop_run"}
ReconcileLabels == {"compare", "reconcile"}
SchedulerLabels == {"read_status", "set_status", "trigger_failed"}

ForItsTrigger(f) == f.trig \in Trigger /\ f.task = TaskOf[f.trig]

(* What the label of a frame says of its locals, and of what has been      *)
(* finished; no step of another thread can make it false.                  *)
FrameFits(f, done) ==
    /\ f.sched \/ f.pc \in SchedulerLabels => ForItsTrigger(f)
    /\ f.pc \in ExecuteLabels => f.op = "execute" /\ ForItsTrigger(f)
    /\ f.pc \in ResumeLabels \cup {"apply", "interrupt_task"} =>
         f.op \in {"execute", "resume"}
    /\ f.pc \in RuntimeLabels => f.op \in Caller
    /\ f.op = "execute" => ForItsTrigger(f)
    /\ f.op \in {"approval", "run"} => ~f.sched
    /\ f.pc \in {"find", "compare"} =>
         ~f.sched /\ f.op \in {"none", "approval"}
    /\ f.op = "resume" \/ f.pc \in StopLabels \cup ReconcileLabels =>
         f.task \in Task
    /\ f.pc \in RuntimeLabels \cup {"check_run", "bind", "resume_check",
                                    "take", "stop_read", "stop_run", "find",
                                    "compare", "reconcile"}
         => f.run \in Run
    /\ f.pc \in {"bind", "work", "approved", "park", "interrupt_run"} =>
         f.token \in Token
    /\ f.pc \in {"bind_result", "apply"} =>
         f.seen \in {"in_progress", "completed", "pending"}
    /\ f.pc \in StopLabels => f.seen \in {"paused", "cancelled", "failed"}
    /\ f.pc = "set_status" => f.seen \in TriggerStatus
    /\ f.pc = "reconcile" => ~f.sched /\ f.op \in TaskStatus
    /\ f.pc \in {"turn", "compare", "reconcile"} =>
         Prepared(f.task, done)

FramesFit == \A x \in Thread : FrameFits(th[x], finished)

ServiceInv ==
    /\ Store!StoreInv
    /\ WorldTypeOK
    /\ RowsFit
    /\ DependenciesComeFirst
    /\ FramesFit

-----------------------------------------------------------------------------
(* The inductive invariant when no two threads work on one task.           *)

(* Nothing runs in a process that is down.                                 *)
DownIsIdle == \A x \in Thread : ProcessOf[x] \notin up => th[x] = Idle

FreshTasksAreUnbound ==
    \A t \in Task :
        task[t].status \in {"absent", "pending"} => task[t].run = NoRun

(* An approval is asked for exactly in the checkpoints that wait for one.  *)
VerdictsFit ==
    \A r \in Run :
        /\ status[r] = "absent" => verdict[r] = "none"
        /\ status[r] # "absent" =>
             (verdict[r] = "none" <=> checkpoint[r].state = "loop")

(* The run of a trigger of task t, which has not ended.                    *)
LiveIn(t, g, msgs, runs) == /\ TaskOf[g] = t
                            /\ msgs[g] # NoRun
                            /\ runs[msgs[g]] \notin Ended

LiveOf(t, g) == LiveIn(t, g, inbound, status)

(* A live run is its task's, or its task is not bound; a task that is new  *)
(* or completed has none.                                                  *)
LiveRunFits(t, g, row) ==
    LiveOf(t, g) => /\ row.run \in {NoRun, inbound[g]}
                    /\ row.status \notin {"absent", "pending", "completed"}

LiveRunsAreBound ==
    \A t \in Task, g \in Trigger : LiveRunFits(t, g, task[t])

OneLiveRun ==
    \A t \in Task : \A g, h \in Trigger :
        LiveOf(t, g) /\ LiveOf(t, h) => g = h

DataInv ==
    /\ BoundRunAnswersTrigger
    /\ FreshTasksAreUnbound
    /\ VerdictsFit
    /\ LiveRunsAreBound
    /\ OneLiveRun

(* What the label of a frame says of the databases; a step of a thread     *)
(* that works on other tasks does not make it false.                       *)
BindLabels == {"bind", "bind_result", "bind_failed"}

CallerFits(f, rows, runs, msgs, verdicts) ==
    LET row == rows[f.task] IN
    /\ f.pc \in BindLabels \cup {"turn", "apply"} => row.status = "in_progress"
    /\ f.pc \in {"turn", "bind"} => row.run = NoRun
    /\ f.pc = "turn" =>
         \A g \in Trigger : ~LiveIn(f.task, g, msgs, runs)
    /\ f.pc \in BindLabels =>
         \A g \in Trigger : LiveIn(f.task, g, msgs, runs) => g = f.trig
    /\ f.pc = "bind" => f.run = msgs[f.trig]
    /\ f.pc \in RuntimeLabels => runs[f.run] # "absent"
    /\ f.pc \in RuntimeLabels /\ f.op \in {"execute", "resume"} =>
         row.status = "in_progress" /\ row.run = f.run
    /\ f.pc \in RuntimeLabels /\ f.op = "execute" => f.run = msgs[f.trig]
    /\ f.pc \in {"bind_result", "bind_failed"} =>
         row.run \in {NoRun, msgs[f.trig]}
    /\ f.pc = "bind_result" =>
         /\ msgs[f.trig] # NoRun
         /\ f.seen = "completed" => runs[msgs[f.trig]] \in Ended
    /\ f.pc = "apply" =>
         /\ row.run # NoRun
         /\ f.seen = "completed" => runs[row.run] \in Ended
    /\ f.pc = "interrupt_task" /\ f.op = "execute" =>
         /\ row.status = "in_progress"
         /\ row.run = f.run /\ f.run = msgs[f.trig]
    /\ f.pc \in {"check_run", "resume_check", "take", "compare", "reconcile"}
         => row.run = f.run
    /\ f.pc \in {"take", "get_run"} => runs[f.run] # "waiting_approval"
    /\ f.pc \in {"approval", "claim_parked", "approved"} =>
         verdicts[f.run] = "decided"
    /\ f.pc = "compare" => row.status = f.seen
    /\ f.pc = "reconcile" => /\ f.op \notin {"absent", "pending"}
                             /\ f.op = "completed" => runs[f.run] \in Ended

CallerFramesFit ==
    \A x \in Thread : CallerFits(th[x], task, status, inbound, verdict)

CallerInv ==
    /\ DownIsIdle
    /\ DataInv
    /\ CallerFramesFit

(* The tasks a thread works on: the one it has loaded, and the one whose   *)
(* run it has in hand.                                                     *)
Concerns(f) ==
    {t \in Task : /\ f.pc # "idle"
                  /\ \/ f.task = t
                     \/ \E g \in Trigger : /\ TaskOf[g] = t
                                          /\ inbound[g] = f.run
                                          /\ inbound[g] # NoRun}

TasksApart ==
    \A x, y \in Thread : x # y => Concerns(th[x]) \cap Concerns(th[y]) = {}

(* A thread that carries out an approval owns the run meanwhile.           *)
OwnsParked(f, x) == f.pc = "approved" => Owns(Me(x), f.run, f.token)

(* No two threads work on one task, and no run is taken from a thread      *)
(* that carries out its approval.                                          *)
Undisturbed == /\ TasksApart
               /\ \A x \in Thread : OwnsParked(th[x], x)

(* Failed runs, which have ended, are not set going again.                 *)
NoRecovery == "recover" \notin Control

(* One thread calls the services, and no administrator interferes.         *)
OneCaller ==
    /\ \A x, y \in Thread : x = y
    /\ \A x \in Thread, p \in Process : p = ProcessOf[x]
    /\ Control = {}

-----------------------------------------------------------------------------
(* The session store under the services is the store of RunStoreProofs.    *)
LEMMA SameStore ==
    /\ StoreInit <=> Store!StoreInit
    /\ StoreTypeOK <=> Store!StoreTypeOK
    /\ [StoreNext]_storeVars <=> [Store!StoreNext]_(Store!storeVars)
<1>1. /\ StoreInit <=> Store!StoreInit
      /\ StoreTypeOK <=> Store!StoreTypeOK
    BY DEF StoreInit, Store!StoreInit, NoToken, Store!NoToken, NoCheckpoint,
           Store!NoCheckpoint, NoExecution, Store!NoExecution, StoreTypeOK,
           Store!StoreTypeOK, Store!RunStatus, RunStatus, Store!Lease,
           Lease, Store!Token, Token, Store!Checkpoint, Checkpoint,
           Store!Execution, Execution, Store!ToolStatus, ToolStatus
<1>2. StoreNext <=> Store!StoreNext
    <2>1. ASSUME NEW p \in Owner, NEW r \in Run
          PROVE  RunStep(p, r) <=> Store!RunStep(p, r)
      BY DEF RunStep, Store!RunStep, BeginInbound, Store!BeginInbound,
             WriteInbound, Store!WriteInbound, ClaimRun, Store!ClaimRun,
             TransitionRun, Store!TransitionRun, MayTransition,
             Store!MayTransition, Transitions, Store!Transitions,
             TransitionTargets, Store!TransitionTargets, ClaimableFrom,
             Store!ClaimableFrom, SaveCheckpoint, Store!SaveCheckpoint,
             WriteCheckpoint, Store!WriteCheckpoint, CompleteRun,
             Store!CompleteRun, WriteCompletion, Store!WriteCompletion,
             RenewRun, Store!RenewRun, Owns, Store!Owns, Token, Store!Token,
             NoToken, Store!NoToken, runVars, Store!runVars, inboundVars,
             Store!inboundVars
    <2>2. ASSUME NEW p \in Owner, NEW r \in Run
          PROVE  ~ToolStep(p, r) /\ ~Store!ToolStep(p, r)
      BY DEF ToolStep, Store!ToolStep
    <2>3. ASSUME NEW r \in Run PROVE AdminStep(r) <=> Store!AdminStep(r)
      BY DEF AdminStep, Store!AdminStep, AdminControlRun,
             Store!AdminControlRun, ControlAction, Store!ControlAction,
             ControlSources, Store!ControlSources, ControlTarget,
             Store!ControlTarget, inboundVars, Store!inboundVars
    <2>4. ASSUME NEW p \in Owner, NEW locked \in SUBSET Run
          PROVE  InterruptIncomplete(p, locked)
                   <=> Store!InterruptIncomplete(p, locked)
      BY DEF InterruptIncomplete, Store!InterruptIncomplete, Abandoned,
             Store!Abandoned, inboundVars, Store!inboundVars
    <2>5. ASSUME NEW r \in Run PROVE LeaseExpires(r) <=> Store!LeaseExpires(r)
      BY DEF LeaseExpires, Store!LeaseExpires, inboundVars,
             Store!inboundVars
    <2>6. QED
      BY <2>1, <2>2, <2>3, <2>4, <2>5 DEF StoreNext, Store!StoreNext
<1>3. UNCHANGED storeVars <=> UNCHANGED Store!storeVars
    BY DEF storeVars, Store!storeVars, runVars, Store!runVars, inboundVars,
           Store!inboundVars
<1>4. QED
    BY <1>1, <1>2, <1>3

LEMMA StoreKeepsInv ==
    ASSUME Store!StoreInv, [StoreNext]_storeVars
    PROVE  Store!StoreInv'
<1>1. [Store!StoreNext]_(Store!storeVars)
    BY SameStore
<1>2. QED
    BY <1>1, SessionsAssumption, Store!StepKeepsInv

-----------------------------------------------------------------------------
(* Frames.                                                                 *)

LEMMA IdleFits == Idle \in Frame /\ \A done : FrameFits(Idle, done)
    BY DEF Idle, Frame, Labels, Caller, Told, NoToken, FrameFits,
           ExecuteLabels, RuntimeLabels, ResumeLabels, StopLabels,
           ReconcileLabels, SchedulerLabels

LEMMA FrameStaysFit ==
    ASSUME NEW f, NEW done, NEW more, FrameFits(f, done), done \subseteq more
    PROVE  FrameFits(f, more)
    BY DEF FrameFits, Prepared

(* The frames in which execute, resume or the runtime comes back.          *)
LEMMA LeftFits ==
    ASSUME NEW f \in Frame, NEW done, FrameFits(f, done), NEW ok \in BOOLEAN
    PROVE  Left(f, ok) \in Frame /\ FrameFits(Left(f, ok), done)
<1>1. CASE ~f.sched
    BY <1>1, IdleFits DEF Left
<1>2. CASE f.sched
    <2> DEFINE label == IF ok THEN "read_status" ELSE "trigger_failed"
    <2>1. Left(f, ok) = [pc |-> label, op |-> "none", sched |-> TRUE,
                         trig |-> f.trig, task |-> f.task, run |-> NoRun,
                         token |-> NoToken, seen |-> "none", guarded |-> FALSE,
                         rest |-> f.rest]
        BY <1>2 DEF Left, Idle
    <2>2. label \in {"read_status", "trigger_failed"}
        OBVIOUS
    <2>3. ForItsTrigger(f)
        BY <1>2 DEF FrameFits
    <2> HIDE DEF label
    <2>4. Left(f, ok) \in Frame
        BY <2>1, <2>2 DEF Frame, Labels, Told, NoToken
    <2>5. FrameFits(Left(f, ok), done)
        BY <2>1, <2>2, <2>3
           DEF FrameFits, ForItsTrigger, ExecuteLabels, RuntimeLabels,
               ResumeLabels, StopLabels, ReconcileLabels
    <2>6. QED
        BY <2>4, <2>5
<1>3. QED
    BY <1>1, <1>2 DEF Frame

LEMMA ReturnedFits ==
    ASSUME NEW f \in Frame, NEW done, FrameFits(f, done),
           f.pc \in RuntimeLabels \cup {"turn"},
           NEW out \in {"in_progress", "completed", "pending"}
    PROVE  Returned(f, out) \in Frame /\ FrameFits(Returned(f, out), done)
<1> DEFINE g == Returned(f, out)
<1>1. /\ f.op \in Caller
      /\ f.op = "approval" => f.run \in Run /\ ~f.sched
      /\ f.sched \/ f.op = "execute" => ForItsTrigger(f)
      /\ f.op = "resume" => f.task \in Task
    BY DEF FrameFits, ExecuteLabels, RuntimeLabels, Caller
<1>2. out \in Told
    BY DEF Told, TaskStatus
<1>3. CASE f.op = "run"
    BY <1>3, IdleFits DEF Returned
<1>4. CASE f.op = "execute"
    <2>1. g = [f EXCEPT !.seen = out, !.token = NoToken, !.guarded = FALSE,
                        !.pc = "bind_result", !.run = NoRun]
        BY <1>4 DEF Returned
    <2>2. g \in Frame
        <3>1. "bind_result" \in Labels
            BY DEF Labels
        <3>2. QED
            BY <1>2, <2>1, <3>1 DEF Frame, NoToken
    <2>3. /\ g.pc = "bind_result" /\ g.op = "execute" /\ g.seen = out
          /\ g.sched = f.sched /\ g.trig = f.trig /\ g.task = f.task
        BY <1>4, <2>1 DEF Frame
    <2>4. QED
        BY <1>1, <1>4, <2>2, <2>3
           DEF FrameFits, ForItsTrigger, ExecuteLabels, RuntimeLabels,
               ResumeLabels, StopLabels, ReconcileLabels, SchedulerLabels
<1>5. CASE f.op = "resume"
    <2>1. g = [f EXCEPT !.seen = out, !.token = NoToken, !.guarded = FALSE,
                        !.pc = "apply", !.run = NoRun]
        BY <1>5 DEF Returned
    <2>2. g \in Frame
        <3>1. "apply" \in Labels
            BY DEF Labels
        <3>2. QED
            BY <1>2, <2>1, <3>1 DEF Frame, NoToken
    <2>3. /\ g.pc = "apply" /\ g.op = "resume" /\ g.seen = out
          /\ g.sched = f.sched /\ g.trig = f.trig /\ g.task = f.task
        BY <1>5, <2>1 DEF Frame
    <2>4. QED
        BY <1>1, <1>5, <2>2, <2>3
           DEF FrameFits, ForItsTrigger, ExecuteLabels, RuntimeLabels,
               ResumeLabels, StopLabels, ReconcileLabels, SchedulerLabels
<1>6. CASE f.op = "approval"
    <2>1. g = [f EXCEPT !.seen = "none", !.token = NoToken, !.guarded = FALSE,
                        !.pc = "find"]
        BY <1>6 DEF Returned
    <2>2. g \in Frame
        <3>1. "find" \in Labels /\ "none" \in Told
            BY DEF Labels, Told
        <3>2. QED
            BY <2>1, <3>1 DEF Frame, NoToken
    <2>3. /\ g.pc = "find" /\ g.op = "approval" /\ g.run = f.run
          /\ g.sched = f.sched /\ g.trig = f.trig /\ g.task = f.task
        BY <1>6, <2>1 DEF Frame
    <2>4. QED
        BY <1>1, <1>6, <2>2, <2>3
           DEF FrameFits, ForItsTrigger, ExecuteLabels, RuntimeLabels,
               ResumeLabels, StopLabels, ReconcileLabels, SchedulerLabels
<1>7. QED
    BY <1>1, <1>3, <1>4, <1>5, <1>6 DEF Caller

LEMMA RaisedFits ==
    ASSUME NEW f \in Frame, NEW done, FrameFits(f, done)
    PROVE  Raised(f) \in Frame /\ FrameFits(Raised(f), done)
<1> DEFINE g == Raised(f)
<1>1. /\ f.sched \/ f.op = "execute" => ForItsTrigger(f)
      /\ f.op = "resume" => f.task \in Task
    BY DEF FrameFits
<1>2. CASE f.op \notin {"execute", "resume"}
    BY <1>2, IdleFits DEF Raised
<1>3. CASE f.op = "execute"
    <2>1. g = [f EXCEPT !.token = NoToken, !.guarded = FALSE,
                        !.pc = "bind_failed", !.run = NoRun]
        BY <1>3 DEF Raised
    <2>2. g \in Frame
        <3>1. "bind_failed" \in Labels
            BY DEF Labels
        <3>2. QED
            BY <2>1, <3>1 DEF Frame, NoToken
    <2>3. /\ g.pc = "bind_failed" /\ g.op = "execute"
          /\ g.sched = f.sched /\ g.trig = f.trig /\ g.task = f.task
        BY <1>3, <2>1 DEF Frame
    <2>4. QED
        BY <1>1, <1>3, <2>2, <2>3
           DEF FrameFits, ForItsTrigger, ExecuteLabels, RuntimeLabels,
               ResumeLabels, StopLabels, ReconcileLabels, SchedulerLabels
<1>4. CASE f.op = "resume"
    <2>1. g = [f EXCEPT !.token = NoToken, !.guarded = FALSE,
                        !.pc = "interrupt_task", !.run = NoRun]
        BY <1>4 DEF Raised
    <2>2. g \in Frame
        <3>1. "interrupt_task" \in Labels
            BY DEF Labels
        <3>2. QED
            BY <2>1, <3>1 DEF Frame, NoToken
    <2>3. /\ g.pc = "interrupt_task" /\ g.op = "resume"
          /\ g.sched = f.sched /\ g.trig = f.trig /\ g.task = f.task
        BY <1>4, <2>1 DEF Frame
    <2>4. QED
        BY <1>1, <1>4, <2>2, <2>3
           DEF FrameFits, ForItsTrigger, ExecuteLabels, RuntimeLabels,
               ResumeLabels, StopLabels, ReconcileLabels, SchedulerLabels
<1>5. QED
    BY <1>2, <1>3, <1>4

-----------------------------------------------------------------------------
(* What a step may do with the databases, and that it keeps the invariant. *)
Finishing ==
    finished' = finished \cup {t \in Task : task'[t].status = "completed"}

RowsStayFit ==
    \A t \in Task :
        task'[t].status \in Begun \/ task'[t].run # NoRun =>
            Prepared(t, finished)

DataStep ==
    /\ [StoreNext]_storeVars
    /\ task' \in [Task -> Row]
    /\ RowsStayFit
    /\ trigger' \in [Trigger -> TriggerStatus]
    /\ verdict' \in [Run -> {"none", "pending", "decided"}]
    /\ up' \subseteq Process
    /\ inc' \in [Process -> Incarnation]
    /\ todo' \in [Process -> SUBSET Run]
    /\ \A g \in Trigger :
         inbound'[g] # NoRun =>
             inbound[g] # NoRun \/ Prepared(TaskOf[g], finished)

SoundStep == ServiceInv' /\ [StoreNext]_storeVars

LEMMA DataStepIsSound ==
    ASSUME ServiceInv, Finishing, DataStep, th' \in [Thread -> Frame],
           \A x \in Thread : th'[x] = th[x] \/ FrameFits(th'[x], finished)
    PROVE  SoundStep
<1>1. finished \subseteq finished' /\ finished' \subseteq Task
    BY DEF Finishing, ServiceInv, WorldTypeOK
<1>2. Store!StoreInv'
    BY StoreKeepsInv DEF ServiceInv, DataStep
<1>3. WorldTypeOK'
    BY <1>1 DEF DataStep, WorldTypeOK
<1>4. RowsFit'
    BY <1>1 DEF DataStep, RowsStayFit, RowsFit, RowFits, Finishing, Prepared
<1>5. DependenciesComeFirst'
    BY <1>1 DEF DataStep, ServiceInv, DependenciesComeFirst, Prepared
<1>6. FramesFit'
    <2> SUFFICES ASSUME NEW x \in Thread
                 PROVE  FrameFits(th'[x], finished')
        BY DEF FramesFit
    <2>1. FrameFits(th'[x], finished)
        BY DEF ServiceInv, FramesFit
    <2>2. QED
        BY <1>1, <2>1, FrameStaysFit
<1>7. QED
    BY <1>2, <1>3, <1>4, <1>5, <1>6 DEF SoundStep, ServiceInv, DataStep

LEMMA ThreadStepIsSound ==
    ASSUME ServiceInv, Finishing, DataStep, NEW x \in Thread,
           NEW f \in Frame, FrameFits(f, finished), Become(x, f)
    PROVE  SoundStep
    BY DataStepIsSound DEF ServiceInv, WorldTypeOK, Become

LEMMA ThreadFacts ==
    ASSUME ServiceInv, NEW x \in Thread
    PROVE  /\ th[x] \in Frame
           /\ FrameFits(th[x], finished)
           /\ Me(x) \in Owner
           /\ ProcessOf[x] \in Process
    BY TaskServiceAssumption
       DEF ServiceInv, WorldTypeOK, FramesFit, Me, Owner

(* A step that leaves the databases alone.                                 *)
LEMMA StepIsSound ==
    ASSUME ServiceInv, Finishing, NEW x \in Thread,
           NEW f \in Frame, FrameFits(f, finished), Step(x, f)
    PROVE  SoundStep
<1>1. DataStep
    BY DEF Step, OnlyThread, databases, sessionDb, storeVars, runVars,
           inboundVars, processVars, ServiceInv, WorldTypeOK, DataStep,
           RowsStayFit, RowsFit, RowFits
<1>2. QED
    BY <1>1, ThreadStepIsSound DEF Step

(* A step on one task.                                                     *)
TaskStep ==
    /\ task' \in [Task -> Row]
    /\ RowsStayFit

LEMMA InTasksIsSound ==
    ASSUME ServiceInv, Finishing, TaskStep, NEW x \in Thread,
           NEW f \in Frame, FrameFits(f, finished), InTasks(x, f)
    PROVE  SoundStep
<1>1. DataStep
    BY DEF InTasks, OnlyTask, TaskStep, sessionDb, storeVars, runVars,
           inboundVars, processVars, ServiceInv, WorldTypeOK, DataStep
<1>2. QED
    BY <1>1, ThreadStepIsSound DEF InTasks

LEMMA RowsFitNow == ASSUME ServiceInv PROVE UNCHANGED task => TaskStep
    BY DEF ServiceInv, WorldTypeOK, RowsFit, RowFits, TaskStep, RowsStayFit

(* A step on one run that begins none.                                     *)
LEMMA InRunsIsSound ==
    ASSUME ServiceInv, Finishing, [StoreNext]_storeVars, UNCHANGED inbound,
           NEW x \in Thread, NEW f \in Frame, FrameFits(f, finished),
           InRuns(x, f)
    PROVE  SoundStep
<1>1. DataStep
    BY DEF InRuns, OnlyRuns, processVars, ServiceInv, WorldTypeOK, DataStep,
           RowsStayFit, RowsFit, RowFits
<1>2. QED
    BY <1>1, ThreadStepIsSound DEF InRuns

-----------------------------------------------------------------------------
(* Steps of the task table.                                                *)

LEMMA TransitionIsTaskStep ==
    ASSUME ServiceInv, NEW t \in Task, NEW expected, NEW to \in TaskStatus,
           NEW r \in Run \cup {NoRun}, NEW g \in Trigger \cup {NoTrigger},
           Prepared(t, finished) \/ (to \notin Begun /\ r = NoRun),
           TransitionTask(t, expected, to, r, g)
    PROVE  TaskStep
<1>1. /\ task \in [Task -> Row]
      /\ \A u \in Task : RowFits(u, task[u], finished)
    BY DEF ServiceInv, WorldTypeOK, RowsFit
<1>2. task' \in [Task -> Row]
    <2>1. task[t] \in Row
        BY <1>1
    <2> DEFINE row == [status |-> to,
                       run |-> IF r = NoRun THEN task[t].run ELSE r,
                       trigger |-> IF g = NoTrigger THEN task[t].trigger ELSE g]
    <2>2. row \in Row
        BY <2>1 DEF Row
    <2>3. task' = [task EXCEPT ![t] = row]
        BY DEF TransitionTask
    <2> HIDE DEF row
    <2>4. QED
        BY <1>1, <2>2, <2>3
<1>3. /\ \A u \in Task \ {t} : task'[u] = task[u]
      /\ task'[t].status = to
      /\ r = NoRun => task'[t].run = task[t].run
    BY <1>1 DEF TransitionTask, Row
<1>4. RowsStayFit
    BY <1>1, <1>3 DEF RowsStayFit, RowFits
<1>5. QED
    BY <1>2, <1>4 DEF TaskStep

LEMMA TryMoveIsTaskStep ==
    ASSUME ServiceInv, NEW t \in Task, NEW expected, NEW to \in TaskStatus,
           NEW r \in Run \cup {NoRun}, NEW g \in Trigger \cup {NoTrigger},
           task[t].status \in expected => Prepared(t, finished),
           TryMove(t, expected, to, r, g)
    PROVE  TaskStep
<1>1. CASE TransitionTask(t, expected, to, r, g)
    BY <1>1, TransitionIsTaskStep DEF TransitionTask
<1>2. CASE UNCHANGED task
    BY <1>2, RowsFitNow
<1>3. QED
    BY <1>1, <1>2 DEF TryMove

LEMMA BegunIsPrepared ==
    ASSUME ServiceInv, NEW t \in Task, task[t].status \in Begun
    PROVE  Prepared(t, finished)
    BY DEF ServiceInv, RowsFit, RowFits

LEMMA TryBindIsTaskStep ==
    ASSUME ServiceInv, NEW t \in Task, NEW r \in Run \cup {NoRun},
           NEW g \in Trigger, TryBind(t, r, g)
    PROVE  TaskStep
<1>1. CASE UNCHANGED task
    BY <1>1, RowsFitNow
<1>2. CASE BindRun(t, r, g)
    <2>1. /\ task \in [Task -> Row]
          /\ \A u \in Task : RowFits(u, task[u], finished)
        BY DEF ServiceInv, WorldTypeOK, RowsFit
    <2>2. task' \in [Task -> Row]
        BY <1>2, <2>1 DEF BindRun, Row
    <2>3. \A u \in Task \ {t} : task'[u] = task[u]
        BY <1>2, <2>1 DEF BindRun
    <2>4. Prepared(t, finished)
        BY <1>2, BegunIsPrepared DEF BindRun, MayBind, Begun
    <2>5. QED
        BY <2>1, <2>2, <2>3, <2>4 DEF TaskStep, RowsStayFit, RowFits
<1>3. QED
    BY <1>1, <1>2 DEF TryBind

LEMMA RowFacts ==
    ASSUME ServiceInv, NEW t \in Task
    PROVE  /\ task[t] \in Row
           /\ task[t].status \in TaskStatus
           /\ task[t].run \in Run \cup {NoRun}
    BY DEF ServiceInv, WorldTypeOK, Row

LEMMA StoreFacts ==
    ASSUME ServiceInv
    PROVE  /\ StoreTypeOK
           /\ \A r \in Run : status[r] \in RunStatus
           /\ \A g \in Trigger : inbound[g] \in Run \cup {NoRun}
           /\ \A r \in Run : token[r] \in Nat
<1>1. StoreTypeOK
    BY SameStore DEF ServiceInv, Store!StoreInv
<1>2. QED
    BY <1>1, SessionsAssumption DEF StoreTypeOK, Token, NoToken

-----------------------------------------------------------------------------
(* TaskService.execute.                                                    *)

LEMMA DecidedFits ==
    ASSUME ServiceInv, NEW f \in Frame, FrameFits(f, finished),
           f.pc \in {"load", "reload"}
    PROVE  Decided(f) \in Frame /\ FrameFits(Decided(f), finished)
<1>1. ForItsTrigger(f) /\ f.op = "execute" /\ f.task \in Task
    BY TaskServiceAssumption DEF FrameFits, ExecuteLabels, ForItsTrigger
<1>2. task[f.task].run \in Run \cup {NoRun}
    BY <1>1, RowFacts
<1>3. Decided(f) \in {[f EXCEPT !.pc = "check_run", !.run = task[f.task].run],
                      [f EXCEPT !.pc = "claim"]}
    BY DEF Decided
<1>4. CASE Decided(f) = [f EXCEPT !.pc = "claim"]
    BY <1>1, <1>4
       DEF Frame, Labels, FrameFits, ForItsTrigger, ExecuteLabels,
           RuntimeLabels, ResumeLabels, StopLabels, ReconcileLabels,
           SchedulerLabels
<1>5. CASE Decided(f) # [f EXCEPT !.pc = "claim"]
    <2>1. PICK r \in Run :
            Decided(f) = [f EXCEPT !.pc = "check_run", !.run = r]
        BY <1>2, <1>5 DEF Decided
    <2> DEFINE g == [f EXCEPT !.pc = "check_run", !.run = r]
    <2>2. g \in Frame
        <3>1. "check_run" \in Labels
            BY DEF Labels
        <3>2. QED
            BY <3>1 DEF Frame
    <2>3. /\ g.pc = "check_run" /\ g.op = "execute" /\ g.run = r
          /\ g.trig = f.trig /\ g.task = f.task
        BY <1>1 DEF Frame
    <2> HIDE DEF g
    <2>4. FrameFits(g, finished)
        BY <1>1, <2>3
           DEF FrameFits, ForItsTrigger, ExecuteLabels, RuntimeLabels,
               ResumeLabels, StopLabels, ReconcileLabels, SchedulerLabels
    <2>5. QED
        BY <2>1, <2>2, <2>4 DEF g
<1>6. QED
    BY <1>4, <1>5

(* A claim moves a pending task whose dependencies are completed.          *)
LEMMA ClaimIsTaskStep ==
    ASSUME ServiceInv, NEW t \in Task, ClaimTask(t)
    PROVE  TaskStep /\ Prepared(t, finished)
<1>1. /\ task \in [Task -> Row]
      /\ \A u \in Task : RowFits(u, task[u], finished)
    BY DEF ServiceInv, WorldTypeOK, RowsFit
<1>2. Prepared(t, finished)
    BY <1>1, TaskServiceAssumption
       DEF ClaimTask, MayClaim, Prepared, RowFits
<1>3. task' \in [Task -> Row]
    BY <1>1 DEF ClaimTask, Row, TaskStatus
<1>4. \A u \in Task \ {t} : task'[u] = task[u]
    BY <1>1 DEF ClaimTask
<1>5. QED
    BY <1>1, <1>2, <1>3, <1>4 DEF TaskStep, RowsStayFit, RowFits

LEMMA ResetIsTaskStep ==
    ASSUME ServiceInv, NEW t \in Task, NEW g \in Trigger, ResetForTrigger(t, g)
    PROVE  TaskStep
<1>1. /\ task \in [Task -> Row]
      /\ \A u \in Task : RowFits(u, task[u], finished)
    BY DEF ServiceInv, WorldTypeOK, RowsFit
<1>2. task' \in [Task -> Row]
    BY <1>1 DEF ResetForTrigger, Row, TaskStatus
<1>3. /\ \A u \in Task \ {t} : task'[u] = task[u]
      /\ task'[t].status = "pending" /\ task'[t].run = NoRun
    BY <1>1 DEF ResetForTrigger
<1>4. QED
    BY <1>1, <1>2, <1>3 DEF TaskStep, RowsStayFit, RowFits, Begun

(* start_inbound of a turn.                                                *)
LEMMA BeginIsStoreStep ==
    ASSUME ServiceInv, NEW p \in Owner, NEW g \in Trigger, NEW r \in Run,
           BeginInbound(p, g, r, "loop")
    PROVE  /\ [StoreNext]_storeVars
           /\ \A h \in Trigger : h # g => inbound'[h] = inbound[h]
<1>1. StoreNext
    BY DEF StoreNext, RunStep
<1>2. \A h \in Trigger : h # g => inbound'[h] = inbound[h]
    BY StoreFacts DEF StoreTypeOK, BeginInbound, WriteInbound
<1>3. QED
    BY <1>1, <1>2

(* What is left to show of a frame on the way of execute to its turn, in   *)
(* the turn or behind it: the locals its label speaks of.                  *)
LEMMA ExecuteFits ==
    ASSUME NEW g, NEW done, g.op = "execute", ForItsTrigger(g), g.task \in Task,
           g.pc \in ExecuteLabels \cup RuntimeLabels
                     \cup {"resume", "apply", "interrupt_task"},
           g.pc \in RuntimeLabels \cup {"check_run", "bind"} => g.run \in Run,
           g.pc \in {"bind", "work", "approved", "park", "interrupt_run"}
             => g.token \in Token,
           g.pc \in {"bind_result", "apply"}
             => g.seen \in {"in_progress", "completed", "pending"},
           g.pc = "turn" => Prepared(g.task, done)
    PROVE  FrameFits(g, done)
<1>1. g.pc \notin StopLabels \cup ReconcileLabels \cup SchedulerLabels
                   \cup {"resume_check", "take", "find"}
    BY DEF ExecuteLabels, RuntimeLabels, StopLabels, ReconcileLabels,
           SchedulerLabels
<1>2. "execute" \in Caller
    BY DEF Caller
<1>3. g.pc \notin {"set_status", "compare", "reconcile", "stop_read",
                    "stop_run"}
    BY <1>1 DEF StopLabels, ReconcileLabels, SchedulerLabels
<1>4. QED
    BY <1>1, <1>2, <1>3 DEF FrameFits

LEMMA ExecuteStepKeepsInv ==
    ASSUME ServiceInv, Finishing, NEW x \in Thread, ExecuteStep(x)
    PROVE  SoundStep
<1> DEFINE f == th[x]
<1> USE DEF At
<1>1. /\ f \in Frame /\ FrameFits(f, finished)
      /\ Me(x) \in Owner
    BY ThreadFacts
<1>2. /\ f.pc \in ExecuteLabels => /\ f.op = "execute" /\ ForItsTrigger(f)
                                   /\ f.trig \in Trigger /\ f.task \in Task
                                   /\ f.task = TaskOf[f.trig]
                                   /\ inbound[f.trig] \in Run \cup {NoRun}
      /\ f.pc \in {"bind", "check_run"} => f.run \in Run
    BY <1>1, TaskServiceAssumption, StoreFacts DEF FrameFits, ForItsTrigger
<1>3. /\ Left(f, TRUE) \in Frame /\ FrameFits(Left(f, TRUE), finished)
      /\ Left(f, FALSE) \in Frame /\ FrameFits(Left(f, FALSE), finished)
      /\ Raised(f) \in Frame /\ FrameFits(Raised(f), finished)
    BY <1>1, LeftFits, RaisedFits
<1>4. CASE Load(x)
    <2>1. Decided(f) \in Frame /\ FrameFits(Decided(f), finished)
        BY <1>1, <1>4, DecidedFits DEF Load
    <2> DEFINE g == [f EXCEPT !.pc = "reset"]
    <2>2. f.pc \in ExecuteLabels
        BY <1>4 DEF Load, ExecuteLabels
    <2>3. g \in Frame /\ FrameFits(g, finished)
        <3>1. "reset" \in Labels
            BY DEF Labels
        <3>2. /\ g \in Frame
              /\ g.pc = "reset" /\ g.op = f.op
              /\ g.trig = f.trig /\ g.task = f.task
            BY <1>1, <3>1 DEF Frame
        <3> HIDE DEF g
        <3>3. QED
            BY <1>2, <2>2, <3>2, ExecuteFits
               DEF ForItsTrigger, ExecuteLabels, RuntimeLabels
    <2>4. \E h \in {Left(f, FALSE), Decided(f), g} : Step(x, h)
        BY <1>4 DEF Load
    <2> HIDE DEF g
    <2>5. QED
        BY <1>3, <2>1, <2>3, <2>4, StepIsSound
<1>5. CASE Reset(x)
    <2>1. TaskStep
        BY <1>2, <1>5, ResetIsTaskStep, RowsFitNow DEF Reset, ExecuteLabels
    <2> DEFINE g == [f EXCEPT !.pc = "reload"]
    <2>2. f.pc \in ExecuteLabels
        BY <1>5 DEF Reset, ExecuteLabels
    <2>3. g \in Frame /\ FrameFits(g, finished)
        <3>1. "reload" \in Labels
            BY DEF Labels
        <3>2. /\ g \in Frame
              /\ g.pc = "reload" /\ g.op = f.op
              /\ g.trig = f.trig /\ g.task = f.task
            BY <1>1, <3>1 DEF Frame
        <3> HIDE DEF g
        <3>3. QED
            BY <1>2, <2>2, <3>2, ExecuteFits
               DEF ForItsTrigger, ExecuteLabels, RuntimeLabels
    <2>4. InTasks(x, g)
        BY <1>5 DEF Reset
    <2> HIDE DEF g
    <2>5. QED
        BY <2>1, <2>3, <2>4, InTasksIsSound
<1>6. CASE Reload(x)
    <2>1. Decided(f) \in Frame /\ FrameFits(Decided(f), finished)
        BY <1>1, <1>6, DecidedFits DEF Reload
    <2>2. QED
        BY <1>6, <2>1, StepIsSound DEF Reload
<1>7. CASE CheckRun(x)
    <2> DEFINE g == [f EXCEPT !.pc = "resume", !.run = NoRun]
    <2>1. f.pc \in ExecuteLabels
        BY <1>7 DEF CheckRun, ExecuteLabels
    <2>2. g \in Frame /\ FrameFits(g, finished)
        <3>1. "resume" \in Labels
            BY DEF Labels
        <3>2. /\ g \in Frame
              /\ g.pc = "resume" /\ g.op = f.op
              /\ g.trig = f.trig /\ g.task = f.task
            BY <1>1, <3>1 DEF Frame
        <3> HIDE DEF g
        <3>3. QED
            BY <1>2, <2>1, <3>2, ExecuteFits
               DEF ForItsTrigger, ExecuteLabels, RuntimeLabels
    <2>3. Step(x, g) \/ Step(x, Left(f, TRUE))
        BY <1>7 DEF CheckRun
    <2> HIDE DEF g
    <2>4. QED
        BY <1>3, <2>2, <2>3, StepIsSound
<1>8. CASE Claim(x)
    <2>1. CASE ClaimTask(f.task)
        <3>1. TaskStep /\ Prepared(f.task, finished)
            BY <1>2, <1>8, <2>1, ClaimIsTaskStep DEF Claim, ExecuteLabels
        <3> DEFINE g == [f EXCEPT !.pc = "turn"]
        <3>2. f.pc \in ExecuteLabels
            BY <1>8 DEF Claim, ExecuteLabels
        <3>3. g \in Frame /\ FrameFits(g, finished)
            <4>1. "turn" \in Labels
                BY DEF Labels
            <4>2. /\ g \in Frame
                  /\ g.pc = "turn" /\ g.op = f.op
                  /\ g.trig = f.trig /\ g.task = f.task
                BY <1>1, <4>1 DEF Frame
            <4> HIDE DEF g
            <4>3. QED
                BY <1>2, <3>1, <3>2, <4>2, ExecuteFits
                   DEF ForItsTrigger, ExecuteLabels, RuntimeLabels
        <3>4. InTasks(x, g)
            BY <1>8, <2>1 DEF Claim, ClaimTask
        <3> HIDE DEF g
        <3>5. QED
            BY <3>1, <3>3, <3>4, InTasksIsSound
    <2>2. QED
        BY <1>3, <1>8, <2>1, StepIsSound DEF Claim
<1>9. CASE NewTurn(x)
    <2>1. PICK r \in Run : /\ BeginInbound(Me(x), f.trig, r, "loop")
                           /\ \/ InRuns(x, [f EXCEPT !.pc = "bind", !.run = r,
                                                     !.token = 1])
                              \/ InRuns(x, Raised(f))
        BY <1>9 DEF NewTurn
    <2>2. f.pc = "turn" /\ Prepared(TaskOf[f.trig], finished)
        BY <1>1, <1>2, <1>9 DEF NewTurn, FrameFits, ExecuteLabels
    <2>3. /\ [StoreNext]_storeVars
          /\ \A h \in Trigger : h # f.trig => inbound'[h] = inbound[h]
        BY <1>1, <1>2, <2>1, <2>2, BeginIsStoreStep DEF ExecuteLabels
    <2>4. DataStep
        BY <2>1, <2>2, <2>3
           DEF InRuns, OnlyRuns, processVars, ServiceInv, WorldTypeOK,
               DataStep, RowsStayFit, RowsFit, RowFits
    <2> DEFINE g == [f EXCEPT !.pc = "bind", !.run = r, !.token = 1]
    <2>5. g \in Frame /\ FrameFits(g, finished)
        <3>1. "bind" \in Labels
            BY DEF Labels
        <3>2. 1 \in Token
            BY SessionsAssumption DEF Token
        <3>3. /\ g \in Frame
              /\ g.pc = "bind" /\ g.op = f.op /\ g.run = r /\ g.token = 1
              /\ g.trig = f.trig /\ g.task = f.task
            BY <1>1, <3>1, <3>2 DEF Frame
        <3> HIDE DEF g
        <3>4. QED
            BY <1>2, <2>2, <3>2, <3>3, ExecuteFits
               DEF ForItsTrigger, ExecuteLabels, RuntimeLabels
    <2>6. Become(x, g) \/ Become(x, Raised(f))
        BY <2>1 DEF InRuns
    <2> HIDE DEF g
    <2>7. QED
        BY <1>3, <2>4, <2>5, <2>6, ThreadStepIsSound
<1>10. CASE TurnFails(x)
    BY <1>3, <1>10, StepIsSound DEF TurnFails
<1>11. CASE KnownTurn(x)
    <2> DEFINE r == inbound[f.trig]
               g == [f EXCEPT !.pc = "get_run", !.run = r]
    <2>1. f.pc = "turn" /\ r \in Run
        BY <1>2, <1>11 DEF KnownTurn, ExecuteLabels
    <2>2. g \in Frame /\ FrameFits(g, finished)
        <3>1. "get_run" \in Labels
            BY DEF Labels
        <3>2. /\ g \in Frame
              /\ g.pc = "get_run" /\ g.op = f.op /\ g.run = r
              /\ g.trig = f.trig /\ g.task = f.task
            BY <1>1, <2>1, <3>1 DEF Frame
        <3> HIDE DEF g
        <3>3. QED
            BY <1>2, <2>1, <3>2, ExecuteFits
               DEF ForItsTrigger, ExecuteLabels, RuntimeLabels
    <2>3. \/ Step(x, g)
          \/ \E out \in {"in_progress", "completed"} : Step(x, Returned(f, out))
        BY <1>11 DEF KnownTurn
    <2> HIDE DEF g
    <2>4. QED
        BY <1>1, <2>1, <2>2, <2>3, StepIsSound, ReturnedFits
<1>12. CASE Bind(x)
    <2> DEFINE g == [f EXCEPT !.pc = "work", !.guarded = TRUE]
    <2>1. TaskStep
        BY <1>2, <1>12, TryBindIsTaskStep DEF Bind, ExecuteLabels
    <2>2. f.pc \in ExecuteLabels /\ f.run \in Run /\ f.token \in Token
        BY <1>1, <1>12 DEF Bind, FrameFits, ExecuteLabels
    <2>3. g \in Frame /\ FrameFits(g, finished)
        <3>1. "work" \in Labels
            BY DEF Labels
        <3>2. /\ g \in Frame
              /\ g.pc = "work" /\ g.op = f.op
              /\ g.run = f.run /\ g.token = f.token
              /\ g.trig = f.trig /\ g.task = f.task
            BY <1>1, <3>1 DEF Frame
        <3> HIDE DEF g
        <3>3. QED
            BY <1>2, <2>2, <3>2, ExecuteFits
               DEF ForItsTrigger, ExecuteLabels, RuntimeLabels
    <2>4. InTasks(x, g)
        BY <1>12 DEF Bind
    <2> HIDE DEF g
    <2>5. QED
        BY <2>1, <2>3, <2>4, InTasksIsSound
<1>13. CASE BindResult(x)
    <2> DEFINE g == [f EXCEPT !.pc = "apply"]
    <2>1. TaskStep
        BY <1>2, <1>13, TryBindIsTaskStep DEF BindResult, ExecuteLabels
    <2>2. /\ f.pc \in ExecuteLabels
          /\ f.seen \in {"in_progress", "completed", "pending"}
        BY <1>1, <1>13 DEF BindResult, FrameFits, ExecuteLabels
    <2>3. g \in Frame /\ FrameFits(g, finished)
        <3>1. "apply" \in Labels
            BY DEF Labels
        <3>2. /\ g \in Frame
              /\ g.pc = "apply" /\ g.op = f.op /\ g.seen = f.seen
              /\ g.trig = f.trig /\ g.task = f.task
            BY <1>1, <3>1 DEF Frame
        <3> HIDE DEF g
        <3>3. QED
            BY <1>2, <2>2, <3>2, ExecuteFits
               DEF ForItsTrigger, ExecuteLabels, RuntimeLabels
    <2>4. InTasks(x, g)
        BY <1>13 DEF BindResult
    <2> HIDE DEF g
    <2>5. QED
        BY <2>1, <2>3, <2>4, InTasksIsSound
<1>14. CASE Apply(x)
    <2>1. f.task \in Task /\ f.seen \in {"in_progress", "completed", "pending"}
        BY <1>1, <1>14, TaskServiceAssumption
           DEF Apply, FrameFits, ForItsTrigger
    <2>2. TaskStep
        <3>1. CASE f.seen = "in_progress"
            BY <1>14, <3>1, RowsFitNow DEF Apply
        <3>2. CASE f.seen # "in_progress"
            <4>1. TargetOf(f.seen) \in TaskStatus
                BY <2>1, <3>2 DEF TargetOf, TaskStatus
            <4>2. TryMove(f.task, {"in_progress"}, TargetOf(f.seen), NoRun,
                          NoTrigger)
                BY <1>14, <3>2 DEF Apply
            <4>3. task[f.task].status \in {"in_progress"} =>
                    Prepared(f.task, finished)
                BY <2>1, BegunIsPrepared DEF Begun
            <4>4. QED
                BY <2>1, <4>1, <4>2, <4>3, TryMoveIsTaskStep
        <3>3. QED
            BY <3>1, <3>2
    <2>3. InTasks(x, Left(f, TRUE))
        BY <1>14 DEF Apply
    <2>4. QED
        BY <1>3, <2>2, <2>3, InTasksIsSound
<1>15. CASE BindFailed(x)
    <2> DEFINE g == [f EXCEPT !.pc = "interrupt_task", !.run = inbound[f.trig]]
    <2>1. TaskStep
        BY <1>2, <1>15, TryBindIsTaskStep DEF BindFailed, ExecuteLabels
    <2>2. f.pc \in ExecuteLabels
        BY <1>15 DEF BindFailed, ExecuteLabels
    <2>3. g \in Frame /\ FrameFits(g, finished)
        <3>1. "interrupt_task" \in Labels
            BY DEF Labels
        <3>2. inbound[f.trig] \in Run \cup {NoRun}
            BY <1>2, <2>2
        <3>3. /\ g \in Frame
              /\ g.pc = "interrupt_task" /\ g.op = f.op
              /\ g.trig = f.trig /\ g.task = f.task
            BY <1>1, <3>1, <3>2 DEF Frame
        <3> HIDE DEF g
        <3>4. QED
            BY <1>2, <2>2, <3>2, <3>3, ExecuteFits
               DEF ForItsTrigger, ExecuteLabels, RuntimeLabels
    <2>4. InTasks(x, g)
        BY <1>15 DEF BindFailed
    <2> HIDE DEF g
    <2>5. QED
        BY <2>1, <2>3, <2>4, InTasksIsSound
<1>16. CASE InterruptTask(x)
    <2> DEFINE r == IF f.op = "execute" THEN f.run ELSE NoRun
               g == IF f.op = "execute" THEN f.trig ELSE NoTrigger
    <2>1. f.task \in Task
        BY <1>1, <1>16, TaskServiceAssumption
           DEF InterruptTask, FrameFits, ForItsTrigger
    <2>2. r \in Run \cup {NoRun} /\ g \in Trigger \cup {NoTrigger}
        BY <1>1 DEF Frame
    <2>3. /\ TryMove(f.task, {"in_progress"}, "interrupted", r, g)
          /\ InTasks(x, Left(f, FALSE))
        BY <1>16 DEF InterruptTask
    <2>4. /\ "interrupted" \in TaskStatus
          /\ task[f.task].status \in {"in_progress"} =>
               Prepared(f.task, finished)
        BY <2>1, BegunIsPrepared DEF Begun, TaskStatus
    <2> HIDE DEF r, g
    <2>5. TaskStep
        BY <2>1, <2>2, <2>3, <2>4, TryMoveIsTaskStep
    <2>6. QED
        BY <1>3, <2>3, <2>5, InTasksIsSound
<1>17. QED
    BY <1>4, <1>5, <1>6, <1>7, <1>8, <1>9, <1>10, <1>11, <1>12, <1>13, <1>14,
       <1>15, <1>16 DEF ExecuteStep

-----------------------------------------------------------------------------
(* The runtime.                                                            *)

(* A frame of the runtime goes on in the runtime, with the same caller.    *)
LEMMA RuntimeFits ==
    ASSUME NEW f \in Frame, NEW done, FrameFits(f, done),
           NEW g \in Frame, g.op = f.op, g.sched = f.sched, g.trig = f.trig,
           g.task = f.task, f.op \in Caller, g.pc \in RuntimeLabels,
           g.run \in Run,
           g.pc \in {"approved", "work", "park", "interrupt_run"} =>
             g.token \in Token
    PROVE  FrameFits(g, done)
    BY DEF FrameFits, ForItsTrigger, ExecuteLabels, RuntimeLabels,
           ResumeLabels, StopLabels, ReconcileLabels, SchedulerLabels

LEMMA TryTransitionIsStoreStep ==
    ASSUME NEW x \in Thread, Me(x) \in Owner, NEW r \in Run,
           NEW target \in TransitionTargets, NEW k \in Token \cup {NoToken},
           TryTransition(x, r, target, k)
    PROVE  [StoreNext]_storeVars /\ UNCHANGED inbound
<1>1. CASE TransitionRun(Me(x), r, target, k)
    BY <1>1 DEF StoreNext, RunStep, TransitionRun, inboundVars
<1>2. CASE UNCHANGED sessionDb
    BY <1>2 DEF sessionDb, storeVars, runVars, inboundVars
<1>3. QED
    BY <1>1, <1>2 DEF TryTransition

LEMMA ClaimForWorkIsSound ==
    ASSUME ServiceInv, Finishing, NEW x \in Thread,
           NEW expected \in ClaimableFrom, NEW f \in Frame,
           th[x].pc \in {"claim_run", "claim_parked"},
           f.op = th[x].op, f.sched = th[x].sched, f.trig = th[x].trig,
           f.task = th[x].task, f.run = th[x].run,
           f.pc \in {"work", "approved"},
           ClaimForWork(x, expected, f)
    PROVE  SoundStep
<1> DEFINE r == th[x].run
           g == [f EXCEPT !.token = token[r] + 1]
<1>1. /\ th[x] \in Frame /\ FrameFits(th[x], finished)
      /\ Me(x) \in Owner
      /\ r \in Run /\ th[x].op \in Caller
    BY ThreadFacts DEF FrameFits, RuntimeLabels
<1>2. CASE ClaimRun(Me(x), r, expected) /\ InRuns(x, g)
    <2>1. [StoreNext]_storeVars /\ UNCHANGED inbound
        BY <1>1, <1>2 DEF StoreNext, RunStep, ClaimRun, inboundVars
    <2>2. token[r] + 1 \in Token
        BY <1>1, <1>2, StoreFacts, SessionsAssumption DEF ClaimRun, Token
    <2>3. g \in Frame
        BY <2>2 DEF Frame
    <2>4. FrameFits(g, finished)
        BY <1>1, <2>2, <2>3, RuntimeFits DEF Frame, RuntimeLabels
    <2> HIDE DEF g
    <2>5. QED
        BY <1>2, <2>1, <2>3, <2>4, InRunsIsSound
<1>3. CASE Step(x, Returned(th[x], "in_progress"))
    BY <1>1, <1>3, StepIsSound, ReturnedFits DEF RuntimeLabels
<1>4. QED
    BY <1>2, <1>3 DEF ClaimForWork

(* The outcome that fails a run, saves an approval or a decision.          *)
LEMMA SaveIsSound ==
    ASSUME ServiceInv, Finishing, NEW x \in Thread, NEW f \in Frame,
           FrameFits(f, finished), NEW r \in Run, NEW k \in Token,
           NEW st \in {"loop", "approval"},
           NEW v \in {"none", "pending", "decided"},
           SaveCheckpoint(Me(x), r, k, st),
           verdict' = [verdict EXCEPT ![r] = v],
           Become(x, f), UNCHANGED <<task, trigger, processVars>>
    PROVE  SoundStep
<1>1. [StoreNext]_storeVars
    BY ThreadFacts DEF StoreNext, RunStep
<1>2. UNCHANGED inbound
    BY DEF SaveCheckpoint, WriteCheckpoint, inboundVars
<1>3. DataStep
    BY <1>1, <1>2
       DEF processVars, ServiceInv, WorldTypeOK, DataStep, RowsStayFit,
           RowsFit, RowFits
<1>4. QED
    BY <1>3, ThreadStepIsSound

LEMMA RuntimeStepKeepsInv ==
    ASSUME ServiceInv, Finishing, NEW x \in Thread, RuntimeStep(x)
    PROVE  SoundStep
<1> DEFINE f == th[x]
           To(label) == [f EXCEPT !.pc = label]
<1> USE DEF At
<1>1. /\ f \in Frame /\ FrameFits(f, finished)
      /\ Me(x) \in Owner
    BY ThreadFacts
<1>2. /\ f.pc \in RuntimeLabels => f.op \in Caller /\ f.run \in Run
      /\ f.pc \in {"approved", "work", "park", "interrupt_run"} =>
           f.token \in Token
    BY <1>1 DEF FrameFits
<1>3. /\ Left(f, TRUE) \in Frame /\ FrameFits(Left(f, TRUE), finished)
      /\ Left(f, FALSE) \in Frame /\ FrameFits(Left(f, FALSE), finished)
      /\ Raised(f) \in Frame /\ FrameFits(Raised(f), finished)
    BY <1>1, LeftFits, RaisedFits
<1>4. ASSUME f.pc \in RuntimeLabels,
             NEW out \in {"in_progress", "completed", "pending"}
      PROVE  /\ Returned(f, out) \in Frame
             /\ FrameFits(Returned(f, out), finished)
    BY <1>1, <1>4, ReturnedFits
<1>5. ASSUME f.pc \in RuntimeLabels, NEW label \in RuntimeLabels,
             label \in {"approved", "work", "park", "interrupt_run"} =>
               f.token \in Token
      PROVE  To(label) \in Frame /\ FrameFits(To(label), finished)
    <2>1. To(label) \in Frame
        BY <1>1 DEF Frame, Labels, RuntimeLabels
    <2>2. QED
        BY <1>1, <1>2, <1>5, <2>1, RuntimeFits DEF Frame
<1> USE DEF RuntimeLabels
<1>6. CASE ResumeLoad(x) \/ ResumeCheck(x)
    <2>1. f.task \in Task /\ f.op \in {"execute", "resume"}
        BY <1>1, <1>6, TaskServiceAssumption
           DEF ResumeLoad, ResumeCheck, FrameFits, ForItsTrigger, ResumeLabels
    <2>2. ASSUME NEW r \in Run
          PROVE  /\ [f EXCEPT !.pc = "resume_check", !.run = r] \in Frame
                 /\ FrameFits([f EXCEPT !.pc = "resume_check", !.run = r],
                              finished)
        <3> DEFINE g == [f EXCEPT !.pc = "resume_check", !.run = r]
        <3>1. g \in Frame
            <4>1. "resume_check" \in Labels
                BY DEF Labels
            <4>2. QED
                BY <1>1, <4>1 DEF Frame
        <3>2. /\ g.pc = "resume_check" /\ g.op = f.op /\ g.run = r
              /\ g.sched = f.sched /\ g.trig = f.trig /\ g.task = f.task
            BY <1>1 DEF Frame
        <3> HIDE DEF g
        <3>3. FrameFits(g, finished)
            BY <1>1, <2>1, <3>2
               DEF FrameFits, ForItsTrigger, ExecuteLabels, ResumeLabels,
                   StopLabels, ReconcileLabels, SchedulerLabels
        <3>4. QED
            BY <3>1, <3>3 DEF g
    <2>3. CASE ResumeLoad(x)
        <3>1. task[f.task].run \in Run \cup {NoRun}
            BY <2>1, RowFacts
        <3>2. \/ Step(x, Left(f, FALSE))
              \/ \E r \in Run :
                   Step(x, [f EXCEPT !.pc = "resume_check", !.run = r])
            BY <2>3, <3>1 DEF ResumeLoad
        <3>3. QED
            BY <1>3, <2>2, <3>2, StepIsSound
    <2>4. CASE ResumeCheck(x)
        <3>1. f.run \in Run
            BY <1>1, <2>4 DEF ResumeCheck, FrameFits
        <3>2. To("take") \in Frame /\ FrameFits(To("take"), finished)
            BY <1>1, <2>1, <2>4, <3>1
               DEF ResumeCheck, Frame, Labels, FrameFits, ForItsTrigger,
                   ExecuteLabels, ResumeLabels, StopLabels, ReconcileLabels,
                   SchedulerLabels
        <3>3. Step(x, Left(f, TRUE)) \/ Step(x, To("take"))
            BY <2>4 DEF ResumeCheck
        <3> HIDE DEF To
        <3>4. QED
            BY <1>3, <3>2, <3>3, StepIsSound
    <2>5. QED
        BY <1>6, <2>3, <2>4
<1>7. CASE Take(x)
    <2>1. f.task \in Task /\ f.run \in Run
        BY <1>1, <1>7, TaskServiceAssumption
           DEF Take, FrameFits, ForItsTrigger, ResumeLabels
    <2> DEFINE g == [f EXCEPT !.pc = "get_run", !.op = "resume"]
    <2>2. CASE InTasks(x, g)
               /\ MoveTask(f.task, {"interrupted", "paused"}, "in_progress")
        <3>1. Prepared(f.task, finished)
            BY <2>1, <2>2, BegunIsPrepared DEF MoveTask, TransitionTask, Begun
        <3>2. TaskStep
            BY <2>1, <2>2, <3>1, TransitionIsTaskStep DEF MoveTask, TaskStatus
        <3>3. g \in Frame
            BY <1>1 DEF Frame, Labels, Caller
        <3>4. /\ g.pc = "get_run" /\ g.op = "resume" /\ g.run = f.run
              /\ g.sched = f.sched /\ g.trig = f.trig /\ g.task = f.task
            BY <1>1 DEF Frame
        <3> HIDE DEF g
        <3>5. FrameFits(g, finished)
            BY <1>1, <2>1, <3>4
               DEF FrameFits, ForItsTrigger, Caller, ExecuteLabels,
                   ResumeLabels, StopLabels, ReconcileLabels, SchedulerLabels
        <3>6. QED
            BY <2>2, <3>2, <3>3, <3>5, InTasksIsSound
    <2>3. CASE Step(x, Left(f, TRUE))
        BY <1>3, <2>3, StepIsSound
    <2>4. QED
        BY <1>7, <2>2, <2>3 DEF Take
<1>8. CASE GetRun(x)
    <2>1. Step(x, Returned(f, "completed")) \/ Step(x, To("read_checkpoint"))
        BY <1>8 DEF GetRun
    <2>2. f.pc = "get_run"
        BY <1>8 DEF GetRun
    <2> HIDE DEF To
    <2>3. QED
        BY <1>4, <1>5, <2>1, <2>2, StepIsSound
<1>9. CASE ReadCheckpoint(x)
    <2>1. \E label \in {"claim_run", "wait", "approval"} : Step(x, To(label))
        BY <1>9 DEF ReadCheckpoint
    <2>2. f.pc = "read_checkpoint"
        BY <1>9 DEF ReadCheckpoint
    <2> HIDE DEF To
    <2>3. QED
        BY <1>5, <2>1, <2>2, StepIsSound
<1>10. CASE WaitAgain(x)
    <2>1. [StoreNext]_storeVars /\ UNCHANGED inbound
        BY <1>1, <1>2, <1>10, TryTransitionIsStoreStep
           DEF WaitAgain, TransitionTargets
    <2>2. QED
        BY <1>4, <1>10, <2>1, InRunsIsSound DEF WaitAgain
<1>11. CASE ClaimInterrupted(x)
    <2> DEFINE g == [f EXCEPT !.pc = "work", !.guarded = TRUE]
    <2>1. g \in Frame
        <3>1. "work" \in Labels
            BY DEF Labels
        <3>2. QED
            BY <1>1, <3>1 DEF Frame
    <2>2. /\ g.op = f.op /\ g.sched = f.sched /\ g.trig = f.trig
          /\ g.task = f.task /\ g.run = f.run /\ g.pc = "work"
        BY <1>1 DEF Frame
    <2>3. f.pc = "claim_run" /\ ClaimForWork(x, {"interrupted"}, g)
        BY <1>11 DEF ClaimInterrupted
    <2> HIDE DEF g
    <2>4. QED
        BY <2>1, <2>2, <2>3, ClaimForWorkIsSound DEF ClaimableFrom
<1>12. CASE CheckParked(x)
    <2>1. Step(x, Returned(f, "completed")) \/ Step(x, To("claim_parked"))
        BY <1>12 DEF CheckParked
    <2>2. f.pc = "approval"
        BY <1>12 DEF CheckParked
    <2> HIDE DEF To
    <2>3. QED
        BY <1>4, <1>5, <2>1, <2>2, StepIsSound
<1>13. CASE ClaimParked(x)
    <2> DEFINE g == To("approved")
    <2>1. g \in Frame
        <3>1. "approved" \in Labels
            BY DEF Labels
        <3>2. QED
            BY <1>1, <3>1 DEF Frame
    <2>2. /\ g.op = f.op /\ g.sched = f.sched /\ g.trig = f.trig
          /\ g.task = f.task /\ g.run = f.run /\ g.pc = "approved"
        BY <1>1 DEF Frame
    <2>3. /\ f.pc = "claim_parked"
          /\ ClaimForWork(x, {"waiting_approval", "interrupted"}, g)
        BY <1>13 DEF ClaimParked
    <2> HIDE DEF g
    <2>4. QED
        BY <2>1, <2>2, <2>3, ClaimForWorkIsSound DEF ClaimableFrom
<1>14. CASE CarryOut(x)
    <2>1. f.pc = "approved"
        BY <1>14 DEF CarryOut
    <2>2. CASE /\ SaveCheckpoint(Me(x), f.run, f.token, "loop")
               /\ verdict' = [verdict EXCEPT ![f.run] = "none"]
               /\ Become(x, To("work"))
               /\ UNCHANGED <<task, trigger, processVars>>
        <3>1. To("work") \in Frame /\ FrameFits(To("work"), finished)
            BY <1>2, <1>5, <2>1
        <3> HIDE DEF To
        <3>2. QED
            BY <1>2, <2>1, <2>2, <3>1, SaveIsSound
    <2>3. CASE /\ TryTransition(x, f.run, "failed", f.token)
               /\ InRuns(x, Returned(f, "completed"))
        <3>1. [StoreNext]_storeVars /\ UNCHANGED inbound
            BY <1>1, <1>2, <2>1, <2>3, TryTransitionIsStoreStep
               DEF TransitionTargets
        <3>2. QED
            BY <1>4, <2>1, <2>3, <3>1, InRunsIsSound
    <2>4. CASE Step(x, Returned(f, "completed")) \/ Step(x, Raised(f))
        BY <1>3, <1>4, <2>1, <2>4, StepIsSound
    <2>5. QED
        BY <1>14, <2>2, <2>3, <2>4 DEF CarryOut
<1>15. CASE Work(x)
    <2>1. f.pc = "work"
        BY <1>15 DEF Work
    <2>2. CASE /\ CompleteRun(Me(x), f.run, f.token, "answer")
               /\ InRuns(x, Returned(f, "completed"))
        <3>1. [StoreNext]_storeVars /\ UNCHANGED inbound
            BY <1>1, <1>2, <2>1, <2>2
               DEF StoreNext, RunStep, CompleteRun, WriteCompletion
        <3>2. QED
            BY <1>4, <2>1, <2>2, <3>1, InRunsIsSound
    <2>3. CASE /\ SaveCheckpoint(Me(x), f.run, f.token, "approval")
               /\ verdict' = [verdict EXCEPT ![f.run] = "pending"]
               /\ Become(x, To("park"))
               /\ UNCHANGED <<task, trigger, processVars>>
        <3>1. To("park") \in Frame /\ FrameFits(To("park"), finished)
            BY <1>2, <1>5, <2>1
        <3> HIDE DEF To
        <3>2. QED
            BY <1>2, <2>1, <2>3, <3>1, SaveIsSound
    <2>4. CASE Step(x, To("interrupt_run")) \/ Step(x, Raised(f))
        <3>1. /\ To("interrupt_run") \in Frame
              /\ FrameFits(To("interrupt_run"), finished)
            BY <1>2, <1>5, <2>1
        <3> HIDE DEF To
        <3>2. QED
            BY <1>3, <2>4, <3>1, StepIsSound
    <2>5. QED
        BY <1>15, <2>2, <2>3, <2>4 DEF Work
<1>16. CASE Park(x)
    <2>1. [StoreNext]_storeVars /\ UNCHANGED inbound
        BY <1>1, <1>2, <1>16, TryTransitionIsStoreStep
           DEF Park, TransitionTargets
    <2>2. QED
        BY <1>4, <1>16, <2>1, InRunsIsSound DEF Park
<1>17. CASE InterruptRun(x)
    <2>1. [StoreNext]_storeVars /\ UNCHANGED inbound
        BY <1>1, <1>2, <1>17, TryTransitionIsStoreStep
           DEF InterruptRun, TransitionTargets
    <2>2. QED
        BY <1>3, <1>17, <2>1, InRunsIsSound DEF InterruptRun
<1>18. QED
    BY <1>6, <1>7, <1>8, <1>9, <1>10, <1>11, <1>12, <1>13, <1>14, <1>15,
       <1>16, <1>17 DEF RuntimeStep

-----------------------------------------------------------------------------
(* pause, cancel and fail; reconciliation; the scheduler.                  *)

LEMMA ForTriggerFits ==
    ASSUME NEW g \in Trigger, NEW rest \in SUBSET Trigger, NEW done
    PROVE  /\ ForTrigger(g, rest) \in Frame
           /\ FrameFits(ForTrigger(g, rest), done)
<1> DEFINE f == ForTrigger(g, rest)
<1>1. f \in Frame
    <2>1. "load" \in Labels /\ "execute" \in Caller
        BY DEF Labels, Caller
    <2>2. QED
        BY IdleFits, TaskServiceAssumption, <2>1 DEF ForTrigger, Frame
<1>2. /\ f.pc = "load" /\ f.op = "execute" /\ f.trig = g
      /\ f.task = TaskOf[g]
    BY IdleFits DEF ForTrigger, Frame
<1> HIDE DEF f
<1>3. FrameFits(f, done)
    BY <1>2
       DEF FrameFits, ForItsTrigger, ExecuteLabels, RuntimeLabels,
           ResumeLabels, StopLabels, ReconcileLabels, SchedulerLabels
<1>4. QED
    BY <1>1, <1>3 DEF f

LEMMA ReconciledIsSound ==
    ASSUME ServiceInv, Finishing, NEW x \in Thread, TaskStep, Reconciled(x),
           UNCHANGED <<sessionDb, trigger, verdict>>
    PROVE  SoundStep
<1>1. DataStep
    BY ThreadFacts
       DEF Reconciled, TaskStep, sessionDb, storeVars, runVars, inboundVars,
           ServiceInv, WorldTypeOK, DataStep
<1>2. QED
    BY <1>1, IdleFits, ThreadStepIsSound DEF Reconciled

LEMMA StopStepKeepsInv ==
    ASSUME ServiceInv, Finishing, NEW x \in Thread,
           StopTask(x) \/ StopRead(x) \/ StopRun(x)
    PROVE  SoundStep
<1> DEFINE f == th[x]
<1> USE DEF At
<1>1. /\ f \in Frame /\ FrameFits(f, finished)
      /\ Me(x) \in Owner
      /\ f.pc \in StopLabels
    BY ThreadFacts DEF StopTask, StopRead, StopRun, StopLabels
<1>2. f.task \in Task /\ f.seen \in {"paused", "cancelled", "failed"}
    BY <1>1 DEF FrameFits
<1>3. Idle \in Frame /\ FrameFits(Idle, finished)
    BY IdleFits
<1>4. CASE StopTask(x)
    <2>1. CASE Step(x, Idle)
        BY <1>3, <2>1, StepIsSound
    <2>2. CASE /\ MoveTask(f.task, Sources(f.seen), f.seen)
               /\ InTasks(x, IF f.run = NoRun THEN Idle
                             ELSE [f EXCEPT !.pc = "stop_read"])
        <3>1. f.seen = "paused" => Prepared(f.task, finished)
            BY <1>2, <2>2, BegunIsPrepared
               DEF MoveTask, TransitionTask, Sources, Begun
        <3>2. TaskStep
            BY <1>2, <2>2, <3>1, TransitionIsTaskStep
               DEF MoveTask, TaskStatus, Begun
        <3>3. ASSUME f.run # NoRun
              PROVE  /\ [f EXCEPT !.pc = "stop_read"] \in Frame
                     /\ FrameFits([f EXCEPT !.pc = "stop_read"], finished)
            BY <1>1, <1>2, <1>4, <3>3
               DEF StopTask, Frame, Labels, FrameFits, ForItsTrigger,
                   ExecuteLabels, RuntimeLabels, ResumeLabels, StopLabels,
                   ReconcileLabels, SchedulerLabels
        <3>4. QED
            BY <1>3, <2>2, <3>2, <3>3, InTasksIsSound
    <2>3. QED
        BY <1>4, <2>1, <2>2 DEF StopTask
<1>5. CASE StopRead(x)
    <2>1. f.run \in Run
        BY <1>1, <1>5 DEF StopRead, FrameFits
    <2>2. PICK k \in Token \cup {NoToken} :
            Step(x, [f EXCEPT !.pc = "stop_run", !.token = k])
            \/ Step(x, Idle)
        <3>1. token[f.run] \in Token \cup {NoToken}
            BY <2>1, StoreFacts DEF StoreTypeOK
        <3>2. [f EXCEPT !.pc = "stop_run"]
                = [f EXCEPT !.pc = "stop_run", !.token = f.token]
            BY <1>1 DEF Frame
        <3>3. f.token \in Token \cup {NoToken}
            BY <1>1 DEF Frame
        <3>4. QED
            BY <1>5, <3>1, <3>2, <3>3 DEF StopRead
    <2> DEFINE g == [f EXCEPT !.pc = "stop_run", !.token = k]
    <2>3. /\ g \in Frame
          /\ g.pc = "stop_run" /\ g.op = f.op /\ g.sched = f.sched
          /\ g.trig = f.trig /\ g.task = f.task /\ g.run = f.run
          /\ g.seen = f.seen
        <3>1. "stop_run" \in Labels
            BY DEF Labels
        <3>2. QED
            BY <1>1, <3>1 DEF Frame
    <2> HIDE DEF g
    <2>4. FrameFits(g, finished)
        BY <1>1, <1>2, <2>1, <2>3, <1>5
           DEF StopRead, FrameFits, ForItsTrigger,
               ExecuteLabels, RuntimeLabels, ResumeLabels, StopLabels,
               ReconcileLabels, SchedulerLabels
    <2>5. QED
        BY <1>3, <2>2, <2>3, <2>4, StepIsSound DEF g
<1>6. CASE StopRun(x)
    <2>1. f.run \in Run /\ f.token \in Token \cup {NoToken}
        BY <1>1, <1>6 DEF StopRun, FrameFits, Frame
    <2>2. RunTarget(f.seen) \in TransitionTargets
        BY <1>2 DEF RunTarget, TransitionTargets
    <2>3. [StoreNext]_storeVars /\ UNCHANGED inbound
        BY <1>1, <1>6, <2>1, <2>2, TryTransitionIsStoreStep DEF StopRun
    <2>4. QED
        BY <1>3, <1>6, <2>3, InRunsIsSound DEF StopRun
<1>7. QED
    BY <1>4, <1>5, <1>6

LEMMA ReconcileStepKeepsInv ==
    ASSUME ServiceInv, Finishing, NEW x \in Thread,
           Find(x) \/ Compare(x) \/ Reconcile(x)
    PROVE  SoundStep
<1> DEFINE f == th[x]
<1> USE DEF At
<1>1. f \in Frame /\ FrameFits(f, finished)
    BY ThreadFacts
<1>2. ASSUME Reconciled(x), UNCHANGED databases
      PROVE  SoundStep
    BY <1>2, RowsFitNow, ReconciledIsSound DEF databases
<1>3. CASE Find(x)
    <2>1. ASSUME NEW t \in Task, task[t].run = f.run,
                 Step(x, [f EXCEPT !.pc = "compare", !.task = t,
                                   !.seen = task[t].status])
          PROVE  SoundStep
        <3> DEFINE g == [f EXCEPT !.pc = "compare", !.task = t,
                                  !.seen = task[t].status]
        <3>1. /\ f.run \in Run /\ ~f.sched /\ f.op \in {"none", "approval"}
              /\ task[t].status \in TaskStatus
            BY <1>1, <1>3, RowFacts DEF Find, FrameFits
        <3>2. g \in Frame
            <4>1. "compare" \in Labels /\ task[t].status \in Told
                BY <3>1 DEF Labels, Told
            <4>2. QED
                BY <1>1, <4>1 DEF Frame
        <3>3. /\ g.pc = "compare" /\ g.op = f.op /\ g.run = f.run
              /\ g.sched = f.sched /\ g.task = t
            BY <1>1 DEF Frame
        <3>4. Prepared(t, finished)
            BY <2>1, <3>1, SessionsAssumption DEF ServiceInv, RowsFit, RowFits
        <3> HIDE DEF g
        <3>5. FrameFits(g, finished)
            BY <3>1, <3>3, <3>4
               DEF FrameFits, ForItsTrigger, ExecuteLabels, RuntimeLabels,
                   ResumeLabels, StopLabels, ReconcileLabels, SchedulerLabels
        <3>6. QED
            BY <2>1, <3>2, <3>5, StepIsSound DEF g
    <2>2. QED
        BY <1>2, <1>3, <2>1 DEF Find
<1>4. CASE Compare(x)
    <2>1. /\ f.task \in Task /\ ~f.sched /\ Prepared(f.task, finished)
          /\ f.run \in Run
        BY <1>1, <1>4 DEF Compare, FrameFits, ReconcileLabels
    <2> DEFINE target == TaskStatusOf(status[f.run])
               g == [f EXCEPT !.pc = "reconcile", !.trig = NoTrigger,
                              !.op = target]
    <2>2. CASE target \in TaskStatus
        <3> HIDE DEF target
        <3>1. g \in Frame
            BY <1>1, <2>2 DEF Frame, Labels
        <3>2. /\ g.pc = "reconcile" /\ g.op = target /\ g.task = f.task
              /\ g.sched = f.sched /\ g.run = f.run
            BY <1>1 DEF Frame
        <3>3. target \notin Caller
            BY <2>2 DEF TaskStatus, Caller
        <3> HIDE DEF g
        <3>4. FrameFits(g, finished)
            BY <2>1, <2>2, <3>2, <3>3
               DEF FrameFits, Caller, ForItsTrigger, ExecuteLabels,
                   RuntimeLabels, ResumeLabels, StopLabels, ReconcileLabels,
                   SchedulerLabels
        <3>5. Step(x, g) \/ (Reconciled(x) /\ UNCHANGED databases)
            BY <1>4 DEF Compare, g, target
        <3>6. QED
            BY <1>2, <3>1, <3>4, <3>5, StepIsSound
    <2>3. target \in TaskStatus
        BY <2>1, StoreFacts DEF TaskStatusOf, RunStatus, TaskStatus
    <2>4. QED
        BY <2>2, <2>3
<1>5. CASE Reconcile(x)
    <2>1. f.task \in Task /\ Prepared(f.task, finished) /\ f.op \in TaskStatus
        BY <1>1, <1>5 DEF Reconcile, FrameFits, ReconcileLabels
    <2>2. TaskStep
        BY <1>5, <2>1, TryMoveIsTaskStep DEF Reconcile
    <2>3. QED
        BY <1>5, <2>2, ReconciledIsSound DEF Reconcile
<1>6. QED
    BY <1>3, <1>4, <1>5

LEMMA SchedulerStepKeepsInv ==
    ASSUME ServiceInv, Finishing, NEW x \in Thread,
           ReadStatus(x) \/ SetStatus(x)
    PROVE  SoundStep
<1> DEFINE f == th[x]
<1> USE DEF At
<1>1. f \in Frame /\ FrameFits(f, finished)
    BY ThreadFacts
<1>2. CASE ReadStatus(x)
    <2> DEFINE s == TriggerStatusOf(task[f.task].status)
               g == [f EXCEPT !.pc = "set_status", !.seen = s]
    <2>1. f.pc = "read_status" /\ ForItsTrigger(f)
        BY <1>1, <1>2 DEF ReadStatus, FrameFits, SchedulerLabels
    <2>2. s \in TriggerStatus
        BY DEF TriggerStatusOf, TriggerStatus
    <2>3. Step(x, g)
        BY <1>2 DEF ReadStatus
    <2> HIDE DEF s
    <2>4. s \in Told /\ "set_status" \in Labels
        BY <2>2 DEF Labels, Told
    <2>5. /\ g \in Frame
          /\ g.pc = "set_status" /\ g.seen = s /\ g.op = f.op
          /\ g.sched = f.sched /\ g.trig = f.trig /\ g.task = f.task
        BY <1>1, <2>4 DEF Frame
    <2> HIDE DEF g
    <2>6. FrameFits(g, finished)
        BY <1>1, <2>1, <2>2, <2>5
           DEF FrameFits, ForItsTrigger, ExecuteLabels,
               RuntimeLabels, ResumeLabels, StopLabels, ReconcileLabels,
               SchedulerLabels
    <2>7. QED
        BY <2>3, <2>5, <2>6, StepIsSound
<1>3. CASE SetStatus(x)
    <2>1. ForItsTrigger(f) /\ f.rest \subseteq Trigger
        BY <1>1, <1>3 DEF SetStatus, FrameFits, SchedulerLabels, Frame
    <2>2. \/ Become(x, Idle)
          \/ \E g \in f.rest : Become(x, ForTrigger(g, f.rest \ {g}))
        BY <1>3 DEF SetStatus
    <2>3. trigger' \in [Trigger -> TriggerStatus]
        <3>1. trigger \in [Trigger -> TriggerStatus]
            BY DEF ServiceInv, WorldTypeOK
        <3>2. "interrupted" \in TriggerStatus
            BY DEF TriggerStatus
        <3>3. f.pc = "set_status" => f.seen \in TriggerStatus
            BY <1>1 DEF FrameFits
        <3>4. QED
            BY <1>3, <3>1, <3>2, <3>3 DEF SetStatus
    <2>4. DataStep
        BY <1>3, <2>3
           DEF SetStatus, OnlyTrigger, sessionDb, storeVars, runVars,
               inboundVars, processVars, ServiceInv, WorldTypeOK, DataStep,
               RowsStayFit, RowsFit, RowFits
    <2>5. ASSUME NEW g \in f.rest
          PROVE  /\ ForTrigger(g, f.rest \ {g}) \in Frame
                 /\ FrameFits(ForTrigger(g, f.rest \ {g}), finished)
        BY <2>1, ForTriggerFits
    <2>6. QED
        BY <2>2, <2>4, <2>5, IdleFits, ThreadStepIsSound
<1>4. QED
    BY <1>2, <1>3

-----------------------------------------------------------------------------
(* Callers begin; users, clocks, administrators and crashes.               *)

LEMMA BeginKeepsInv ==
    ASSUME ServiceInv, Finishing, NEW x \in Thread, Begin(x)
    PROVE  SoundStep
<1>1. ASSUME NEW g \in Trigger, Execute(x, g)
      PROVE  SoundStep
    <2> DEFINE f == [Idle EXCEPT !.pc = "load", !.op = "execute",
                                 !.task = TaskOf[g], !.trig = g]
    <2>1. f \in Frame
        <3>1. "load" \in Labels /\ "execute" \in Caller
            BY DEF Labels, Caller
        <3>2. QED
            BY IdleFits, TaskServiceAssumption, <3>1 DEF Frame
    <2>2. /\ f.pc = "load" /\ f.op = "execute" /\ f.trig = g
          /\ f.task = TaskOf[g]
        BY IdleFits DEF Frame
    <2>3. Step(x, f)
        BY <1>1 DEF Execute, Start
    <2> HIDE DEF f
    <2>4. FrameFits(f, finished)
        BY <2>2
           DEF FrameFits, ForItsTrigger, ExecuteLabels, RuntimeLabels,
               ResumeLabels, StopLabels, ReconcileLabels, SchedulerLabels
    <2>5. QED
        BY <2>1, <2>3, <2>4, StepIsSound
<1>2. ASSUME NEW g \in Trigger, Dispatch(x, g)
      PROVE  SoundStep
    <2>1. trigger' \in [Trigger -> TriggerStatus]
        BY <1>2 DEF Dispatch, ServiceInv, WorldTypeOK, TriggerStatus
    <2>2. DataStep
        BY <1>2, <2>1
           DEF Dispatch, OnlyTrigger, sessionDb, storeVars, runVars,
               inboundVars, processVars, ServiceInv, WorldTypeOK, DataStep,
               RowsStayFit, RowsFit, RowFits
    <2>3. Become(x, ForTrigger(g, {}))
        BY <1>2 DEF Dispatch
    <2>4. QED
        BY <2>2, <2>3, ForTriggerFits, ThreadStepIsSound
<1>3. CASE RecoverTriggers(x)
    <2>1. PICK g \in Trigger, rest \in SUBSET Trigger :
            Step(x, ForTrigger(g, rest))
        BY <1>3 DEF RecoverTriggers
    <2>2. QED
        BY <2>1, ForTriggerFits, StepIsSound
<1>4. ASSUME NEW t \in Task, Resume(x, t)
      PROVE  SoundStep
    <2> DEFINE f == [Idle EXCEPT !.pc = "resume", !.op = "resume",
                                 !.task = t, !.trig = NoTrigger]
    <2>1. f \in Frame
        <3>1. "resume" \in Labels /\ "resume" \in Caller
            BY DEF Labels, Caller
        <3>2. QED
            BY IdleFits, <3>1 DEF Frame
    <2>2. /\ f.pc = "resume" /\ f.op = "resume" /\ f.task = t /\ ~f.sched
        BY IdleFits DEF Frame, Idle
    <2>3. Step(x, f)
        BY <1>4 DEF Resume, Start
    <2> HIDE DEF f
    <2>4. FrameFits(f, finished)
        BY <2>2
           DEF FrameFits, ForItsTrigger, ExecuteLabels, RuntimeLabels,
               ResumeLabels, StopLabels, ReconcileLabels, SchedulerLabels
    <2>5. QED
        BY <2>1, <2>3, <2>4, StepIsSound
<1>5. ASSUME NEW t \in Task, NEW target \in {"paused", "cancelled", "failed"},
             Stop(x, t, target)
      PROVE  SoundStep
    <2> DEFINE f == [Idle EXCEPT !.pc = "stop_task", !.task = t,
                                 !.seen = target, !.run = task[t].run]
    <2>1. f \in Frame
        <3>1. "stop_task" \in Labels /\ target \in Told
            BY DEF Labels, Told, TaskStatus
        <3>2. QED
            BY IdleFits, RowFacts, <3>1 DEF Frame
    <2>2. /\ f.pc = "stop_task" /\ f.op = "none" /\ f.task = t /\ ~f.sched
          /\ f.seen = target
        BY IdleFits DEF Frame, Idle
    <2>3. Step(x, f)
        BY <1>5 DEF Stop
    <2> HIDE DEF f
    <2>4. FrameFits(f, finished)
        BY <2>2
           DEF FrameFits, ForItsTrigger, ExecuteLabels, RuntimeLabels,
               ResumeLabels, StopLabels, ReconcileLabels, SchedulerLabels
    <2>5. QED
        BY <2>1, <2>3, <2>4, StepIsSound
<1>6. ASSUME NEW r \in Run, NEW label \in {"approval", "get_run"},
             NEW op \in {"approval", "run"},
             Step(x, [Idle EXCEPT !.pc = label, !.op = op, !.run = r])
      PROVE  SoundStep
    <2> DEFINE f == [Idle EXCEPT !.pc = label, !.op = op, !.run = r]
    <2>1. f \in Frame
        <3>1. label \in Labels /\ op \in Caller
            BY DEF Labels, Caller
        <3>2. QED
            BY IdleFits, <3>1 DEF Frame
    <2>2. f.pc = label /\ f.op = op /\ f.run = r /\ ~f.sched
        BY IdleFits DEF Frame, Idle
    <2> HIDE DEF f
    <2>3. FrameFits(f, finished)
        BY <1>6, <2>2
           DEF FrameFits, ForItsTrigger, Caller, ExecuteLabels, RuntimeLabels,
               ResumeLabels, StopLabels, ReconcileLabels, SchedulerLabels
    <2>4. QED
        BY <1>6, <2>1, <2>3, StepIsSound DEF f
<1>7. ASSUME NEW r \in Run,
             ResumeApproval(x, r) \/ ResumeRun(x, r) \/ ReconcileAtStart(x, r)
      PROVE  SoundStep
    <2>1. CASE ReconcileAtStart(x, r)
        <3> DEFINE f == [Idle EXCEPT !.pc = "find", !.run = r]
        <3>1. f \in Frame
            <4>1. "find" \in Labels
                BY DEF Labels
            <4>2. QED
                BY IdleFits, <4>1 DEF Frame
        <3>2. f.pc = "find" /\ f.op = "none" /\ f.run = r /\ ~f.sched
            BY IdleFits DEF Frame, Idle
        <3>3. Step(x, f)
            BY <2>1 DEF ReconcileAtStart
        <3> HIDE DEF f
        <3>4. FrameFits(f, finished)
            BY <3>2
               DEF FrameFits, ForItsTrigger, ExecuteLabels, RuntimeLabels,
                   ResumeLabels, StopLabels, ReconcileLabels, SchedulerLabels
        <3>5. QED
            BY <3>1, <3>3, <3>4, StepIsSound
    <2>2. QED
        BY <1>6, <1>7, <2>1 DEF ResumeApproval, ResumeRun
<1>8. QED
    BY <1>1, <1>2, <1>3, <1>4, <1>5, <1>7 DEF Begin

LEMMA EnvironmentKeepsInv ==
    ASSUME ServiceInv, Finishing, Environment
    PROVE  SoundStep
<1>1. /\ th \in [Thread -> Frame]
      /\ task \in [Task -> Row]
      /\ up \subseteq Process /\ inc \in [Process -> Incarnation]
      /\ todo \in [Process -> SUBSET Run]
      /\ verdict \in [Run -> {"none", "pending", "decided"}]
      /\ trigger \in [Trigger -> TriggerStatus]
      /\ RowsStayFit \/ task' # task
    BY DEF ServiceInv, WorldTypeOK, RowsFit, RowFits, RowsStayFit
<1>2. ASSUME NEW t \in Task, Create(t)
      PROVE  SoundStep
    <2>1. task' \in [Task -> Row]
        BY <1>1, <1>2 DEF Create, CreateTask, Row, TaskStatus
    <2>2. RowsStayFit
        <3>1. \A u \in Task : RowFits(u, task[u], finished)
            BY DEF ServiceInv, RowsFit
        <3>2. /\ task'[t].status = "pending" /\ task'[t].run = task[t].run
              /\ \A u \in Task \ {t} : task'[u] = task[u]
            BY <1>1, <1>2 DEF Create, CreateTask, Row
        <3>3. QED
            BY <3>1, <3>2 DEF RowsStayFit, RowFits, Begun
    <2>3. DataStep
        BY <1>1, <1>2, <2>1, <2>2
           DEF Create, DataStep, sessionDb, storeVars, runVars, inboundVars,
               processVars
    <2>4. QED
        BY <1>1, <1>2, <2>3, DataStepIsSound DEF Create
<1>3. ASSUME NEW r \in Run, Decide(r)
      PROVE  SoundStep
    <2>1. DataStep
        BY <1>1, <1>3
           DEF Decide, DataStep, sessionDb, storeVars, runVars, inboundVars,
               processVars
    <2>2. QED
        BY <1>1, <1>3, <2>1, DataStepIsSound DEF Decide
<1>4. ASSUME NEW r \in Run, Administer(r) \/ LeaseClock(r)
      PROVE  SoundStep
    <2>1. [StoreNext]_storeVars /\ UNCHANGED inbound
        BY <1>4, TaskServiceAssumption
           DEF Administer, LeaseClock, StoreNext, AdminStep, ControlAction,
               AdminControlRun, LeaseExpires, inboundVars
    <2>2. DataStep
        BY <1>1, <1>4, <2>1 DEF Administer, LeaseClock, DataStep, processVars
    <2>3. QED
        BY <1>1, <1>4, <2>2, DataStepIsSound DEF Administer, LeaseClock
<1>5. ASSUME NEW p \in Process, Crash(p)
      PROVE  SoundStep
    <2>1. DataStep
        BY <1>1, <1>5
           DEF Crash, DataStep, databases, sessionDb, storeVars, runVars,
               inboundVars
    <2>2. /\ th' \in [Thread -> Frame]
          /\ \A x \in Thread : th'[x] = th[x] \/ th'[x] = Idle
        BY <1>1, <1>5, IdleFits DEF Crash
    <2>3. QED
        BY <2>1, <2>2, IdleFits, DataStepIsSound
<1>6. ASSUME NEW p \in Process, Restart(p)
      PROVE  SoundStep
    <2>1. <<p, inc[p] + 1>> \in Owner
        BY <1>6 DEF Restart, Owner
    <2>2. [StoreNext]_storeVars /\ UNCHANGED inbound
        <3>1. InterruptIncomplete(<<p, inc[p] + 1>>, {})
            BY <1>6 DEF Restart
        <3>2. \E q \in Owner, locked \in SUBSET Run :
                InterruptIncomplete(q, locked)
            BY <2>1, <3>1
        <3>3. StoreNext
            BY <3>2 DEF StoreNext
        <3>4. UNCHANGED inbound
            BY <3>1 DEF InterruptIncomplete, inboundVars
        <3>5. QED
            BY <3>3, <3>4
    <2>3. inc' \in [Process -> Incarnation]
        BY <1>1, <1>6 DEF Restart
    <2>4. todo' \in [Process -> SUBSET Run]
        BY <1>1, <1>6 DEF Restart
    <2>5. DataStep
        BY <1>1, <1>6, <2>2, <2>3, <2>4 DEF Restart, DataStep
    <2>6. QED
        BY <1>1, <1>6, <2>5, DataStepIsSound DEF Restart
<1>7. QED
    BY <1>2, <1>3, <1>4, <1>5, <1>6 DEF Environment

-----------------------------------------------------------------------------
(* Every step.                                                             *)

LEMMA ServiceNextIsSound ==
    ASSUME ServiceInv, [Next]_vars
    PROVE  SoundStep
<1>1. CASE UNCHANGED vars
    BY <1>1
       DEF vars, databases, sessionDb, processVars, SoundStep, ServiceInv,
           WorldTypeOK, RowsFit, RowFits, Prepared, DependenciesComeFirst,
           FramesFit, FrameFits, Store!StoreInv, Store!StoreTypeOK,
           Store!OneRunPerMessage, Store!CompletionIsAtomic,
           Store!RunningIsOwned, Store!WritersAreIssued,
           Store!NothingBeforeBegin, storeVars, runVars, inboundVars
<1>2. CASE Next
    <2>1. Finishing
        BY <1>2 DEF Next, Finishing
    <2>2. ASSUME NEW x \in Thread, ServiceStep(x)
          PROVE  SoundStep
        BY <2>1, <2>2, StopStepKeepsInv, ReconcileStepKeepsInv,
           SchedulerStepKeepsInv DEF ServiceStep
    <2>3. QED
        BY <1>2, <2>1, <2>2, ExecuteStepKeepsInv, RuntimeStepKeepsInv,
           BeginKeepsInv, EnvironmentKeepsInv DEF Next
<1>3. QED
    BY <1>1, <1>2

LEMMA InitEstablishesServiceInv == Init => ServiceInv
<1> SUFFICES ASSUME Init
             PROVE  ServiceInv
    OBVIOUS
<1>1. Store!StoreInv
    BY SessionsAssumption, SameStore, Store!InitEstablishesInv DEF Init
<1>2. WorldTypeOK
    BY IdleFits, TaskServiceAssumption
       DEF Init, TaskInit, WorldTypeOK, Row, NoTask, TaskStatus, TriggerStatus
<1>3. RowsFit
    BY DEF Init, TaskInit, RowsFit, RowFits, NoTask, Begun
<1>4. DependenciesComeFirst
    BY DEF Init, StoreInit, DependenciesComeFirst
<1>5. FramesFit
    BY IdleFits DEF Init, FramesFit
<1>6. QED
    BY <1>1, <1>2, <1>3, <1>4, <1>5 DEF ServiceInv

(* The invariant holds in every reachable state of the services.           *)
THEOREM ServicesAreSound == Spec => []ServiceInv
<1>1. Init => ServiceInv
    BY InitEstablishesServiceInv
<1>2. ServiceInv /\ [Next]_vars => ServiceInv'
    BY ServiceNextIsSound DEF SoundStep
<1>3. QED
    BY <1>1, <1>2, PTL DEF Spec

(* Rows, triggers, frames and the session store keep their types.          *)
THEOREM ServicesAreWellTyped == Spec => []TaskTypeOK
<1>1. ServiceInv => TaskTypeOK
    BY SameStore DEF ServiceInv, WorldTypeOK, TaskTypeOK, Store!StoreInv, Frame
<1>2. QED
    BY <1>1, ServicesAreSound, PTL

(* claim and every path that leads around it: however many threads execute,*)
(* resume, reset, recover and reconcile tasks, the run of a task begins    *)
(* only after each of its dependencies was completed.                      *)
THEOREM RunsWaitForDependencies == Spec => []DependenciesComeFirst
<1>1. ServiceInv => DependenciesComeFirst
    BY DEF ServiceInv
<1>2. QED
    BY <1>1, ServicesAreSound, PTL

(* A step of the services is a step of the session store or leaves it      *)
(* alone: they never present an owner, a token or a transition that the    *)
(* store's own specification does not know.                                *)
THEOREM ServicesUseTheStore == Spec => Store!StoreSpec
<1>1. Init => Store!StoreInit
    BY SameStore DEF Init
<1>2. ServiceInv /\ [Next]_vars => [Store!StoreNext]_(Store!storeVars)
    BY ServiceNextIsSound, SameStore DEF SoundStep
<1>3. QED
    BY <1>1, <1>2, ServicesAreSound, PTL DEF Spec, Store!StoreSpec

(* Hence a trigger has one run and a run one trigger, that run is answered *)
(* once, late workers record nothing but a tool's outcome, and ended runs  *)
(* stay ended, under the scheduler and the tasks as under the loop.        *)
THEOREM ServicesKeepContracts ==
    Spec => /\ Store!ImplementsInbox
            /\ Store!OnlyOutcomesComeLate
            /\ Store!EndedRunsStayEnded
<1>1. /\ Store!StoreSpec => Store!ImplementsInbox
      /\ Store!StoreSpec => Store!OnlyOutcomesComeLate
      /\ Store!StoreSpec => Store!EndedRunsStayEnded
    BY SessionsAssumption, Store!StoreImplementsInbox,
       Store!LateWorkersOnlySettle, Store!EndsAreFinal
<1>2. QED
    BY <1>1, ServicesUseTheStore, PTL

-----------------------------------------------------------------------------
(* Threads apart: what a step does to the databases.                     *)

LEMMA BoundRunExists ==
    ASSUME ServiceInv
    PROVE  /\ BoundRunAnswersTrigger =>
                \A t \in Task :
                  task[t].run # NoRun => /\ task[t].run \in Run
                                         /\ status[task[t].run] # "absent"
           /\ \A g \in Trigger :
                inbound[g] # NoRun => /\ inbound[g] \in Run
                                      /\ status[inbound[g]] # "absent"
           /\ \A g, h \in Trigger :
                inbound[g] # NoRun /\ inbound[g] = inbound[h] => g = h
<1>1. Store!OneRunPerMessage
    BY DEF ServiceInv, Store!StoreInv
<1>2. \A g \in Trigger :
        inbound[g] # NoRun => /\ inbound[g] \in Run
                              /\ status[inbound[g]] # "absent"
    BY <1>1, StoreFacts DEF Store!OneRunPerMessage
<1>3. \A t \in Task : task[t].trigger \in Trigger \cup {NoTrigger}
    BY DEF ServiceInv, WorldTypeOK, Row
<1>4. QED
    BY <1>1, <1>2, <1>3
       DEF Store!OneRunPerMessage, BoundRunAnswersTrigger

(* Runs change their status, and no ended run comes back.                  *)
RunsMove ==
    /\ UNCHANGED <<task, inbound>>
    /\ \A r \in Run : status[r] \in Ended => status'[r] \in Ended
    /\ VerdictsFit'

LEMMA RunsMoveKeepsData ==
    ASSUME ServiceInv, DataInv, RunsMove
    PROVE  DataInv'
<1>1. \A t, g : g \in Trigger /\ LiveOf(t, g)' => LiveOf(t, g)
    BY BoundRunExists DEF RunsMove, LiveOf, LiveIn
<1>2. BoundRunAnswersTrigger' /\ FreshTasksAreUnbound'
    BY DEF RunsMove, DataInv, BoundRunAnswersTrigger, FreshTasksAreUnbound
<1>3. LiveRunsAreBound' /\ OneLiveRun'
    BY <1>1 DEF RunsMove, DataInv, LiveRunsAreBound, LiveRunFits, OneLiveRun
<1>4. QED
    BY <1>2, <1>3 DEF RunsMove, DataInv

(* A task gives up a run only after it has ended.                          *)
NothingIsDropped ==
    \A t \in Task :
        LET r == task[t].run IN
        r # NoRun /\ task'[t].run # r => status[r] \in Ended

(* One row changes, to one that fits the runs.                             *)
RowIsSound(t, row) ==
    /\ row.run # NoRun => /\ row.trigger # NoTrigger
                          /\ TaskOf[row.trigger] = t
                          /\ inbound[row.trigger] = row.run
    /\ row.status \in {"absent", "pending"} => row.run = NoRun
    /\ \A g \in Trigger : LiveRunFits(t, g, row)

RowMove(t) ==
    /\ UNCHANGED <<sessionDb, verdict>>
    /\ \A u \in Task \ {t} : task'[u] = task[u]
    /\ RowIsSound(t, task'[t])
    /\ task[t].run # NoRun /\ task'[t].run # task[t].run =>
         status[task[t].run] \in Ended

LEMMA RowMoveKeepsData ==
    ASSUME DataInv, NEW t \in Task, RowMove(t)
    PROVE  DataInv' /\ NothingIsDropped
<1>1. \A u, g : LiveOf(u, g)' <=> LiveOf(u, g)
    BY DEF RowMove, sessionDb, LiveOf, LiveIn
<1>2. \A u \in Task : RowIsSound(u, task'[u])
    BY DEF RowMove, DataInv, RowIsSound, BoundRunAnswersTrigger,
           FreshTasksAreUnbound, LiveRunsAreBound
<1>3. BoundRunAnswersTrigger' /\ FreshTasksAreUnbound'
    BY <1>2
       DEF RowMove, sessionDb, RowIsSound, BoundRunAnswersTrigger,
           FreshTasksAreUnbound
<1>4. LiveRunsAreBound' /\ OneLiveRun'
    BY <1>1, <1>2
       DEF RowMove, sessionDb, DataInv, RowIsSound, LiveRunsAreBound,
           LiveRunFits, OneLiveRun
<1>5. VerdictsFit'
    BY DEF RowMove, sessionDb, DataInv, VerdictsFit
<1>6. NothingIsDropped
    BY DEF RowMove, NothingIsDropped
<1>7. QED
    BY <1>3, <1>4, <1>5, <1>6 DEF DataInv

LEMMA SameRowIsSound ==
    ASSUME DataInv, UNCHANGED <<task, sessionDb, verdict>>
    PROVE  \A t \in Task : RowMove(t)
    BY DEF RowMove, DataInv, RowIsSound, BoundRunAnswersTrigger,
           FreshTasksAreUnbound, LiveRunsAreBound

(* transition to a status that is neither new nor completed.               *)
LEMMA MoveIsSound ==
    ASSUME ServiceInv, DataInv, UNCHANGED <<sessionDb, verdict>>,
           NEW t \in Task, NEW expected, NEW to,
           to \notin {"absent", "pending"},
           to = "completed" =>
             task[t].run # NoRun /\ status[task[t].run] \in Ended,
           TryMove(t, expected, to, NoRun, NoTrigger)
    PROVE  RowMove(t)
<1>1. CASE UNCHANGED task
    BY <1>1, SameRowIsSound
<1>2. CASE TransitionTask(t, expected, to, NoRun, NoTrigger)
    <2>1. task \in [Task -> Row]
        BY DEF ServiceInv, WorldTypeOK
    <2>2. /\ \A u \in Task \ {t} : task'[u] = task[u]
          /\ task'[t].status = to /\ task'[t].run = task[t].run
          /\ task'[t].trigger = task[t].trigger
        BY <1>2, <2>1 DEF TransitionTask
    <2>3. \A g \in Trigger : LiveRunFits(t, g, task[t])
        BY DEF DataInv, LiveRunsAreBound
    <2>4. \A g \in Trigger : LiveRunFits(t, g, task'[t])
        BY <2>2, <2>3 DEF LiveRunFits, LiveOf, LiveIn
    <2>5. QED
        BY <2>2, <2>4
           DEF RowMove, RowIsSound, DataInv, BoundRunAnswersTrigger
<1>3. QED
    BY <1>1, <1>2 DEF TryMove

(* A run is bound that answers the trigger; no other run of the task is    *)
(* live.                                                                   *)
LEMMA BindIsSound ==
    ASSUME ServiceInv, DataInv, UNCHANGED <<sessionDb, verdict>>,
           NEW t \in Task, NEW g \in Trigger, TaskOf[g] = t,
           task[t].status = "in_progress", task[t].run \in {NoRun, inbound[g]},
           \A h \in Trigger : LiveOf(t, h) => h = g,
           TryBind(t, inbound[g], g)
    PROVE  /\ RowMove(t)
           /\ task'[t].status = "in_progress"
           /\ task'[t].run = inbound[g]
<1>1. task \in [Task -> Row]
    BY DEF ServiceInv, WorldTypeOK
<1>2. CASE inbound[g] = NoRun
    <2>1. UNCHANGED task
        BY <1>2 DEF TryBind
    <2>2. QED
        BY <1>2, <2>1, SameRowIsSound
<1>3. CASE inbound[g] # NoRun
    <2>1. BindRun(t, inbound[g], g)
        BY <1>3 DEF TryBind, MayBind
    <2>2. task' = [task EXCEPT ![t].run = inbound[g], ![t].trigger = g]
        BY <2>1 DEF BindRun
    <2>3. /\ \A u \in Task \ {t} : task'[u] = task[u]
          /\ task'[t].status = "in_progress"
          /\ task'[t].run = inbound[g] /\ task'[t].trigger = g
        BY <1>1, <2>2 DEF Row
    <2>4. RowIsSound(t, task'[t])
        BY <2>3, TaskServiceAssumption
           DEF RowIsSound, LiveRunFits
    <2>5. QED
        BY <2>3, <2>4 DEF RowMove
<1>4. QED
    BY <1>2, <1>3

-----------------------------------------------------------------------------
(* Threads apart: what a step does to its frame.                         *)

(* Labels that say nothing of the databases.                               *)
QuietLabels == {"idle", "load", "reset", "reload", "claim", "resume",
                "stop_task", "stop_read", "stop_run", "find", "read_status",
                "set_status", "trigger_failed"}

LEMMA QuietFits ==
    ASSUME NEW f, f.pc \in QuietLabels, NEW rows, NEW runs, NEW msgs,
           NEW verdicts, NEW x
    PROVE  CallerFits(f, rows, runs, msgs, verdicts) /\ OwnsParked(f, x)
    BY DEF QuietLabels, CallerFits, OwnsParked, BindLabels, RuntimeLabels

LEMMA LeftIsQuiet ==
    \A f : Left(f, TRUE).pc \in QuietLabels /\ Left(f, FALSE).pc \in QuietLabels
    BY DEF Left, Idle, QuietLabels

(* The caller of a run that is done with, for now, goes on.                *)
LEMMA ReturnedCalls ==
    ASSUME ServiceInv, DataInv, NEW f \in Frame, f.pc \in RuntimeLabels,
           FrameFits(f, finished),
           CallerFits(f, task, status, inbound, verdict),
           NEW out \in {"in_progress", "completed", "pending"},
           NEW runs, NEW verdicts, NEW x,
           \A r \in Run : status[r] \in Ended => runs[r] \in Ended,
           out = "completed" /\ f.op \in {"execute", "resume"} =>
             runs[f.run] \in Ended
    PROVE  /\ CallerFits(Returned(f, out), task, runs, inbound, verdicts)
           /\ OwnsParked(Returned(f, out), x)
           /\ CallerFits(Raised(f), task, runs, inbound, verdicts)
           /\ OwnsParked(Raised(f), x)
<1>1. /\ f.op \in Caller /\ f.run \in Run
      /\ f.op = "execute" => ForItsTrigger(f)
      /\ f.op = "resume" => f.task \in Task
    BY DEF FrameFits
<1>2. /\ f.op \in {"execute", "resume"} =>
           task[f.task].status = "in_progress" /\ task[f.task].run = f.run
      /\ f.op = "execute" => f.run = inbound[f.trig]
    BY DEF CallerFits
<1>3. ASSUME f.op = "execute", NEW g \in Trigger,
             LiveIn(f.task, g, inbound, runs)
      PROVE  g = f.trig
    <2>1. inbound[g] \in Run
        BY <1>3, StoreFacts DEF LiveIn
    <2>2. LiveOf(f.task, g)
        BY <1>3, <2>1 DEF LiveOf, LiveIn
    <2>3. f.task \in Task
        BY <1>1, <1>3, TaskServiceAssumption DEF ForItsTrigger
    <2>4. inbound[g] = inbound[f.trig]
        BY <1>1, <1>2, <1>3, <2>1, <2>2, <2>3, SessionsAssumption
           DEF DataInv, LiveRunsAreBound, LiveRunFits
    <2>5. QED
        BY <1>1, <1>3, <2>1, <2>4, SessionsAssumption, BoundRunExists
           DEF ForItsTrigger
<1>4. CASE f.op \in {"approval", "run"}
    <2>1. Returned(f, out).pc \in QuietLabels /\ Raised(f).pc \in QuietLabels
        BY <1>4 DEF Returned, Raised, Idle, QuietLabels, Frame
    <2>2. QED
        BY <2>1, QuietFits
<1>5. CASE f.op = "execute"
    <2> DEFINE g == Returned(f, out)
               h == Raised(f)
    <2>1. /\ g.pc = "bind_result" /\ g.task = f.task /\ g.trig = f.trig
          /\ g.seen = out
        BY <1>5 DEF Returned, Frame
    <2>2. h.pc = "bind_failed" /\ h.task = f.task /\ h.trig = f.trig
        BY <1>5 DEF Raised, Frame
    <2> HIDE DEF g, h
    <2>3. CallerFits(g, task, runs, inbound, verdicts)
        BY <1>1, <1>2, <1>3, <1>5, <2>1, SessionsAssumption
           DEF CallerFits, BindLabels, RuntimeLabels
    <2>4. CallerFits(h, task, runs, inbound, verdicts)
        BY <1>1, <1>2, <1>3, <1>5, <2>2
           DEF CallerFits, BindLabels, RuntimeLabels
    <2>5. QED
        BY <2>1, <2>2, <2>3, <2>4 DEF OwnsParked, g, h
<1>6. CASE f.op = "resume"
    <2> DEFINE g == Returned(f, out)
               h == Raised(f)
    <2>1. g.pc = "apply" /\ g.task = f.task /\ g.seen = out
        BY <1>6 DEF Returned, Frame
    <2>2. h.pc = "interrupt_task" /\ h.op = "resume"
        BY <1>6 DEF Raised, Frame
    <2> HIDE DEF g, h
    <2>3. CallerFits(g, task, runs, inbound, verdicts)
        BY <1>1, <1>2, <1>6, <2>1, SessionsAssumption
           DEF CallerFits, BindLabels, RuntimeLabels
    <2>4. CallerFits(h, task, runs, inbound, verdicts)
        BY <2>2 DEF CallerFits, BindLabels, RuntimeLabels
    <2>5. QED
        BY <2>1, <2>2, <2>3, <2>4 DEF OwnsParked, g, h
<1>7. QED
    BY <1>1, <1>4, <1>5, <1>6 DEF Caller

-----------------------------------------------------------------------------
(* Threads apart: steps.                                                 *)

(* A step keeps the data and the frame of its thread in order, and leaves  *)
(* the other frames alone.                                                 *)
ThreadStep(x) ==
    /\ DataInv' /\ NothingIsDropped /\ DownIsIdle'
    /\ CallerFits(th[x], task, status, inbound, verdict)'
    /\ OwnsParked(th[x], x)'
    /\ \A y \in Thread \ {x} : th'[y] = th[y]

LEMMA ThreadKeepsCaller ==
    ASSUME Undisturbed, CallerInv, DataInv', NothingIsDropped,
           UNCHANGED <<up, inc>>, th \in [Thread -> Frame],
           NEW x \in Thread, ProcessOf[x] \in up, NEW f, Become(x, f),
           CallerFits(f, task', status', inbound', verdict'),
           f.pc = "approved" =>
             /\ status'[f.run] = "running" /\ owner'[f.run] = Me(x)
             /\ token'[f.run] = f.token
    PROVE  ThreadStep(x)
<1>1. th'[x] = f /\ Me(x)' = Me(x) /\ \A y \in Thread \ {x} : th'[y] = th[y]
    BY DEF Become, Me
<1>2. OwnsParked(th[x], x)'
    BY <1>1 DEF OwnsParked, Owns
<1>3. DownIsIdle'
    BY <1>1 DEF DownIsIdle, CallerInv
<1>4. QED
    BY <1>1, <1>2, <1>3 DEF ThreadStep

(* The databases stay as they are.                                         *)
LEMMA StepKeepsCaller ==
    ASSUME Undisturbed, ServiceInv, CallerInv,
           UNCHANGED <<task, sessionDb, verdict, up, inc>>,
           NEW x \in Thread, ProcessOf[x] \in up, NEW f, Become(x, f),
           CallerFits(f, task, status, inbound, verdict), OwnsParked(f, x)
    PROVE  ThreadStep(x)
<1>1. DataInv' /\ NothingIsDropped
    BY DEF CallerInv, DataInv, BoundRunAnswersTrigger, FreshTasksAreUnbound,
           VerdictsFit, LiveRunsAreBound, LiveRunFits, OneLiveRun, LiveOf,
           LiveIn, sessionDb, NothingIsDropped
<1>2. th \in [Thread -> Frame]
    BY DEF ServiceInv, WorldTypeOK
<1>3. QED
    BY <1>1, <1>2, ThreadKeepsCaller DEF sessionDb, OwnsParked, Owns

(* A row moves.                                                            *)
LEMMA RowKeepsCaller ==
    ASSUME Undisturbed, ServiceInv, CallerInv, NEW t \in Task, RowMove(t),
           UNCHANGED <<up, inc>>,
           NEW x \in Thread, ProcessOf[x] \in up, NEW f, Become(x, f),
           f.pc # "approved",
           CallerFits(f, task', status, inbound, verdict)
    PROVE  ThreadStep(x)
<1>1. DataInv' /\ NothingIsDropped
    BY RowMoveKeepsData DEF CallerInv
<1>2. th \in [Thread -> Frame]
    BY DEF ServiceInv, WorldTypeOK
<1>3. QED
    BY <1>1, <1>2, ThreadKeepsCaller DEF RowMove, sessionDb

(* Runs move.                                                              *)
LEMMA RunsKeepCaller ==
    ASSUME Undisturbed, ServiceInv, CallerInv, RunsMove,
           UNCHANGED <<up, inc>>,
           NEW x \in Thread, ProcessOf[x] \in up, NEW f, Become(x, f),
           CallerFits(f, task, status', inbound, verdict'),
           f.pc = "approved" =>
             /\ status'[f.run] = "running" /\ owner'[f.run] = Me(x)
             /\ token'[f.run] = f.token
    PROVE  ThreadStep(x)
<1>1. DataInv'
    BY RunsMoveKeepsData DEF CallerInv
<1>2. NothingIsDropped
    BY DEF RunsMove, NothingIsDropped
<1>3. th \in [Thread -> Frame]
    BY DEF ServiceInv, WorldTypeOK
<1>4. QED
    BY <1>1, <1>2, <1>3, ThreadKeepsCaller DEF RunsMove

(* Statuses that move without a checkpoint.                                *)
LEMMA TransitionMovesRuns ==
    ASSUME ServiceInv, DataInv, NEW x, NEW r \in Run,
           NEW target \in TransitionTargets, NEW k,
           TryTransition(x, r, target, k), UNCHANGED <<task, verdict>>
    PROVE  RunsMove
<1>1. CASE UNCHANGED sessionDb
    BY <1>1 DEF sessionDb, RunsMove, DataInv, VerdictsFit
<1>2. CASE TransitionRun(Me(x), r, target, k)
    <2>1. status \in [Run -> RunStatus]
        BY StoreFacts DEF StoreTypeOK
    <2>2. status[r] \in {"running", "waiting_approval", "interrupted"}
        BY <1>2 DEF TransitionRun, MayTransition, Transitions,
                    TransitionTargets
    <2>3. UNCHANGED <<inbound, checkpoint>>
        BY <1>2 DEF TransitionRun, inboundVars
    <2>4. \A q \in Run : status'[q] = IF q = r THEN target ELSE status[q]
        BY <1>2, <2>1 DEF TransitionRun
    <2>5. VerdictsFit'
        BY <2>2, <2>3, <2>4 DEF DataInv, VerdictsFit, TransitionTargets
    <2>6. QED
        BY <2>2, <2>3, <2>4, <2>5 DEF RunsMove, Ended
<1>3. QED
    BY <1>1, <1>2 DEF TryTransition

-----------------------------------------------------------------------------
(* Threads apart: the actions of the thread.                             *)

LEMMA CallerFacts ==
    ASSUME ServiceInv, CallerInv, Undisturbed, NEW x \in Thread
    PROVE  /\ CallerFits(th[x], task, status, inbound, verdict)
           /\ OwnsParked(th[x], x)
           /\ DataInv
    BY DEF CallerInv, CallerFramesFit, Undisturbed

LEMMA QuietStepKeepsCaller ==
    ASSUME Undisturbed, ServiceInv, CallerInv,
           UNCHANGED <<task, sessionDb, verdict, up, inc>>,
           NEW x \in Thread, ProcessOf[x] \in up, NEW f, Become(x, f),
           f.pc \in QuietLabels
    PROVE  ThreadStep(x)
    BY StepKeepsCaller, QuietFits

LEMMA QuietRowKeepsCaller ==
    ASSUME Undisturbed, ServiceInv, CallerInv, NEW t \in Task, RowMove(t),
           UNCHANGED <<up, inc>>,
           NEW x \in Thread, ProcessOf[x] \in up, NEW f, Become(x, f),
           f.pc \in QuietLabels
    PROVE  ThreadStep(x)
<1>1. f.pc # "approved"
    BY DEF QuietLabels
<1>2. CallerFits(f, task', status, inbound, verdict)
    BY QuietFits
<1>3. QED
    BY <1>1, <1>2, RowKeepsCaller

LEMMA ExecuteKeepsCaller ==
    ASSUME Undisturbed, ServiceInv, CallerInv,
           NEW x \in Thread, ProcessOf[x] \in up, ExecuteStep(x)
    PROVE  ThreadStep(x)
<1> DEFINE f == th[x]
           t == f.task
<1> USE DEF At
<1>1. /\ f \in Frame /\ FrameFits(f, finished)
      /\ CallerFits(f, task, status, inbound, verdict)
      /\ DataInv
    BY ThreadFacts, CallerFacts
<1>2. /\ f.pc \in ExecuteLabels => /\ f.op = "execute" /\ f.trig \in Trigger
                                   /\ t \in Task /\ t = TaskOf[f.trig]
                                   /\ inbound[f.trig] \in Run \cup {NoRun}
      /\ f.pc = "bind" => f.run \in Run
    BY <1>1, TaskServiceAssumption, StoreFacts DEF FrameFits, ForItsTrigger
<1>3. Left(f, TRUE).pc \in QuietLabels /\ Left(f, FALSE).pc \in QuietLabels
    BY LeftIsQuiet
<1>4. ASSUME NEW g, Step(x, g), g.pc \in QuietLabels
      PROVE  ThreadStep(x)
    BY <1>4, QuietStepKeepsCaller DEF Step, OnlyThread, databases, processVars
<1>5. ASSUME f.pc \in {"load", "reload"}, Step(x, Decided(f))
      PROVE  ThreadStep(x)
    <2>1. CASE Decided(f) = [f EXCEPT !.pc = "claim"]
        <3>1. Decided(f).pc = "claim"
            BY <1>1, <2>1 DEF Frame
        <3>2. QED
            BY <1>4, <1>5, <3>1 DEF QuietLabels
    <2>2. CASE Decided(f) = [f EXCEPT !.pc = "check_run", !.run = task[t].run]
        <3> DEFINE g == Decided(f)
        <3>1. g.pc = "check_run" /\ g.task = t /\ g.run = task[t].run
            BY <1>1, <2>2 DEF Frame
        <3>2. Step(x, g)
            BY <1>5
        <3> HIDE DEF g
        <3>3. /\ CallerFits(g, task, status, inbound, verdict)
              /\ OwnsParked(g, x)
            BY <3>1 DEF CallerFits, OwnsParked, BindLabels, RuntimeLabels
        <3>4. QED
            BY <3>2, <3>3, StepKeepsCaller
               DEF Step, OnlyThread, databases, processVars
    <2>3. QED
        BY <2>1, <2>2 DEF Decided
<1>6. CASE Load(x)
    <2>1. [f EXCEPT !.pc = "reset"].pc = "reset"
        BY <1>1 DEF Frame
    <2>2. \E g \in {Left(f, FALSE), Decided(f), [f EXCEPT !.pc = "reset"]} :
            Step(x, g)
        BY <1>6 DEF Load
    <2>3. QED
        BY <1>3, <1>4, <1>5, <1>6, <2>1, <2>2 DEF Load, QuietLabels
<1>7. CASE Reset(x)
    <2> DEFINE g == [f EXCEPT !.pc = "reload"]
    <2>1. t \in Task /\ f.trig \in Trigger
        BY <1>2, <1>7 DEF Reset, ExecuteLabels
    <2>2. UNCHANGED <<sessionDb, verdict, up, inc>> /\ Become(x, g)
        BY <1>7 DEF Reset, InTasks, OnlyTask, processVars
    <2>3. RowMove(t)
        <3>1. CASE UNCHANGED task
            BY <1>1, <2>1, <2>2, <3>1, SameRowIsSound
        <3>2. CASE ResetForTrigger(t, f.trig)
            <4>1. /\ \A u \in Task \ {t} : task'[u] = task[u]
                  /\ task'[t].status = "pending" /\ task'[t].run = NoRun
                BY <2>1, <3>2 DEF ResetForTrigger, ServiceInv, WorldTypeOK
            <4>2. \A g_1 \in Trigger : ~LiveOf(t, g_1)
                BY <1>1, <2>1, <3>2
                   DEF ResetForTrigger, MayReset, DataInv, LiveRunsAreBound,
                       LiveRunFits
            <4>3. task[t].run # NoRun => status[task[t].run] \in Ended
                <5> SUFFICES ASSUME task[t].run # NoRun
                             PROVE  status[task[t].run] \in Ended
                    OBVIOUS
                <5>1. /\ task[t].trigger # NoTrigger
                      /\ TaskOf[task[t].trigger] = t
                      /\ inbound[task[t].trigger] = task[t].run
                    BY <1>1, <2>1 DEF DataInv, BoundRunAnswersTrigger
                <5>2. task[t].trigger \in Trigger
                    BY <2>1, <5>1 DEF ServiceInv, WorldTypeOK, Row
                <5>3. QED
                    BY <4>2, <5>1, <5>2 DEF LiveOf, LiveIn
            <4>4. QED
                BY <2>2, <4>1, <4>2, <4>3 DEF RowMove, RowIsSound, LiveRunFits
        <3>3. QED
            BY <1>7, <3>1, <3>2 DEF Reset
    <2>4. g.pc = "reload"
        BY <1>1 DEF Frame
    <2> HIDE DEF g
    <2>5. QED
        BY <2>1, <2>2, <2>3, <2>4, QuietFits, RowKeepsCaller DEF QuietLabels
<1>8. CASE Reload(x)
    BY <1>5, <1>8 DEF Reload
<1>9. CASE CheckRun(x)
    <2>1. [f EXCEPT !.pc = "resume", !.run = NoRun].pc = "resume"
        BY <1>1 DEF Frame
    <2>2. \/ Step(x, Left(f, TRUE))
          \/ Step(x, [f EXCEPT !.pc = "resume", !.run = NoRun])
        BY <1>9 DEF CheckRun
    <2>3. QED
        BY <1>3, <1>4, <2>1, <2>2 DEF QuietLabels
<1>10. CASE Claim(x)
    <2> DEFINE g == [f EXCEPT !.pc = "turn"]
    <2>1. t \in Task
        BY <1>2, <1>10 DEF Claim, ExecuteLabels
    <2>2. CASE ClaimTask(t) /\ InTasks(x, g)
        <3>1. /\ UNCHANGED <<sessionDb, verdict, up, inc>> /\ Become(x, g)
              /\ task[t].status = "pending"
            BY <2>2 DEF InTasks, OnlyTask, processVars, ClaimTask, MayClaim
        <3>2. /\ \A u \in Task \ {t} : task'[u] = task[u]
              /\ task'[t].status = "in_progress"
              /\ task'[t].run = task[t].run
            BY <2>1, <2>2 DEF ClaimTask, ServiceInv, WorldTypeOK, Row
        <3>3. task[t].run = NoRun
            BY <1>1, <2>1, <3>1 DEF DataInv, FreshTasksAreUnbound
        <3>4. \A g_1 \in Trigger : ~LiveOf(t, g_1)
            BY <1>1, <2>1, <3>1 DEF DataInv, LiveRunsAreBound, LiveRunFits
        <3>5. RowMove(t)
            BY <3>1, <3>2, <3>3, <3>4 DEF RowMove, RowIsSound, LiveRunFits
        <3>6. g.pc = "turn" /\ g.task = t
            BY <1>1 DEF Frame
        <3> HIDE DEF g
        <3>7. CallerFits(g, task', status, inbound, verdict)
            BY <3>2, <3>3, <3>4, <3>6
               DEF CallerFits, LiveOf, BindLabels, RuntimeLabels
        <3>8. QED
            BY <2>1, <3>1, <3>5, <3>6, <3>7, RowKeepsCaller
    <2>3. QED
        BY <1>3, <1>4, <1>10, <2>2 DEF Claim, ClaimTask
<1>11. CASE NewTurn(x)
    <2>1. PICK r \in Run : /\ BeginInbound(Me(x), f.trig, r, "loop")
                           /\ \/ InRuns(x, [f EXCEPT !.pc = "bind", !.run = r,
                                                     !.token = 1])
                              \/ InRuns(x, Raised(f))
        BY <1>11 DEF NewTurn
    <2>2. /\ f.pc = "turn" /\ f.op = "execute" /\ f.trig \in Trigger
          /\ t \in Task /\ t = TaskOf[f.trig]
        BY <1>2, <1>11 DEF NewTurn, ExecuteLabels
    <2>3. /\ task[t].status = "in_progress" /\ task[t].run = NoRun
          /\ \A g \in Trigger : ~LiveOf(t, g)
        BY <1>1, <2>2 DEF CallerFits, LiveOf
    <2>4. UNCHANGED <<task, verdict, up, inc>>
        BY <2>1 DEF InRuns, OnlyRuns, processVars
    <2>5. /\ inbound[f.trig] = NoRun /\ status[r] = "absent"
          /\ \A q \in Run : status'[q] = IF q = r THEN "running" ELSE status[q]
          /\ \A g \in Trigger :
               inbound'[g] = IF g = f.trig THEN r ELSE inbound[g]
          /\ \A q \in Run : checkpoint'[q].state =
                              IF q = r THEN "loop" ELSE checkpoint[q].state
        BY <2>1, <2>2, StoreFacts DEF BeginInbound, WriteInbound, StoreTypeOK
    <2>6. \A g \in Trigger : inbound[g] # r
        BY <2>1, <2>5, SessionsAssumption, BoundRunExists
    <2>7. r # NoRun
        BY SessionsAssumption
    <2>8. \A u \in Task, g \in Trigger :
            LiveOf(u, g)' => LiveOf(u, g) \/ (u = t /\ g = f.trig)
        BY <2>2, <2>5, <2>6, StoreFacts DEF LiveOf, LiveIn
    <2>9. DataInv'
        <3>1. BoundRunAnswersTrigger'
            <4> SUFFICES ASSUME NEW u \in Task, task[u].run # NoRun
                         PROVE  /\ task[u].trigger # NoTrigger
                                /\ TaskOf[task[u].trigger] = u
                                /\ inbound'[task[u].trigger] = task[u].run
                BY <2>4 DEF BoundRunAnswersTrigger
            <4>1. task[u].trigger \in Trigger \cup {NoTrigger}
                BY DEF ServiceInv, WorldTypeOK, Row
            <4>2. /\ task[u].trigger # NoTrigger
                  /\ TaskOf[task[u].trigger] = u
                  /\ inbound[task[u].trigger] = task[u].run
                BY <1>1 DEF DataInv, BoundRunAnswersTrigger
            <4>3. QED
                BY <2>5, <4>1, <4>2
        <3>2. FreshTasksAreUnbound'
            BY <1>1, <2>4 DEF DataInv, FreshTasksAreUnbound
        <3>3. VerdictsFit'
            BY <1>1, <2>4, <2>5 DEF DataInv, VerdictsFit
        <3>4. LiveRunsAreBound'
            BY <1>1, <2>3, <2>4, <2>5, <2>8
               DEF DataInv, LiveRunsAreBound, LiveRunFits, LiveOf, LiveIn
        <3>5. OneLiveRun'
            BY <1>1, <2>3, <2>8 DEF DataInv, OneLiveRun
        <3>6. QED
            BY <3>1, <3>2, <3>3, <3>4, <3>5 DEF DataInv
    <2>10. NothingIsDropped
        BY <2>4 DEF NothingIsDropped
    <2>11. \A g \in Trigger : LiveIn(t, g, inbound', status') => g = f.trig
        BY <2>2, <2>3, <2>8 DEF LiveOf
    <2>12. CASE InRuns(x, [f EXCEPT !.pc = "bind", !.run = r, !.token = 1])
        <3> DEFINE g == [f EXCEPT !.pc = "bind", !.run = r, !.token = 1]
        <3>1. g.pc = "bind" /\ g.task = t /\ g.trig = f.trig /\ g.run = r
            BY <1>1 DEF Frame
        <3>2. Become(x, g) /\ th \in [Thread -> Frame]
            BY <2>12 DEF InRuns, ServiceInv, WorldTypeOK
        <3> HIDE DEF g
        <3>3. CallerFits(g, task', status', inbound', verdict')
            BY <2>2, <2>3, <2>4, <2>5, <2>11, <3>1
               DEF CallerFits, BindLabels, RuntimeLabels
        <3>4. QED
            BY <2>4, <2>9, <2>10, <3>1, <3>2, <3>3, ThreadKeepsCaller
    <2>13. CASE InRuns(x, Raised(f))
        <3> DEFINE g == Raised(f)
        <3>1. g.pc = "bind_failed" /\ g.task = t /\ g.trig = f.trig
            BY <1>1, <2>2 DEF Raised, Frame
        <3>2. Become(x, g) /\ th \in [Thread -> Frame]
            BY <2>13 DEF InRuns, ServiceInv, WorldTypeOK
        <3> HIDE DEF g
        <3>3. CallerFits(g, task', status', inbound', verdict')
            BY <2>2, <2>3, <2>4, <2>5, <2>11, <3>1
               DEF CallerFits, BindLabels, RuntimeLabels
        <3>4. QED
            BY <2>4, <2>9, <2>10, <3>1, <3>2, <3>3, ThreadKeepsCaller
    <2>14. QED
        BY <2>1, <2>12, <2>13
<1>12. CASE TurnFails(x)
    <2> DEFINE g == Raised(f)
    <2>1. /\ f.pc = "turn" /\ f.op = "execute"
          /\ UNCHANGED <<task, sessionDb, verdict, up, inc>> /\ Become(x, g)
        BY <1>2, <1>12
           DEF TurnFails, ExecuteLabels, Step, OnlyThread, databases,
               processVars
    <2>2. g.pc = "bind_failed" /\ g.task = t /\ g.trig = f.trig
        BY <1>1, <2>1 DEF Raised, Frame
    <2> HIDE DEF g
    <2>3. /\ CallerFits(g, task, status, inbound, verdict)
          /\ OwnsParked(g, x)
        BY <1>1, <2>1, <2>2
           DEF CallerFits, OwnsParked, BindLabels, RuntimeLabels
    <2>4. QED
        BY <2>1, <2>3, StepKeepsCaller
<1>13. CASE KnownTurn(x)
    <2> DEFINE r == inbound[f.trig]
               g == Returned(f, "completed")
    <2>1. /\ f.pc = "turn" /\ f.op = "execute" /\ f.trig \in Trigger
          /\ t \in Task /\ t = TaskOf[f.trig] /\ r # NoRun
        BY <1>2, <1>13 DEF KnownTurn, ExecuteLabels
    <2>2. status[r] \in Ended
        BY <1>1, <2>1 DEF CallerFits, LiveIn
    <2>3. Step(x, g)
        BY <1>13, <2>2 DEF KnownTurn, Ended
    <2>4. g.pc = "bind_result" /\ g.task = t /\ g.trig = f.trig
        BY <1>1, <2>1 DEF Returned, Frame
    <2> HIDE DEF g
    <2>5. /\ CallerFits(g, task, status, inbound, verdict)
          /\ OwnsParked(g, x)
        BY <1>1, <2>1, <2>2, <2>4
           DEF CallerFits, OwnsParked, BindLabels, RuntimeLabels
    <2>6. QED
        BY <2>3, <2>5, StepKeepsCaller
           DEF Step, OnlyThread, databases, processVars
<1>14. CASE Bind(x)
    <2> DEFINE g == [f EXCEPT !.pc = "work", !.guarded = TRUE]
    <2>1. /\ f.pc = "bind" /\ f.op = "execute" /\ f.trig \in Trigger
          /\ t \in Task /\ t = TaskOf[f.trig]
          /\ f.run = inbound[f.trig] /\ f.run \in Run
          /\ TryBind(t, inbound[f.trig], f.trig)
          /\ UNCHANGED <<sessionDb, verdict, up, inc>> /\ Become(x, g)
        BY <1>1, <1>2, <1>14
           DEF Bind, ExecuteLabels, CallerFits, InTasks, OnlyTask, processVars
    <2>2. /\ RowMove(t) /\ task'[t].status = "in_progress"
          /\ task'[t].run = f.run
        BY <1>1, <2>1, BindIsSound DEF CallerFits, BindLabels, LiveOf
    <2>3. /\ g.pc = "work" /\ g.task = t /\ g.trig = f.trig /\ g.run = f.run
          /\ g.op = "execute"
        BY <1>1, <2>1 DEF Frame
    <2>4. status[f.run] # "absent"
        BY <2>1, SessionsAssumption, BoundRunExists
    <2> HIDE DEF g
    <2>5. CallerFits(g, task', status, inbound, verdict)
        BY <2>1, <2>2, <2>3, <2>4 DEF CallerFits, BindLabels, RuntimeLabels
    <2>6. QED
        BY <2>1, <2>2, <2>3, <2>5, RowKeepsCaller
<1>15. CASE BindResult(x)
    <2> DEFINE g == [f EXCEPT !.pc = "apply"]
    <2>1. /\ f.pc = "bind_result" /\ f.trig \in Trigger
          /\ t \in Task /\ t = TaskOf[f.trig]
          /\ TryBind(t, inbound[f.trig], f.trig)
          /\ UNCHANGED <<sessionDb, verdict, up, inc>> /\ Become(x, g)
        BY <1>2, <1>15
           DEF BindResult, ExecuteLabels, InTasks, OnlyTask, processVars
    <2>2. /\ RowMove(t) /\ task'[t].status = "in_progress"
          /\ task'[t].run = inbound[f.trig]
        BY <1>1, <2>1, BindIsSound DEF CallerFits, BindLabels, LiveOf
    <2>3. g.pc = "apply" /\ g.task = t /\ g.seen = f.seen
        BY <1>1, <2>1 DEF Frame
    <2> HIDE DEF g
    <2>4. CallerFits(g, task', status, inbound, verdict)
        BY <1>1, <2>1, <2>2, <2>3 DEF CallerFits, BindLabels, RuntimeLabels
    <2>5. QED
        BY <2>1, <2>2, <2>3, <2>4, RowKeepsCaller
<1>16. CASE Apply(x)
    <2>1. /\ f.pc = "apply" /\ t \in Task
          /\ f.seen \in {"in_progress", "completed", "pending"}
          /\ UNCHANGED <<sessionDb, verdict, up, inc>>
          /\ Become(x, Left(f, TRUE))
        BY <1>1, <1>16, TaskServiceAssumption
           DEF Apply, FrameFits, ForItsTrigger, InTasks, OnlyTask, processVars
    <2>2. /\ task[t].run # NoRun
          /\ f.seen = "completed" => status[task[t].run] \in Ended
        BY <1>1, <2>1 DEF CallerFits
    <2>3. RowMove(t)
        <3>1. CASE f.seen = "in_progress"
            BY <1>1, <1>16, <2>1, <3>1, SameRowIsSound DEF Apply
        <3>2. CASE f.seen # "in_progress"
            BY <1>1, <1>16, <2>1, <2>2, <3>2, MoveIsSound DEF Apply, TargetOf
        <3>3. QED
            BY <3>1, <3>2
    <2>4. QED
        BY <1>3, <2>1, <2>3, QuietRowKeepsCaller
<1>17. CASE BindFailed(x)
    <2> DEFINE g == [f EXCEPT !.pc = "interrupt_task", !.run = inbound[f.trig]]
    <2>1. /\ f.pc = "bind_failed" /\ f.trig \in Trigger
          /\ t \in Task /\ t = TaskOf[f.trig]
          /\ TryBind(t, inbound[f.trig], f.trig)
          /\ UNCHANGED <<sessionDb, verdict, up, inc>> /\ Become(x, g)
        BY <1>2, <1>17
           DEF BindFailed, ExecuteLabels, InTasks, OnlyTask, processVars
    <2>2. /\ RowMove(t) /\ task'[t].status = "in_progress"
          /\ task'[t].run = inbound[f.trig]
        BY <1>1, <2>1, BindIsSound DEF CallerFits, BindLabels, LiveOf
    <2>3. /\ g.pc = "interrupt_task" /\ g.task = t /\ g.trig = f.trig
          /\ g.run = inbound[f.trig]
        BY <1>1, <2>1 DEF Frame
    <2> HIDE DEF g
    <2>4. CallerFits(g, task', status, inbound, verdict)
        BY <2>1, <2>2, <2>3 DEF CallerFits, BindLabels, RuntimeLabels
    <2>5. QED
        BY <2>1, <2>2, <2>3, <2>4, RowKeepsCaller
<1>18. CASE InterruptTask(x)
    <2>1. /\ f.pc = "interrupt_task" /\ t \in Task
          /\ f.op \in {"execute", "resume"}
          /\ UNCHANGED <<sessionDb, verdict, up, inc>>
          /\ Become(x, Left(f, FALSE))
        BY <1>1, <1>18, TaskServiceAssumption
           DEF InterruptTask, FrameFits, ForItsTrigger, InTasks, OnlyTask,
               processVars
    <2>2. RowMove(t)
        <3>1. CASE f.op = "resume"
            BY <1>1, <1>18, <2>1, <3>1, MoveIsSound DEF InterruptTask
        <3>2. CASE f.op = "execute"
            <4>1. /\ task[t].status = "in_progress"
                  /\ task[t].run = f.run /\ f.run = inbound[f.trig]
                  /\ f.trig \in Trigger /\ TaskOf[f.trig] = t
                BY <1>1, <2>1, <3>2 DEF CallerFits, FrameFits, ForItsTrigger
            <4>2. f.trig # NoTrigger
                BY <4>1, TaskServiceAssumption
            <4>3. TransitionTask(t, {"in_progress"}, "interrupted", f.run,
                                 f.trig)
                BY <1>18, <3>2, <4>1 DEF InterruptTask, TryMove
            <4>4. /\ \A u \in Task \ {t} : task'[u] = task[u]
                  /\ task'[t].status = "interrupted"
                  /\ task'[t].run = task[t].run
                  /\ task'[t].trigger = f.trig
                BY <2>1, <4>1, <4>2, <4>3
                   DEF TransitionTask, ServiceInv, WorldTypeOK
            <4>5. \A g \in Trigger : LiveRunFits(t, g, task[t])
                BY <1>1, <2>1 DEF DataInv, LiveRunsAreBound
            <4>6. RowIsSound(t, task'[t])
                BY <4>1, <4>2, <4>4, <4>5 DEF RowIsSound, LiveRunFits
            <4>7. QED
                BY <2>1, <4>4, <4>6 DEF RowMove
        <3>3. QED
            BY <2>1, <3>1, <3>2
    <2>3. QED
        BY <1>3, <2>1, <2>2, QuietRowKeepsCaller
<1>19. QED
    BY <1>6, <1>7, <1>8, <1>9, <1>10, <1>11, <1>12, <1>13, <1>14, <1>15,
       <1>16, <1>17, <1>18 DEF ExecuteStep

(* Runs move, and the thread goes to a label that says nothing of them.    *)
LEMMA QuietRunsKeepCaller ==
    ASSUME Undisturbed, ServiceInv, CallerInv, RunsMove,
           UNCHANGED <<up, inc>>,
           NEW x \in Thread, ProcessOf[x] \in up, NEW f, Become(x, f),
           f.pc \in QuietLabels
    PROVE  ThreadStep(x)
<1>1. f.pc # "approved"
    BY DEF QuietLabels
<1>2. CallerFits(f, task, status', inbound, verdict')
    BY QuietFits
<1>3. QED
    BY <1>1, <1>2, RunsKeepCaller

(* The runtime is left with an outcome that fits the run.                  *)
LEMMA ReturnKeepsCaller ==
    ASSUME Undisturbed, ServiceInv, CallerInv, RunsMove,
           UNCHANGED <<up, inc>>,
           NEW x \in Thread, ProcessOf[x] \in up, th[x].pc \in RuntimeLabels,
           NEW out \in {"in_progress", "completed", "pending"},
           out = "completed" /\ th[x].op \in {"execute", "resume"} =>
             status'[th[x].run] \in Ended,
           Become(x, Returned(th[x], out))
    PROVE  ThreadStep(x)
<1>1. /\ th[x] \in Frame /\ FrameFits(th[x], finished)
      /\ CallerFits(th[x], task, status, inbound, verdict)
      /\ DataInv
    BY ThreadFacts, CallerFacts
<1>2. CallerFits(Returned(th[x], out), task, status', inbound, verdict')
    BY <1>1, ReturnedCalls DEF RunsMove
<1>3. Returned(th[x], out).pc # "approved"
    BY <1>1 DEF Returned, Idle, Caller, FrameFits, Frame
<1>4. QED
    BY <1>2, <1>3, RunsKeepCaller

LEMMA RaiseKeepsCaller ==
    ASSUME Undisturbed, ServiceInv, CallerInv, RunsMove,
           UNCHANGED <<up, inc>>,
           NEW x \in Thread, ProcessOf[x] \in up, th[x].pc \in RuntimeLabels,
           Become(x, Raised(th[x]))
    PROVE  ThreadStep(x)
<1>1. /\ th[x] \in Frame /\ FrameFits(th[x], finished)
      /\ CallerFits(th[x], task, status, inbound, verdict)
      /\ DataInv
    BY ThreadFacts, CallerFacts
<1>2. CallerFits(Raised(th[x]), task, status', inbound, verdict')
    <2>1. \A r \in Run : status[r] \in Ended => status'[r] \in Ended
        BY DEF RunsMove
    <2>2. "pending" = "completed" /\ th[x].op \in {"execute", "resume"} =>
            status'[th[x].run] \in Ended
        OBVIOUS
    <2>3. QED
        BY <1>1, <2>1, <2>2, ReturnedCalls
<1>3. Raised(th[x]).pc # "approved"
    BY <1>1 DEF Raised, Idle, Frame
<1>4. QED
    BY <1>2, <1>3, RunsKeepCaller

LEMMA StillRunsMove ==
    ASSUME DataInv, UNCHANGED <<task, sessionDb, verdict>>
    PROVE  RunsMove
    BY DEF RunsMove, sessionDb, DataInv, VerdictsFit

(* The loop goes on in the runtime.                                        *)
LEMMA GoOnFits ==
    ASSUME NEW f \in Frame, NEW g \in Frame, g.op = f.op, g.trig = f.trig,
           g.task = f.task, g.run = f.run, f.pc \in RuntimeLabels,
           g.pc \in RuntimeLabels,
           CallerFits(f, task, status, inbound, verdict),
           NEW runs, NEW verdicts, runs[f.run] # "absent",
           g.pc = "get_run" => runs[f.run] # "waiting_approval",
           g.pc \in {"approval", "claim_parked", "approved"} =>
             verdicts[f.run] = "decided"
    PROVE  CallerFits(g, task, runs, inbound, verdicts)
    BY DEF CallerFits, BindLabels, RuntimeLabels

(* A checkpoint is saved together with the verdict it waits for.           *)
LEMMA SaveMovesRuns ==
    ASSUME ServiceInv, DataInv, NEW p, NEW r \in Run, NEW k,
           NEW st \in {"loop", "approval"},
           NEW v \in {"none", "pending", "decided"},
           st = "loop" <=> v = "none",
           SaveCheckpoint(p, r, k, st),
           verdict' = [verdict EXCEPT ![r] = v], UNCHANGED task
    PROVE  RunsMove /\ UNCHANGED runVars
<1>1. /\ UNCHANGED <<status, inbound>> /\ UNCHANGED runVars
      /\ status[r] = "running"
      /\ checkpoint' = [checkpoint EXCEPT ![r] = [state |-> st, by |-> k]]
    BY DEF SaveCheckpoint, WriteCheckpoint, Owns, runVars, inboundVars
<1>2. \A q \in Run : /\ checkpoint'[q].state = IF q = r THEN st
                                               ELSE checkpoint[q].state
                     /\ verdict'[q] = IF q = r THEN v ELSE verdict[q]
    BY <1>1, StoreFacts DEF StoreTypeOK, ServiceInv, WorldTypeOK
<1>3. VerdictsFit'
    BY <1>1, <1>2 DEF DataInv, VerdictsFit
<1>4. QED
    BY <1>1, <1>3 DEF RunsMove

(* A claim, from a status in which no run has ended.                       *)
LEMMA ClaimMovesRuns ==
    ASSUME ServiceInv, DataInv, NEW p, NEW r \in Run,
           NEW expected \in ClaimableFrom, ClaimRun(p, r, expected),
           UNCHANGED <<task, verdict>>
    PROVE  /\ RunsMove
           /\ status'[r] = "running" /\ owner'[r] = p
           /\ token'[r] = token[r] + 1
<1>1. /\ status[r] \in {"waiting_approval", "interrupted"}
      /\ UNCHANGED <<inbound, checkpoint>>
    BY DEF ClaimRun, ClaimableFrom, inboundVars
<1>2. /\ \A q \in Run : status'[q] = IF q = r THEN "running" ELSE status[q]
      /\ owner'[r] = p /\ token'[r] = token[r] + 1
    BY StoreFacts DEF ClaimRun, StoreTypeOK
<1>3. VerdictsFit'
    BY <1>1, <1>2 DEF DataInv, VerdictsFit
<1>4. QED
    BY <1>1, <1>2, <1>3 DEF RunsMove, Ended

LEMMA RuntimeKeepsCaller ==
    ASSUME Undisturbed, ServiceInv, CallerInv,
           NEW x \in Thread, ProcessOf[x] \in up, RuntimeStep(x)
    PROVE  ThreadStep(x)
<1> DEFINE f == th[x]
           r == f.run
           To(label) == [f EXCEPT !.pc = label]
<1> USE DEF At
<1>1. /\ f \in Frame /\ FrameFits(f, finished)
      /\ CallerFits(f, task, status, inbound, verdict) /\ OwnsParked(f, x)
      /\ DataInv /\ BoundRunAnswersTrigger
    BY ThreadFacts, CallerFacts DEF DataInv
<1>2. f.pc \in RuntimeLabels =>
        f.op \in Caller /\ r \in Run /\ status[r] # "absent"
    BY <1>1 DEF FrameFits, CallerFits
<1>3. Left(f, TRUE).pc \in QuietLabels /\ Left(f, FALSE).pc \in QuietLabels
    BY LeftIsQuiet
<1>4. ASSUME NEW g, Step(x, g)
      PROVE  /\ UNCHANGED <<task, sessionDb, verdict, up, inc>>
             /\ RunsMove /\ UNCHANGED status /\ Become(x, g)
    BY <1>1, <1>4, StillRunsMove
       DEF Step, OnlyThread, databases, processVars, sessionDb
<1>5. ASSUME NEW g, InRuns(x, g)
      PROVE  UNCHANGED <<task, verdict, up, inc>> /\ Become(x, g)
    BY <1>5 DEF InRuns, OnlyRuns, processVars
<1>6. ASSUME f.pc \in RuntimeLabels, NEW label \in RuntimeLabels,
             label \notin {"get_run", "approved"}, Step(x, To(label)),
             label \in {"approval", "claim_parked"} => verdict[r] = "decided"
      PROVE  ThreadStep(x)
    <2> DEFINE g == To(label)
    <2>1. /\ g \in Frame /\ g.op = f.op /\ g.trig = f.trig /\ g.task = f.task
          /\ g.run = r /\ g.pc = label
        BY <1>1 DEF Frame, Labels, RuntimeLabels
    <2>2. UNCHANGED <<task, sessionDb, verdict, up, inc>> /\ Become(x, g)
        BY <1>4, <1>6
    <2> HIDE DEF g
    <2>3. CallerFits(g, task, status, inbound, verdict)
        BY <1>1, <1>2, <1>6, <2>1, GoOnFits
    <2>4. OwnsParked(g, x)
        BY <1>6, <2>1 DEF OwnsParked
    <2>5. QED
        BY <2>2, <2>3, <2>4, StepKeepsCaller
<1> HIDE DEF To
<1>7. CASE ResumeLoad(x)
    <2>1. f.task \in Task
        BY <1>1, <1>7, TaskServiceAssumption
           DEF ResumeLoad, FrameFits, ForItsTrigger, ResumeLabels
    <2>2. CASE Step(x, Left(f, FALSE))
        BY <1>3, <1>4, <2>2, QuietStepKeepsCaller
    <2>3. CASE Step(x, [f EXCEPT !.pc = "resume_check",
                                 !.run = task[f.task].run])
        <3> DEFINE g == [f EXCEPT !.pc = "resume_check",
                                  !.run = task[f.task].run]
        <3>1. /\ g.pc = "resume_check" /\ g.task = f.task
              /\ g.run = task[f.task].run
            BY <1>1 DEF Frame
        <3>2. UNCHANGED <<task, sessionDb, verdict, up, inc>> /\ Become(x, g)
            BY <1>4, <2>3
        <3> HIDE DEF g
        <3>3. /\ CallerFits(g, task, status, inbound, verdict)
              /\ OwnsParked(g, x)
            BY <3>1 DEF CallerFits, OwnsParked, BindLabels, RuntimeLabels
        <3>4. QED
            BY <3>2, <3>3, StepKeepsCaller
    <2>4. QED
        BY <1>7, <2>2, <2>3 DEF ResumeLoad
<1>8. CASE ResumeCheck(x)
    <2>1. f.pc = "resume_check" /\ task[f.task].run = r
        BY <1>1, <1>8 DEF ResumeCheck, CallerFits
    <2>2. CASE Step(x, Left(f, TRUE))
        BY <1>3, <1>4, <2>2, QuietStepKeepsCaller
    <2>3. CASE status[r] # "waiting_approval" /\ Step(x, To("take"))
        <3> DEFINE g == To("take")
        <3>1. g.pc = "take" /\ g.task = f.task /\ g.run = r
            BY <1>1 DEF Frame, To
        <3>2. UNCHANGED <<task, sessionDb, verdict, up, inc>> /\ Become(x, g)
            BY <1>4, <2>3
        <3> HIDE DEF g
        <3>3. /\ CallerFits(g, task, status, inbound, verdict)
              /\ OwnsParked(g, x)
            BY <2>1, <2>3, <3>1
               DEF CallerFits, OwnsParked, BindLabels, RuntimeLabels
        <3>4. QED
            BY <3>2, <3>3, StepKeepsCaller
    <2>4. QED
        BY <1>8, <2>2, <2>3 DEF ResumeCheck, To
<1>9. CASE Take(x)
    <2> DEFINE g == [f EXCEPT !.pc = "get_run", !.op = "resume"]
               suspended == {"interrupted", "paused"}
    <2>1. /\ f.pc = "take" /\ f.task \in Task /\ task[f.task].run = r
          /\ status[r] # "waiting_approval" /\ r \in Run
        BY <1>1, <1>9, TaskServiceAssumption
           DEF Take, FrameFits, CallerFits, ForItsTrigger, ResumeLabels
    <2>2. CASE Step(x, Left(f, TRUE))
        BY <1>3, <1>4, <2>2, QuietStepKeepsCaller
    <2>3. CASE MoveTask(f.task, suspended, "in_progress") /\ InTasks(x, g)
        <3>1. UNCHANGED <<sessionDb, verdict, up, inc>> /\ Become(x, g)
            BY <2>3 DEF InTasks, OnlyTask, processVars
        <3>2. TryMove(f.task, suspended, "in_progress", NoRun, NoTrigger)
            BY <2>3 DEF MoveTask, TryMove
        <3>3. RowMove(f.task)
            BY <1>1, <2>1, <3>1, <3>2, MoveIsSound
        <3>4. /\ task'[f.task].status = "in_progress"
              /\ task'[f.task].run = r
            BY <2>1, <2>3
               DEF MoveTask, TransitionTask, ServiceInv, WorldTypeOK
        <3>5. /\ g.pc = "get_run" /\ g.task = f.task /\ g.run = r
              /\ g.op = "resume"
            BY <1>1 DEF Frame
        <3>6. status[r] # "absent"
            BY <1>1, <2>1, SessionsAssumption, BoundRunExists
        <3> HIDE DEF g
        <3>7. CallerFits(g, task', status, inbound, verdict)
            BY <2>1, <3>4, <3>5, <3>6
               DEF CallerFits, BindLabels, RuntimeLabels
        <3>8. QED
            BY <2>1, <3>1, <3>3, <3>5, <3>7, RowKeepsCaller
    <2>4. QED
        BY <1>9, <2>2, <2>3 DEF Take
<1>10. CASE GetRun(x)
    <2>1. /\ f.pc = "get_run" /\ f.pc \in RuntimeLabels
          /\ status[r] # "waiting_approval"
        BY <1>1, <1>10 DEF GetRun, CallerFits, RuntimeLabels
    <2>2. CASE status[r] \in Ended /\ Step(x, Returned(f, "completed"))
        BY <1>4, <2>1, <2>2, ReturnKeepsCaller
    <2>3. CASE Step(x, To("read_checkpoint"))
        BY <1>6, <2>1, <2>3 DEF RuntimeLabels
    <2>4. QED
        BY <1>10, <2>1, <2>2, <2>3 DEF GetRun, To
<1>11. CASE ReadCheckpoint(x)
    <2>1. f.pc = "read_checkpoint" /\ f.pc \in RuntimeLabels
        BY <1>11 DEF ReadCheckpoint, RuntimeLabels
    <2>2. checkpoint[r].state # "loop" => verdict[r] \in {"pending", "decided"}
        BY <1>1, <1>2, <2>1
           DEF DataInv, VerdictsFit, ServiceInv, WorldTypeOK
    <2>3. \E label \in {"claim_run", "wait", "approval"} :
            /\ Step(x, To(label))
            /\ label = "approval" => verdict[r] = "decided"
        BY <1>11, <2>2 DEF ReadCheckpoint, To
    <2>4. QED
        BY <1>6, <2>1, <2>3 DEF RuntimeLabels
<1>12. CASE WaitAgain(x)
    <2>1. f.pc = "wait" /\ f.pc \in RuntimeLabels
        BY <1>12 DEF WaitAgain, RuntimeLabels
    <2>2. /\ TryTransition(x, r, "waiting_approval", NoToken)
          /\ UNCHANGED <<task, verdict, up, inc>>
          /\ Become(x, Returned(f, "pending"))
        BY <1>5, <1>12 DEF WaitAgain
    <2>3. RunsMove
        BY <1>1, <1>2, <2>1, <2>2, TransitionMovesRuns DEF TransitionTargets
    <2>4. QED
        BY <2>1, <2>2, <2>3, ReturnKeepsCaller
<1>13. ASSUME NEW expected \in ClaimableFrom, NEW g \in Frame,
              f.pc \in {"claim_run", "claim_parked"},
              g.op = f.op, g.trig = f.trig, g.task = f.task, g.run = r,
              g.pc \in {"work", "approved"},
              g.pc = "approved" => f.pc = "claim_parked",
              ClaimForWork(x, expected, g)
       PROVE  ThreadStep(x)
    <2>1. f.pc \in RuntimeLabels
        BY <1>13 DEF RuntimeLabels
    <2>2. CASE Step(x, Returned(f, "in_progress"))
        BY <1>4, <2>1, <2>2, ReturnKeepsCaller
    <2>3. CASE /\ ClaimRun(Me(x), r, expected)
               /\ InRuns(x, [g EXCEPT !.token = token[r] + 1])
        <3> DEFINE h == [g EXCEPT !.token = token[r] + 1]
        <3>1. token[r] + 1 \in Token
            BY <1>2, <2>1, <2>3, StoreFacts, SessionsAssumption
               DEF ClaimRun, Token
        <3>2. /\ h \in Frame /\ h.op = f.op /\ h.trig = f.trig
              /\ h.task = f.task /\ h.run = r /\ h.pc = g.pc
              /\ h.token = token[r] + 1
            BY <1>13, <3>1 DEF Frame
        <3>3. UNCHANGED <<task, verdict, up, inc>> /\ Become(x, h)
            BY <1>5, <2>3
        <3>4. /\ RunsMove /\ status'[r] = "running" /\ owner'[r] = Me(x)
              /\ token'[r] = token[r] + 1
            BY <1>1, <1>2, <2>1, <2>3, <3>3, ClaimMovesRuns
        <3>5. f.pc = "claim_parked" => verdict[r] = "decided"
            BY <1>1 DEF CallerFits
        <3> HIDE DEF h
        <3>6. CallerFits(h, task, status', inbound, verdict')
            BY <1>1, <1>13, <2>1, <3>2, <3>3, <3>4, <3>5, GoOnFits
               DEF RuntimeLabels
        <3>7. QED
            BY <3>2, <3>3, <3>4, <3>6, RunsKeepCaller
    <2>4. QED
        BY <1>13, <2>2, <2>3 DEF ClaimForWork
<1>14. CASE ClaimInterrupted(x)
    <2> DEFINE g == [f EXCEPT !.pc = "work", !.guarded = TRUE]
    <2>1. /\ g \in Frame /\ g.op = f.op /\ g.trig = f.trig /\ g.task = f.task
          /\ g.run = r /\ g.pc = "work"
        <3>1. "work" \in Labels
            BY DEF Labels
        <3>2. QED
            BY <1>1, <3>1 DEF Frame
    <2>2. f.pc = "claim_run" /\ ClaimForWork(x, {"interrupted"}, g)
        BY <1>14 DEF ClaimInterrupted
    <2> HIDE DEF g
    <2>3. QED
        BY <1>13, <2>1, <2>2 DEF ClaimableFrom
<1>15. CASE CheckParked(x)
    <2>1. f.pc = "approval" /\ f.pc \in RuntimeLabels /\ verdict[r] = "decided"
        BY <1>1, <1>15 DEF CheckParked, RuntimeLabels, CallerFits
    <2>2. CASE status[r] \in Ended /\ Step(x, Returned(f, "completed"))
        BY <1>4, <2>1, <2>2, ReturnKeepsCaller
    <2>3. CASE Step(x, To("claim_parked"))
        BY <1>6, <2>1, <2>3 DEF RuntimeLabels
    <2>4. QED
        BY <1>15, <2>2, <2>3 DEF CheckParked, To
<1>16. CASE ClaimParked(x)
    <2> DEFINE g == To("approved")
    <2>1. /\ g \in Frame /\ g.op = f.op /\ g.trig = f.trig /\ g.task = f.task
          /\ g.run = r /\ g.pc = "approved"
        <3>1. "approved" \in Labels
            BY DEF Labels
        <3>2. QED
            BY <1>1, <3>1 DEF Frame, To
    <2>2. /\ f.pc = "claim_parked"
          /\ ClaimForWork(x, {"waiting_approval", "interrupted"}, g)
        BY <1>16 DEF ClaimParked, To
    <2> HIDE DEF g
    <2>3. QED
        BY <1>13, <2>1, <2>2 DEF ClaimableFrom
<1>17. CASE CarryOut(x)
    <2>1. /\ f.pc = "approved" /\ f.pc \in RuntimeLabels
          /\ verdict[r] = "decided" /\ Owns(Me(x), r, f.token)
        BY <1>1, <1>17 DEF CarryOut, RuntimeLabels, CallerFits, OwnsParked
    <2>2. CASE /\ SaveCheckpoint(Me(x), r, f.token, "loop")
               /\ verdict' = [verdict EXCEPT ![r] = "none"]
               /\ Become(x, To("work"))
               /\ UNCHANGED <<task, trigger, processVars>>
        <3>1. RunsMove /\ UNCHANGED runVars
            BY <1>1, <1>2, <2>1, <2>2, SaveMovesRuns
        <3> DEFINE g == To("work")
        <3>2. /\ g \in Frame /\ g.op = f.op /\ g.trig = f.trig
              /\ g.task = f.task /\ g.run = r /\ g.pc = "work"
            <4>1. "work" \in Labels
                BY DEF Labels
            <4>2. QED
                BY <1>1, <4>1 DEF Frame, To
        <3> HIDE DEF g
        <3>3. CallerFits(g, task, status', inbound, verdict')
            BY <1>1, <1>2, <2>1, <3>1, <3>2, GoOnFits
               DEF RuntimeLabels, runVars
        <3>4. UNCHANGED <<up, inc>> /\ Become(x, g)
            BY <2>2 DEF processVars, g
        <3>5. QED
            BY <3>1, <3>2, <3>3, <3>4, RunsKeepCaller
    <2>3. CASE /\ TryTransition(x, r, "failed", f.token)
               /\ InRuns(x, Returned(f, "completed"))
        <3>1. /\ UNCHANGED <<task, verdict, up, inc>>
              /\ Become(x, Returned(f, "completed"))
            BY <1>5, <2>3
        <3>2. RunsMove
            BY <1>1, <1>2, <2>1, <2>3, <3>1, TransitionMovesRuns
               DEF TransitionTargets
        <3>3. MayTransition(Me(x), r, "failed", f.token)
            BY <2>1 DEF Owns, MayTransition, Transitions
        <3>4. status'[r] = "failed"
            BY <1>2, <2>1, <2>3, <3>3, StoreFacts
               DEF TryTransition, TransitionRun, StoreTypeOK
        <3>5. QED
            BY <2>1, <3>1, <3>2, <3>4, ReturnKeepsCaller DEF Ended
    <2>4. QED
        BY <1>17, <2>1, <2>2, <2>3 DEF CarryOut, To
<1>18. CASE Work(x)
    <2>1. f.pc = "work" /\ f.pc \in RuntimeLabels
        BY <1>18 DEF Work, RuntimeLabels
    <2>2. CASE /\ CompleteRun(Me(x), r, f.token, "answer")
               /\ InRuns(x, Returned(f, "completed"))
        <3>1. /\ UNCHANGED <<task, verdict, up, inc>>
              /\ Become(x, Returned(f, "completed"))
            BY <1>5, <2>2
        <3>2. /\ UNCHANGED <<inbound, checkpoint>> /\ status[r] = "running"
              /\ \A q \in Run :
                   status'[q] = IF q = r THEN "completed" ELSE status[q]
            BY <1>2, <2>1, <2>2, StoreFacts
               DEF CompleteRun, WriteCompletion, Owns, StoreTypeOK
        <3>3. VerdictsFit'
            BY <1>1, <3>1, <3>2 DEF DataInv, VerdictsFit
        <3>4. RunsMove
            BY <3>1, <3>2, <3>3 DEF RunsMove, Ended
        <3>5. QED
            BY <1>2, <2>1, <3>1, <3>2, <3>4, ReturnKeepsCaller DEF Ended
    <2>3. CASE /\ SaveCheckpoint(Me(x), r, f.token, "approval")
               /\ verdict' = [verdict EXCEPT ![r] = "pending"]
               /\ Become(x, To("park"))
               /\ UNCHANGED <<task, trigger, processVars>>
        <3>1. RunsMove /\ UNCHANGED runVars
            BY <1>1, <1>2, <2>1, <2>3, SaveMovesRuns
        <3> DEFINE g == To("park")
        <3>2. /\ g \in Frame /\ g.op = f.op /\ g.trig = f.trig
              /\ g.task = f.task /\ g.run = r /\ g.pc = "park"
            <4>1. "park" \in Labels
                BY DEF Labels
            <4>2. QED
                BY <1>1, <4>1 DEF Frame, To
        <3> HIDE DEF g
        <3>3. CallerFits(g, task, status', inbound, verdict')
            BY <1>1, <1>2, <2>1, <3>1, <3>2, GoOnFits
               DEF RuntimeLabels, runVars
        <3>4. UNCHANGED <<up, inc>> /\ Become(x, g)
            BY <2>3 DEF processVars, g
        <3>5. QED
            BY <3>1, <3>2, <3>3, <3>4, RunsKeepCaller
    <2>4. CASE Step(x, To("interrupt_run"))
        BY <1>6, <2>1, <2>4 DEF RuntimeLabels
    <2>5. CASE Step(x, Raised(f))
        BY <1>4, <2>1, <2>5, RaiseKeepsCaller
    <2>6. QED
        BY <1>18, <2>2, <2>3, <2>4, <2>5 DEF Work, To
<1>19. CASE Park(x)
    <2>1. f.pc = "park" /\ f.pc \in RuntimeLabels
        BY <1>19 DEF Park, RuntimeLabels
    <2>2. /\ TryTransition(x, r, "waiting_approval", f.token)
          /\ UNCHANGED <<task, verdict, up, inc>>
          /\ Become(x, Returned(f, "pending"))
        BY <1>5, <1>19 DEF Park
    <2>3. RunsMove
        BY <1>1, <1>2, <2>1, <2>2, TransitionMovesRuns DEF TransitionTargets
    <2>4. QED
        BY <2>1, <2>2, <2>3, ReturnKeepsCaller
<1>20. CASE InterruptRun(x)
    <2>1. f.pc = "interrupt_run" /\ f.pc \in RuntimeLabels
        BY <1>20 DEF InterruptRun, RuntimeLabels
    <2>2. /\ TryTransition(x, r, "interrupted", f.token)
          /\ UNCHANGED <<task, verdict, up, inc>>
          /\ Become(x, Raised(f))
        BY <1>5, <1>20 DEF InterruptRun
    <2>3. RunsMove
        BY <1>1, <1>2, <2>1, <2>2, TransitionMovesRuns DEF TransitionTargets
    <2>4. QED
        BY <2>1, <2>2, <2>3, RaiseKeepsCaller
<1>21. QED
    BY <1>7, <1>8, <1>9, <1>10, <1>11, <1>12, <1>14, <1>15, <1>16, <1>17,
       <1>18, <1>19, <1>20 DEF RuntimeStep

(* pause, cancel and fail move a task to a status that says nothing of its *)
(* run, which is still live: the run follows in a later transaction.       *)
LEMMA StopKeepsCaller ==
    ASSUME Undisturbed, ServiceInv, CallerInv,
           NEW x \in Thread, ProcessOf[x] \in up,
           StopTask(x) \/ StopRead(x) \/ StopRun(x)
    PROVE  ThreadStep(x)
<1> DEFINE f == th[x]
<1> USE DEF At
<1>1. f \in Frame /\ FrameFits(f, finished) /\ DataInv
    BY ThreadFacts, CallerFacts
<1>2. f.pc \in StopLabels =>
        f.task \in Task /\ f.seen \in {"paused", "cancelled", "failed"}
    BY <1>1 DEF FrameFits
<1>3. Idle.pc \in QuietLabels
    BY DEF Idle, QuietLabels
<1>4. ASSUME NEW g, Step(x, g), g.pc \in QuietLabels
      PROVE  ThreadStep(x)
    BY <1>4, QuietStepKeepsCaller DEF Step, OnlyThread, databases, processVars
<1>5. CASE StopTask(x)
    <2>1. f.pc = "stop_task" /\ f.pc \in StopLabels
        BY <1>5 DEF StopTask, StopLabels
    <2>2. CASE Step(x, Idle)
        BY <1>3, <1>4, <2>2
    <2>3. CASE /\ MoveTask(f.task, Sources(f.seen), f.seen)
               /\ InTasks(x, IF f.run = NoRun THEN Idle
                             ELSE [f EXCEPT !.pc = "stop_read"])
        <3> DEFINE g == IF f.run = NoRun THEN Idle
                        ELSE [f EXCEPT !.pc = "stop_read"]
        <3>1. UNCHANGED <<sessionDb, verdict, up, inc>> /\ Become(x, g)
            BY <2>3 DEF InTasks, OnlyTask, processVars
        <3>2. TryMove(f.task, Sources(f.seen), f.seen, NoRun, NoTrigger)
            BY <2>3 DEF MoveTask, TryMove
        <3>3. RowMove(f.task)
            BY <1>1, <1>2, <2>1, <3>1, <3>2, MoveIsSound
        <3>4. g.pc \in QuietLabels
            BY <1>1, <1>3 DEF Frame, QuietLabels
        <3> HIDE DEF g
        <3>5. QED
            BY <1>2, <2>1, <3>1, <3>3, <3>4, QuietRowKeepsCaller
    <2>4. QED
        BY <1>5, <2>2, <2>3 DEF StopTask
<1>6. CASE StopRead(x)
    <2>1. \E g \in {[f EXCEPT !.pc = "stop_run", !.token = token[f.run]],
                    [f EXCEPT !.pc = "stop_run"], Idle} : Step(x, g)
        BY <1>6 DEF StopRead
    <2>2. /\ [f EXCEPT !.pc = "stop_run", !.token = token[f.run]].pc
               = "stop_run"
          /\ [f EXCEPT !.pc = "stop_run"].pc = "stop_run"
        BY <1>1 DEF Frame
    <2>3. QED
        BY <1>3, <1>4, <2>1, <2>2 DEF QuietLabels
<1>7. CASE StopRun(x)
    <2>1. f.pc \in StopLabels /\ f.run \in Run
        BY <1>1, <1>7 DEF StopRun, StopLabels, FrameFits
    <2>2. RunTarget(f.seen) \in TransitionTargets
        BY <1>2, <2>1 DEF RunTarget, TransitionTargets
    <2>3. /\ TryTransition(x, f.run, RunTarget(f.seen), f.token)
          /\ UNCHANGED <<task, verdict, up, inc>> /\ Become(x, Idle)
        BY <1>7 DEF StopRun, InRuns, OnlyRuns, processVars
    <2>4. RunsMove
        BY <1>1, <2>1, <2>2, <2>3, TransitionMovesRuns
    <2>5. QED
        BY <1>3, <2>3, <2>4, QuietRunsKeepCaller
<1>8. QED
    BY <1>5, <1>6, <1>7

(* reconcile_run: between its reads and its transition nobody moves the    *)
(* run, so a task is completed only when its run has ended.                *)
LEMMA ReconcileKeepsCaller ==
    ASSUME Undisturbed, ServiceInv, CallerInv,
           NEW x \in Thread, ProcessOf[x] \in up,
           Find(x) \/ Compare(x) \/ Reconcile(x)
    PROVE  ThreadStep(x)
<1> DEFINE f == th[x]
           r == f.run
<1> USE DEF At
<1>1. /\ f \in Frame /\ FrameFits(f, finished)
      /\ CallerFits(f, task, status, inbound, verdict)
      /\ DataInv /\ BoundRunAnswersTrigger
    BY ThreadFacts, CallerFacts DEF DataInv
<1>2. f.pc \in {"find", "compare", "reconcile"} => r \in Run
    BY <1>1 DEF FrameFits
<1>3. f.pc \in ReconcileLabels => f.task \in Task /\ task[f.task].run = r
    BY <1>1 DEF FrameFits, CallerFits, ReconcileLabels
<1>4. Idle.pc \in QuietLabels
    BY DEF Idle, QuietLabels
<1>5. ASSUME Reconciled(x), UNCHANGED databases
      PROVE  ThreadStep(x)
    BY <1>4, <1>5, QuietStepKeepsCaller DEF Reconciled, databases
<1>6. CASE Find(x)
    <2>1. CASE Reconciled(x) /\ UNCHANGED databases
        BY <1>5, <2>1
    <2>2. ASSUME NEW t \in Task, task[t].run = r,
                 Step(x, [f EXCEPT !.pc = "compare", !.task = t,
                                   !.seen = task[t].status])
          PROVE  ThreadStep(x)
        <3> DEFINE g == [f EXCEPT !.pc = "compare", !.task = t,
                                  !.seen = task[t].status]
        <3>1. /\ g.pc = "compare" /\ g.task = t /\ g.run = r
              /\ g.seen = task[t].status
            BY <1>1 DEF Frame
        <3>2. UNCHANGED <<task, sessionDb, verdict, up, inc>> /\ Become(x, g)
            BY <2>2 DEF Step, OnlyThread, databases, processVars
        <3> HIDE DEF g
        <3>3. /\ CallerFits(g, task, status, inbound, verdict)
              /\ OwnsParked(g, x)
            BY <2>2, <3>1 DEF CallerFits, OwnsParked, BindLabels, RuntimeLabels
        <3>4. QED
            BY <3>2, <3>3, StepKeepsCaller
    <2>3. QED
        BY <1>6, <2>1, <2>2 DEF Find
<1>7. CASE Compare(x)
    <2> DEFINE g == [f EXCEPT !.pc = "reconcile", !.trig = NoTrigger,
                              !.op = TaskStatusOf(status[r])]
    <2>1. CASE Reconciled(x) /\ UNCHANGED databases
        BY <1>5, <2>1
    <2>2. CASE Step(x, g)
        <3>1. /\ g.pc = "reconcile" /\ g.task = f.task /\ g.run = r
              /\ g.op = TaskStatusOf(status[r])
            BY <1>1 DEF Frame
        <3>2. UNCHANGED <<task, sessionDb, verdict, up, inc>> /\ Become(x, g)
            BY <2>2 DEF Step, OnlyThread, databases, processVars
        <3>3. task[f.task].run = r
            BY <1>3, <1>7 DEF Compare, ReconcileLabels
        <3>4. status[r] # "absent"
            BY <1>1, <1>2, <1>3, <1>7, <3>3, SessionsAssumption,
               BoundRunExists DEF Compare, ReconcileLabels
        <3>5. /\ g.op \notin {"absent", "pending"}
              /\ g.op = "completed" => status[r] \in Ended
            BY <1>2, <1>7, <3>1, <3>4, StoreFacts
               DEF Compare, TaskStatusOf, RunStatus, Ended
        <3> HIDE DEF g
        <3>6. /\ CallerFits(g, task, status, inbound, verdict)
              /\ OwnsParked(g, x)
            BY <3>1, <3>3, <3>5
               DEF CallerFits, OwnsParked, BindLabels, RuntimeLabels
        <3>7. QED
            BY <3>2, <3>6, StepKeepsCaller
    <2>3. QED
        BY <1>7, <2>1, <2>2 DEF Compare
<1>8. CASE Reconcile(x)
    <2>1. /\ f.pc = "reconcile" /\ f.task \in Task /\ r \in Run
          /\ task[f.task].run = r
        BY <1>1, <1>2, <1>3, <1>8 DEF Reconcile, ReconcileLabels
    <2>2. status[r] # "absent" /\ r # NoRun
        BY <1>1, <2>1, SessionsAssumption, BoundRunExists
    <2>3. /\ f.op \notin {"absent", "pending"}
          /\ f.op = "completed" => status[r] \in Ended
        BY <1>1, <2>1 DEF CallerFits
    <2>4. /\ TryMove(f.task, {f.seen}, f.op, NoRun, NoTrigger)
          /\ UNCHANGED <<sessionDb, verdict, up, inc>> /\ Become(x, Idle)
        BY <1>8 DEF Reconcile, Reconciled
    <2>5. RowMove(f.task)
        BY <1>1, <2>1, <2>2, <2>3, <2>4, MoveIsSound
    <2>6. QED
        BY <1>4, <2>1, <2>4, <2>5, QuietRowKeepsCaller
<1>9. QED
    BY <1>6, <1>7, <1>8

(* The scheduler reads a task and writes a trigger.                        *)
LEMMA SchedulerKeepsCaller ==
    ASSUME Undisturbed, ServiceInv, CallerInv,
           NEW x \in Thread, ProcessOf[x] \in up,
           ReadStatus(x) \/ SetStatus(x)
    PROVE  ThreadStep(x)
<1>1. CASE ReadStatus(x)
    <2> DEFINE g == [th[x] EXCEPT !.pc = "set_status",
                       !.seen = TriggerStatusOf(task[th[x].task].status)]
    <2>1. Step(x, g)
        BY <1>1 DEF ReadStatus
    <2>2. g.pc \in QuietLabels
        BY ThreadFacts DEF Frame, QuietLabels
    <2> HIDE DEF g
    <2>3. QED
        BY <2>1, <2>2, QuietStepKeepsCaller
           DEF Step, OnlyThread, databases, processVars
<1>2. CASE SetStatus(x)
    <2>1. UNCHANGED <<task, sessionDb, verdict, up, inc>>
        BY <1>2 DEF SetStatus, OnlyTrigger, processVars
    <2>2. PICK g : Become(x, g) /\ g.pc \in {"idle", "load"}
        <3>1. CASE Become(x, Idle)
            BY <3>1 DEF Idle
        <3>2. ASSUME NEW h, NEW rest, Become(x, ForTrigger(h, rest))
              PROVE  \E g : Become(x, g) /\ g.pc \in {"idle", "load"}
            <4> DEFINE k == ForTrigger(h, rest)
            <4>1. Become(x, k) /\ k.pc = "load"
                BY <3>2 DEF ForTrigger, Idle
            <4> HIDE DEF k
            <4>2. QED
                BY <4>1
        <3>3. QED
            BY <1>2, <3>1, <3>2 DEF SetStatus
    <2>3. QED
        BY <2>1, <2>2, QuietStepKeepsCaller DEF QuietLabels
<1>3. QED
    BY <1>1, <1>2

(* What an idle thread begins.                                             *)
LEMMA BeginKeepsCaller ==
    ASSUME Undisturbed, ServiceInv, CallerInv,
           NEW x \in Thread, ProcessOf[x] \in up, Begin(x)
    PROVE  ThreadStep(x)
<1> USE DEF Idle
<1>1. DataInv
    BY CallerFacts
<1>2. ASSUME NEW g, Step(x, g), g.pc \in QuietLabels
      PROVE  ThreadStep(x)
    BY <1>2, QuietStepKeepsCaller DEF Step, OnlyThread, databases, processVars
<1>3. ASSUME NEW op, NEW label \in QuietLabels, NEW t, NEW g,
             Start(x, op, label, t, g)
      PROVE  ThreadStep(x)
    BY <1>2, <1>3 DEF Start
<1>4. ASSUME NEW g \in Trigger, Execute(x, g) \/ Dispatch(x, g)
      PROVE  ThreadStep(x)
    <2>1. CASE Execute(x, g)
        BY <1>3, <2>1 DEF Execute, QuietLabels
    <2>2. CASE Dispatch(x, g)
        <3> DEFINE f == ForTrigger(g, {})
        <3>1. /\ UNCHANGED <<task, sessionDb, verdict, up, inc>>
              /\ Become(x, f) /\ f.pc \in QuietLabels
            BY <2>2 DEF Dispatch, OnlyTrigger, processVars, ForTrigger,
                        QuietLabels
        <3> HIDE DEF f
        <3>2. QED
            BY <3>1, QuietStepKeepsCaller
    <2>3. QED
        BY <1>4, <2>1, <2>2
<1>5. CASE RecoverTriggers(x)
    <2>1. PICK g, rest : Step(x, ForTrigger(g, rest))
        BY <1>5 DEF RecoverTriggers
    <2> DEFINE f == ForTrigger(g, rest)
    <2>2. Step(x, f) /\ f.pc \in QuietLabels
        BY <2>1 DEF ForTrigger, QuietLabels
    <2> HIDE DEF f
    <2>3. QED
        BY <1>2, <2>2
<1>6. ASSUME NEW t \in Task, Resume(x, t)
      PROVE  ThreadStep(x)
    BY <1>3, <1>6 DEF Resume, QuietLabels
<1>7. ASSUME NEW t \in Task, NEW target, Stop(x, t, target)
      PROVE  ThreadStep(x)
    <2> DEFINE f == [Idle EXCEPT !.pc = "stop_task", !.task = t,
                                 !.seen = target, !.run = task[t].run]
    <2>1. Step(x, f) /\ f.pc \in QuietLabels
        BY <1>7 DEF Stop, QuietLabels
    <2> HIDE DEF f
    <2>2. QED
        BY <1>2, <2>1
<1>8. ASSUME NEW r \in Run, ResumeApproval(x, r)
      PROVE  ThreadStep(x)
    <2> DEFINE f == [Idle EXCEPT !.pc = "approval", !.op = "approval",
                                 !.run = r]
    <2>1. /\ f.pc = "approval" /\ f.op = "approval" /\ f.run = r
          /\ verdict[r] = "decided" /\ Step(x, f)
        BY <1>8 DEF ResumeApproval
    <2>2. status[r] # "absent"
        BY <1>1, <2>1 DEF DataInv, VerdictsFit
    <2> HIDE DEF f
    <2>3. /\ CallerFits(f, task, status, inbound, verdict)
          /\ OwnsParked(f, x)
        BY <2>1, <2>2 DEF CallerFits, OwnsParked, BindLabels, RuntimeLabels
    <2>4. QED
        BY <2>1, <2>3, StepKeepsCaller
           DEF Step, OnlyThread, databases, processVars
<1>9. ASSUME NEW r \in Run, ResumeRun(x, r)
      PROVE  ThreadStep(x)
    <2> DEFINE f == [Idle EXCEPT !.pc = "get_run", !.op = "run", !.run = r]
    <2>1. /\ f.pc = "get_run" /\ f.op = "run" /\ f.run = r
          /\ status[r] = "interrupted" /\ Step(x, f)
        BY <1>9 DEF ResumeRun
    <2> HIDE DEF f
    <2>2. /\ CallerFits(f, task, status, inbound, verdict)
          /\ OwnsParked(f, x)
        BY <2>1 DEF CallerFits, OwnsParked, BindLabels, RuntimeLabels
    <2>3. QED
        BY <2>1, <2>2, StepKeepsCaller
           DEF Step, OnlyThread, databases, processVars
<1>10. ASSUME NEW r \in Run, ReconcileAtStart(x, r)
       PROVE  ThreadStep(x)
    <2> DEFINE f == [Idle EXCEPT !.pc = "find", !.run = r]
    <2>1. Step(x, f) /\ f.pc \in QuietLabels
        BY <1>10 DEF ReconcileAtStart, QuietLabels
    <2> HIDE DEF f
    <2>2. QED
        BY <1>2, <2>1
<1>11. QED
    BY <1>4, <1>5, <1>6, <1>7, <1>8, <1>9, <1>10 DEF Begin

-----------------------------------------------------------------------------
(* Threads apart: what a thread writes is of the tasks it works on.        *)

(* A thread writes the row of its task, or what there is of its run, or    *)
(* begins a run for its trigger, or nothing that matters to others.        *)
OwnRow(f) == /\ UNCHANGED <<sessionDb, verdict>>
             /\ \A t \in Task : t # f.task => task'[t] = task[t]

SameRun(r) == status'[r] = status[r] /\ verdict'[r] = verdict[r]

OwnRun(f) == /\ UNCHANGED <<task, inbound>>
             /\ \A r \in Run : r # f.run => SameRun(r)

OwnTurn(f) == /\ UNCHANGED task
              /\ \A g \in Trigger : g # f.trig => inbound'[g] = inbound[g]
              /\ \A r \in Run : status[r] # "absent" => SameRun(r)

WritesOwn(f) ==
    \/ UNCHANGED <<task, sessionDb, verdict>>
    \/ f.pc # "idle" /\ (OwnRow(f) \/ OwnRun(f))
    \/ f.pc = "turn" /\ OwnTurn(f)

LEMMA TryWritesRow ==
    ASSUME ServiceInv, NEW t,
           \/ \E from, to, r, g : TryMove(t, from, to, r, g)
           \/ \E r, g : TryBind(t, r, g)
           \/ \E from, to : MoveTask(t, from, to)
           \/ \E g : ResetForTrigger(t, g)
           \/ ClaimTask(t) \/ UNCHANGED task
    PROVE  \A u \in Task : u # t => task'[u] = task[u]
<1>1. task \in [Task -> Row]
    BY DEF ServiceInv, WorldTypeOK
<1> QED
    BY <1>1 DEF TryMove, TryBind, MoveTask, TransitionTask, BindRun, ClaimTask,
                ResetForTrigger

LEMMA TryWritesRun ==
    ASSUME ServiceInv, UNCHANGED <<task, verdict>>, NEW x, NEW f,
           NEW target, NEW k, NEW from, NEW state, NEW text,
           \/ TryTransition(x, f.run, target, k)
           \/ ClaimRun(Me(x), f.run, from)
           \/ CompleteRun(Me(x), f.run, k, text)
    PROVE  OwnRun(f)
<1>1. status \in [Run -> RunStatus] /\ StoreTypeOK
    BY StoreFacts DEF StoreTypeOK
<1>2. CASE TryTransition(x, f.run, target, k)
    BY <1>1, <1>2
       DEF TryTransition, TransitionRun, StoreTypeOK, OwnRun, SameRun,
           sessionDb, inboundVars
<1>3. CASE ClaimRun(Me(x), f.run, from)
    BY <1>1, <1>3 DEF ClaimRun, StoreTypeOK, OwnRun, SameRun, inboundVars
<1>4. CASE CompleteRun(Me(x), f.run, k, text)
    BY <1>1, <1>4
       DEF CompleteRun, WriteCompletion, StoreTypeOK, OwnRun, SameRun
<1> QED
    BY <1>2, <1>3, <1>4

LEMMA ExecuteWritesOwn ==
    ASSUME ServiceInv, NEW x \in Thread, ExecuteStep(x)
    PROVE  WritesOwn(th[x])
<1> DEFINE f == th[x]
<1> USE DEF At
<1>1. ASSUME NEW g, Step(x, g) PROVE WritesOwn(f)
    BY <1>1 DEF Step, OnlyThread, databases, WritesOwn
<1>2. ASSUME NEW g, InTasks(x, g), f.pc # "idle",
             \/ \E from, to, r, h : TryMove(f.task, from, to, r, h)
             \/ \E r, h : TryBind(f.task, r, h)
             \/ \E h : ResetForTrigger(f.task, h)
             \/ ClaimTask(f.task) \/ UNCHANGED task
      PROVE  WritesOwn(f)
    <2>1. \A t \in Task : t # f.task => task'[t] = task[t]
        BY <1>2, TryWritesRow
    <2>2. QED
        BY <1>2, <2>1 DEF InTasks, OnlyTask, WritesOwn, OwnRow
<1>3. CASE Load(x) \/ Reload(x) \/ CheckRun(x) \/ TurnFails(x) \/ KnownTurn(x)
    BY <1>1, <1>3 DEF Load, Reload, CheckRun, TurnFails, KnownTurn
<1>4. CASE Reset(x)
    BY <1>2, <1>4 DEF Reset
<1>5. CASE Claim(x)
    BY <1>1, <1>2, <1>5 DEF Claim
<1>6. CASE Bind(x)
    BY <1>2, <1>6 DEF Bind
<1>7. CASE BindResult(x)
    BY <1>2, <1>7 DEF BindResult
<1>8. CASE Apply(x)
    BY <1>2, <1>8 DEF Apply
<1>9. CASE BindFailed(x)
    BY <1>2, <1>9 DEF BindFailed
<1>10. CASE InterruptTask(x)
    BY <1>2, <1>10 DEF InterruptTask
<1>11. CASE NewTurn(x)
  <2>1. PICK r \in Run : BeginInbound(Me(x), f.trig, r, "loop")
      BY <1>11 DEF NewTurn
  <2>2. UNCHANGED <<task, verdict>> /\ f.pc = "turn"
      BY <1>11 DEF NewTurn, InRuns, OnlyRuns
  <2>3. /\ status[r] = "absent"
        /\ \A g \in Trigger : g # f.trig => inbound'[g] = inbound[g]
        /\ \A q \in Run : q # r => SameRun(q)
      BY <2>1, <2>2, StoreFacts
         DEF BeginInbound, WriteInbound, StoreTypeOK, SameRun
  <2> QED BY <2>2, <2>3 DEF WritesOwn, OwnTurn
<1> QED
    BY <1>3, <1>4, <1>5, <1>6, <1>7, <1>8, <1>9, <1>10, <1>11 DEF ExecuteStep

LEMMA RuntimeWritesOwn ==
    ASSUME ServiceInv, NEW x \in Thread, RuntimeStep(x)
    PROVE  WritesOwn(th[x])
<1> DEFINE f == th[x]
<1> USE DEF At
<1>1. ASSUME NEW g, Step(x, g) PROVE WritesOwn(f)
    BY <1>1 DEF Step, OnlyThread, databases, WritesOwn
<1>2. ASSUME NEW g, InRuns(x, g), f.pc # "idle",
             \/ \E target, k : TryTransition(x, f.run, target, k)
             \/ \E from : ClaimRun(Me(x), f.run, from)
             \/ \E k, text : CompleteRun(Me(x), f.run, k, text)
      PROVE  WritesOwn(f)
    <2>1. UNCHANGED <<task, verdict>>
        BY <1>2 DEF InRuns, OnlyRuns
    <2>2. OwnRun(f)
        BY <1>2, <2>1, TryWritesRun
    <2>3. QED
        BY <1>2, <2>2 DEF WritesOwn
<1>3. ASSUME NEW from, NEW g, ClaimForWork(x, from, g), f.pc # "idle"
      PROVE  WritesOwn(f)
    BY <1>1, <1>2, <1>3 DEF ClaimForWork
<1>4. ASSUME NEW k, NEW state, NEW v, SaveCheckpoint(Me(x), f.run, k, state),
             UNCHANGED task, verdict' = [verdict EXCEPT ![f.run] = v],
             f.pc # "idle"
      PROVE  WritesOwn(f)
    <2>1. UNCHANGED <<status, inbound>>
        BY <1>4 DEF SaveCheckpoint, WriteCheckpoint, runVars, inboundVars
    <2>2. \A r \in Run : r # f.run => verdict'[r] = verdict[r]
        BY <1>4 DEF ServiceInv, WorldTypeOK
    <2>3. QED
        BY <1>4, <2>1, <2>2 DEF WritesOwn, OwnRun, SameRun
<1>5. CASE \/ ResumeLoad(x) \/ ResumeCheck(x) \/ GetRun(x)
           \/ ReadCheckpoint(x) \/ CheckParked(x)
    BY <1>1, <1>5 DEF ResumeLoad, ResumeCheck, GetRun, ReadCheckpoint,
                      CheckParked
<1>6. CASE Take(x)
    <2>1. CASE \E g : Step(x, g)
        BY <1>1, <2>1
    <2>2. ASSUME NEW g, InTasks(x, g),
                 MoveTask(f.task, {"interrupted", "paused"}, "in_progress")
          PROVE  WritesOwn(f)
        BY <1>6, <2>2, TryWritesRow
           DEF Take, InTasks, OnlyTask, WritesOwn, OwnRow
    <2>3. QED
        BY <1>6, <2>1, <2>2 DEF Take
<1>7. CASE WaitAgain(x) \/ Park(x) \/ InterruptRun(x)
    BY <1>2, <1>7 DEF WaitAgain, Park, InterruptRun
<1>8. CASE ClaimInterrupted(x) \/ ClaimParked(x)
    BY <1>3, <1>8 DEF ClaimInterrupted, ClaimParked
<1>9. CASE CarryOut(x)
    BY <1>1, <1>2, <1>4, <1>9 DEF CarryOut
<1>10. CASE Work(x)
    BY <1>1, <1>2, <1>4, <1>10 DEF Work
<1>11. QED
    BY <1>5, <1>6, <1>7, <1>8, <1>9, <1>10 DEF RuntimeStep

LEMMA ServiceWritesOwn ==
    ASSUME ServiceInv, NEW x \in Thread, ServiceStep(x)
    PROVE  WritesOwn(th[x])
<1> DEFINE f == th[x]
<1> USE DEF At
<1>1. ASSUME UNCHANGED databases PROVE WritesOwn(f)
    BY <1>1 DEF databases, WritesOwn
<1>2. ASSUME NEW g, Step(x, g) PROVE WritesOwn(f)
    BY <1>1, <1>2 DEF Step, OnlyThread
<1>3. ASSUME UNCHANGED <<sessionDb, verdict>>, f.pc # "idle", NEW from, NEW to,
             \/ MoveTask(f.task, from, to)
             \/ TryMove(f.task, from, to, NoRun, NoTrigger)
      PROVE  WritesOwn(f)
    BY <1>3, TryWritesRow DEF WritesOwn, OwnRow
<1>4. CASE StopTask(x)
    BY <1>2, <1>3, <1>4 DEF StopTask, InTasks, OnlyTask
<1>5. CASE StopRead(x) \/ ReadStatus(x)
    BY <1>2, <1>5 DEF StopRead, ReadStatus
<1>6. CASE StopRun(x)
    <2>1. /\ f.pc # "idle" /\ UNCHANGED <<task, verdict>>
          /\ TryTransition(x, f.run, RunTarget(f.seen), f.token)
        BY <1>6 DEF StopRun, InRuns, OnlyRuns
    <2>2. OwnRun(f)
        BY <2>1, TryWritesRun
    <2>3. QED
        BY <2>1, <2>2 DEF WritesOwn
<1>7. CASE Find(x) \/ Compare(x)
    BY <1>1, <1>2, <1>7 DEF Find, Compare
<1>8. CASE Reconcile(x)
    BY <1>3, <1>8 DEF Reconcile
<1>9. CASE SetStatus(x)
    BY <1>9 DEF SetStatus, OnlyTrigger, WritesOwn
<1>10. QED
    BY <1>4, <1>5, <1>6, <1>7, <1>8, <1>9 DEF ServiceStep

LEMMA BeginWritesOwn ==
    ASSUME NEW x \in Thread, Begin(x)
    PROVE  WritesOwn(th[x])
    BY DEF Begin, Execute, Dispatch, RecoverTriggers, Resume, Stop,
           ResumeApproval, ResumeRun, ReconcileAtStart, Start, Step,
           OnlyThread, OnlyTrigger, databases, WritesOwn

(* What the frame of another thread relies on in a run.                    *)
Tame(r) == /\ status[r] \in Ended => status'[r] \in Ended
           /\ status'[r] # "absent"
           /\ status'[r] = "waiting_approval" => status[r] = status'[r]
           /\ verdict[r] = "decided" => verdict'[r] = "decided"

(* A frame keeps its meaning in a step that leaves its task alone.         *)
FrameKept(f) ==
    /\ f.task \in Task =>
         /\ task'[f.task] = task[f.task]
         /\ \A g \in Trigger :
              TaskOf[g] = f.task =>
                /\ inbound'[g] = inbound[g]
                /\ inbound[g] # NoRun => Tame(inbound[g])
    /\ f.run \in Run /\ status[f.run] # "absent" => Tame(f.run)

LEMMA AbstractFrames ==
    ASSUME NEW f, FrameFits(f, finished), f.task \notin Task
    PROVE  /\ f.op \notin {"execute", "resume"}
           /\ f.pc \notin ExecuteLabels \cup ResumeLabels
                           \cup {"apply", "interrupt_task"}
                           \cup ReconcileLabels
<1>1. f.op \notin {"execute", "resume"}
    BY TaskServiceAssumption DEF FrameFits, ForItsTrigger
<1>2. QED
    BY <1>1 DEF FrameFits

LEMMA KeptFrameFits ==
    ASSUME ServiceInv, CallerInv, NEW x \in Thread,
           th[x].pc # "idle" => FrameKept(th[x])
    PROVE  CallerFits(th[x], task', status', inbound', verdict')
<1> DEFINE f == th[x]
<1>1. /\ f \in Frame /\ FrameFits(f, finished)
      /\ CallerFits(f, task, status, inbound, verdict)
      /\ BoundRunAnswersTrigger
    BY ThreadFacts DEF CallerInv, CallerFramesFit, DataInv
<1>2. CASE f.pc = "idle"
    BY <1>2, QuietFits DEF QuietLabels
<1>3. CASE f.pc # "idle" /\ f.task \notin Task
    <2>1. /\ f.op \notin {"execute", "resume"}
          /\ f.pc \notin ExecuteLabels \cup ResumeLabels
                          \cup {"apply", "interrupt_task"}
                          \cup ReconcileLabels
        BY <1>1, <1>3, AbstractFrames
    <2>2. f.pc \in RuntimeLabels => Tame(f.run)
        BY <1>1, <1>3 DEF FrameFits, CallerFits, FrameKept
    <2>3. QED
        BY <1>1, <2>1, <2>2
           DEF CallerFits, BindLabels, RuntimeLabels, ExecuteLabels,
               ResumeLabels, ReconcileLabels, Tame
<1>4. CASE f.pc # "idle" /\ f.task \in Task
    <2>1. FrameKept(f) /\ task'[f.task] = task[f.task]
        BY <1>4 DEF FrameKept
    <2>2. \A g \in Trigger :
            TaskOf[g] = f.task =>
              /\ inbound'[g] = inbound[g]
              /\ inbound[g] # NoRun => Tame(inbound[g])
        BY <1>4 DEF FrameKept
    <2>3. f.run \in Run /\ status[f.run] # "absent" => Tame(f.run)
        BY <1>4 DEF FrameKept
    <2>4. \A g \in Trigger :
            LiveIn(f.task, g, inbound', status')
              => LiveIn(f.task, g, inbound, status)
        BY <2>2 DEF LiveIn, Tame
    <2>5. task[f.task].run # NoRun =>
            task[f.task].run \in Run /\ Tame(task[f.task].run)
        <3> DEFINE row == task[f.task]
        <3>1. SUFFICES ASSUME row.run # NoRun
                       PROVE  row.run \in Run /\ Tame(row.run)
            OBVIOUS
        <3>2. /\ row.trigger \in Trigger /\ TaskOf[row.trigger] = f.task
              /\ inbound[row.trigger] = row.run
            BY <1>1, <1>4, <3>1
               DEF BoundRunAnswersTrigger, ServiceInv, WorldTypeOK, Row
        <3>3. QED
            BY <2>2, <3>1, <3>2, StoreFacts
    <2>6. f.op = "execute" =>
            /\ f.trig \in Trigger /\ inbound'[f.trig] = inbound[f.trig]
            /\ inbound[f.trig] # NoRun => Tame(inbound[f.trig])
        BY <1>1, <2>2 DEF FrameFits, ForItsTrigger
    <2>7. f.pc \in BindLabels \cup {"turn"} => f.op = "execute"
        BY <1>1 DEF FrameFits, BindLabels, ExecuteLabels
    <2>8. f.pc \in RuntimeLabels => Tame(f.run)
        BY <1>1, <2>3 DEF FrameFits, CallerFits
    <2>9. /\ f.pc \in {"take", "get_run"} => status'[f.run] # "waiting_approval"
          /\ f.pc = "reconcile" /\ f.op = "completed" =>
               status'[f.run] \in Ended
        <3>1. f.pc \in {"take", "reconcile"} =>
                f.run \in Run /\ f.run = task[f.task].run
            BY <1>1 DEF FrameFits, CallerFits
        <3>2. f.pc \in {"take", "reconcile"} => Tame(f.run)
            BY <2>5, <3>1, SessionsAssumption
        <3>3. QED
            BY <1>1, <2>8, <3>2 DEF CallerFits, RuntimeLabels, Tame
    <2>10. /\ f.pc = "bind_result" /\ f.seen = "completed" =>
                status'[inbound'[f.trig]] \in Ended
           /\ f.pc = "apply" /\ f.seen = "completed" =>
                status'[task[f.task].run] \in Ended
        BY <1>1, <2>5, <2>6, <2>7 DEF CallerFits, Tame, BindLabels
    <2>11. f.pc \in {"approval", "claim_parked", "approved"} =>
             verdict'[f.run] = "decided"
        BY <1>1, <2>8 DEF CallerFits, Tame, RuntimeLabels
    <2>12. f.pc \in RuntimeLabels => status'[f.run] # "absent"
        BY <2>8 DEF Tame
    <2>13. \A g \in Trigger :
             ~LiveIn(f.task, g, inbound, status)
               => ~LiveIn(f.task, g, inbound', status')
        BY <2>4
    <2>14. /\ f.pc = "bind" => f.run = inbound'[f.trig]
           /\ f.pc \in RuntimeLabels /\ f.op = "execute" =>
                f.run = inbound'[f.trig]
           /\ f.pc \in {"bind_result", "bind_failed"} =>
                task[f.task].run \in {NoRun, inbound'[f.trig]}
           /\ f.pc = "bind_result" => inbound'[f.trig] # NoRun
           /\ f.pc = "interrupt_task" /\ f.op = "execute" =>
                f.run = inbound'[f.trig]
        BY <1>1, <2>6, <2>7 DEF CallerFits, BindLabels
    <2>15. /\ f.pc = "turn" =>
                \A g \in Trigger : ~LiveIn(f.task, g, inbound', status')
           /\ f.pc \in BindLabels =>
                \A g \in Trigger :
                  LiveIn(f.task, g, inbound', status') => g = f.trig
        BY <1>1, <2>13 DEF CallerFits
    <2>16. QED
        BY <1>1, <2>1, <2>9, <2>10, <2>11, <2>12, <2>14, <2>15
           DEF CallerFits
<1>5. QED
    BY <1>2, <1>3, <1>4

(* A thread leaves the tasks of the others alone.                          *)
LEMMA OthersAreKept ==
    ASSUME ServiceInv, TasksApart, NEW x \in Thread, NEW y \in Thread, x # y,
           WritesOwn(th[x]), th[y].pc # "idle"
    PROVE  FrameKept(th[y])
<1> DEFINE f == th[y]
           e == th[x]
<1>1. Concerns(e) \cap Concerns(f) = {}
    BY DEF TasksApart
<1>2. \A g \in Trigger :
        inbound[g] # NoRun => /\ inbound[g] \in Run
                              /\ status[inbound[g]] # "absent"
    BY BoundRunExists
<1>3. \A r \in Run : status[r] # "absent" =>
        \E g \in Trigger : inbound[g] = r /\ r # NoRun /\ TaskOf[g] \in Task
    BY SessionsAssumption, TaskServiceAssumption
       DEF ServiceInv, Store!StoreInv, Store!OneRunPerMessage
<1>4. \A r : status[r] # "absent" /\ SameRun(r) => Tame(r)
    BY DEF SameRun, Tame
<1>5. f.task \in Task => f.task \in Concerns(f)
    BY DEF Concerns
<1>6. \A g \in Trigger :
        TaskOf[g] \in Task /\ inbound[g] = f.run /\ inbound[g] # NoRun
          => TaskOf[g] \in Concerns(f)
    BY DEF Concerns
<1>7. CASE UNCHANGED <<task, sessionDb, verdict>>
    BY <1>2, <1>4, <1>7 DEF sessionDb, FrameKept, SameRun
<1>8. CASE e.pc # "idle" /\ OwnRow(e)
    <2>1. f.task \in Task => task'[f.task] = task[f.task]
        BY <1>1, <1>5, <1>8 DEF OwnRow, Concerns
    <2>2. QED
        BY <1>2, <1>4, <1>8, <2>1 DEF OwnRow, sessionDb, FrameKept, SameRun
<1>9. CASE e.pc # "idle" /\ OwnRun(e)
    <2>1. \A g \in Trigger :
            TaskOf[g] \in Task /\ inbound[g] = e.run /\ inbound[g] # NoRun
              => TaskOf[g] \in Concerns(e)
        BY <1>9 DEF Concerns
    <2>2. \A g \in Trigger :
            f.task \in Task /\ TaskOf[g] = f.task /\ inbound[g] # NoRun
              => Tame(inbound[g])
        BY <1>1, <1>2, <1>4, <1>5, <1>9, <2>1 DEF OwnRun
    <2>3. f.run \in Run /\ status[f.run] # "absent" => Tame(f.run)
        BY <1>1, <1>3, <1>4, <1>6, <1>9, <2>1 DEF OwnRun
    <2>4. QED
        BY <1>9, <2>2, <2>3 DEF OwnRun, FrameKept
<1>10. CASE e.pc = "turn" /\ OwnTurn(e)
    <2>1. e.task = TaskOf[e.trig]
        BY <1>10 DEF ServiceInv, FramesFit, FrameFits, ForItsTrigger,
                     ExecuteLabels
    <2>2. \A g \in Trigger : f.task \in Task /\ TaskOf[g] = f.task =>
            inbound'[g] = inbound[g]
        BY <1>1, <1>5, <1>10, <2>1 DEF OwnTurn, Concerns
    <2>3. QED
        BY <1>2, <1>4, <1>10, <2>2 DEF OwnTurn, FrameKept
<1>11. QED
    BY <1>7, <1>8, <1>9, <1>10 DEF WritesOwn

-----------------------------------------------------------------------------
(* Threads apart: users, clocks, administrators and crashes.               *)

(* The data stay in order, and each frame is dropped or keeps its meaning. *)
AwayStep ==
    /\ DataInv' /\ NothingIsDropped /\ DownIsIdle'
    /\ \A x \in Thread :
         \/ th'[x] = Idle
         \/ th'[x] = th[x] /\ CallerFits(th[x], task', status', inbound',
                                         verdict')

(* A run moves by itself, in a way that its workers expect.                *)
LEMMA TameRunsAreAway ==
    ASSUME ServiceInv, CallerInv, UNCHANGED <<task, inbound, th>>, DownIsIdle',
           VerdictsFit',
           \A r \in Run : status[r] # "absent" => Tame(r)
    PROVE  AwayStep
<1>1. RunsMove
    BY DEF RunsMove, Tame, Ended
<1>2. DataInv' /\ NothingIsDropped
    BY <1>1, RunsMoveKeepsData DEF CallerInv, NothingIsDropped
<1>3. ASSUME NEW x \in Thread
      PROVE  CallerFits(th[x], task', status', inbound', verdict')
    <2>1. FrameKept(th[x])
        BY BoundRunExists DEF FrameKept
    <2>2. QED
        BY <2>1, KeptFrameFits
<1>4. QED
    BY <1>2, <1>3 DEF AwayStep

LEMMA CreateIsAway ==
    ASSUME ServiceInv, CallerInv, NEW t \in Task, Create(t)
    PROVE  AwayStep
<1>1. /\ DataInv /\ CallerFramesFit /\ DownIsIdle
      /\ task \in [Task -> Row]
    BY DEF CallerInv, ServiceInv, WorldTypeOK
<1>2. /\ UNCHANGED <<sessionDb, verdict, th, up, inc>>
      /\ task[t].status = "absent"
    BY DEF Create, CreateTask, processVars
<1>3. /\ task'[t].status = "pending" /\ task'[t].run = task[t].run
      /\ \A u \in Task \ {t} : task'[u] = task[u]
    BY <1>1 DEF Create, CreateTask, Row
<1>4. task[t].run = NoRun /\ \A g \in Trigger : ~LiveOf(t, g)
    BY <1>1, <1>2
       DEF DataInv, FreshTasksAreUnbound, LiveRunsAreBound, LiveRunFits
<1>5. RowMove(t)
    BY <1>2, <1>3, <1>4 DEF RowMove, RowIsSound, LiveRunFits
<1>6. DataInv' /\ NothingIsDropped
    BY <1>1, <1>5, RowMoveKeepsData
<1>7. ASSUME NEW x \in Thread
      PROVE  CallerFits(th[x], task', status, inbound, verdict)
    <2> DEFINE f == th[x]
    <2>1. /\ f \in Frame /\ FrameFits(f, finished)
          /\ CallerFits(f, task, status, inbound, verdict)
        BY <1>1, ThreadFacts DEF CallerFramesFit
    <2>2. CASE f.task \in Task \ {t}
        BY <1>3, <2>1, <2>2 DEF CallerFits
    <2>3. CASE f.task = t
        <3>1. f.pc \in {"check_run", "resume_check", "take", "compare",
                        "reconcile"} => task[t].run = f.run /\ f.run \in Run
            BY <2>1, <2>3 DEF FrameFits, CallerFits
        <3>2. /\ f.pc \notin {"check_run", "resume_check", "take",
                              "compare", "reconcile", "turn", "apply"}
              /\ f.pc \notin BindLabels
            BY <1>2, <1>4, <2>1, <2>3, <3>1, SessionsAssumption
               DEF CallerFits
        <3>3. /\ f.pc \in RuntimeLabels => f.op \notin {"execute", "resume"}
              /\ f.pc = "interrupt_task" => f.op # "execute"
            BY <1>2, <2>1, <2>3 DEF CallerFits
        <3>4. QED
            BY <2>1, <3>2, <3>3 DEF CallerFits, BindLabels
    <2>4. CASE f.task \notin Task
        <3>1. /\ f.op \notin {"execute", "resume"}
              /\ f.pc \notin ExecuteLabels \cup ResumeLabels
                              \cup {"apply", "interrupt_task"}
                              \cup ReconcileLabels
            BY <2>1, <2>4, AbstractFrames
        <3>2. QED
            BY <2>1, <3>1
               DEF CallerFits, BindLabels, ExecuteLabels, ResumeLabels,
                   ReconcileLabels
    <2>5. QED
        BY <2>2, <2>3, <2>4
<1>8. QED
    BY <1>1, <1>2, <1>6, <1>7 DEF AwayStep, sessionDb, DownIsIdle

LEMMA EnvironmentIsAway ==
    ASSUME NoRecovery, ServiceInv, CallerInv, Environment
    PROVE  AwayStep
<1>1. /\ DataInv /\ CallerFramesFit /\ DownIsIdle /\ VerdictsFit
      /\ verdict \in [Run -> {"none", "pending", "decided"}]
      /\ status \in [Run -> RunStatus]
    BY StoreFacts DEF CallerInv, DataInv, ServiceInv, WorldTypeOK, StoreTypeOK
<1>2. ASSUME NEW r \in Run, Decide(r)
      PROVE  AwayStep
    <2>1. /\ UNCHANGED <<task, sessionDb, th, up, inc>>
          /\ verdict[r] = "pending"
          /\ \A q \in Run : verdict'[q] = IF q = r THEN "decided"
                                          ELSE verdict[q]
        BY <1>1, <1>2 DEF Decide, processVars
    <2>2. VerdictsFit' /\ DownIsIdle'
        BY <1>1, <2>1 DEF VerdictsFit, DownIsIdle, sessionDb
    <2>3. \A q \in Run : status[q] # "absent" => Tame(q)
        BY <2>1 DEF Tame, sessionDb
    <2>4. QED
        BY <2>1, <2>2, <2>3, TameRunsAreAway DEF sessionDb
<1>3. ASSUME NEW r \in Run, Administer(r)
      PROVE  AwayStep
    <2>1. PICK action \in Control : AdminControlRun(r, action)
        BY <1>3 DEF Administer
    <2>2. action \in {"pause", "cancel"}
        BY TaskServiceAssumption DEF NoRecovery
    <2>3. /\ UNCHANGED <<task, verdict, th, up, inc, inbound, checkpoint>>
          /\ status' = [status EXCEPT ![r] = ControlTarget(action)]
          /\ status[r] \in ControlSources(action)
        BY <1>3, <2>1 DEF Administer, AdminControlRun, inboundVars, processVars
    <2>4. /\ status[r] # "absent"
          /\ ControlTarget(action) \notin {"absent", "waiting_approval"}
          /\ status[r] \in Ended => ControlTarget(action) \in Ended
        BY <2>2, <2>3 DEF ControlSources, ControlTarget, Ended
    <2>5. \A q \in Run : status'[q] = IF q = r THEN ControlTarget(action)
                                      ELSE status[q]
        BY <1>1, <2>3
    <2>6. VerdictsFit' /\ DownIsIdle'
        BY <1>1, <2>3, <2>4, <2>5 DEF VerdictsFit, DownIsIdle
    <2>7. \A q \in Run : status[q] # "absent" => Tame(q)
        BY <2>3, <2>4, <2>5 DEF Tame
    <2>8. QED
        BY <2>3, <2>6, <2>7, TameRunsAreAway
<1>4. ASSUME NEW r \in Run, LeaseClock(r)
      PROVE  AwayStep
    <2>1. UNCHANGED <<task, status, inbound, checkpoint, verdict, th, up>>
        BY <1>4 DEF LeaseClock, LeaseExpires, inboundVars, processVars
    <2>2. VerdictsFit' /\ DownIsIdle'
        BY <1>1, <2>1 DEF VerdictsFit, DownIsIdle
    <2>3. \A q \in Run : status[q] # "absent" => Tame(q)
        BY <2>1 DEF Tame
    <2>4. QED
        BY <2>1, <2>2, <2>3, TameRunsAreAway
<1>5. ASSUME NEW p \in Process, Restart(p)
      PROVE  AwayStep
    <2>1. /\ UNCHANGED <<task, verdict, th, inbound, checkpoint>>
          /\ up \subseteq up'
        BY <1>5 DEF Restart, InterruptIncomplete, inboundVars
    <2>2. \A q \in Run : \/ status'[q] = status[q]
                         \/ status[q] = "running" /\ status'[q] = "interrupted"
        BY <1>5 DEF Restart, InterruptIncomplete, Abandoned
    <2>3. VerdictsFit' /\ DownIsIdle'
        BY <1>1, <2>1, <2>2 DEF VerdictsFit, DownIsIdle
    <2>4. \A q \in Run : status[q] # "absent" => Tame(q)
        BY <2>1, <2>2 DEF Tame, Ended
    <2>5. QED
        BY <2>1, <2>3, <2>4, TameRunsAreAway
<1>6. ASSUME NEW p \in Process, Crash(p)
      PROVE  AwayStep
    <2>1. /\ UNCHANGED <<task, sessionDb, verdict>> /\ up' = up \ {p}
          /\ th' = [x \in Thread |-> IF ProcessOf[x] = p THEN Idle ELSE th[x]]
        BY <1>6 DEF Crash, databases
    <2>2. DataInv' /\ NothingIsDropped
        BY <1>1, <2>1, StillRunsMove, RunsMoveKeepsData DEF NothingIsDropped
    <2>3. DownIsIdle'
        BY <1>1, <2>1 DEF DownIsIdle
    <2>4. QED
        BY <1>1, <2>1, <2>2, <2>3
           DEF AwayStep, CallerFramesFit, sessionDb
<1>7. QED
    BY <1>2, <1>3, <1>4, <1>5, <1>6, CreateIsAway DEF Environment

-----------------------------------------------------------------------------
(* Threads apart: every step.                                              *)

LEMMA ThreadIsSound ==
    ASSUME Undisturbed, ServiceInv, CallerInv,
           NEW x \in Thread, ProcessOf[x] \in up,
           ExecuteStep(x) \/ RuntimeStep(x) \/ ServiceStep(x) \/ Begin(x)
    PROVE  ThreadStep(x) /\ WritesOwn(th[x])
    BY ExecuteKeepsCaller, RuntimeKeepsCaller, StopKeepsCaller,
       ReconcileKeepsCaller, SchedulerKeepsCaller, BeginKeepsCaller,
       ExecuteWritesOwn, RuntimeWritesOwn, ServiceWritesOwn, BeginWritesOwn
       DEF ServiceStep

LEMMA IdleFrameFits ==
    \A rows, runs, msgs, verdicts, x :
        CallerFits(Idle, rows, runs, msgs, verdicts) /\ OwnsParked(Idle, x)
<1>1. Idle.pc \in QuietLabels
    BY DEF Idle, QuietLabels
<1>2. QED
    BY <1>1, QuietFits

LEMMA CallerNextIsSound ==
    ASSUME NoRecovery, Undisturbed, ServiceInv, CallerInv, [Next]_vars
    PROVE  CallerInv' /\ NothingIsDropped
<1>1. CASE UNCHANGED vars
    <2>1. UNCHANGED <<task, verdict, th, up, status, checkpoint, inbound>>
        BY <1>1 DEF vars, databases, sessionDb, processVars
    <2>2. DownIsIdle'
        BY <2>1 DEF CallerInv, DownIsIdle
    <2>3. BoundRunAnswersTrigger' /\ FreshTasksAreUnbound' /\ VerdictsFit'
        BY <2>1
           DEF CallerInv, DataInv, BoundRunAnswersTrigger,
               FreshTasksAreUnbound, VerdictsFit
    <2>4. LiveRunsAreBound' /\ OneLiveRun'
        BY <2>1
           DEF CallerInv, DataInv, LiveRunsAreBound, LiveRunFits, OneLiveRun,
               LiveOf, LiveIn
    <2>5. CallerFramesFit'
        BY <2>1 DEF CallerInv, CallerFramesFit
    <2>6. NothingIsDropped
        BY <2>1 DEF NothingIsDropped
    <2>7. QED
        BY <2>2, <2>3, <2>4, <2>5, <2>6 DEF CallerInv, DataInv
<1>2. CASE Environment
    <2>1. AwayStep
        BY <1>2, EnvironmentIsAway
    <2>2. CallerFramesFit'
        BY <2>1, IdleFrameFits DEF AwayStep, CallerFramesFit
    <2>3. QED
        BY <2>1, <2>2 DEF AwayStep, CallerInv
<1>3. ASSUME NEW x \in Thread, ProcessOf[x] \in up,
             ExecuteStep(x) \/ RuntimeStep(x) \/ ServiceStep(x) \/ Begin(x)
      PROVE  CallerInv' /\ NothingIsDropped
    <2>1. ThreadStep(x) /\ WritesOwn(th[x])
        BY <1>3, ThreadIsSound
    <2>2. ASSUME NEW y \in Thread, y # x
          PROVE  CallerFits(th[y], task, status, inbound, verdict)'
        <3>1. th'[y] = th[y]
            BY <2>1, <2>2 DEF ThreadStep
        <3>2. th[y].pc # "idle" => FrameKept(th[y])
            BY <2>1, <2>2, OthersAreKept DEF Undisturbed
        <3>3. QED
            BY <3>1, <3>2, KeptFrameFits
    <2>3. QED
        BY <2>1, <2>2 DEF ThreadStep, CallerInv, CallerFramesFit
<1>4. QED
    BY <1>1, <1>2, <1>3 DEF Next

LEMMA InitEstablishesCallerInv == Init => CallerInv
<1> SUFFICES ASSUME Init
             PROVE  CallerInv
    OBVIOUS
<1>1. DataInv
    BY DEF Init, TaskInit, NoTask, StoreInit, DataInv, BoundRunAnswersTrigger,
           FreshTasksAreUnbound, VerdictsFit, LiveRunsAreBound, LiveRunFits,
           OneLiveRun, LiveOf, LiveIn
<1>2. \A x \in Thread : th[x] = Idle
    BY DEF Init
<1>3. DownIsIdle /\ CallerFramesFit
    BY <1>2, IdleFrameFits DEF DownIsIdle, CallerFramesFit
<1>4. QED
    BY <1>1, <1>3 DEF CallerInv

(* However many threads and processes use the services: as long as no two  *)
(* of them work on one task at a time, and nobody takes a run from the     *)
(* thread that carries out its approval, the task and the session          *)
(* databases stay in step, through crashes, leases that run out and        *)
(* administrators who pause and cancel runs.                               *)
THEOREM ThreadsApartAreSound ==
    ASSUME NoRecovery PROVE Spec /\ []Undisturbed => []CallerInv
<1>1. Init => CallerInv
    BY InitEstablishesCallerInv
<1>2. ServiceInv /\ Undisturbed /\ CallerInv /\ [Next]_vars => CallerInv'
    BY CallerNextIsSound
<1>3. QED
    BY <1>1, <1>2, ServicesAreSound, PTL DEF Spec

(* execute binds the run of its trigger and no other, and resume, recover, *)
(* reset and reconcile keep that binding, across crashes of the processes: *)
(* the run a task is bound to is the one its trigger's message began.      *)
THEOREM BindingsAnswerTriggers ==
    ASSUME NoRecovery
    PROVE  Spec /\ []Undisturbed => []BoundRunAnswersTrigger
<1>1. CallerInv => BoundRunAnswersTrigger
    BY DEF CallerInv, DataInv
<1>2. QED
    BY <1>1, ThreadsApartAreSound, PTL

(* The run of one slot has ended before execute begins that of the next,   *)
(* though runs of the task may be interrupted, parked, resumed by another  *)
(* thread and reconciled between, as long as no two threads work on the    *)
(* task at the same time; then it is false.                                *)
THEOREM RunsOfATaskFollow ==
    ASSUME NoRecovery PROVE Spec /\ []Undisturbed => []OneRunAtATime
<1>1. CallerInv => OneRunAtATime
    BY DEF CallerInv, DataInv, OneLiveRun, LiveOf, LiveIn, OneRunAtATime,
           RunsOf, Ended
<1>2. QED
    BY <1>1, ThreadsApartAreSound, PTL

(* Reset and bind take from a task only a run that has ended, so no live   *)
(* run is left to nobody.                                                  *)
THEOREM LiveRunsAreKept ==
    ASSUME NoRecovery PROVE Spec /\ []Undisturbed => NoLiveRunIsDropped
<1>1. ServiceInv /\ Undisturbed /\ CallerInv /\ [Next]_vars
        => NothingIsDropped
    BY CallerNextIsSound
<1>2. QED
    BY <1>1, ServicesAreSound, ThreadsApartAreSound, PTL
       DEF Spec, NoLiveRunIsDropped, NothingIsDropped

-----------------------------------------------------------------------------
(* One caller: a thread that is alone disturbs nobody.                     *)

LEMMA AloneIsUndisturbed ==
    ASSUME OneCaller
    PROVE  (\A x \in Thread : OwnsParked(th[x], x)) <=> Undisturbed
    BY DEF OneCaller, Undisturbed, TasksApart

LEMMA AloneStaysAlone ==
    ASSUME OneCaller, ServiceInv, CallerInv, Undisturbed, [Next]_vars
    PROVE  Undisturbed'
<1>1. Undisturbed' <=> \A x \in Thread : OwnsParked(th[x], x)'
    BY DEF OneCaller, Undisturbed, TasksApart
<1>2. SUFFICES ASSUME NEW x \in Thread
               PROVE  OwnsParked(th[x], x)'
    BY <1>1
<1>3. OwnsParked(th[x], x)
    BY DEF Undisturbed
<1>4. ASSUME UNCHANGED <<th, inc, status, owner, token>>
      PROVE  OwnsParked(th[x], x)'
    BY <1>3, <1>4 DEF OwnsParked, Owns, Me
<1>5. ASSUME th'[x] = Idle
      PROVE  OwnsParked(th[x], x)'
    BY <1>5 DEF OwnsParked, Idle
<1>6. CASE UNCHANGED vars
    BY <1>4, <1>6 DEF vars, databases, sessionDb, processVars
<1>7. ASSUME NEW t \in Task, Create(t)
      PROVE  OwnsParked(th[x], x)'
    BY <1>4, <1>7 DEF Create, sessionDb, processVars
<1>8. ASSUME NEW r \in Run, Decide(r)
      PROVE  OwnsParked(th[x], x)'
    BY <1>4, <1>8 DEF Decide, sessionDb, processVars
<1>9. ASSUME NEW r \in Run, LeaseClock(r)
      PROVE  OwnsParked(th[x], x)'
    BY <1>4, <1>9 DEF LeaseClock, LeaseExpires, processVars
<1>10. ASSUME NEW p \in Process, Crash(p)
       PROVE  OwnsParked(th[x], x)'
    BY <1>5, <1>10 DEF Crash, OneCaller
<1>11. ASSUME NEW p \in Process, Restart(p)
       PROVE  OwnsParked(th[x], x)'
    BY <1>5, <1>11 DEF Restart, OneCaller, CallerInv, DownIsIdle
<1>12. ASSUME NEW r \in Run, Administer(r)
       PROVE  OwnsParked(th[x], x)'
    BY <1>12 DEF Administer, OneCaller
<1>13. ASSUME NEW y \in Thread, ProcessOf[y] \in up,
              ExecuteStep(y) \/ RuntimeStep(y) \/ ServiceStep(y) \/ Begin(y)
       PROVE  OwnsParked(th[x], x)'
    <2>1. ThreadStep(y) /\ x = y
        BY <1>13, ThreadIsSound DEF OneCaller
    <2>2. QED
        BY <2>1 DEF ThreadStep
<1>14. QED
    BY <1>6, <1>7, <1>8, <1>9, <1>10, <1>11, <1>12, <1>13
       DEF Next, Environment

(* With one thread and no administrator there is nothing to ask for: the   *)
(* task and the session databases are in step in every behaviour.          *)
THEOREM OneCallerIsSound ==
    ASSUME OneCaller PROVE Spec => [](CallerInv /\ Undisturbed)
<1> DEFINE Sound == CallerInv /\ Undisturbed
<1>1. Init => Sound
    <2>1. Init => \A x \in Thread : OwnsParked(th[x], x)
        BY IdleFrameFits DEF Init
    <2>2. QED
        BY <2>1, InitEstablishesCallerInv, AloneIsUndisturbed
<1>2. ServiceInv /\ Sound /\ [Next]_vars => Sound'
    BY CallerNextIsSound, AloneStaysAlone DEF OneCaller, NoRecovery
<1>3. QED
    BY <1>1, <1>2, ServicesAreSound, PTL DEF Spec

(* So a single worker keeps all three promises.                            *)
THEOREM OneCallerKeepsPromises ==
    ASSUME OneCaller
    PROVE  Spec => /\ []BoundRunAnswersTrigger
                   /\ []OneRunAtATime
                   /\ NoLiveRunIsDropped
<1>1. NoRecovery
    BY DEF OneCaller, NoRecovery
<1>2. QED
    BY <1>1, OneCallerIsSound, BindingsAnswerTriggers, RunsOfATaskFollow,
       LiveRunsAreKept, PTL
=============================================================================
