------------------------------ MODULE TaskGraph ------------------------------
(***************************************************************************)
(* The task table (TaskGraph): tasks with dependencies, the run a task is  *)
(* bound to and the trigger that run answers.  A method is one transaction *)
(* and one action; one whose condition (May...) is false changes nothing   *)
(* and tells its caller so.  The owner column is written and never read,   *)
(* and the version column never decides, so both are left out; save, which *)
(* nothing calls, is too.                                                  *)
(***************************************************************************)
CONSTANTS Task, Run, Trigger, NoRun, NoTrigger,
          Deps      \* blocked_by of each task

VARIABLE task       \* the row of each task

TaskStatus == {"absent", "pending", "in_progress", "interrupted", "paused",
               "completed", "failed", "cancelled"}

Row == [status : TaskStatus, run : Run \cup {NoRun},
        trigger : Trigger \cup {NoTrigger}]

NoTask == [status |-> "absent", run |-> NoRun, trigger |-> NoTrigger]

TaskInit == task = [t \in Task |-> NoTask]

CreateTask(t) ==
    /\ task[t].status = "absent"
    /\ task' = [task EXCEPT ![t].status = "pending"]

(* Mutant: the dependencies are not looked at.                             *)
MayClaimUnchecked(t) == task[t].status = "pending"

(* A dependency that is missing blocks like one that is not completed.     *)
MayClaim(t) == /\ task[t].status = "pending"
               /\ \A d \in Deps[t] : task[d].status = "completed"

ClaimTask(t) == /\ MayClaim(t)
                /\ task' = [task EXCEPT ![t].status = "in_progress"]

(* transition, with the run and the trigger when they are given.           *)
TransitionTask(t, expected, to, r, g) ==
    /\ task[t].status \in expected
    /\ task' = [task EXCEPT ![t] =
                  [status |-> to,
                   run |-> IF r = NoRun THEN task[t].run ELSE r,
                   trigger |-> IF g = NoTrigger THEN task[t].trigger ELSE g]]

MoveTask(t, expected, to) == TransitionTask(t, expected, to, NoRun, NoTrigger)

MayBind(t, r) == /\ task[t].status = "in_progress"
                 /\ task[t].run \in {NoRun, r}

BindRun(t, r, g) ==
    /\ MayBind(t, r)
    /\ task' = [task EXCEPT ![t].run = r, ![t].trigger = g]

MayReset(t, g) == task[t].status = "completed" /\ task[t].trigger # g

(* Mutant: the run of the last slot stays bound.                           *)
ResetKeepingRun(t, g) ==
    /\ MayReset(t, g)
    /\ task' = [task EXCEPT ![t].status = "pending", ![t].trigger = g]

(* A completed recurring task is made ready for another slot.              *)
ResetForTrigger(t, g) ==
    /\ MayReset(t, g)
    /\ task' = [task EXCEPT ![t] = [status |-> "pending", run |-> NoRun,
                                    trigger |-> g]]
=============================================================================
