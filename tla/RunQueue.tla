------------------------------ MODULE RunQueue ------------------------------
(***************************************************************************)
(* The queue of run ids (PostgresRunQueue): a row per queued run, which    *)
(* consumers take for the time of a lease and acknowledge or give back.    *)
(* Every method is one statement; a claim takes the first row by time that *)
(* nobody has locked (SKIP LOCKED), so it may take any row that is due.    *)
(* Nothing in the repository consumes the queue yet: its callers here do   *)
(* anything its interface allows, in particular they answer late.          *)
(***************************************************************************)
EXTENDS Naturals

CONSTANTS QueuedRun,    \* run ids
          Consumer,     \* the owner_id of a consumer
          NoConsumer,
          MaxAttempts   \* bound on the claims of a row

ASSUME RunQueueAssumption ==
    /\ NoConsumer \notin Consumer
    /\ MaxAttempts \in Nat

VARIABLES queued,    \* the runs that have a row
          due,       \* available_at has passed
          holder,    \* run_queue.owner_id
          leased,    \* lease_expires_at: "none", "live" or "expired"
          attempts,  \* run_queue.attempts
          working    \* history: whom a claim gave the run, for its lease

queueVars == <<queued, due, holder, leased, attempts, working>>

QueueInit ==
    /\ queued = {}
    /\ due = {}
    /\ holder = [r \in QueuedRun |-> NoConsumer]
    /\ leased = [r \in QueuedRun |-> "none"]
    /\ attempts = [r \in QueuedRun |-> 0]
    /\ working = {}

(* enqueue, for now or later; ON CONFLICT DO NOTHING: a run that is queued,*)
(* or being worked on, is not queued again.                                *)
Enqueue(r, now) ==
    /\ r \notin queued
    /\ queued' = queued \cup {r}
    /\ due' = IF now THEN due \cup {r} ELSE due \ {r}
    /\ holder' = [holder EXCEPT ![r] = NoConsumer]
    /\ leased' = [leased EXCEPT ![r] = "none"]
    /\ attempts' = [attempts EXCEPT ![r] = 0]
    /\ UNCHANGED working

(* Mutant: the lease of another consumer is not looked at.                 *)
ClaimQueuedUnleased(r, o) ==
    /\ r \in queued \cap due
    /\ attempts[r] < MaxAttempts
    /\ holder' = [holder EXCEPT ![r] = o]
    /\ leased' = [leased EXCEPT ![r] = "live"]
    /\ attempts' = [attempts EXCEPT ![r] = attempts[r] + 1]
    /\ working' = working \cup {<<r, o>>}
    /\ UNCHANGED <<queued, due>>

ClaimQueued(r, o) ==
    /\ r \in queued \cap due
    /\ leased[r] # "live"
    /\ attempts[r] < MaxAttempts
    /\ holder' = [holder EXCEPT ![r] = o]
    /\ leased' = [leased EXCEPT ![r] = "live"]
    /\ attempts' = [attempts EXCEPT ![r] = attempts[r] + 1]
    /\ working' = working \cup {<<r, o>>}
    /\ UNCHANGED <<queued, due>>

(* acknowledge deletes the row, if the caller is still its owner, lease or *)
(* no lease.                                                               *)
Acknowledge(r, o) ==
    /\ r \in queued
    /\ holder[r] = o
    /\ queued' = queued \ {r}
    /\ working' = working \ {<<r, o>>}
    /\ UNCHANGED <<due, holder, leased, attempts>>

(* release gives the row back, now or after a delay.                       *)
Release(r, o, now) ==
    /\ r \in queued
    /\ holder[r] = o
    /\ holder' = [holder EXCEPT ![r] = NoConsumer]
    /\ leased' = [leased EXCEPT ![r] = "none"]
    /\ due' = IF now THEN due \cup {r} ELSE due \ {r}
    /\ working' = working \ {<<r, o>>}
    /\ UNCHANGED <<queued, attempts>>

(* The clock passes available_at or lease_expires_at.                      *)
BecomesDue(r) ==
    /\ r \in queued \ due
    /\ due' = due \cup {r}
    /\ UNCHANGED <<queued, holder, leased, attempts, working>>

QueueLeaseExpires(r) ==
    /\ r \in queued
    /\ leased[r] = "live"
    /\ leased' = [leased EXCEPT ![r] = "expired"]
    /\ working' = working \ {<<r, holder[r]>>}
    /\ UNCHANGED <<queued, due, holder, attempts>>

QueueNext ==
    \E r \in QueuedRun :
        \/ \E now \in BOOLEAN : Enqueue(r, now)
        \/ \E o \in Consumer :
             \/ ClaimQueued(r, o)
             \/ Acknowledge(r, o)
             \/ \E now \in BOOLEAN : Release(r, o, now)
        \/ BecomesDue(r)
        \/ QueueLeaseExpires(r)

QueueSpec == QueueInit /\ [][QueueNext]_queueVars

-----------------------------------------------------------------------------
(* Properties.                                                             *)

(* The columns of run_queue have their types.                              *)
QueueTypeOK ==
    /\ queued \subseteq QueuedRun
    /\ due \subseteq QueuedRun
    /\ holder \in [QueuedRun -> Consumer \cup {NoConsumer}]
    /\ leased \in [QueuedRun -> {"none", "live", "expired"}]
    /\ attempts \in [QueuedRun -> 0..MaxAttempts]
    /\ working \subseteq QueuedRun \X Consumer

(* claim, acknowledge and release: while the lease of a claim lasts, its   *)
(* consumer alone has the run, and the row stays; a late acknowledgement   *)
(* or release of a consumer whose lease another one has taken over does    *)
(* not take the run away from it.                                          *)
ClaimsAreExclusive ==
    \A r \in QueuedRun, o \in Consumer : <<r, o>> \in working =>
        /\ r \in queued
        /\ holder[r] = o
        /\ leased[r] = "live"
=============================================================================
