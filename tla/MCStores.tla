------------------------------ MODULE MCStores ------------------------------
(***************************************************************************)
(* The four stores of the PostgreSQL database for TLC.  They have no table *)
(* in common and no transaction touches two of them, so a behaviour works  *)
(* on the tables of one of them ("table") and the others stay as they are. *)
(***************************************************************************)
EXTENDS PostgresStore, PostgresApprovals, MemoryStore, RunQueue,
        FiniteSets, TLC

CONSTANTS FirstActor, ann, room, hall, acme

VARIABLE table

vars == <<pgVars, pgApprovalVars, memoryVars, queueVars, table>>

MCRequester == [a \in Request |-> FirstActor]

(* A user in a conversation of a tenant and in a private one.              *)
MCIdentity == {[subject |-> ann, conversation |-> room, tenant |-> acme],
               [subject |-> ann, conversation |-> hall, tenant |-> Nothing]}

Symmetry == Permutations(Run) \cup Permutations(Owner)
              \cup Permutations(Message) \cup Permutations(Tool)
              \cup Permutations(Call) \cup Permutations(Text)
              \cup Permutations(State) \cup Permutations(Connection)
              \cup Permutations(Operation)

Init == /\ PgInit /\ PgApprovalInit /\ MemoryInit /\ QueueInit
        /\ table \in {"runs", "approvals", "memories", "run_queue"}

OnRuns == /\ table = "runs"
          /\ PgNext
          /\ UNCHANGED <<pgApprovalVars, memoryVars, queueVars, table>>
OnApprovals == /\ table = "approvals"
               /\ PgApprovalNext
               /\ UNCHANGED <<pgVars, memoryVars, queueVars, table>>
(* Ids of versions are interchangeable: they are used in their order.      *)
OnMemories == /\ table = "memories"
              /\ MemoryNext
              /\ \E n \in 0..Cardinality(Memory) : minted' = 1..n
              /\ UNCHANGED <<pgVars, pgApprovalVars, queueVars, table>>
OnQueue == /\ table = "run_queue"
           /\ QueueNext
           /\ UNCHANGED <<pgVars, pgApprovalVars, memoryVars, table>>

Spec == Init /\ [][OnRuns \/ OnApprovals \/ OnMemories \/ OnQueue]_vars
=============================================================================
