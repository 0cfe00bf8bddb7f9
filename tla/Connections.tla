----------------------------- MODULE Connections -----------------------------
(***************************************************************************)
(* PostgreSQL connections (_connect of every Postgres store): each carries *)
(* at most one transaction.  PostgresStore, PostgresApprovals and          *)
(* MemoryStore keep what a transaction has read and the locks it holds in  *)
(* a record of its connection.                                             *)
(***************************************************************************)
CONSTANT Connection   \* database sessions

Idle == [op |-> "idle"]
=============================================================================
