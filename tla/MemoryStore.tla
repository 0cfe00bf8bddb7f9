----------------------------- MODULE MemoryStore -----------------------------
(***************************************************************************)
(* The long-term memory (MemoryService over PostgresMemoryStore): what a   *)
(* user asked to remember, its corrections, which form a chain with one    *)
(* root, its expiry, and the physical deletion of a chain.  Transactions   *)
(* of different connections interleave statement by statement at READ      *)
(* COMMITTED: "memories" holds the committed rows, "editing" the snapshot  *)
(* and the locks of the open transaction of each connection.  SQLite runs  *)
(* the same statements under BEGIN IMMEDIATE: those are the behaviours in  *)
(* which no two transactions overlap.                                      *)
(*                                                                         *)
(* Contents, sources, confidence and scores are left out: a version is its *)
(* id, a uuid that is never used twice.                                    *)
(***************************************************************************)
EXTENDS Connections

CONSTANTS Memory,      \* ids of versions
          Subject, Conversation, Tenant,
          Identity,    \* the users, each in a conversation, maybe of a tenant
          Nothing      \* NULL

Visibility == {"private", "conversation", "tenant"}

(* Who may read a version: visibility, conversation_id and tenant_id.      *)
Audience == [visibility : Visibility,
             conversation : Conversation \cup {Nothing},
             tenant : Tenant \cup {Nothing}]

(* live: deleted_at IS NULL; next: superseded_by_id.                       *)
Row == [root : Memory, subject : Subject, audience : Audience,
        live : BOOLEAN, next : Memory \cup {Nothing}]

ASSUME MemoryStoreAssumption ==
    /\ Identity \subseteq [subject : Subject, conversation : Conversation,
                           tenant : Tenant \cup {Nothing}]
    /\ Nothing \notin Row

VARIABLES memories,  \* the committed rows
          minted,    \* the ids that were given to versions
          expired,   \* the ids whose expires_at has passed
          editing,   \* the open transaction of each connection
          forgotten  \* history: what each successful hard_delete was for

memoryVars == <<memories, minted, expired, editing, forgotten>>

Stored == {m \in Memory : memories[m] # Nothing}
Chain(root) == {m \in Stored : memories[m].root = root}

MemoryInit ==
    /\ memories = [m \in Memory |-> Nothing]
    /\ minted = {}
    /\ expired = {}
    /\ editing = [t \in Connection |-> Idle]
    /\ forgotten = {}

-----------------------------------------------------------------------------
(* Transactions: correct has read the version it replaces; replace holds   *)
(* that row; hard_delete has locked the row it was given and its update    *)
(* has its snapshot of the chain, then its delete has one; purge_expired   *)
(* has unlinked the versions that are to go.                               *)
CorrectTx == [op : {"correct", "replace"}, i : Identity, m : Memory,
              new : Memory, audience : Audience]
ForgetTx == [op : {"clear", "delete"}, root : Memory, m : Memory,
             known : SUBSET Memory, rows : SUBSET Memory]
PurgeTx == [op : {"purge"}, rows : SUBSET Memory, links : SUBSET Memory]

HoldsRow(t, m) ==
    \/ editing[t].op \in {"replace", "clear"} /\ editing[t].m = m
    \/ editing[t].op = "delete" /\ m \in editing[t].known \cup {editing[t].m}
    \/ editing[t].op = "purge" /\ m \in editing[t].links

FreeFor(t, rows) ==
    \A u \in Connection \ {t} : \A m \in rows : ~HoldsRow(u, m)

Edit(t, state) == editing' = [editing EXCEPT ![t] = state]

(* The version is not there, the foreign key or the deadlock detector      *)
(* raises, or the connection is lost.                                      *)
GiveUpEdit(t) ==
    /\ editing[t] # Idle
    /\ Edit(t, Idle)
    /\ UNCHANGED <<memories, minted, expired, forgotten>>

-----------------------------------------------------------------------------
(* remember_user_statement.                                                *)

AudienceOf(i, visibility) ==
    [visibility |-> visibility,
     conversation |-> IF visibility = "conversation" THEN i.conversation
                                                     ELSE Nothing,
     tenant |-> IF visibility = "tenant" THEN i.tenant ELSE Nothing]

Remember(i, m, visibility) ==
    /\ m \notin minted
    /\ visibility = "tenant" => i.tenant # Nothing
    /\ minted' = minted \cup {m}
    /\ memories' = [memories EXCEPT ![m] =
                      [root |-> m, subject |-> i.subject,
                       audience |-> AudienceOf(i, visibility),
                       live |-> TRUE, next |-> Nothing]]
    /\ UNCHANGED <<expired, editing, forgotten>>

-----------------------------------------------------------------------------
(* correct: the service reads the version and makes its replacement.       *)

ReadVersion(t, i, m, new) ==
    /\ editing[t] = Idle
    /\ m \in Stored
    /\ memories[m].subject = i.subject
    /\ new \notin minted
    /\ minted' = minted \cup {new}
    /\ Edit(t, [op |-> "correct", i |-> i, m |-> m, new |-> new,
                audience |-> memories[m].audience])
    /\ UNCHANGED <<memories, expired, forgotten>>

(* replace: the row is locked and must be live, expired or not.            *)
LockVersion(t) ==
    LET edit == editing[t]
    IN  /\ edit.op = "correct"
        /\ FreeFor(t, {edit.m})
        /\ edit.m \in Stored
        /\ memories[edit.m].subject = edit.i.subject
        /\ memories[edit.m].live
        /\ Edit(t, [edit EXCEPT !.op = "replace"])
        /\ UNCHANGED <<memories, minted, expired, forgotten>>

(* Mutant: the row that is replaced keeps deleted_at NULL.                 *)
ReplaceVersionKeepingOld(t) ==
    LET edit == editing[t]
        old == memories[edit.m]
    IN  /\ edit.op = "replace"
        /\ edit.m \in Stored /\ old.live
        /\ memories' = [memories EXCEPT
             ![edit.new] = [root |-> old.root, subject |-> edit.i.subject,
                            audience |-> edit.audience,
                            live |-> TRUE, next |-> Nothing],
             ![edit.m].next = edit.new]
        /\ Edit(t, Idle)
        /\ UNCHANGED <<minted, expired, forgotten>>

(* The replacement and the update of the row it replaces, which raises     *)
(* unless the row is still there and live.                                 *)
ReplaceVersion(t) ==
    LET edit == editing[t]
        old == memories[edit.m]
    IN  /\ edit.op = "replace"
        /\ edit.m \in Stored /\ old.live
        /\ memories' = [memories EXCEPT
             ![edit.new] = [root |-> old.root, subject |-> edit.i.subject,
                            audience |-> edit.audience,
                            live |-> TRUE, next |-> Nothing],
             ![edit.m] = [old EXCEPT !.live = FALSE, !.next = edit.new]]
        /\ Edit(t, Idle)
        /\ UNCHANGED <<minted, expired, forgotten>>

-----------------------------------------------------------------------------
(* forget: the row is locked, superseded or not; the update of its chain   *)
(* and then the delete take a new snapshot each, and wait for the rows in  *)
(* it that are locked.                                                     *)

LockChain(t, i, m) ==
    /\ editing[t] = Idle
    /\ FreeFor(t, {m})
    /\ m \in Stored
    /\ memories[m].subject = i.subject
    /\ LET chain == Chain(memories[m].root)
       IN  Edit(t, [op |-> "clear", root |-> memories[m].root, m |-> m,
                    known |-> chain, rows |-> chain])
    /\ UNCHANGED <<memories, minted, expired, forgotten>>

ClearChain(t) ==
    LET edit == editing[t]
    IN  /\ edit.op = "clear"
        /\ FreeFor(t, edit.rows)
        /\ Edit(t, [edit EXCEPT !.op = "delete", !.rows = Chain(edit.root)])
        /\ UNCHANGED <<memories, minted, expired, forgotten>>

Without(rows) == [m \in Memory |-> IF m \in rows THEN Nothing ELSE memories[m]]

(* Mutant: only the version that was named is deleted.                     *)
DeleteNamed(t) ==
    LET edit == editing[t]
    IN  /\ edit.op = "delete"
        /\ memories' = Without({edit.m})
        /\ forgotten' = forgotten \cup {[root |-> edit.root,
                                         known |-> edit.known]}
        /\ Edit(t, Idle)
        /\ UNCHANGED <<minted, expired>>

DeleteChain(t) ==
    LET edit == editing[t]
    IN  /\ edit.op = "delete"
        /\ FreeFor(t, edit.rows)
        /\ memories' = Without(edit.rows)
        /\ forgotten' = forgotten \cup {[root |-> edit.root,
                                         known |-> edit.known]}
        /\ Edit(t, Idle)
        /\ UNCHANGED <<minted, expired>>

-----------------------------------------------------------------------------
(* purge_expired: the links to the expired versions, then the versions.    *)

UnlinkExpired(t) ==
    LET links == {m \in Stored : memories[m].next \in expired}
    IN  /\ editing[t] = Idle
        /\ FreeFor(t, links)
        /\ Edit(t, [op |-> "purge", rows |-> expired, links |-> links])
        /\ UNCHANGED <<memories, minted, expired, forgotten>>

(* A link made in between to a version that goes now is a foreign key that *)
(* raises.                                                                 *)
DeleteExpired(t) ==
    LET edit == editing[t]
        rows == edit.rows \cap Stored
    IN  /\ edit.op = "purge"
        /\ FreeFor(t, rows)
        /\ \A m \in Stored \ rows :
             memories[m].next \in rows => m \in edit.links
        /\ memories' = [m \in Memory |->
             CASE m \in rows -> Nothing
               [] m \in Stored \ rows /\ m \in edit.links ->
                    [memories[m] EXCEPT !.next = Nothing]
               [] OTHER -> memories[m]]
        /\ Edit(t, Idle)
        /\ UNCHANGED <<minted, expired, forgotten>>

(* The clock passes expires_at, of a row that is there or about to be.     *)
ExpiryPasses(m) ==
    /\ m \in minted \ expired
    /\ \/ m \in Stored
       \/ \E t \in Connection : /\ editing[t].op \in {"correct", "replace"}
                                /\ editing[t].new = m
    /\ expired' = expired \cup {m}
    /\ UNCHANGED <<memories, minted, editing, forgotten>>

MemoryNext ==
    \/ \E i \in Identity, m \in Memory :
         \/ \E visibility \in Visibility : Remember(i, m, visibility)
         \/ \E t \in Connection :
              \/ \E new \in Memory : ReadVersion(t, i, m, new)
              \/ LockChain(t, i, m)
    \/ \E t \in Connection :
         \/ LockVersion(t)
         \/ ReplaceVersion(t)
         \/ ClearChain(t)
         \/ DeleteChain(t)
         \/ UnlinkExpired(t)
         \/ DeleteExpired(t)
         \/ GiveUpEdit(t)
    \/ \E m \in Memory : ExpiryPasses(m)

MemorySpec == MemoryInit /\ [][MemoryNext]_memoryVars

-----------------------------------------------------------------------------
(* Properties.                                                             *)

(* The rows and the transactions have their types.                         *)
MemoryTypeOK ==
    /\ memories \in [Memory -> Row \cup {Nothing}]
    /\ minted \subseteq Memory
    /\ expired \subseteq minted
    /\ editing \in [Connection -> {Idle} \cup CorrectTx \cup ForgetTx
                                    \cup PurgeTx]
    /\ forgotten \subseteq [root : Memory, known : SUBSET Memory]

(* list_visible: what retrieval may give the model of identity i.          *)
MayRead(i, row) ==
    CASE row.audience.visibility = "private" -> row.subject = i.subject
      [] row.audience.visibility = "conversation" ->
           row.audience.conversation = i.conversation
      [] row.audience.visibility = "tenant" ->
           /\ row.audience.tenant # Nothing
           /\ row.audience.tenant = i.tenant

Visible(i) == {m \in Stored \ expired : /\ memories[m].live
                                        /\ MayRead(i, memories[m])}

(* correct: whoever corrects a statement, and from wherever, the chain     *)
(* keeps the readers it was made for: a correction neither publishes a     *)
(* private memory nor takes it away from its tenant.                       *)
CorrectionsKeepAudience ==
    \A m, n \in Stored : memories[m].root = memories[n].root =>
        \A i \in Identity : MayRead(i, memories[m]) <=> MayRead(i, memories[n])

(* replace against replace, forget and purge: nobody is shown two versions *)
(* of one statement, whatever corrections race or expire.                  *)
OneVersionIsShown ==
    \A i \in Identity : \A m, n \in Visible(i) :
        memories[m].root = memories[n].root => m = n

(* hard_delete: of the versions that were there when it found the chain,   *)
(* none is ever seen again, though corrections and purges run beside it.   *)
ForgottenVersionsAreGone ==
    \A f \in forgotten : f.known \cap Stored = {}

(* MemoryService.forget ("deletes the whole correction chain, so that no   *)
(* old value remains"): nothing of a chain survives its deletion.          *)
ForgottenChainsAreGone == \A f \in forgotten : Chain(f.root) = {}
=============================================================================
