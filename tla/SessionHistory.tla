---------------------------- MODULE SessionHistory ----------------------------
(***************************************************************************)
(* One conversation (a row of sessions) and the runs that serve its        *)
(* messages at the same time: a run of another process, or one that was    *)
(* parked and resumed, writes its answer while a new run builds its        *)
(* context.  The tables are messages and session_summaries; the steps are  *)
(* the transactions of start_inbound, ContextManager.build and compact,    *)
(* complete_run, and the turns of the loop, which trim the conversation    *)
(* with ContextWindow before every request.                                *)
(*                                                                         *)
(* An id of messages is given at the insertion and becomes visible at the  *)
(* commit.  SQLiteSessionStore inserts under BEGIN IMMEDIATE, so the two   *)
(* are one step; in PostgresSessionStore other transactions of the session *)
(* may commit between them.                                                *)
(*                                                                         *)
(* A run may fail, an administrator recovers failed runs and cancels runs, *)
(* and RetentionService purges messages, summaries and checkpoints older   *)
(* than a cutoff, in one step or, in Postgres, statement by statement,     *)
(* each with a snapshot of its own.                                        *)
(***************************************************************************)
EXTENDS ContextWindow

CONSTANTS Run,
          Scenes,      \* the stores in use, with bounds
          Keep,        \* recent_message_limit
          Trigger,     \* summary_trigger_tokens
          AnswerSize,  \* tokens of an answer
          ToolSizes    \* tokens of a call, of its name and of its result

(* A scene bounds the number of messages that arrive and their sizes in    *)
(* tokens, the turns that use tools, the crashes, cancellations and        *)
(* purges, and says whether runs fail.                                     *)
Scene == [backend : {"sqlite", "postgres"}, runs : Nat,
          sizes : SUBSET (Nat \ {0}), turns : Nat, crashes : Nat,
          cancels : Nat, fails : BOOLEAN, purges : Nat]

ASSUME HistoryAssumption ==
    /\ Scenes \subseteq Scene
    /\ Keep \in Nat
    /\ Trigger \in Nat \ {0}
    /\ AnswerSize \in Nat \ {0}
    /\ ToolSizes \subseteq [call : Nat \ {0}, name : Nat \ {0},
                             result : Nat \ {0}]
    /\ \A tool \in ToolSizes : tool.name <= tool.call

VARIABLES
    scene,      \* the store in use and the bounds
    messages,   \* the rows by id, in the order in which ids were given
    visible,    \* the ids of committed rows
    late,       \* ids that became visible after a higher one (history)
    summaries,  \* the rows of session_summaries
    pc,         \* where a run is
    seen,       \* what the build of a run has read
    conv,       \* the conversation of a run in memory
    checkpoint, \* the conversation in the latest checkpoint of a run
    turns,      \* turns that used tools
    crashes,
    cancelled,  \* the runs an administrator has cancelled
    lost,       \* the runs whose checkpoints a purge has deleted
    purge       \* the transaction of a purge

tables == <<messages, visible, late, summaries>>
admin == <<cancelled, lost, purge>>
loop == <<checkpoint, turns, crashes, admin>>
vars == <<scene, tables, pc, seen, conv, loop>>

(* A summary: its version, the messages it tells of, the last one it       *)
(* covers, and those it covers and leaves out because they are of the run  *)
(* that wrote it, or were left out of the text before (history).           *)
SummaryRow == [version : Nat, content : SUBSET Nat, through : Nat,
               left : SUBSET Nat]
NoSummary == [version |-> 0, content |-> {}, through |-> 0, left |-> {}]

(* ORDER BY version DESC LIMIT 1.                                          *)
LatestSummary ==
    IF summaries = {}
      THEN NoSummary
      ELSE CHOOSE row \in summaries :
             \A other \in summaries : other.version <= row.version

(* What build and compact hold between two transactions: the summary read  *)
(* last, the ids of the rows read last, and (history) the ids that were    *)
(* visible when the build began.                                           *)
Seen == [summary : SummaryRow, rows : SUBSET Nat, since : SUBSET Nat]
NothingSeen == [summary |-> NoSummary, rows |-> {}, since |-> {}]

(* Purges: how far the transaction is, its cutoff, the rows its statements *)
(* have deleted, the runs whose checkpoints they may have deleted, those   *)
(* that were recovered since it began (history), and the number of purges  *)
(* that have begun.                                                        *)
NoPurge(begun) == [at |-> "idle", cutoff |-> 0, summaries |-> {},
                   messages |-> {}, runs |-> {}, reopened |-> {},
                   begun |-> begun]

Pc == {"new", "inserting", "started", "read_rows", "read_previous",
       "read_old", "save_summary", "read_again", "read_rest", "turn", "sent",
       "answering", "completed", "raised", "interrupted", "failed"}

(* A transaction that has inserted a message and not committed.            *)
InFlight(r) == pc[r] \in {"inserting", "answering"}

Own(r) == {id \in DOMAIN messages : messages[id].run = r}

(* The rows with these ids, as items of a conversation.                    *)
Verbatim(rows, ids) ==
    LET order == Ordered(ids)
    IN  [n \in DOMAIN order |->
           LET row == rows[order[n]]
           IN  Item(row.role, {order[n]}, row.size, Mark)]

SumOf(ids) == MapThenSumSet(LAMBDA id : messages[id].size, ids)

(* messages_after: committed rows with a higher id.                        *)
MessagesAfter(id) == {n \in visible : n > id}

LastRows(ids, count) == {n \in ids : Cardinality({m \in ids : m > n}) < count}

Init ==
    /\ scene \in Scenes
    /\ messages = <<>>
    /\ visible = {}
    /\ late = {}
    /\ summaries = {}
    /\ pc = [r \in Run |-> "new"]
    /\ seen = [r \in Run |-> NothingSeen]
    /\ conv = [r \in Run |-> <<>>]
    /\ checkpoint = [r \in Run |-> <<>>]
    /\ turns = 0
    /\ crashes = 0
    /\ cancelled = {}
    /\ lost = {}
    /\ purge = NoPurge(0)

Move(r, from, to) ==
    /\ pc[r] = from
    /\ pc' = [pc EXCEPT ![r] = to]

Insert(r, role, sizes) ==
    \E size \in sizes :
      messages' = Append(messages, [run |-> r, role |-> role, size |-> size])

Show(ids) ==
    /\ visible' = visible \cup ids
    /\ late' = late \cup {n \in ids : \E m \in visible : m > n}

-----------------------------------------------------------------------------
(* start_inbound and complete_run.                                         *)

Arrives == Cardinality({r \in Run : pc[r] # "new"}) < scene.runs

(* begin_inbound updates the row of the session, which another begin       *)
(* of the same session waits for.                                          *)
BeginInbound(r) ==
    /\ scene.backend = "postgres"
    /\ \A other \in Run : pc[other] # "inserting"
    /\ Arrives
    /\ Move(r, "new", "inserting")
    /\ Insert(r, "user", scene.sizes)
    /\ UNCHANGED <<scene, visible, late, summaries, seen, conv, loop>>

(* The first checkpoint holds the latest messages of the session.          *)
FirstCheckpoint(r, rows, ids) ==
    checkpoint' = [checkpoint EXCEPT ![r] =
                     Verbatim(rows, LastRows(ids, Keep))]

CommitInbound(r) ==
    /\ Move(r, "inserting", "started")
    /\ Show(Own(r))
    /\ FirstCheckpoint(r, messages, visible \cup Own(r))
    /\ UNCHANGED <<scene, messages, summaries, seen, conv, turns, crashes,
                   admin>>

(* SQLite: one step.                                                       *)
StartInbound(r) ==
    /\ scene.backend = "sqlite"
    /\ Arrives
    /\ Move(r, "new", "started")
    /\ Insert(r, "user", scene.sizes)
    /\ Show({Len(messages) + 1})
    /\ FirstCheckpoint(r, messages', visible \cup {Len(messages) + 1})
    /\ UNCHANGED <<scene, summaries, seen, conv, turns, crashes, admin>>

(* complete_run: the answer is the last thing a run writes; nothing reads  *)
(* its conversation and its checkpoint any more.                           *)
EndConversation(r) == /\ conv' = [conv EXCEPT ![r] = <<>>]
                      /\ checkpoint' = [checkpoint EXCEPT ![r] = <<>>]

InsertAnswer(r) ==
    /\ scene.backend = "postgres"
    /\ Move(r, "sent", "answering")
    /\ Insert(r, "assistant", {AnswerSize})
    /\ EndConversation(r)
    /\ UNCHANGED <<scene, visible, late, summaries, seen, turns, crashes,
                   admin>>

CommitAnswer(r) ==
    /\ Move(r, "answering", "completed")
    /\ Show({id \in Own(r) : messages[id].role = "assistant"})
    /\ UNCHANGED <<scene, messages, summaries, seen, conv, loop>>

CompleteRun(r) ==
    /\ scene.backend = "sqlite"
    /\ Move(r, "sent", "completed")
    /\ Insert(r, "assistant", {AnswerSize})
    /\ Show({Len(messages) + 1})
    /\ EndConversation(r)
    /\ UNCHANGED <<scene, summaries, seen, turns, crashes, admin>>

-----------------------------------------------------------------------------
(* ContextManager.build and compact: every read and the write is a         *)
(* transaction of its own.                                                 *)

(* latest_summary, at the start of build, in compact and after it.         *)
ReadSummary(r) ==
    /\ \/ Move(r, "started", "read_rows")
       \/ Move(r, "read_previous", "read_old")
       \/ Move(r, "read_again", "read_rest")
    /\ seen' = [seen EXCEPT ![r].summary = LatestSummary,
                            ![r].since = IF pc[r] = "started" THEN visible
                                                              ELSE @]
    /\ UNCHANGED <<scene, tables, conv, loop>>

(* Mutant: the rows are read after the coverage of the newest summary,     *)
(* and put after the text of the one read before.                          *)
RowsOfNewest(r) == MessagesAfter(LatestSummary.through)

Rows(r) == MessagesAfter(seen[r].summary.through)

Forget(r) == seen' = [seen EXCEPT ![r] = NothingSeen]

(* The context: the summary and the messages after it.  It is put in the   *)
(* checkpoint "context_built", which is refused if the run was cancelled;  *)
(* nobody else reads the checkpoint between.                               *)
Built(r, from) ==
    LET text == seen[r].summary.content
        built == IF seen[r].summary = NoSummary
                   THEN Verbatim(messages, Rows(r))
                   ELSE <<Item("summary", text, SumOf(text), Mark)>>
                          \o Verbatim(messages, Rows(r))
    IN  /\ \/ /\ r \notin cancelled
              /\ Move(r, from, "turn")
              /\ conv' = [conv EXCEPT ![r] = built]
              /\ checkpoint' = [checkpoint EXCEPT ![r] = built]
           \/ /\ r \in cancelled
              /\ Move(r, from, "raised")
              /\ UNCHANGED <<conv, checkpoint>>
        /\ Forget(r)

(* messages_after in build: few tokens are the context, many are compacted *)
(* first.                                                                  *)
BuildOrCompact(r) ==
    /\ \/ /\ SumOf(Rows(r)) < Trigger
          /\ Built(r, "read_rows")
       \/ /\ SumOf(Rows(r)) >= Trigger
          /\ Move(r, "read_rows", "read_previous")
          /\ UNCHANGED <<seen, conv, checkpoint>>
    /\ UNCHANGED <<scene, tables, turns, crashes, admin>>

(* compact leaves the messages of the current run alone, and the latest    *)
(* ones of the others.                                                     *)
Compactable(r) ==
    LET others == Rows(r) \ Own(r)
    IN  others \ LastRows(others, Keep)

(* messages_after in compact.                                              *)
ReadOld(r) ==
    /\ IF Compactable(r) = {} THEN Move(r, "read_old", "read_again")
                              ELSE Move(r, "read_old", "save_summary")
    /\ seen' = [seen EXCEPT ![r].rows = Compactable(r)]
    /\ UNCHANGED <<scene, tables, conv, loop>>

(* Mutant: the text starts anew with every version.                        *)
SummarisedAnew(r) == seen[r].rows

(* _extractive_summary: the previous text and the old messages.            *)
Summarised(r) == seen[r].summary.content \cup seen[r].rows

Advances(r) == Max(seen[r].rows) > LatestSummary.through

(* Mutant: a message that is gone is covered.                              *)
AcceptedUnseen(r) == Advances(r)

(* The message is still there, and nobody was faster.                      *)
Accepted(r) == Max(seen[r].rows) \in visible /\ Advances(r)

(* What the new text leaves out of what it covers.                         *)
Unsaid(r) == seen[r].summary.left
               \cup {id \in Own(r) : id <= Max(seen[r].rows)}

(* save_summary.  In Postgres it locks the session row and so waits for    *)
(* transactions that have inserted a message and hold that row, and its    *)
(* foreign key waits for the deletion of the message.  If the message is   *)
(* gone, or another run was faster, it raises: start_inbound is over, but  *)
(* run_turn is not yet in the block that interrupts the run, which stays   *)
(* running until a process starts.                                         *)
SaveSummary(r) ==
    /\ pc[r] = "save_summary"
    /\ \A other \in Run : ~InFlight(other)
    /\ Max(seen[r].rows) \notin purge.messages
    /\ \/ /\ Accepted(r)
          /\ Move(r, "save_summary", "read_again")
          /\ summaries' = summaries \cup {
               [version |-> LatestSummary.version + 1,
                content |-> Summarised(r), through |-> Max(seen[r].rows),
                left |-> Unsaid(r)]}
       \/ /\ ~Accepted(r)
          /\ Move(r, "save_summary", "raised")
          /\ UNCHANGED summaries
    /\ seen' = [seen EXCEPT ![r].rows = {}]
    /\ UNCHANGED <<scene, messages, visible, late, conv, loop>>

(* The second pair of reads ends the build, whatever the size.             *)
BuildAfterCompact(r) ==
    /\ Built(r, "read_rest")
    /\ UNCHANGED <<scene, tables, turns, crashes, admin>>

-----------------------------------------------------------------------------
(* The loop.                                                               *)

(* prepare trims the conversation, which stays trimmed, and saves it       *)
(* ("before_model"); a conversation that cannot be made to fit interrupts  *)
(* the run.                                                                *)
Prepare(r) ==
    /\ LET fitted == Fit(conv[r])
       IN  IF Count(fitted) <= MaxInput
             THEN /\ Move(r, "turn", "sent")
                  /\ conv' = [conv EXCEPT ![r] = fitted]
                  /\ checkpoint' = [checkpoint EXCEPT ![r] = fitted]
             ELSE /\ Move(r, "turn", "interrupted")
                  /\ conv' = [conv EXCEPT ![r] = <<>>]
                  /\ UNCHANGED checkpoint
    /\ UNCHANGED <<scene, tables, seen, turns, crashes, admin>>

(* The id of the nth call of a turn, above all ids of messages.            *)
CallId(n) == {1000 + 2 * turns + n}

(* The model asks for one or two tools; the calls and then the results are *)
(* appended to the conversation, and checkpoints with them are saved.      *)
UseTools(r, tools) ==
    LET extended == conv[r]
          \o [n \in DOMAIN tools |->
               Item("call", CallId(n), tools[n].call, tools[n].name)]
          \o [n \in DOMAIN tools |->
               Item("result", CallId(n), tools[n].result, 1)]
    IN  /\ Move(r, "sent", "turn")
        /\ turns < scene.turns
        /\ turns' = turns + 1
        /\ conv' = [conv EXCEPT ![r] = extended]
        /\ checkpoint' = [checkpoint EXCEPT ![r] = extended]
        /\ UNCHANGED <<scene, tables, seen, crashes, admin>>

(* The process of a run ends.  Inside a transaction it rolls back, which   *)
(* is the crash before it, but for an unused id.                           *)
Crash(r) ==
    /\ pc[r] \in Pc \ {"new", "completed", "interrupted", "failed"}
    /\ ~InFlight(r)
    /\ r \notin cancelled
    /\ crashes < scene.crashes
    /\ crashes' = crashes + 1
    /\ pc' = [pc EXCEPT ![r] = "interrupted"]
    /\ conv' = [conv EXCEPT ![r] = <<>>]
    /\ Forget(r)
    /\ UNCHANGED <<scene, tables, checkpoint, turns, admin>>

(* resume_run goes on with the messages of the latest checkpoint and does  *)
(* not build a context.  Without a checkpoint it does nothing.             *)
Resume(r) ==
    /\ Move(r, "interrupted", "turn")
    /\ r \notin lost
    /\ conv' = [conv EXCEPT ![r] = checkpoint[r]]
    /\ UNCHANGED <<scene, tables, seen, loop>>

-----------------------------------------------------------------------------
(* Runs that fail, and the administrator.                                  *)

(* The runs whose status is not terminal.                                  *)
Live == {r \in Run \ cancelled :
           pc[r] \notin {"new", "inserting", "completed", "failed"}}

Building == {"started", "read_rows", "read_previous", "read_old",
             "save_summary", "read_again", "read_rest"}

(* A run fails when the result of an approved call is uncertain, or when   *)
(* its task fails.  Its thread writes nothing more; its checkpoint stays.  *)
Fail(r) ==
    /\ scene.fails /\ r \notin cancelled
    /\ pc[r] \in {"turn", "sent", "raised", "interrupted"}
    /\ pc' = [pc EXCEPT ![r] = "failed"]
    /\ conv' = [conv EXCEPT ![r] = <<>>]
    /\ Forget(r)
    /\ UNCHANGED <<scene, tables, checkpoint, turns, crashes, admin>>

(* admin_control_run locks the row of the session too, and so waits for    *)
(* transactions that have inserted a message.                              *)
SessionIsFree == \A r \in Run : ~InFlight(r)

(* "recover": the run can be resumed, and is live again.                   *)
Recover(r) ==
    /\ SessionIsFree
    /\ Move(r, "failed", "interrupted")
    /\ purge' = IF purge.at = "idle"
                  THEN purge
                  ELSE [purge EXCEPT !.reopened = @ \cup {r}]
    /\ UNCHANGED <<scene, tables, seen, conv, checkpoint, turns, crashes,
                   cancelled, lost>>

(* "cancel".  The thread of the run goes on until its next checkpoint is   *)
(* refused; a build has none before its end, and the summary it saves is   *)
(* nobody's.                                                               *)
Cancel(r) ==
    /\ r \in Live \/ pc[r] = "failed"
    /\ SessionIsFree
    /\ Cardinality(cancelled) < scene.cancels
    /\ cancelled' = cancelled \cup {r}
    /\ \/ /\ pc[r] \in Building
          /\ UNCHANGED <<pc, conv, checkpoint>>
       \/ /\ pc[r] \notin Building
          /\ pc' = [pc EXCEPT ![r] = "raised"]
          /\ EndConversation(r)
    /\ UNCHANGED <<scene, tables, seen, turns, crashes, lost, purge>>

-----------------------------------------------------------------------------
(* Retention.                                                              *)

(* Mutant: only running runs protect the session.                          *)
UnparkedOldMessages(cutoff) ==
    {id \in visible : /\ \A r \in Live : pc[r] \in {"interrupted", "raised"}
                      /\ id < cutoff}

(* The rows a purge finds before its cutoff: none if a run of the session  *)
(* is in a status that is not terminal.  Ids stand for the times at which  *)
(* rows were created.                                                      *)
OldMessages(cutoff) == {id \in visible : Live = {} /\ id < cutoff}

OldSummaries(cutoff) ==
    {row \in summaries : Live = {} /\ row.through < cutoff}

(* Runs whose latest checkpoint may be that old, of those that can still   *)
(* need one: a checkpoint is not older than the message of its run.        *)
OldCheckpoints(cutoff) ==
    {r \in Run : /\ Live = {} /\ pc[r] = "failed"
                 /\ \A id \in Own(r) : id < cutoff}

Delete(rows, ids, runs) ==
    /\ visible' = visible \ ids
    /\ late' = late \ ids
    /\ summaries' = summaries \ rows
    /\ lost' = lost \cup runs

MayPurge(cutoff) ==
    /\ purge.at = "idle"
    /\ purge.begun < scene.purges
    /\ cutoff \in 2..(Len(messages) + 1)

(* purge_tenant_data.  A repeated operation_id finds its row in            *)
(* admin_operations and changes nothing.                                   *)
Purge(cutoff) ==
    /\ scene.backend = "sqlite"
    /\ MayPurge(cutoff)
    /\ \E gone \in SUBSET OldCheckpoints(cutoff) :
         Delete(OldSummaries(cutoff), OldMessages(cutoff), gone)
    /\ purge' = [purge EXCEPT !.begun = @ + 1]
    /\ UNCHANGED <<scene, messages, pc, seen, conv, checkpoint, turns, crashes,
                   cancelled>>

(* What a statement of the Postgres transaction leaves alone.              *)
NothingCommitted ==
    UNCHANGED <<scene, tables, pc, seen, conv, checkpoint, turns, crashes,
                cancelled, lost>>

(* The first statement in Postgres.                                        *)
PurgeSummaries(cutoff) ==
    /\ scene.backend = "postgres"
    /\ MayPurge(cutoff)
    /\ purge' = [NoPurge(purge.begun + 1) EXCEPT
                   !.at = "messages", !.cutoff = cutoff,
                   !.summaries = OldSummaries(cutoff)]
    /\ NothingCommitted

(* The second one sees what has been committed since the first.  A message *)
(* that a summary still refers to cannot be deleted, and the transaction   *)
(* is rolled back.                                                         *)
PurgeMessages ==
    LET ids == OldMessages(purge.cutoff)
        left == summaries \ purge.summaries
    IN  /\ purge.at = "messages"
        /\ purge' = IF \E row \in left : row.through \in ids
                      THEN NoPurge(purge.begun)
                      ELSE [purge EXCEPT !.at = "checkpoints",
                                         !.messages = ids]
        /\ NothingCommitted

PurgeCheckpoints ==
    /\ purge.at = "checkpoints"
    /\ purge' = [purge EXCEPT !.at = "commit",
                              !.runs = OldCheckpoints(purge.cutoff)]
    /\ NothingCommitted

(* A run that was recovered meanwhile may have saved a new checkpoint.     *)
CommitPurge ==
    /\ purge.at = "commit"
    /\ \E gone \in SUBSET purge.runs :
         Delete(purge.summaries, purge.messages, gone)
    /\ purge' = NoPurge(purge.begun)
    /\ UNCHANGED <<scene, messages, pc, seen, conv, checkpoint, turns, crashes,
                   cancelled>>

Start(r) == BeginInbound(r) \/ CommitInbound(r) \/ StartInbound(r)
Build(r) == \/ ReadSummary(r) \/ BuildOrCompact(r) \/ ReadOld(r)
            \/ SaveSummary(r) \/ BuildAfterCompact(r)
Work(r) ==
    \/ Prepare(r)
    \/ \E n \in 1..2 : \E tools \in [1..n -> ToolSizes] : UseTools(r, tools)
    \/ InsertAnswer(r) \/ CommitAnswer(r) \/ CompleteRun(r)

Retain == \/ \E cutoff \in 2..(Len(messages) + 1) :
               Purge(cutoff) \/ PurgeSummaries(cutoff)
          \/ PurgeMessages \/ PurgeCheckpoints \/ CommitPurge

Next ==
    \/ \E r \in Run : \/ Start(r) \/ Build(r) \/ Work(r)
                      \/ Crash(r) \/ Resume(r)
                      \/ Fail(r) \/ Recover(r) \/ Cancel(r)
    \/ Retain

Spec == Init /\ [][Next]_vars

-----------------------------------------------------------------------------
(* Properties.                                                             *)

ItemOK(item) ==
    /\ item.kind \in Kind
    /\ item.of \subseteq Nat
    /\ item.size \in Nat \ {0}
    /\ item.whole \in BOOLEAN

(* Rows and items are well formed: a run has at most a user message and an *)
(* answer, and an item that was cut still says that it was.                *)
HistoryTypeOK ==
    /\ \A n \in DOMAIN messages : /\ messages[n].run \in Run
                                  /\ messages[n].role \in {"user", "assistant"}
    /\ \A r \in Run : Cardinality(Own(r)) <= 2
    /\ late \subseteq visible /\ visible \subseteq DOMAIN messages
    /\ pc \in [Run -> Pc]
    /\ seen \in [Run -> Seen]
    /\ \A r \in Run : \A i \in DOMAIN conv[r] : ItemOK(conv[r][i])
    /\ \A r \in Run : \A i \in DOMAIN checkpoint[r] : ItemOK(checkpoint[r][i])
    /\ turns \in 0..scene.turns /\ crashes \in 0..scene.crashes
    /\ cancelled \subseteq Run /\ lost \subseteq Run
    /\ purge.at \in {"idle", "messages", "checkpoints", "commit"}
    /\ purge.summaries \subseteq summaries
    /\ purge.messages \subseteq visible
    /\ purge.runs \subseteq Run /\ purge.reopened \subseteq Run

(* save_summary: builds that race read the same old summary and write one  *)
(* after the other, and yet no two have the same version, every version    *)
(* covers more than the versions before it, and ends at a message that can *)
(* be read, whatever is purged while a build, of a cancelled run too, is   *)
(* between its reads and the write.                                        *)
SummariesAdvance ==
    \A row \in summaries :
        /\ row.through \in visible
        /\ row.content \subseteq 1..row.through
        /\ \A other \in summaries \ {row} :
             \/ other.version < row.version /\ other.through < row.through
             \/ row.version < other.version /\ row.through < other.through

(* A summary tells of every message it covers, however builds and answers  *)
(* of other runs interleave with it, but for two known losses: messages of *)
(* the runs that wrote summaries while others went on talking, and rows    *)
(* Postgres committed after a row with a higher id had been read.          *)
SummaryIsFaithful ==
    \A row \in summaries :
        \A id \in visible \cap 1..row.through :
            id \in row.content \cup late \cup row.left

Represented(items) ==
    UNION {items[i].of : i \in {n \in DOMAIN items : items[n].kind \in Dict}}

BuildEnds(r) == /\ pc[r] \in {"read_rows", "read_rest"}
                /\ pc'[r] = "turn"

(* build: although the summary and the messages are read by transactions   *)
(* of their own between which other runs write summaries, the context      *)
(* represents every message that was in the session when the build began   *)
(* and has not been purged since, in the summary or verbatim, but for the  *)
(* two known losses.                                                       *)
ContextIsComplete ==
    [][\A r \in Run : BuildEnds(r) =>
         seen[r].since \cap visible
           \subseteq Represented(conv'[r]) \cup late
                       \cup seen[r].summary.left]_vars

(* purge_tenant_data: a purge takes nothing from a session with a run that *)
(* is not over; in Postgres, where runs begin, fail and are recovered      *)
(* while the purge is between its statements, it takes messages of runs    *)
(* that are over, and of runs that are not only those an administrator has *)
(* recovered since its first statement.  (README.md of the repository      *)
(* names no exception.)                                                    *)
PurgeSparesLiveRuns ==
    [][\A id \in visible \ visible' :
         /\ \/ messages[id].run \notin Live
            \/ messages[id].run \in purge.reopened
         /\ scene.backend = "sqlite" => Live = {}]_vars

Has(items, kind, of) ==
    \E i \in DOMAIN items : items[i].kind = kind /\ items[i].of = of

(* fit: a request has no tool result without its call and no call without  *)
(* its result, however many turns of trimming the conversation went        *)
(* through.                                                                *)
PairsStayTogether ==
    \A r \in Run : \A i \in DOMAIN conv[r] :
        /\ conv[r][i].kind = "call" => Has(conv[r], "result", conv[r][i].of)
        /\ conv[r][i].kind = "result" => Has(conv[r], "call", conv[r][i].of)

Trims(r) == pc[r] = "turn" /\ pc'[r] = "sent"

(* The latest user message and tool interaction.                           *)
Interaction(items) ==
    LET user == Latest(IndexesOf(items, "user"))
        result == Latest(IndexesOf(items, "result"))
    IN  user \cup result
          \cup {i \in IndexesOf(items, "call") :
                  \E j \in result : items[i].of = items[j].of}

Stubs(items) ==
    [i \in DOMAIN items |-> [items[i] EXCEPT !.size = items[i].stub]]

(* What a request needs at least.                                          *)
LeastRequest(items) ==
    FixedTokens + Tokens(Stubs(items), Interaction(items))

(* fit: a conversation is refused only if not even its latest user message *)
(* and tool interaction fit when they are cut to stubs.                    *)
OverflowIsLastResort ==
    \A r \in Run :
        pc[r] = "turn" /\ LeastRequest(conv[r]) <= MaxInput
          => Count(Fit(conv[r])) <= MaxInput

(* The items of a dropped pair, or a dropped item.                         *)
Missing(before, after, i) ==
    {j \in DOMAIN before : /\ before[j].of = before[i].of
                           /\ ~Has(after, before[j].kind, before[j].of)
                           /\ before[j].kind \in Dict
                                <=> before[i].kind \in Dict}

(* The items with their results within the limit.                          *)
Limited(items) ==
    LET limit(item) == IF item.kind = "result" /\ item.size > ToolLimit
                         THEN ToolLimit
                         ELSE item.size
    IN  [i \in DOMAIN items |-> [items[i] EXCEPT !.size = limit(items[i])]]

NothingElseFits(before, after) ==
    \A i \in DOMAIN before :
        ~Has(after, before[i].kind, before[i].of) =>
          Count(after) + Tokens(Limited(before), Missing(before, after, i))
            > MaxInput

InteractionFits(items) == Fits(Limited(items), Interaction(items))

(* fit: nothing is dropped needlessly: as long as the latest interaction   *)
(* fits, none of the dropped messages, or of the dropped calls with their  *)
(* results, would still fit into the request.                              *)
TrimmingIsMaximal ==
    [][\A r \in Run : Trims(r) /\ InteractionFits(conv[r]) =>
         NothingElseFits(conv[r], conv'[r])]_vars
=============================================================================
