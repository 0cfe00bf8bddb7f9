------------------------ MODULE SessionHistoryProofs ------------------------
(***************************************************************************)
(* What holds of the history of a conversation for any number of runs,     *)
(* messages and purges, in both stores: versions of the summary advance,   *)
(* each tells of all it covers, a built context is complete, a trimmed     *)
(* conversation keeps its pairs and loses no more than it must, and a      *)
(* purge spares the runs that are not over.                                *)
(***************************************************************************)
EXTENDS SessionHistory, FiniteSetTheorems, WellFoundedInduction, TLAPS

-----------------------------------------------------------------------------
(* The inductive invariant.                                                *)

Row == [run : Run, role : {"user", "assistant"}, size : Nat \ {0}]

PurgeType == [at : {"idle", "messages", "checkpoints", "commit"},
              cutoff : Nat, summaries : SUBSET SummaryRow,
              messages : SUBSET Nat, runs : SUBSET Run,
              reopened : SUBSET Run, begun : Nat]

TablesTypeOK ==
    /\ scene \in Scenes
    /\ messages \in Seq(Row)
    /\ visible \subseteq DOMAIN messages
    /\ late \subseteq visible
    /\ summaries \subseteq SummaryRow
    /\ pc \in [Run -> Pc]
    /\ seen \in [Run -> Seen]
    /\ cancelled \subseteq Run
    /\ purge \in PurgeType

(* A run that writes nothing any more, unless it is recovered.             *)
Over(r) == r \in cancelled \/ pc[r] \in {"completed", "failed"}

(* A run whose messages a purge may take, once it has found them.          *)
Spent(r) == Over(r) \/ r \in purge.reopened

(* A row no other transaction can see yet: a message that arrives, or an   *)
(* answer.  The message of a run that is answering may have been purged.   *)
Uncommitted ==
    {id \in DOMAIN messages \ visible :
       \/ pc[messages[id].run] = "inserting"
       \/ pc[messages[id].run] = "answering" /\ messages[id].role = "assistant"}

(* An answer is the last a run writes, and a run that is cancelled writes  *)
(* no more rows.                                                           *)
RowsHaveRuns ==
    /\ \A id \in DOMAIN messages :
         /\ pc[messages[id].run] # "new"
         /\ messages[id].role = "assistant" =>
              pc[messages[id].run] \in {"answering", "completed"}
    /\ \A id \in visible :
         /\ pc[messages[id].run] # "inserting"
         /\ messages[id].role = "assistant" => pc[messages[id].run] # "answering"
    /\ \A r \in cancelled : pc[r] \in Building \cup {"raised"}

(* The tables as a record: the last id, the committed and the late rows,   *)
(* those that are not committed, and the runs of all.                      *)
Tables == [last |-> Len(messages), shown |-> visible, late |-> late,
           hidden |-> Uncommitted,
           owner |-> [id \in DOMAIN messages |-> messages[id].run]]

(* What a summary says, now that others have written after it was saved,   *)
(* and what is committed later is not under its cover.                     *)
TrueSummary(s, t) ==
    /\ s.through <= t.last
    /\ s.content \subseteq 1..s.through
    /\ \A id \in t.shown : id <= s.through => id \in s.content \cup t.late \cup s.left
    /\ \A id \in t.hidden : s.through < id

SummariesAreTrue ==
    /\ \A row \in summaries : TrueSummary(row, Tables)
    /\ \A r \in Run : TrueSummary(seen[r].summary, Tables)

(* The rows a build is about to summarise: with the summary it has read    *)
(* they leave out nothing before any of them that is still there.          *)
BatchFits(s, r, t) ==
    /\ \A id \in s.rows : /\ id \in (1..t.last) \ t.hidden
                          /\ s.summary.through < id
    /\ \A last \in s.rows \cap t.shown : \A id \in t.shown :
         id <= last =>
           \/ id \in s.summary.content \cup s.rows \cup t.late \cup s.summary.left
           \/ t.owner[id] = r

BatchesFit ==
    \A r \in Run : /\ seen[r].rows # {} <=> pc[r] = "save_summary"
                  /\ BatchFits(seen[r], r, Tables)

(* A purge between its statements: what it deletes is of runs that are     *)
(* over or have been recovered since, and no summary that stays refers to  *)
(* it.                                                                     *)
PurgeFits ==
    /\ IF purge.at = "idle" THEN purge.summaries = {}
                            ELSE scene.backend = "postgres"
    /\ purge.at \notin {"checkpoints", "commit"} => purge.messages = {}
    /\ purge.messages \subseteq visible
    /\ purge.summaries \subseteq summaries
    /\ \A id \in purge.messages : Spent(messages[id].run)
    /\ \A row \in summaries \ purge.summaries : row.through \notin purge.messages

HistoryInv ==
    /\ TablesTypeOK
    /\ RowsHaveRuns
    /\ SummariesAdvance
    /\ SummariesAreTrue
    /\ BatchesFit
    /\ PurgeFits

-----------------------------------------------------------------------------
(* Finite sets of numbers.                                                 *)

(* A set of numbers up to n that is not empty has a greatest one.          *)
LEMMA GreatestExists ==
    ASSUME NEW n \in Nat, NEW S \in SUBSET Nat, S # {}, \A x \in S : x <= n
    PROVE  \E top \in S : \A x \in S : x <= top
<1> DEFINE T == {n - x : x \in S}
<1>1. T \subseteq Nat /\ T # {}
  <2>1. \A x \in S : n - x \in Nat
      OBVIOUS
  <2>2. PICK x \in S : TRUE
      OBVIOUS
  <2>3. n - x \in T
      OBVIOUS
  <2> QED BY <2>1, <2>3
<1>2. PICK least \in T : \A y \in T : ~(<<y, least>> \in OpToRel(<, Nat))
    BY <1>1, NatLessThanWellFounded, WFMin
<1>3. \A y \in T : ~(y < least)
    BY <1>1, <1>2 DEF OpToRel
<1>4. PICK top \in S : least = n - top
    BY <1>2
<1>5. ASSUME NEW x \in S PROVE x <= top
  <2>1. ~(n - x < n - top)
      BY <1>3, <1>4
  <2> QED BY <2>1
<1> QED BY <1>5

LEMMA MaxIsGreatest ==
    ASSUME NEW n \in Nat, NEW S \in SUBSET Nat, S # {}, \A x \in S : x <= n
    PROVE  /\ Max(S) \in S
           /\ \A x \in S : x <= Max(S)
BY GreatestExists DEF Max

(* The latest messages are those after all the others.                     *)
LEMMA LastRowsAreLast ==
    ASSUME NEW n \in Nat, NEW S \in SUBSET (1..n), NEW count \in Nat,
           NEW last \in LastRows(S, count), NEW other \in S \ LastRows(S, count)
    PROVE  other < last
<1>1. SUFFICES ASSUME other >= last PROVE FALSE
    BY DEF LastRows
<1> DEFINE After(x) == {m \in S : m > x}
<1>2. /\ IsFiniteSet(S)
      /\ \A x : IsFiniteSet(After(x))
  <2>1. IsFiniteSet(1..n)
      BY FS_Interval
  <2>2. IsFiniteSet(S)
      BY <2>1, FS_Subset
  <2>3. \A x : After(x) \in SUBSET S
      OBVIOUS
  <2> QED BY <2>2, <2>3, FS_Subset
<1>3. After(other) \in SUBSET After(last)
  <2>1. last \in Nat /\ other \in Nat /\ S \subseteq Nat
      BY DEF LastRows
  <2>2. \A m \in S : m > other => m > last
      BY <1>1, <2>1
  <2> QED BY <2>2
<1>4. Cardinality(After(other)) <= Cardinality(After(last))
    BY <1>2, <1>3, FS_Subset
<1>5. Cardinality(After(other)) \in Nat /\ Cardinality(After(last)) \in Nat
    BY <1>2, FS_CardinalityType
<1>6. Cardinality(After(last)) < count /\ ~(Cardinality(After(other)) < count)
    BY DEF LastRows
<1> QED BY <1>4, <1>5, <1>6

(* How many numbers of S there are up to x.                                *)
Rank(S, x) == Cardinality({y \in S : y <= x})

LEMMA RankIsBijective ==
    ASSUME NEW n \in Nat, NEW S \in SUBSET (1..n)
    PROVE  /\ Cardinality(S) \in Nat
           /\ \A x \in S : Rank(S, x) \in 1..Cardinality(S)
           /\ \A x, y \in S : Rank(S, x) = Rank(S, y) => x = y
           /\ \A k \in 1..Cardinality(S) : \E x \in S : Rank(S, x) = k
<1> DEFINE UpTo(x) == {y \in S : y <= x}
           size == Cardinality(S)
           f == [x \in S |-> Rank(S, x)]
<1>1. IsFiniteSet(S) /\ size \in Nat
  <2>1. IsFiniteSet(1..n)
      BY FS_Interval
  <2>2. IsFiniteSet(S)
      BY <2>1, FS_Subset
  <2> QED BY <2>2, FS_CardinalityType
<1>2. \A x \in S : /\ UpTo(x) \in SUBSET S
                   /\ IsFiniteSet(UpTo(x))
                   /\ Cardinality(UpTo(x)) \in 1..size
  <2> TAKE x \in S
  <2>1. UpTo(x) \in SUBSET S /\ x \in UpTo(x)
      OBVIOUS
  <2>2. IsFiniteSet(UpTo(x)) /\ Cardinality(UpTo(x)) <= size
      BY <1>1, <2>1, FS_Subset
  <2>3. Cardinality(UpTo(x)) \in Nat /\ Cardinality(UpTo(x)) # 0
      BY <2>1, <2>2, FS_CardinalityType, FS_EmptySet
  <2> HIDE DEF UpTo
  <2> QED BY <1>1, <2>1, <2>2, <2>3
<1>3. \A x \in S : Rank(S, x) \in 1..size
    BY <1>2 DEF Rank
<1>4. ASSUME NEW x \in S, NEW y \in S, Rank(S, x) = Rank(S, y), x < y
      PROVE  FALSE
  <2>1. UpTo(x) \in SUBSET UpTo(y) /\ y \in UpTo(y) /\ y \notin UpTo(x)
    <3>1. x \in Nat /\ y \in Nat /\ \A z \in S : z \in Nat
        OBVIOUS
    <3>2. \A z \in S : z <= x => z <= y
        BY <3>1, <1>4
    <3>3. y <= y /\ ~(y <= x)
        BY <3>1, <1>4
    <3> QED BY <3>2, <3>3
  <2>2. Cardinality(UpTo(x)) = Cardinality(UpTo(y))
      BY <1>4 DEF Rank
  <2>3. UpTo(x) = UpTo(y)
      BY <1>2, <2>1, <2>2, FS_Subset
  <2> QED BY <2>1, <2>3
<1>5. \A x, y \in S : Rank(S, x) = Rank(S, y) => x = y
  <2>1. \A x, y \in S : x < y \/ y < x \/ x = y
      OBVIOUS
  <2> QED BY <1>4, <2>1
<1>6. f \in Injection(S, 1..size)
    BY <1>3, <1>5 DEF Injection, IsInjective
<1>7. IsFiniteSet(1..size) /\ Cardinality(1..size) = size
    BY <1>1, FS_Interval
<1>8. f \in Surjection(S, 1..size)
  <2> HIDE DEF f, size
  <2> QED BY <1>6, <1>7, FS_Injection DEF size
<1>9. \A k \in 1..size : \E x \in S : Rank(S, x) = k
    BY <1>8 DEF Surjection
<1> QED BY <1>1, <1>3, <1>5, <1>9

(* Ordered gives exactly the numbers of the set.                           *)
LEMMA OrderedIsComplete ==
    ASSUME NEW n \in Nat, NEW S \in SUBSET (1..n)
    PROVE  /\ DOMAIN Ordered(S) = 1..Cardinality(S)
           /\ Cardinality(S) \in Nat
           /\ Ordered(S) \in [1..Cardinality(S) -> S]
           /\ \A k \in DOMAIN Ordered(S) : /\ Ordered(S)[k] \in S
                                           /\ Rank(S, Ordered(S)[k]) = k
           /\ \A x \in S : \E k \in DOMAIN Ordered(S) : Ordered(S)[k] = x
<1>1. /\ Cardinality(S) \in Nat
      /\ \A x \in S : Rank(S, x) \in 1..Cardinality(S)
      /\ \A x, y \in S : Rank(S, x) = Rank(S, y) => x = y
      /\ \A k \in 1..Cardinality(S) : \E x \in S : Rank(S, x) = k
    BY RankIsBijective
<1>2. Ordered(S) = [k \in 1..Cardinality(S) |-> CHOOSE x \in S : Rank(S, x) = k]
    BY DEF Ordered, Rank
<1>3. \A k \in 1..Cardinality(S) : Ordered(S)[k] \in S /\ Rank(S, Ordered(S)[k]) = k
    BY <1>1, <1>2
<1> QED BY <1>1, <1>2, <1>3

-----------------------------------------------------------------------------
(* What is true of summaries and batches stays true while rows are         *)
(* inserted, committed and purged.                                         *)

TableType == [last : Nat, shown : SUBSET Nat, late : SUBSET Nat,
              hidden : SUBSET Nat, owner : UNION {[1..n -> Run] : n \in Nat}]

(* A row that appears was uncommitted, and is late if a later one could be *)
(* seen before, or it is new.                                              *)
TablesGrow(t, u) ==
    /\ t.last <= u.last /\ t.shown \subseteq 1..t.last
    /\ \A id \in 1..t.last : u.owner[id] = t.owner[id]
    /\ \A id \in u.shown :
         \/ id \in t.shown /\ (id \in t.late => id \in u.late)
         \/ id \in t.hidden /\ ((\E m \in t.shown : m > id) => id \in u.late)
         \/ t.last < id
    /\ \A id \in u.hidden : id \in t.hidden \/ t.last < id

LEMMA RowsHaveType ==
    ASSUME NEW rows \in Seq(Row)
    PROVE  /\ DOMAIN rows = 1..Len(rows) /\ Len(rows) \in Nat
           /\ \A id \in DOMAIN rows : rows[id] \in Row /\ rows[id].run \in Run
           /\ \A shown, hidden \in SUBSET DOMAIN rows : \A behind \in SUBSET shown :
                [last |-> Len(rows), shown |-> shown, late |-> behind, hidden |-> hidden,
                 owner |-> [id \in DOMAIN rows |-> rows[id].run]] \in TableType
<1>1. DOMAIN rows = 1..Len(rows) /\ Len(rows) \in Nat
    OBVIOUS
<1>2. \A id \in DOMAIN rows : rows[id] \in Row /\ rows[id].run \in Run
  <2>1. \A id \in 1..Len(rows) : rows[id] \in Row
      OBVIOUS
  <2>2. \A row \in Row : row.run \in Run
      BY DEF Row
  <2> QED BY <1>1, <2>1, <2>2
<1>3. [id \in DOMAIN rows |-> rows[id].run] \in [1..Len(rows) -> Run]
    BY <1>1, <1>2
<1>4. ASSUME NEW shown \in SUBSET DOMAIN rows, NEW hidden \in SUBSET DOMAIN rows,
             NEW behind \in SUBSET shown
      PROVE  [last |-> Len(rows), shown |-> shown, late |-> behind, hidden |-> hidden,
              owner |-> [id \in DOMAIN rows |-> rows[id].run]] \in TableType
  <2>1. shown \in SUBSET Nat /\ behind \in SUBSET Nat /\ hidden \in SUBSET Nat
      BY <1>1
  <2>2. [id \in DOMAIN rows |-> rows[id].run] \in UNION {[1..n -> Run] : n \in Nat}
      BY <1>1, <1>3
  <2> QED BY <1>1, <2>1, <2>2 DEF TableType
<1> QED BY <1>1, <1>2, <1>4

LEMMA TablesHaveType ==
    ASSUME TablesTypeOK
    PROVE  /\ Tables \in TableType
           /\ DOMAIN messages = 1..Len(messages)
           /\ Len(messages) \in Nat
           /\ \A id \in DOMAIN messages : messages[id] \in Row /\ messages[id].run \in Run
BY RowsHaveType DEF TablesTypeOK, Tables, Uncommitted

LEMMA SummariesStayTrue ==
    ASSUME NEW t \in TableType, NEW u \in TableType, TablesGrow(t, u),
           NEW s \in SummaryRow, TrueSummary(s, t)
    PROVE  TrueSummary(s, u)
<1>1. /\ s.through \in Nat /\ t.last \in Nat /\ u.last \in Nat
      /\ t.shown \subseteq Nat /\ u.shown \subseteq Nat
      /\ t.hidden \subseteq Nat /\ u.hidden \subseteq Nat
    BY DEF SummaryRow, TableType
<1>2. s.through <= u.last /\ s.content \subseteq 1..s.through
    BY <1>1 DEF TablesGrow, TrueSummary
<1>3. ASSUME NEW id \in u.shown, id <= s.through
      PROVE  id \in s.content \cup u.late \cup s.left
    BY <1>1, <1>3 DEF TablesGrow, TrueSummary
<1>4. \A id \in u.hidden : s.through < id
    BY <1>1 DEF TablesGrow, TrueSummary
<1> QED BY <1>2, <1>3, <1>4 DEF TrueSummary

LEMMA BatchesStayFit ==
    ASSUME NEW t \in TableType, NEW u \in TableType, TablesGrow(t, u),
           NEW s \in Seen, NEW r \in Run, BatchFits(s, r, t)
    PROVE  BatchFits(s, r, u)
<1>1. /\ t.last \in Nat /\ u.last \in Nat /\ s.rows \subseteq Nat
      /\ t.shown \subseteq Nat /\ u.shown \subseteq Nat
      /\ t.hidden \subseteq Nat /\ u.hidden \subseteq Nat
    BY DEF Seen, TableType
<1>2. ASSUME NEW id \in s.rows
      PROVE  /\ id \in (1..u.last) \ u.hidden
             /\ s.summary.through < id
             /\ id \in 1..t.last
             /\ id \in u.shown => id \in t.shown
    BY <1>1, <1>2 DEF TablesGrow, BatchFits
<1>3. ASSUME NEW last \in s.rows \cap u.shown, NEW id \in u.shown, id <= last
      PROVE  \/ id \in s.summary.content \cup s.rows \cup u.late \cup s.summary.left
             \/ u.owner[id] = r
  <2>1. last \in t.shown /\ last \in 1..t.last /\ last \notin t.hidden
      BY <1>2 DEF BatchFits
  <2>2. CASE id \in t.shown /\ (id \in t.late => id \in u.late)
    <3>1. \/ id \in s.summary.content \cup s.rows \cup t.late \cup s.summary.left
          \/ t.owner[id] = r
        BY <1>3, <2>1, <2>2 DEF BatchFits
    <3>2. u.owner[id] = t.owner[id]
        BY <2>2 DEF TablesGrow
    <3> QED BY <2>2, <3>1, <3>2
  <2>3. CASE id \in t.hidden /\ ((\E m \in t.shown : m > id) => id \in u.late)
    <3>1. last > id
        BY <1>1, <1>3, <2>1, <2>3
    <3> QED BY <2>1, <2>3, <3>1
  <2>4. CASE t.last < id
      BY <1>1, <1>3, <2>1, <2>4
  <2> QED BY <2>2, <2>3, <2>4 DEF TablesGrow
<1> QED BY <1>2, <1>3 DEF BatchFits

-----------------------------------------------------------------------------
(* Steps of one run that write no row: its thread goes on, reads, or saves *)
(* a summary, it fails, or an administrator recovers or cancels it.        *)

Silent == Pc \ {"new", "inserting", "answering", "completed"}

GoesOn(r, to, new) ==
    /\ pc[r] \in Silent /\ to \in Silent
    /\ pc' = [pc EXCEPT ![r] = to]
    /\ seen' = [seen EXCEPT ![r] = new]
    /\ UNCHANGED <<scene, messages, visible, late>>
    /\ cancelled' \in {cancelled, cancelled \cup {r}}
    /\ \/ /\ purge' = purge
          /\ pc[r] = "failed" => r \in cancelled' \/ purge.at = "idle"
       \/ purge' = [purge EXCEPT !.reopened = @ \cup {r}]
    /\ r \in cancelled' => to \in Building \cup {"raised"}
    /\ new.rows # {} <=> to = "save_summary"

(* What a purge has found stays good.                                      *)
LEMMA SilentStepKeepsPurge ==
    ASSUME HistoryInv, NEW r \in Run, NEW to, NEW new, GoesOn(r, to, new)
    PROVE  /\ purge' \in PurgeType /\ purge'.at = purge.at
           /\ purge'.messages = purge.messages
           /\ purge'.summaries = purge.summaries
           /\ \A id \in purge.messages : Spent(messages[id].run)'
<1> USE DEF HistoryInv
<1>1. purge \in PurgeType
    BY DEF TablesTypeOK
<1>2. /\ purge' \in PurgeType /\ purge'.at = purge.at
      /\ purge'.messages = purge.messages
      /\ purge'.summaries = purge.summaries
      /\ purge'.reopened \in {purge.reopened, purge.reopened \cup {r}}
    BY <1>1 DEF GoesOn, PurgeType
<1>3. ASSUME NEW id \in purge.messages PROVE Spent(messages[id].run)'
  <2> DEFINE q == messages[id].run
  <2>1. q \in Run /\ Spent(q) /\ purge.at # "idle"
      BY TablesHaveType DEF PurgeFits, TablesTypeOK
  <2>2. q' = q
      BY DEF GoesOn
  <2>3. pc'[q] = IF q = r THEN to ELSE pc[q]
      BY <2>1 DEF GoesOn, TablesTypeOK
  <2>4. CASE q \in purge.reopened \cup cancelled
      BY <1>2, <2>2, <2>4 DEF Spent, Over, GoesOn
  <2>5. CASE q # r
    <3>1. q \in purge'.reopened \cup cancelled'
            \/ pc'[q] \in {"completed", "failed"}
        BY <1>2, <2>1, <2>3, <2>5 DEF Spent, Over, GoesOn
    <3> QED BY <2>2, <3>1 DEF Spent, Over
  <2>6. CASE q = r /\ pc[r] = "failed"
    <3>1. q \in purge'.reopened \cup cancelled'
        BY <1>1, <2>1, <2>6 DEF GoesOn, PurgeType
    <3> QED BY <2>2, <3>1 DEF Spent, Over
  <2>7. pc[r] # "completed"
      BY DEF GoesOn, Silent
  <2> QED BY <2>1, <2>4, <2>5, <2>6, <2>7 DEF Spent, Over
<1> QED BY <1>2, <1>3

LEMMA SilentStepKeepsRows ==
    ASSUME HistoryInv, NEW r \in Run, NEW to, NEW new \in Seen, GoesOn(r, to, new),
           summaries' \subseteq SummaryRow
    PROVE  /\ TablesTypeOK'
           /\ RowsHaveRuns'
           /\ Tables' = Tables
<1> USE DEF HistoryInv
<1>1. TablesTypeOK'
  <2>1. /\ pc' \in [Run -> Pc] /\ seen' \in [Run -> Seen]
        /\ cancelled' \subseteq Run /\ purge' \in PurgeType
      BY SilentStepKeepsPurge DEF GoesOn, Silent, TablesTypeOK
  <2> QED BY <2>1 DEF GoesOn, TablesTypeOK
<1>2. \A q \in Run : pc'[q] = pc[q] \/ (pc'[q] \in Silent /\ pc[q] \in Silent)
    BY DEF GoesOn, TablesTypeOK
<1>3. messages' = messages /\ visible' = visible /\ visible \subseteq DOMAIN messages
    BY DEF GoesOn, TablesTypeOK
<1>4. \A id \in DOMAIN messages : messages[id].run \in Run
    BY TablesHaveType
<1>5. Uncommitted' = Uncommitted
    BY <1>2, <1>3, <1>4 DEF Uncommitted, Silent
<1>6. Tables' = Tables
    BY <1>5 DEF Tables, GoesOn
<1>7. RowsHaveRuns'
  <2>1. ASSUME NEW q \in Run
        PROVE  /\ pc[q] # "new" => pc'[q] # "new"
               /\ pc[q] # "inserting" => pc'[q] # "inserting"
               /\ pc[q] # "answering" => pc'[q] # "answering"
               /\ pc[q] \in {"answering", "completed"} => pc'[q] = pc[q]
      BY <1>2 DEF Silent
  <2>2. \A q \in cancelled' : pc'[q] \in Building \cup {"raised"}
      BY DEF GoesOn, RowsHaveRuns, TablesTypeOK
  <2> QED BY <1>3, <1>4, <2>1, <2>2 DEF RowsHaveRuns
<1> QED BY <1>1, <1>6, <1>7

LEMMA SilentStepKeepsSummaries ==
    ASSUME HistoryInv, NEW r \in Run, NEW to, NEW new \in Seen, GoesOn(r, to, new),
           summaries' = summaries,
           TrueSummary(new.summary, Tables), BatchFits(new, r, Tables)
    PROVE  HistoryInv'
<1> USE DEF HistoryInv
<1>1. summaries' \subseteq SummaryRow
    BY DEF TablesTypeOK
<1>2. TablesTypeOK' /\ RowsHaveRuns' /\ Tables' = Tables
    BY <1>1, SilentStepKeepsRows
<1>3. \A q \in Run : seen'[q] = IF q = r THEN new ELSE seen[q]
    BY DEF GoesOn, TablesTypeOK
<1>4. SummariesAreTrue'
    BY <1>2, <1>3 DEF SummariesAreTrue
<1>5. BatchesFit'
  <2>1. \A q \in Run : pc'[q] = IF q = r THEN to ELSE pc[q]
      BY DEF GoesOn, TablesTypeOK
  <2> QED BY <1>2, <1>3, <2>1 DEF BatchesFit, GoesOn
<1>6. SummariesAdvance'
    BY DEF SummariesAdvance, GoesOn
<1>7. PurgeFits'
    BY SilentStepKeepsPurge DEF PurgeFits, GoesOn
<1> QED BY <1>2, <1>4, <1>5, <1>6, <1>7

LEMMA NothingSeenIsTrue ==
    ASSUME TablesTypeOK
    PROVE  /\ NoSummary \in SummaryRow /\ NothingSeen \in Seen
           /\ TrueSummary(NoSummary, Tables)
<1>1. visible \subseteq 1..Len(messages) /\ Uncommitted \subseteq 1..Len(messages) /\ Len(messages) \in Nat
    BY TablesHaveType DEF TablesTypeOK, Uncommitted
<1> QED BY <1>1 DEF NoSummary, NothingSeen, SummaryRow, Seen, TrueSummary, Tables

(* The version that is read covers the most.                               *)
LEMMA LatestSummaryCoversMost ==
    ASSUME HistoryInv
    PROVE  /\ LatestSummary \in SummaryRow
           /\ TrueSummary(LatestSummary, Tables)
           /\ LatestSummary \in summaries \cup {NoSummary}
           /\ \A row \in summaries : /\ row.version <= LatestSummary.version
                                    /\ row.through <= LatestSummary.through
<1> USE DEF HistoryInv
<1>1. CASE summaries = {}
    BY <1>1, NothingSeenIsTrue DEF LatestSummary
<1>2. CASE summaries # {}
  <2> DEFINE ends == {row.through : row \in summaries}
  <2>1. Len(messages) \in Nat /\ summaries \subseteq SummaryRow
      BY TablesHaveType DEF TablesTypeOK
  <2>2. \A row \in summaries : /\ row.through \in Nat /\ row.version \in Nat
                              /\ row.through <= Len(messages)
      BY <2>1 DEF SummaryRow, SummariesAreTrue, TrueSummary, Tables
  <2>3. ends \in SUBSET Nat /\ ends # {} /\ \A n \in ends : n <= Len(messages)
      BY <1>2, <2>2
  <2>4. PICK top \in ends : \A n \in ends : n <= top
    <3> HIDE DEF ends
    <3> QED BY <2>1, <2>3, GreatestExists
  <2>5. PICK row \in summaries : \A other \in summaries : other.through <= row.through
      BY <2>4
  <2>6. \A other \in summaries : other.version <= row.version
      BY <2>2, <2>5 DEF SummariesAdvance
  <2>7. /\ LatestSummary \in summaries
        /\ \A other \in summaries : other.version <= LatestSummary.version
      BY <1>2, <2>6 DEF LatestSummary
  <2>8. \A other \in summaries : other.through <= LatestSummary.through
      BY <2>2, <2>7 DEF SummariesAdvance
  <2> QED BY <2>1, <2>7, <2>8 DEF SummariesAreTrue
<1> QED BY <1>1, <1>2

LEMMA SeenHasType ==
    ASSUME TablesTypeOK, NEW r \in Run
    PROVE  /\ seen[r] \in Seen /\ seen[r].summary \in SummaryRow
           /\ seen[r].rows \in SUBSET Nat
           /\ seen[r].summary.through \in Nat
BY DEF TablesTypeOK, Seen, SummaryRow

LEMMA ReadSummaryKeepsInv ==
    ASSUME HistoryInv, NEW r \in Run, ReadSummary(r)
    PROVE  HistoryInv'
<1> DEFINE new == [seen[r] EXCEPT !.summary = LatestSummary,
                     !.since = IF pc[r] = "started" THEN visible ELSE @]
<1>1. seen[r] \in Seen /\ TablesTypeOK /\ visible \subseteq Nat
    BY SeenHasType, TablesHaveType DEF HistoryInv, TablesTypeOK
<1>2. /\ new \in Seen /\ new.rows = seen[r].rows /\ new.summary = LatestSummary
      /\ seen' = [seen EXCEPT ![r] = new]
  <2>1. LatestSummary \in SummaryRow
      BY LatestSummaryCoversMost
  <2> QED BY <1>1, <2>1 DEF ReadSummary, Seen, TablesTypeOK
<1>3. PICK to \in {"read_rows", "read_old", "read_rest"} :
         /\ pc' = [pc EXCEPT ![r] = to]
         /\ pc[r] \in {"started", "read_previous", "read_again"}
    BY DEF ReadSummary, Move
<1>4. seen[r].rows = {}
    BY <1>3 DEF HistoryInv, BatchesFit
<1> HIDE DEF new
<1>5. GoesOn(r, to, new)
    BY <1>2, <1>3, <1>4 DEF GoesOn, ReadSummary, Silent, Pc, Building, tables, loop, admin
<1>6. TrueSummary(new.summary, Tables) /\ BatchFits(new, r, Tables)
    BY <1>2, <1>4, LatestSummaryCoversMost DEF BatchFits
<1>7. summaries' = summaries
    BY DEF ReadSummary, tables
<1> QED BY <1>2, <1>5, <1>6, <1>7, SilentStepKeepsSummaries

(* A build that ends or goes on to compact, a turn, a crash, a resumption, *)
(* a cancellation: what was seen is kept or forgotten.                     *)
LEMMA QuietStepKeepsInv ==
    ASSUME HistoryInv, NEW r \in Run, NEW to, NEW new \in {seen[r], NothingSeen},
           GoesOn(r, to, new), summaries' = summaries
    PROVE  HistoryInv'
<1>1. new \in Seen /\ TrueSummary(new.summary, Tables)
  <2>1. CASE new = seen[r]
      BY <2>1, SeenHasType DEF HistoryInv, SummariesAreTrue
  <2>2. CASE new = NothingSeen
    <3>1. NothingSeen.summary = NoSummary
        BY DEF NothingSeen
    <3> QED BY <2>2, <3>1, NothingSeenIsTrue DEF HistoryInv
  <2> QED BY <2>1, <2>2
<1>2. BatchFits(new, r, Tables)
    BY DEF HistoryInv, BatchesFit, BatchFits, NothingSeen
<1> QED BY <1>1, <1>2, SilentStepKeepsSummaries

LEMMA BuiltGoesOn ==
    ASSUME HistoryInv, NEW r \in Run, NEW from \in {"read_rows", "read_rest"},
           Built(r, from), UNCHANGED <<scene, tables, turns, crashes, admin>>
    PROVE  HistoryInv'
<1>1. PICK to \in {"turn", "raised"} :
         /\ pc' = [pc EXCEPT ![r] = to] /\ pc[r] = from
         /\ r \in cancelled => to = "raised"
    BY DEF Built, Move
<1>2. GoesOn(r, to, NothingSeen) /\ summaries' = summaries
    BY <1>1 DEF Built, Forget, GoesOn, Silent, Pc, tables, admin, NothingSeen
<1> QED BY <1>2, QuietStepKeepsInv

LEMMA BuildOrCompactKeepsInv ==
    ASSUME HistoryInv, NEW r \in Run, BuildOrCompact(r)
    PROVE  HistoryInv'
<1>1. CASE Built(r, "read_rows")
    BY <1>1, BuiltGoesOn DEF BuildOrCompact
<1>2. CASE Move(r, "read_rows", "read_previous") /\ UNCHANGED <<seen, conv, checkpoint>>
  <2>1. seen' = [seen EXCEPT ![r] = seen[r]] /\ seen[r].rows = {}
      BY <1>2 DEF Move, HistoryInv, TablesTypeOK, BatchesFit
  <2>2. GoesOn(r, "read_previous", seen[r]) /\ summaries' = summaries
      BY <1>2, <2>1 DEF BuildOrCompact, Move, GoesOn, Silent, Pc, Building, tables, admin
  <2> QED BY <2>2, QuietStepKeepsInv
<1> QED BY <1>1, <1>2 DEF BuildOrCompact

LEMMA LoopKeepsInv ==
    ASSUME HistoryInv, NEW r \in Run,
           \/ Prepare(r)
           \/ \E n \in 1..2 : \E tools \in [1..n -> ToolSizes] : UseTools(r, tools)
           \/ Resume(r)
    PROVE  HistoryInv'
<1>1. PICK to \in {"turn", "sent", "interrupted"} :
         /\ pc' = [pc EXCEPT ![r] = to]
         /\ pc[r] \in {"turn", "sent", "interrupted"}
         /\ UNCHANGED <<scene, tables, seen, admin>>
  <2>1. CASE Prepare(r)
      BY <2>1 DEF Prepare, Move
  <2>2. CASE \E n \in 1..2 : \E tools \in [1..n -> ToolSizes] : UseTools(r, tools)
      BY <2>2 DEF UseTools, Move
  <2>3. CASE Resume(r)
      BY <2>3 DEF Resume, Move, loop
  <2> QED BY <2>1, <2>2, <2>3
<1>2. r \notin cancelled
    BY <1>1 DEF HistoryInv, RowsHaveRuns, Building
<1>3. seen' = [seen EXCEPT ![r] = seen[r]] /\ seen[r].rows = {}
    BY <1>1 DEF HistoryInv, TablesTypeOK, BatchesFit
<1>4. GoesOn(r, to, seen[r]) /\ summaries' = summaries
    BY <1>1, <1>2, <1>3 DEF GoesOn, Silent, Pc, tables, admin
<1> QED BY <1>4, QuietStepKeepsInv

LEMMA CrashKeepsInv ==
    ASSUME HistoryInv, NEW r \in Run, Crash(r)
    PROVE  HistoryInv'
<1>1. GoesOn(r, "interrupted", NothingSeen) /\ summaries' = summaries
    BY DEF Crash, Forget, GoesOn, Silent, Pc, InFlight, tables, admin, NothingSeen,
           HistoryInv, TablesTypeOK
<1> QED BY <1>1, QuietStepKeepsInv

LEMMA FailKeepsInv ==
    ASSUME HistoryInv, NEW r \in Run, Fail(r)
    PROVE  HistoryInv'
<1>1. GoesOn(r, "failed", NothingSeen) /\ summaries' = summaries
    BY DEF Fail, Forget, GoesOn, Silent, Pc, tables, admin, NothingSeen,
           HistoryInv, TablesTypeOK
<1> QED BY <1>1, QuietStepKeepsInv

LEMMA RecoverKeepsInv ==
    ASSUME HistoryInv, NEW r \in Run, Recover(r)
    PROVE  HistoryInv'
<1>1. pc[r] = "failed" /\ r \notin cancelled
    BY DEF Recover, Move, HistoryInv, RowsHaveRuns, Building
<1>2. seen' = [seen EXCEPT ![r] = seen[r]] /\ seen[r].rows = {}
    BY <1>1 DEF Recover, HistoryInv, TablesTypeOK, BatchesFit
<1>3. GoesOn(r, "interrupted", seen[r]) /\ summaries' = summaries
    BY <1>1, <1>2 DEF Recover, Move, GoesOn, Silent, Pc, tables
<1> QED BY <1>3, QuietStepKeepsInv

LEMMA CancelKeepsInv ==
    ASSUME HistoryInv, NEW r \in Run, Cancel(r)
    PROVE  HistoryInv'
<1>1. pc[r] \in Silent
  <2>1. pc[r] \in Pc /\ ~InFlight(r)
      BY DEF Cancel, SessionIsFree, HistoryInv, TablesTypeOK
  <2> QED BY <2>1 DEF Cancel, Live, Silent, InFlight
<1>2. seen' = [seen EXCEPT ![r] = seen[r]]
    BY DEF Cancel, HistoryInv, TablesTypeOK
<1>3. /\ cancelled' = cancelled \cup {r} /\ summaries' = summaries
      /\ UNCHANGED <<scene, messages, visible, late, purge>>
      /\ seen[r].rows # {} <=> pc[r] = "save_summary"
    BY DEF Cancel, tables, HistoryInv, BatchesFit
<1>4. CASE pc[r] \in Building /\ pc' = pc
  <2>1. GoesOn(r, pc[r], seen[r])
      BY <1>1, <1>2, <1>3, <1>4 DEF GoesOn, HistoryInv, TablesTypeOK
  <2> QED BY <1>3, <2>1, QuietStepKeepsInv
<1>5. CASE pc[r] \notin Building /\ pc' = [pc EXCEPT ![r] = "raised"]
  <2>1. GoesOn(r, "raised", seen[r])
      BY <1>1, <1>2, <1>3, <1>5 DEF GoesOn, Silent, Pc, Building
  <2> QED BY <1>3, <2>1, QuietStepKeepsInv
<1> QED BY <1>4, <1>5 DEF Cancel

(* The rows compact takes: all but the own ones up to the last of them.    *)
LEMMA CompactableFits ==
    ASSUME HistoryInv, NEW r \in Run,
           NEW new \in Seen, new.summary = seen[r].summary, new.rows = Compactable(r)
    PROVE  BatchFits(new, r, Tables)
<1> DEFINE others == Rows(r) \ Own(r)
           rest == LastRows(others, Keep)
<1>1. /\ visible \in SUBSET (1..Len(messages)) /\ Len(messages) \in Nat
      /\ DOMAIN messages = 1..Len(messages)
      /\ seen[r].summary.through \in Nat /\ Keep \in Nat
    BY TablesHaveType, SeenHasType, HistoryAssumption DEF HistoryInv, TablesTypeOK
<1>2. Rows(r) = {n \in visible : n > seen[r].summary.through}
    BY DEF Rows, MessagesAfter
<1>3. new.rows = others \ rest /\ others \in SUBSET (1..Len(messages))
    BY <1>1, <1>2 DEF Compactable
<1>4. ASSUME NEW id \in new.rows
      PROVE  /\ id \in (1..Tables.last) \ Tables.hidden
             /\ new.summary.through < id
    BY <1>1, <1>2, <1>3 DEF Tables, Uncommitted
<1>5. ASSUME NEW last \in new.rows, NEW id \in visible, id <= last
      PROVE  \/ id \in new.summary.content \cup new.rows \cup Tables.late
                      \cup new.summary.left
             \/ Tables.owner[id] = r
  <2>1. CASE id <= seen[r].summary.through
    <3>1. TrueSummary(seen[r].summary, Tables)
        BY DEF HistoryInv, SummariesAreTrue
    <3> QED BY <2>1, <3>1 DEF TrueSummary, Tables
  <2>2. CASE id \in Own(r)
      BY <1>1, <2>2 DEF Own, Tables
  <2>3. CASE id \in others
    <3>1. ASSUME id \in rest PROVE FALSE
      <4>1. last < id
        <5> HIDE DEF others, rest
        <5> QED BY <1>1, <1>3, <3>1, LastRowsAreLast DEF rest
      <4> QED BY <1>1, <1>3, <1>5, <4>1
    <3> QED BY <1>3, <2>3, <3>1
  <2> QED BY <1>1, <1>2, <2>1, <2>2, <2>3
<1> QED BY <1>4, <1>5 DEF BatchFits, Tables

LEMMA ReadOldKeepsInv ==
    ASSUME HistoryInv, NEW r \in Run, ReadOld(r)
    PROVE  HistoryInv'
<1> DEFINE new == [seen[r] EXCEPT !.rows = Compactable(r)]
<1>1. Compactable(r) \in SUBSET Nat
    BY TablesHaveType DEF Compactable, Rows, MessagesAfter, HistoryInv, TablesTypeOK
<1>2. /\ new \in Seen /\ new.rows = Compactable(r) /\ new.summary = seen[r].summary
      /\ seen' = [seen EXCEPT ![r] = new]
    BY <1>1, SeenHasType DEF ReadOld, Seen, HistoryInv, TablesTypeOK
<1>3. PICK to \in {"read_again", "save_summary"} :
         /\ pc' = [pc EXCEPT ![r] = to] /\ pc[r] = "read_old"
         /\ Compactable(r) # {} <=> to = "save_summary"
    BY DEF ReadOld, Move
<1> HIDE DEF new
<1>4. GoesOn(r, to, new) /\ summaries' = summaries
    BY <1>2, <1>3 DEF GoesOn, ReadOld, Silent, Pc, Building, tables, loop, admin
<1>5. TrueSummary(new.summary, Tables) /\ BatchFits(new, r, Tables)
    BY <1>2, CompactableFits DEF HistoryInv, SummariesAreTrue
<1> QED BY <1>2, <1>4, <1>5, SilentStepKeepsSummaries

(* The new version tells of all it covers, and covers more than the others. *)
LEMMA SaveSummaryKeepsInv ==
    ASSUME HistoryInv, NEW r \in Run, SaveSummary(r)
    PROVE  HistoryInv'
<1> DEFINE top == Max(seen[r].rows)
           new == [seen[r] EXCEPT !.rows = {}]
           saved == [version |-> LatestSummary.version + 1, content |-> Summarised(r),
                     through |-> top, left |-> Unsaid(r)]
<1>1. /\ seen[r] \in Seen /\ seen[r].rows # {} /\ seen[r].rows \in SUBSET Nat
      /\ Len(messages) \in Nat /\ DOMAIN messages = 1..Len(messages)
      /\ visible \subseteq 1..Len(messages)
      /\ seen[r].summary \in SummaryRow /\ seen[r].summary.through \in Nat
    BY SeenHasType, TablesHaveType DEF SaveSummary, HistoryInv, BatchesFit, TablesTypeOK
<1>2. BatchFits(seen[r], r, Tables) /\ TrueSummary(seen[r].summary, Tables)
    BY DEF HistoryInv, BatchesFit, SummariesAreTrue
<1>3. /\ top \in seen[r].rows /\ top \in Nat /\ top <= Len(messages)
      /\ \A id \in seen[r].rows : id <= top
      /\ seen[r].summary.through < top
  <2>1. \A id \in seen[r].rows : id <= Len(messages)
      BY <1>1, <1>2 DEF BatchFits, Tables
  <2>2. top \in seen[r].rows /\ \A id \in seen[r].rows : id <= top
      BY <1>1, <2>1, MaxIsGreatest
  <2> HIDE DEF top
  <2> QED BY <1>1, <1>2, <2>1, <2>2 DEF BatchFits
<1> HIDE DEF top
<1>4. /\ new \in Seen /\ new.rows = {} /\ new.summary = seen[r].summary
      /\ seen' = [seen EXCEPT ![r] = new]
    BY <1>1 DEF SaveSummary, Seen, HistoryInv, TablesTypeOK
<1> HIDE DEF new
<1>5. PICK to \in {"read_again", "raised"} :
         /\ pc' = [pc EXCEPT ![r] = to] /\ pc[r] = "save_summary"
    BY DEF SaveSummary, Move
<1>6. GoesOn(r, to, new)
    BY <1>4, <1>5 DEF GoesOn, SaveSummary, Silent, Pc, Building, loop, admin
<1>7. TrueSummary(new.summary, Tables) /\ BatchFits(new, r, Tables)
    BY <1>2, <1>4 DEF BatchFits
<1>8. CASE summaries' = summaries
    BY <1>4, <1>6, <1>7, <1>8, SilentStepKeepsSummaries
<1>9. CASE Accepted(r) /\ summaries' = summaries \cup {saved}
  <2>1. /\ saved \in SummaryRow
        /\ \A row \in summaries : /\ row \in SummaryRow
                                 /\ row.version < saved.version
                                 /\ row.through < saved.through
    <3>1. Summarised(r) \subseteq Nat /\ Unsaid(r) \subseteq Nat
        BY <1>1 DEF Summarised, Unsaid, Own, SummaryRow
    <3>2. /\ LatestSummary \in SummaryRow /\ summaries \subseteq SummaryRow
          /\ \A row \in summaries : /\ row.version <= LatestSummary.version
                                   /\ row.through <= LatestSummary.through
        BY LatestSummaryCoversMost DEF HistoryInv, TablesTypeOK
    <3>3. top > LatestSummary.through
        BY <1>9 DEF Accepted, Advances, top
    <3>4. \A row \in SummaryRow : row.version \in Nat /\ row.through \in Nat
        BY DEF SummaryRow
    <3>5. saved \in SummaryRow
        BY <1>3, <3>1, <3>2, <3>4 DEF SummaryRow
    <3> QED BY <1>3, <3>2, <3>3, <3>4, <3>5
  <2>2. TrueSummary(saved, Tables)
    <3>1. \A id \in Tables.shown : id <= top =>
            id \in Summarised(r) \cup Tables.late \cup Unsaid(r)
      <4>1. top \in visible
          BY <1>9 DEF Accepted, top
      <4> QED BY <1>1, <1>2, <1>3, <4>1
              DEF BatchFits, Summarised, Unsaid, Own, Tables, top
    <3>2. Tables.hidden = {}
        BY TablesHaveType DEF SaveSummary, Tables, Uncommitted, InFlight, HistoryInv
    <3>3. Summarised(r) \subseteq 1..top
      <4>1. seen[r].summary.content \subseteq 1..top
          BY <1>1, <1>2, <1>3 DEF TrueSummary
      <4>2. seen[r].rows \subseteq 1..top
          BY <1>1, <1>2, <1>3 DEF BatchFits, Tables
      <4> QED BY <4>1, <4>2 DEF Summarised
    <3> QED BY <1>3, <3>1, <3>2, <3>3 DEF TrueSummary, Tables
  <2> HIDE DEF saved
  <2>3. TablesTypeOK' /\ RowsHaveRuns' /\ Tables' = Tables
    <3>1. summaries' \subseteq SummaryRow
        BY <1>9, <2>1
    <3> QED BY <1>4, <1>6, <3>1, SilentStepKeepsRows
  <2>4. \A q \in Run : seen'[q] = IF q = r THEN new ELSE seen[q]
      BY <1>4 DEF HistoryInv, TablesTypeOK
  <2>5. SummariesAreTrue'
      BY <1>7, <1>9, <2>2, <2>3, <2>4 DEF SummariesAreTrue, HistoryInv
  <2>6. BatchesFit'
    <3>1. \A q \in Run : pc'[q] = IF q = r THEN to ELSE pc[q]
        BY <1>5 DEF HistoryInv, TablesTypeOK
    <3> QED BY <1>4, <1>5, <1>7, <2>3, <2>4, <3>1 DEF BatchesFit, HistoryInv
  <2>7. SummariesAdvance'
    <3>1. saved.through \in visible /\ saved.content \subseteq 1..saved.through
        BY <1>9, <2>2 DEF Accepted, TrueSummary, saved, top
    <3>2. visible' = visible
        BY DEF SaveSummary
    <3> QED BY <1>9, <2>1, <3>1, <3>2 DEF SummariesAdvance, HistoryInv
  <2>8. PurgeFits'
    <3>1. \A id \in purge.messages : Spent(messages[id].run)'
        BY <1>6, SilentStepKeepsPurge
    <3>2. saved.through \notin purge.messages
        BY DEF SaveSummary, saved, top
    <3>3. UNCHANGED <<scene, messages, visible, purge>>
        BY DEF SaveSummary, loop, admin
    <3> QED BY <1>9, <2>3, <3>1, <3>2, <3>3 DEF PurgeFits, HistoryInv
  <2> QED BY <2>3, <2>5, <2>6, <2>7, <2>8 DEF HistoryInv
<1> QED BY <1>8, <1>9 DEF SaveSummary, saved, top

-----------------------------------------------------------------------------
(* Steps that insert or commit a row.                                      *)

LEMMA RowStepKeepsRest ==
    ASSUME HistoryInv, NEW r \in Run, NEW to, to # "save_summary",
           pc[r] \notin {"save_summary", "completed", "failed"},
           pc' = [pc EXCEPT ![r] = to],
           UNCHANGED <<scene, summaries, seen, cancelled, purge>>,
           TablesTypeOK', RowsHaveRuns', TablesGrow(Tables, Tables'),
           visible \subseteq visible'
    PROVE  HistoryInv'
<1> USE DEF HistoryInv
<1>1. Tables \in TableType /\ Tables' \in TableType
  <2>1. Tables \in TableType
      BY TablesHaveType
  <2>2. Tables' \in TableType
      BY RowsHaveType DEF TablesTypeOK, Tables, Uncommitted
  <2> QED BY <2>1, <2>2
<1>2. SummariesAreTrue'
  <2>1. summaries \subseteq SummaryRow /\ \A q \in Run : seen[q].summary \in SummaryRow
      BY SeenHasType DEF TablesTypeOK
  <2> QED BY <1>1, <2>1, SummariesStayTrue DEF SummariesAreTrue
<1>3. BatchesFit'
  <2>1. \A q \in Run : (pc'[q] = "save_summary") <=> (pc[q] = "save_summary")
      BY DEF TablesTypeOK
  <2> QED BY <1>1, <2>1, SeenHasType, BatchesStayFit DEF BatchesFit
<1>4. SummariesAdvance'
    BY DEF SummariesAdvance
<1>5. PurgeFits'
  <2>1. ASSUME NEW id \in purge.messages PROVE Spent(messages[id].run)'
    <3>1. id \in DOMAIN messages /\ id \in DOMAIN messages' /\ messages[id].run \in Run
        BY TablesHaveType DEF PurgeFits, TablesTypeOK
    <3>2. Tables'.owner[id] = Tables.owner[id]
        BY <3>1, TablesHaveType DEF TablesGrow, Tables
    <3>3. messages'[id].run = messages[id].run
        BY <3>1, <3>2 DEF Tables
    <3>4. Spent(messages[id].run)
        BY DEF PurgeFits
    <3> QED BY <3>1, <3>3, <3>4 DEF Spent, Over, TablesTypeOK
  <2> QED BY <2>1 DEF PurgeFits
<1> QED BY <1>2, <1>3, <1>4, <1>5

LEMMA InsertAppends ==
    ASSUME TablesTypeOK, NEW r \in Run, NEW role \in {"user", "assistant"},
           NEW sizes \in SUBSET (Nat \ {0}), Insert(r, role, sizes)
    PROVE  /\ messages' \in Seq(Row)
           /\ DOMAIN messages = 1..Len(messages) /\ Len(messages) \in Nat
           /\ Len(messages') = Len(messages) + 1
           /\ DOMAIN messages' = 1..(Len(messages) + 1)
           /\ \A id \in DOMAIN messages : messages'[id] = messages[id]
           /\ messages'[Len(messages) + 1].run = r
           /\ messages'[Len(messages) + 1].role = role
<1>1. PICK size \in sizes :
        messages' = Append(messages, [run |-> r, role |-> role, size |-> size])
    BY DEF Insert
<1>2. [run |-> r, role |-> role, size |-> size] \in Row
    BY DEF Row
<1>3. messages \in Seq(Row)
    BY DEF TablesTypeOK
<1> QED BY <1>1, <1>2, <1>3

(* A run inserts its message or its answer, and commits it or not yet.     *)
LEMMA InsertionKeepsInv ==
    ASSUME HistoryInv, NEW r \in Run, NEW role \in {"user", "assistant"},
           NEW sizes \in SUBSET (Nat \ {0}), Insert(r, role, sizes),
           IF role = "user" THEN pc[r] = "new" ELSE pc[r] = "sent",
           NEW to \in {"inserting", "answering", "started", "completed"},
           pc' = [pc EXCEPT ![r] = to],
           UNCHANGED <<scene, summaries, seen, cancelled, purge>>,
           IF to \in {"inserting", "answering"}
             THEN UNCHANGED <<visible, late>>
             ELSE Show({Len(messages) + 1}),
           role = "user" <=> to \in {"inserting", "started"}
    PROVE  HistoryInv'
<1> USE DEF HistoryInv
<1> DEFINE new == Len(messages) + 1
<1>1. /\ messages' \in Seq(Row)
      /\ DOMAIN messages = 1..Len(messages) /\ Len(messages) \in Nat
      /\ Len(messages') = new
      /\ DOMAIN messages' = 1..new
      /\ \A id \in DOMAIN messages : /\ messages'[id] = messages[id]
                                    /\ messages[id].run \in Run
      /\ messages'[new].run = r /\ messages'[new].role = role
    BY InsertAppends, TablesHaveType
<1>2. /\ visible \subseteq DOMAIN messages /\ late \subseteq visible
      /\ visible' \in {visible, visible \cup {new}}
      /\ new \in visible' <=> to \in {"started", "completed"}
      /\ late' = late
  <2>1. visible \subseteq DOMAIN messages /\ late \subseteq visible
      BY DEF TablesTypeOK
  <2>2. \A id \in visible : ~(id > new) /\ id # new
      BY <1>1, <2>1
  <2> QED BY <2>1, <2>2 DEF Show
<1>3. /\ \A q \in Run : pc'[q] = IF q = r THEN to ELSE pc[q]
      /\ r \notin cancelled
    BY DEF TablesTypeOK, RowsHaveRuns, Building
<1>4. \A id \in DOMAIN messages : messages[id].run = r =>
        messages[id].role # "assistant" /\ pc[r] = "sent"
    BY <1>1, <1>3 DEF RowsHaveRuns
<1>5. TablesTypeOK'
  <2>1. pc' \in [Run -> Pc]
      BY DEF TablesTypeOK, Pc
  <2>2. visible' \subseteq DOMAIN messages' /\ late' \subseteq visible'
      BY <1>1, <1>2
  <2> QED BY <1>1, <2>1, <2>2 DEF TablesTypeOK
<1>6. RowsHaveRuns'
  <2>1. ASSUME NEW id \in DOMAIN messages'
        PROVE  /\ pc'[messages'[id].run] # "new"
               /\ messages'[id].role = "assistant" =>
                    pc'[messages'[id].run] \in {"answering", "completed"}
               /\ id \in visible' =>
                    /\ pc'[messages'[id].run] # "inserting"
                    /\ messages'[id].role = "assistant" =>
                         pc'[messages'[id].run] # "answering"
    <3>1. CASE id = new
        BY <1>1, <1>2, <1>3, <3>1
    <3>2. CASE id \in DOMAIN messages /\ messages[id].run = r
        BY <1>1, <1>2, <1>3, <1>4, <3>2
    <3>3. CASE id \in DOMAIN messages /\ messages[id].run # r
        BY <1>1, <1>2, <1>3, <3>3 DEF RowsHaveRuns
    <3> QED BY <1>1, <3>1, <3>2, <3>3
  <2>2. \A q \in cancelled' : pc'[q] \in Building \cup {"raised"}
      BY <1>3 DEF RowsHaveRuns, TablesTypeOK
  <2>3. visible' \subseteq DOMAIN messages'
      BY <1>5 DEF TablesTypeOK
  <2> QED BY <2>1, <2>2, <2>3 DEF RowsHaveRuns
<1>7. TablesGrow(Tables, Tables')
  <2>1. \A id \in Uncommitted' : id \in Uncommitted \/ Len(messages) < id
    <3>1. ASSUME NEW id \in Uncommitted', id \in DOMAIN messages PROVE id \in Uncommitted
      <4>1. /\ id \notin visible
            /\ \/ pc'[messages[id].run] = "inserting"
               \/ /\ pc'[messages[id].run] = "answering"
                  /\ messages[id].role = "assistant"
          BY <1>1, <1>2, <3>1 DEF Uncommitted
      <4>2. messages[id].run # r
          BY <1>3, <1>4, <3>1, <4>1
      <4> QED BY <1>1, <1>3, <3>1, <4>1, <4>2 DEF Uncommitted
    <3> QED BY <1>1, <3>1 DEF Uncommitted
  <2> QED BY <1>1, <1>2, <2>1 DEF TablesGrow, Tables
<1> QED BY <1>2, <1>5, <1>6, <1>7, RowStepKeepsRest

(* A transaction commits the row it has inserted.                          *)
LEMMA CommitKeepsInv ==
    ASSUME HistoryInv, NEW r \in Run, NEW role \in {"user", "assistant"},
           pc[r] = IF role = "user" THEN "inserting" ELSE "answering",
           pc' = [pc EXCEPT ![r] =
                    IF role = "user" THEN "started" ELSE "completed"],
           UNCHANGED <<scene, messages, summaries, seen, cancelled, purge>>,
           Show({id \in Own(r) : messages[id].role = role})
    PROVE  HistoryInv'
<1> USE DEF HistoryInv
<1> DEFINE to == IF role = "user" THEN "started" ELSE "completed"
           ids == {id \in Own(r) : messages[id].role = role}
<1>1. /\ DOMAIN messages = 1..Len(messages) /\ Len(messages) \in Nat
      /\ \A id \in DOMAIN messages :
           /\ messages[id].run \in Run
           /\ messages[id].role \in {"user", "assistant"}
    BY TablesHaveType DEF Row
<1>2. /\ visible \subseteq DOMAIN messages /\ late \subseteq visible
      /\ visible' = visible \cup ids
      /\ late' = late \cup {n \in ids : \E m \in visible : m > n}
      /\ messages' = messages /\ ids \subseteq DOMAIN messages
      /\ ids \subseteq Uncommitted
    BY DEF TablesTypeOK, RowsHaveRuns, Show, Own, Uncommitted
<1>3. \A q \in Run : pc'[q] = IF q = r THEN to ELSE pc[q]
    BY DEF TablesTypeOK
<1>4. TablesTypeOK'
  <2>1. pc' \in [Run -> Pc]
      BY DEF TablesTypeOK, Pc
  <2> QED BY <1>2, <2>1 DEF TablesTypeOK
<1>5. RowsHaveRuns'
  <2>1. ASSUME NEW id \in DOMAIN messages
        PROVE  /\ pc'[messages[id].run] # "new"
               /\ messages[id].role = "assistant" =>
                    pc'[messages[id].run] \in {"answering", "completed"}
               /\ id \in visible' =>
                    /\ pc'[messages[id].run] # "inserting"
                    /\ messages[id].role = "assistant" =>
                         pc'[messages[id].run] # "answering"
    <3>1. CASE messages[id].run = r
        BY <1>1, <1>3, <3>1 DEF RowsHaveRuns
    <3>2. CASE messages[id].run # r
        BY <1>1, <1>2, <1>3, <3>2 DEF RowsHaveRuns, Own
    <3> QED BY <3>1, <3>2
  <2>2. \A q \in cancelled : pc'[q] \in Building \cup {"raised"}
      BY <1>3 DEF RowsHaveRuns, TablesTypeOK, Building
  <2> QED BY <1>2, <2>1, <2>2 DEF RowsHaveRuns
<1>6. TablesGrow(Tables, Tables')
  <2>1. Uncommitted' \subseteq Uncommitted
      BY <1>1, <1>2, <1>3 DEF Uncommitted
  <2> QED BY <1>1, <1>2, <2>1 DEF TablesGrow, Tables
<1> QED BY <1>2, <1>4, <1>5, <1>6, RowStepKeepsRest

LEMMA SizesArePositive ==
    ASSUME TablesTypeOK
    PROVE  scene.sizes \in SUBSET (Nat \ {0}) /\ {AnswerSize} \in SUBSET (Nat \ {0})
<1>1. scene \in Scene
    BY HistoryAssumption DEF TablesTypeOK
<1> QED BY <1>1, HistoryAssumption DEF Scene

LEMMA StartKeepsInv ==
    ASSUME HistoryInv, NEW r \in Run, Start(r)
    PROVE  HistoryInv'
<1>1. scene.sizes \in SUBSET (Nat \ {0})
    BY SizesArePositive DEF HistoryInv
<1>2. CASE BeginInbound(r)
    BY <1>1, <1>2, InsertionKeepsInv DEF BeginInbound, Move, loop, admin
<1>3. CASE CommitInbound(r)
  <2>1. \A id \in DOMAIN messages : messages[id].role \in {"user", "assistant"}
      BY TablesHaveType DEF HistoryInv, Row
  <2>2. Own(r) = {id \in Own(r) : messages[id].role = "user"}
      BY <1>3, <2>1 DEF CommitInbound, Move, HistoryInv, RowsHaveRuns, Own
  <2> QED BY <1>3, <2>2, CommitKeepsInv DEF CommitInbound, Move, admin
<1>4. CASE StartInbound(r)
    BY <1>1, <1>4, InsertionKeepsInv DEF StartInbound, Move, admin
<1> QED BY <1>2, <1>3, <1>4 DEF Start

LEMMA AnswerKeepsInv ==
    ASSUME HistoryInv, NEW r \in Run,
           InsertAnswer(r) \/ CommitAnswer(r) \/ CompleteRun(r)
    PROVE  HistoryInv'
<1>1. {AnswerSize} \in SUBSET (Nat \ {0})
    BY SizesArePositive DEF HistoryInv
<1>2. CASE InsertAnswer(r)
    BY <1>1, <1>2, InsertionKeepsInv DEF InsertAnswer, Move, admin
<1>3. CASE CommitAnswer(r)
    BY <1>3, CommitKeepsInv DEF CommitAnswer, Move, loop, admin
<1>4. CASE CompleteRun(r)
    BY <1>1, <1>4, InsertionKeepsInv DEF CompleteRun, Move, admin
<1> QED BY <1>2, <1>3, <1>4

-----------------------------------------------------------------------------
(* Purges.                                                                 *)

(* What a purge finds is of runs that are over.                            *)
LEMMA OldMessagesAreOver ==
    ASSUME HistoryInv, NEW cutoff \in Nat, NEW id \in OldMessages(cutoff)
    PROVE  /\ id \in visible /\ id < cutoff
           /\ messages[id].run \in Run /\ Over(messages[id].run)
<1>1. id \in visible /\ id < cutoff /\ Live = {}
    BY DEF OldMessages
<1>2. messages[id].run \in Run
    BY <1>1, TablesHaveType DEF HistoryInv, TablesTypeOK
<1>3. pc[messages[id].run] \notin {"new", "inserting"}
    BY <1>1 DEF HistoryInv, TablesTypeOK, RowsHaveRuns
<1> QED BY <1>1, <1>2, <1>3 DEF Live, Over

(* Rows are deleted, and the summaries that end at them; the purge is then *)
(* idle.                                                                   *)
LEMMA DeletionKeepsInv ==
    ASSUME HistoryInv, NEW ids \in SUBSET visible, NEW rows, NEW runs,
           \A row \in summaries \ rows : row.through \notin ids,
           Delete(rows, ids, runs), purge' \in PurgeType, purge'.at = "idle",
           purge'.messages = {}, purge'.summaries = {},
           UNCHANGED <<scene, messages, pc, seen, cancelled>>
    PROVE  HistoryInv'
<1> USE DEF HistoryInv
<1>1. /\ visible' = visible \ ids /\ late' = late \ ids
      /\ summaries' = summaries \ rows
    BY DEF Delete
<1>2. TablesTypeOK'
    BY <1>1 DEF TablesTypeOK
<1>3. RowsHaveRuns'
    BY <1>1 DEF RowsHaveRuns
<1>4. Uncommitted' = Uncommitted
    BY <1>1 DEF Uncommitted, RowsHaveRuns
<1>5. /\ Tables \in TableType /\ Tables' \in TableType
      /\ TablesGrow(Tables, Tables')
  <2>1. Tables \in TableType /\ DOMAIN messages = 1..Len(messages) /\ Len(messages) \in Nat
      BY TablesHaveType
  <2>2. Tables' \in TableType
      BY <1>2, RowsHaveType DEF TablesTypeOK, Tables, Uncommitted
  <2> QED BY <1>1, <1>4, <2>1, <2>2 DEF TablesGrow, Tables, TablesTypeOK
<1>6. SummariesAreTrue'
  <2>1. summaries \subseteq SummaryRow /\ \A q \in Run : seen[q].summary \in SummaryRow
      BY SeenHasType DEF TablesTypeOK
  <2> QED BY <1>1, <1>5, <2>1, SummariesStayTrue DEF SummariesAreTrue
<1>7. BatchesFit'
    BY <1>5, SeenHasType, BatchesStayFit DEF BatchesFit
<1>8. SummariesAdvance'
    BY <1>1 DEF SummariesAdvance
<1>9. PurgeFits'
    BY DEF PurgeFits
<1> QED BY <1>2, <1>3, <1>6, <1>7, <1>8, <1>9

LEMMA PurgeHasType ==
    ASSUME TablesTypeOK
    PROVE  /\ purge \in PurgeType /\ purge.cutoff \in Nat /\ purge.begun \in Nat
           /\ NoPurge(purge.begun) \in PurgeType
BY DEF TablesTypeOK, PurgeType, NoPurge

LEMMA PurgeKeepsInv ==
    ASSUME HistoryInv, NEW cutoff \in 2..(Len(messages) + 1), Purge(cutoff)
    PROVE  HistoryInv'
<1>1. cutoff \in Nat
    BY TablesHaveType DEF HistoryInv
<1>2. \A id \in OldMessages(cutoff) : id \in visible /\ id < cutoff
    BY <1>1, OldMessagesAreOver
<1>3. \A row \in summaries \ OldSummaries(cutoff) : row.through \notin OldMessages(cutoff)
    BY DEF OldSummaries, OldMessages
<1>4. /\ purge' \in PurgeType /\ purge'.at = "idle"
      /\ purge'.messages = {} /\ purge'.summaries = {}
  <2>1. purge.at = "idle" /\ purge.messages = {} /\ purge.summaries = {}
      BY DEF Purge, MayPurge, HistoryInv, PurgeFits
  <2> QED BY <2>1, PurgeHasType DEF Purge, PurgeType, HistoryInv
<1>5. PICK gone : Delete(OldSummaries(cutoff), OldMessages(cutoff), gone)
    BY DEF Purge
<1>6. UNCHANGED <<scene, messages, pc, seen, cancelled>>
    BY DEF Purge
<1> QED BY <1>2, <1>3, <1>4, <1>5, <1>6, DeletionKeepsInv

(* A statement in Postgres changes no table before the commit.             *)
LEMMA StatementKeepsInv ==
    ASSUME HistoryInv, NothingCommitted, purge' \in PurgeType, PurgeFits'
    PROVE  HistoryInv'
<1> USE DEF HistoryInv
<1>1. UNCHANGED <<scene, messages, visible, late, summaries, pc, seen, cancelled>>
    BY DEF NothingCommitted, tables
<1>2. TablesTypeOK'
    BY <1>1 DEF TablesTypeOK
<1>3. RowsHaveRuns' /\ SummariesAdvance' /\ Tables' = Tables
    BY <1>1 DEF RowsHaveRuns, SummariesAdvance, Tables, Uncommitted
<1>4. SummariesAreTrue' /\ BatchesFit'
    BY <1>1, <1>3 DEF SummariesAreTrue, BatchesFit
<1> QED BY <1>2, <1>3, <1>4

LEMMA PurgeSummariesKeepsInv ==
    ASSUME HistoryInv, NEW cutoff \in 2..(Len(messages) + 1), PurgeSummaries(cutoff)
    PROVE  HistoryInv'
<1>1. /\ purge' = [NoPurge(purge.begun + 1) EXCEPT
                     !.at = "messages", !.cutoff = cutoff,
                     !.summaries = OldSummaries(cutoff)]
      /\ scene.backend = "postgres" /\ NothingCommitted
    BY DEF PurgeSummaries
<1>2. /\ cutoff \in Nat /\ OldSummaries(cutoff) \subseteq summaries
      /\ summaries \subseteq SummaryRow /\ purge.begun + 1 \in Nat
    BY TablesHaveType, PurgeHasType DEF OldSummaries, HistoryInv, TablesTypeOK
<1>3. /\ purge' \in PurgeType /\ purge'.at = "messages"
      /\ purge'.messages = {} /\ purge'.summaries = OldSummaries(cutoff)
    BY <1>1, <1>2 DEF PurgeType, NoPurge
<1>4. PurgeFits'
    BY <1>1, <1>2, <1>3 DEF PurgeFits, NothingCommitted, tables
<1> QED BY <1>1, <1>3, <1>4, StatementKeepsInv

LEMMA PurgeMessagesKeepsInv ==
    ASSUME HistoryInv, PurgeMessages
    PROVE  HistoryInv'
<1> USE DEF HistoryInv
<1> DEFINE ids == OldMessages(purge.cutoff)
           refused == \E row \in summaries \ purge.summaries : row.through \in ids
<1>1. /\ purge' = IF refused THEN NoPurge(purge.begun)
                             ELSE [purge EXCEPT !.at = "checkpoints", !.messages = ids]
      /\ purge.at = "messages" /\ purge.messages = {} /\ NothingCommitted
    BY DEF PurgeMessages, PurgeFits
<1>2. \A id \in ids : /\ id \in visible /\ messages[id].run \in Run
                      /\ Over(messages[id].run)
    BY PurgeHasType, OldMessagesAreOver
<1>3. ids \in SUBSET Nat
    BY <1>2, TablesHaveType DEF TablesTypeOK
<1> HIDE DEF ids
<1>4. purge' \in PurgeType
    BY <1>1, <1>3, PurgeHasType DEF PurgeType
<1>5. UNCHANGED <<scene, messages, visible, summaries, pc, cancelled>>
    BY <1>1 DEF NothingCommitted, tables
<1>6. PurgeFits'
  <2>1. CASE refused
      BY <1>1, <1>5, <2>1 DEF PurgeFits, NoPurge
  <2>2. CASE ~refused
    <3>1. /\ purge'.at = "checkpoints" /\ purge'.messages = ids
          /\ purge'.summaries = purge.summaries
        BY <1>1, <2>2, PurgeHasType DEF PurgeType
    <3>2. \A id \in ids : Spent(messages[id].run)'
        BY <1>2, <1>5 DEF Spent, Over
    <3> QED BY <1>1, <1>2, <1>5, <2>2, <3>1, <3>2 DEF PurgeFits
  <2> QED BY <2>1, <2>2
<1> QED BY <1>1, <1>4, <1>6, StatementKeepsInv

LEMMA PurgeCheckpointsKeepsInv ==
    ASSUME HistoryInv, PurgeCheckpoints
    PROVE  HistoryInv'
<1> USE DEF HistoryInv
<1>1. /\ purge' = [purge EXCEPT !.at = "commit",
                                !.runs = OldCheckpoints(purge.cutoff)]
      /\ purge.at = "checkpoints" /\ NothingCommitted
    BY DEF PurgeCheckpoints
<1>2. OldCheckpoints(purge.cutoff) \subseteq Run
    BY DEF OldCheckpoints
<1>3. /\ purge' \in PurgeType /\ purge'.at = "commit"
      /\ purge'.messages = purge.messages /\ purge'.summaries = purge.summaries
      /\ purge'.reopened = purge.reopened
    BY <1>1, <1>2, PurgeHasType DEF PurgeType
<1>4. UNCHANGED <<scene, messages, visible, summaries, pc, cancelled>>
    BY <1>1 DEF NothingCommitted, tables
<1>5. PurgeFits'
    BY <1>1, <1>3, <1>4 DEF PurgeFits, Spent, Over
<1> QED BY <1>1, <1>3, <1>5, StatementKeepsInv

LEMMA CommitPurgeKeepsInv ==
    ASSUME HistoryInv, CommitPurge
    PROVE  HistoryInv'
<1>1. /\ purge.messages \in SUBSET visible
      /\ \A row \in summaries \ purge.summaries : row.through \notin purge.messages
    BY DEF HistoryInv, PurgeFits
<1>2. /\ purge' \in PurgeType /\ purge'.at = "idle"
      /\ purge'.messages = {} /\ purge'.summaries = {}
    BY PurgeHasType DEF CommitPurge, HistoryInv, NoPurge
<1>3. PICK gone : Delete(purge.summaries, purge.messages, gone)
    BY DEF CommitPurge
<1>4. UNCHANGED <<scene, messages, pc, seen, cancelled>>
    BY DEF CommitPurge
<1> QED BY <1>1, <1>2, <1>3, <1>4, DeletionKeepsInv

-----------------------------------------------------------------------------
(* The inductive step.                                                     *)

LEMMA InitHasInv ==
    ASSUME Init
    PROVE  HistoryInv
<1>1. messages = <<>> /\ Len(messages) = 0 /\ DOMAIN messages = {} /\ messages \in Seq(Row)
    BY DEF Init
<1>2. TablesTypeOK
  <2>1. /\ scene \in Scenes /\ visible = {} /\ late = {} /\ summaries = {} /\ cancelled = {}
        /\ pc = [r \in Run |-> "new"] /\ seen = [r \in Run |-> NothingSeen]
        /\ purge = NoPurge(0)
      BY DEF Init
  <2>2. NothingSeen \in Seen /\ NoPurge(0) \in PurgeType
      BY DEF NothingSeen, NoSummary, Seen, SummaryRow, NoPurge, PurgeType
  <2> QED BY <1>1, <2>1, <2>2 DEF TablesTypeOK, Pc
<1>3. visible = {} /\ summaries = {} /\ cancelled = {} /\ purge = NoPurge(0)
    BY DEF Init
<1>4. RowsHaveRuns /\ SummariesAdvance /\ PurgeFits
    BY <1>1, <1>3 DEF RowsHaveRuns, SummariesAdvance, PurgeFits, NoPurge
<1>5. \A r \in Run : seen[r] = NothingSeen /\ pc[r] = "new"
    BY DEF Init
<1>6. SummariesAreTrue /\ BatchesFit
    BY <1>2, <1>3, <1>5, NothingSeenIsTrue
       DEF SummariesAreTrue, BatchesFit, BatchFits, NothingSeen
<1> QED BY <1>2, <1>4, <1>6 DEF HistoryInv

LEMMA NextKeepsInv ==
    ASSUME HistoryInv, Next
    PROVE  HistoryInv'
<1>1. CASE \E r \in Run : Start(r)
    BY <1>1, StartKeepsInv
<1>2. CASE \E r \in Run : Build(r)
  <2>1. PICK r \in Run : Build(r)
      BY <1>2
  <2>2. CASE ReadSummary(r) \/ BuildOrCompact(r)
      BY <2>2, ReadSummaryKeepsInv, BuildOrCompactKeepsInv
  <2>3. CASE ReadOld(r) \/ SaveSummary(r)
      BY <2>3, ReadOldKeepsInv, SaveSummaryKeepsInv
  <2>4. CASE BuildAfterCompact(r)
      BY <2>4, BuiltGoesOn DEF BuildAfterCompact
  <2> QED BY <2>1, <2>2, <2>3, <2>4 DEF Build
<1>3. CASE \E r \in Run : Work(r)
    BY <1>3, LoopKeepsInv, AnswerKeepsInv DEF Work
<1>4. CASE \E r \in Run : \/ Crash(r) \/ Resume(r)
                          \/ Fail(r) \/ Recover(r) \/ Cancel(r)
    BY <1>4, CrashKeepsInv, LoopKeepsInv, FailKeepsInv, RecoverKeepsInv,
       CancelKeepsInv
<1>5. CASE Retain
    BY <1>5, PurgeKeepsInv, PurgeSummariesKeepsInv, PurgeMessagesKeepsInv,
       PurgeCheckpointsKeepsInv, CommitPurgeKeepsInv DEF Retain
<1> QED BY <1>1, <1>2, <1>3, <1>4, <1>5 DEF Next

LEMMA StutterKeepsInv ==
    ASSUME HistoryInv, UNCHANGED vars
    PROVE  HistoryInv'
<1>1. UNCHANGED <<scene, messages, visible, late, summaries, pc, seen, cancelled, purge>>
    BY DEF vars, tables, loop, admin
<1>2. Tables' = Tables /\ TablesTypeOK' /\ RowsHaveRuns' /\ SummariesAdvance' /\ PurgeFits'
    BY <1>1 DEF HistoryInv, TablesTypeOK, RowsHaveRuns, SummariesAdvance, PurgeFits,
                Spent, Over, Tables, Uncommitted
<1> QED BY <1>1, <1>2 DEF HistoryInv, SummariesAreTrue, BatchesFit

-----------------------------------------------------------------------------
(* Sums of sizes.                                                          *)

(* A set of numbers that is not empty has a least one.                     *)
LEMMA LeastExists ==
    ASSUME NEW S \in SUBSET Nat, S # {}
    PROVE  \E least \in S : \A x \in S : least <= x
<1>1. PICK least \in S : \A y \in S : ~(<<y, least>> \in OpToRel(<, Nat))
    BY NatLessThanWellFounded, WFMin
<1>2. \A y \in S : ~(y < least)
    BY <1>1 DEF OpToRel
<1> QED BY <1>2

Pick(S) == CHOOSE x \in S : TRUE

(* The recursion over the subsets of S, one element after the other.       *)
Adding(items, S, total) ==
    [T \in SUBSET S |->
       IF T = {} THEN 0 ELSE items[Pick(T)].size + total[T \ {Pick(T)}]]

LEMMA TokensAreRecursive ==
    ASSUME NEW items, NEW S
    PROVE  Tokens(items, S) =
             (CHOOSE total : total = Adding(items, S, total))[S]
BY DEF Tokens, MapThenSumSet, MapThenFoldSet, Adding, Pick

LEMMA SumExists ==
    ASSUME NEW items, NEW S, IsFiniteSet(S)
    PROVE  \E total : total = Adding(items, S, total)
<1> DEFINE n == Cardinality(S)
           Then(f, T) == IF T = {} THEN 0 ELSE items[Pick(T)].size + f[T \ {Pick(T)}]
           Works(f, k) == \A T \in SUBSET S : Cardinality(T) <= k => f[T] = Then(f, T)
           Bad == {k \in Nat : ~ \E f : Works(f, k)}
<1> HIDE DEF Then
<1>0. n \in Nat /\ \A T \in SUBSET S : /\ IsFiniteSet(T)
                                       /\ Cardinality(T) \in Nat
                                       /\ Cardinality(T) <= n
    BY FS_Subset, FS_CardinalityType
<1>1. SUFFICES Bad = {}
  <2>1. PICK f : Works(f, n)
      BY <1>0, <1>1
  <2> DEFINE g == [T \in SUBSET S |-> Then(f, T)]
  <2>2. \A T \in SUBSET S : f[T] = Then(f, T)
      BY <1>0, <2>1
  <2>3. \A T \in SUBSET S : g[T] = f[T]
      BY <2>2
  <2>4. \A T \in SUBSET S : Then(f, T) = Then(g, T)
    <3> TAKE T \in SUBSET S
    <3>1. T \ {Pick(T)} \in SUBSET S
        OBVIOUS
    <3> HIDE DEF g
    <3> QED BY <2>3, <3>1 DEF Then
  <2>5. g = [T \in SUBSET S |-> Then(g, T)]
      BY <2>4
  <2> HIDE DEF g
  <2> QED BY <2>5 DEF Then, Adding
<1>2. SUFFICES ASSUME Bad # {} PROVE FALSE
    OBVIOUS
<1>3. PICK k \in Bad : \A l \in Bad : k <= l
  <2>1. Bad \in SUBSET Nat
      OBVIOUS
  <2> HIDE DEF Bad
  <2> QED BY <1>2, <2>1, LeastExists
<1>4. \A T \in SUBSET S : T # {} => /\ Pick(T) \in T
                                    /\ Cardinality(T \ {Pick(T)}) = Cardinality(T) - 1
                                    /\ Cardinality(T) # 0
  <2> TAKE T \in SUBSET S
  <2> HAVE T # {}
  <2>1. Pick(T) \in T
      BY DEF Pick
  <2> QED BY <1>0, <2>1, FS_RemoveElement, FS_EmptySet
<1>5. PICK f : k # 0 => Works(f, k - 1)
  <2>1. CASE k = 0
      BY <2>1
  <2>2. CASE k # 0
    <3>1. k \in Nat
        BY <1>3
    <3>2. k - 1 \in Nat /\ ~(k <= k - 1)
        BY <2>2, <3>1
    <3>3. k - 1 \notin Bad
        BY <1>3, <3>2
    <3> QED BY <3>2, <3>3
  <2> QED BY <2>1, <2>2
<1> DEFINE g == [T \in SUBSET S |-> Then(f, T)]
<1>6. ASSUME NEW T \in SUBSET S, Cardinality(T) <= k
      PROVE  g[T] = Then(g, T)
  <2>1. CASE T = {}
      BY <2>1 DEF Then
  <2>2. CASE T # {}
    <3> DEFINE rest == T \ {Pick(T)}
    <3>1. k \in Nat
        BY <1>3
    <3>2. rest \in SUBSET S /\ Cardinality(rest) <= k - 1 /\ k # 0
        BY <1>0, <1>4, <1>6, <2>2, <3>1
    <3>3. f[rest] = Then(f, rest)
        BY <1>5, <3>2
    <3>4. g[rest] = f[rest]
        BY <3>2, <3>3
    <3>5. Then(f, T) = Then(g, T)
      <4> HIDE DEF g
      <4> QED BY <3>4 DEF Then
    <3> QED BY <3>5
  <2> QED BY <2>1, <2>2
<1>7. Works(g, k)
  <2> HIDE DEF g
  <2> QED BY <1>6
<1> HIDE DEF g
<1> QED BY <1>3, <1>7

(* A sum is the same however much is summed beside it.                     *)
LEMMA SumsAgree ==
    ASSUME NEW items, NEW S, IsFiniteSet(S)
    PROVE  \E total : /\ total = Adding(items, S, total)
                      /\ \A T \in SUBSET S : Tokens(items, T) = total[T]
<1>1. PICK total : total = Adding(items, S, total)
    BY SumExists
<1>2. ASSUME NEW T \in SUBSET S PROVE Tokens(items, T) = total[T]
  <2>1. PICK other : /\ other = Adding(items, T, other)
                     /\ Tokens(items, T) = other[T]
    <3>1. IsFiniteSet(T)
        BY FS_Subset
    <3>2. \E other : other = Adding(items, T, other)
        BY <3>1, SumExists
    <3> QED BY <3>2, TokensAreRecursive
  <2> DEFINE Bad == {U \in SUBSET T : other[U] # total[U]}
             Cards == {Cardinality(U) : U \in Bad}
  <2>2. SUFFICES ASSUME Bad # {} PROVE FALSE
      BY <2>1
  <2>3. \A U \in SUBSET S : IsFiniteSet(U) /\ Cardinality(U) \in Nat
      BY FS_Subset, FS_CardinalityType
  <2>4. PICK U \in Bad : \A V \in Bad : Cardinality(U) <= Cardinality(V)
    <3>1. Cards \in SUBSET Nat /\ Cards # {}
        BY <2>2, <2>3
    <3>2. PICK least \in Cards : \A x \in Cards : least <= x
      <4> HIDE DEF Cards
      <4> QED BY <3>1, LeastExists
    <3>3. PICK U \in Bad : least = Cardinality(U)
        OBVIOUS
    <3>4. \A V \in Bad : Cardinality(V) \in Cards
        OBVIOUS
    <3> HIDE DEF Cards, Bad
    <3> QED BY <3>2, <3>3, <3>4
  <2>5. U \in SUBSET T /\ U \in SUBSET S /\ other[U] # total[U]
      BY <2>4
  <2>6. U # {}
      BY <1>1, <2>1, <2>5 DEF Adding
  <2> DEFINE rest == U \ {Pick(U)}
  <2>7. /\ other[U] = items[Pick(U)].size + other[rest]
        /\ total[U] = items[Pick(U)].size + total[rest]
    <3>1. \A f : /\ Adding(items, T, f)[U] = items[Pick(U)].size + f[rest]
                 /\ Adding(items, S, f)[U] = items[Pick(U)].size + f[rest]
        BY <2>5, <2>6 DEF Adding
    <3> QED BY <1>1, <2>1, <3>1
  <2>8. rest \in SUBSET T /\ Cardinality(rest) = Cardinality(U) - 1
    <3>1. Pick(U) \in U
        BY <2>6 DEF Pick
    <3> QED BY <2>3, <2>5, <3>1, FS_RemoveElement
  <2>9. rest \notin Bad
    <3>1. Cardinality(U) \in Nat
        BY <2>3, <2>5
    <3>2. ~(Cardinality(U) <= Cardinality(rest))
        BY <2>8, <3>1
    <3> HIDE DEF Bad, rest
    <3> QED BY <2>4, <3>2
  <2> QED BY <2>5, <2>7, <2>8, <2>9
<1> QED BY <1>1, <1>2

LEMMA EmptySum ==
    ASSUME NEW items
    PROVE  Tokens(items, {}) = 0
<1>1. IsFiniteSet({}) /\ {} \in SUBSET {}
    BY FS_EmptySet
<1>2. PICK total : /\ total = Adding(items, {}, total)
                   /\ \A T \in SUBSET {} : Tokens(items, T) = total[T]
    BY <1>1, SumsAgree
<1> QED BY <1>2 DEF Adding

LEMMA SumPicks ==
    ASSUME NEW items, NEW S, IsFiniteSet(S), S # {}
    PROVE  /\ Pick(S) \in S
           /\ Tokens(items, S) =
                items[Pick(S)].size + Tokens(items, S \ {Pick(S)})
<1>1. PICK total : /\ total = Adding(items, S, total)
                   /\ \A T \in SUBSET S : Tokens(items, T) = total[T]
    BY SumsAgree
<1>2. total[S] = items[Pick(S)].size + total[S \ {Pick(S)}]
  <2>1. \A f : Adding(items, S, f)[S] = items[Pick(S)].size + f[S \ {Pick(S)}]
      BY DEF Adding
  <2> QED BY <1>1, <2>1
<1>3. Pick(S) \in S
    BY DEF Pick
<1> QED BY <1>1, <1>2, <1>3

(* Of sets of parts of a finite set one has no other below it.             *)
LEMMA SmallestExists ==
    ASSUME NEW S, IsFiniteSet(S), NEW Bad \in SUBSET (SUBSET S), Bad # {}
    PROVE  \E T \in Bad : /\ T \subseteq S /\ IsFiniteSet(T)
                          /\ \A U \in SUBSET T : U # T => U \notin Bad
<1>1. Bad \subseteq FiniteSubsetsOf(S)
    BY FS_Subset DEF FiniteSubsetsOf
<1>2. PICK T \in Bad : \A U \in Bad : <<U, T>> \notin StrictSubsetOrdering(S)
    BY <1>1, FS_StrictSubsetOrderingWellFounded, WFMin
<1>3. T \subseteq S /\ IsFiniteSet(T)
    BY FS_Subset
<1>4. \A U \in SUBSET T : U # T => U \notin Bad
    BY <1>2, <1>3 DEF StrictSubsetOrdering
<1> QED BY <1>3, <1>4

Sizes(items, S) == \A x \in S : items[x].size \in Nat

LEMMA SumIsNat ==
    ASSUME NEW items, NEW S, IsFiniteSet(S), Sizes(items, S)
    PROVE  Tokens(items, S) \in Nat
<1> DEFINE Bad == {T \in SUBSET S : Tokens(items, T) \notin Nat}
<1>1. SUFFICES ASSUME Bad # {} PROVE FALSE
    OBVIOUS
<1>2. PICK T \in Bad : /\ T \subseteq S /\ IsFiniteSet(T)
                       /\ \A U \in SUBSET T : U # T => U \notin Bad
  <2>1. Bad \in SUBSET (SUBSET S)
      OBVIOUS
  <2> HIDE DEF Bad
  <2> QED BY <1>1, <2>1, SmallestExists
<1>3. T # {}
    BY EmptySum
<1>4. Pick(T) \in T /\ Tokens(items, T) = items[Pick(T)].size + Tokens(items, T \ {Pick(T)})
    BY <1>2, <1>3, SumPicks
<1>5. Tokens(items, T \ {Pick(T)}) \in Nat
    BY <1>2, <1>4
<1>6. items[Pick(T)].size \in Nat
    BY <1>2, <1>4 DEF Sizes
<1>7. Tokens(items, T) \in Nat
    BY <1>4, <1>5, <1>6
<1> QED BY <1>7

LEMMA SumIsPositive ==
    ASSUME NEW items, NEW S, IsFiniteSet(S), S # {},
           \A x \in S : items[x].size \in Nat \ {0}
    PROVE  Tokens(items, S) \in Nat \ {0}
<1>1. /\ Pick(S) \in S
      /\ Tokens(items, S) = items[Pick(S)].size + Tokens(items, S \ {Pick(S)})
    BY SumPicks
<1>2. Tokens(items, S \ {Pick(S)}) \in Nat
  <2>1. IsFiniteSet(S \ {Pick(S)}) /\ Sizes(items, S \ {Pick(S)})
      BY FS_Subset DEF Sizes
  <2> QED BY <2>1, SumIsNat
<1>3. items[Pick(S)].size \in Nat \ {0}
    BY <1>1
<1> QED BY <1>1, <1>2, <1>3

(* The order in which a sum is taken does not matter.                      *)
LEMMA SumTakesOut ==
    ASSUME NEW items, NEW S, IsFiniteSet(S), Sizes(items, S), NEW x \in S
    PROVE  Tokens(items, S) = items[x].size + Tokens(items, S \ {x})
<1> DEFINE Good(T) == \A y \in T : Tokens(items, T) = items[y].size + Tokens(items, T \ {y})
           Bad == {T \in SUBSET S : ~Good(T)}
<1>1. SUFFICES ASSUME Bad # {} PROVE FALSE
    OBVIOUS
<1>2. PICK T \in Bad : /\ T \subseteq S /\ IsFiniteSet(T)
                       /\ \A U \in SUBSET T : U # T => U \notin Bad
  <2>1. Bad \in SUBSET (SUBSET S)
      OBVIOUS
  <2> HIDE DEF Bad
  <2> QED BY <1>1, <2>1, SmallestExists
<1>3. PICK y \in T : Tokens(items, T) # items[y].size + Tokens(items, T \ {y})
    BY <1>2
<1> DEFINE p == Pick(T)
<1>4. p \in T /\ Tokens(items, T) = items[p].size + Tokens(items, T \ {p})
    BY <1>2, <1>3, SumPicks
<1>5. p # y
    BY <1>3, <1>4
<1> HIDE DEF p
<1>6. Good(T \ {p}) /\ Good(T \ {y})
    BY <1>2, <1>3, <1>4
<1> DEFINE rest == Tokens(items, (T \ {p}) \ {y})
<1>7. Tokens(items, T \ {p}) = items[y].size + rest
    BY <1>3, <1>5, <1>6
<1>8. Tokens(items, T \ {y}) = items[p].size + rest
  <2>1. (T \ {y}) \ {p} = (T \ {p}) \ {y}
      OBVIOUS
  <2>2. Tokens(items, T \ {y}) = items[p].size + Tokens(items, (T \ {y}) \ {p})
      BY <1>4, <1>5, <1>6
  <2> QED BY <2>1, <2>2
<1>9. rest \in Nat /\ items[p].size \in Nat /\ items[y].size \in Nat
  <2>1. IsFiniteSet((T \ {p}) \ {y})
      BY <1>2, FS_Subset
  <2> QED BY <1>2, <1>3, <1>4, <2>1, SumIsNat DEF Sizes
<1> HIDE DEF rest
<1> QED BY <1>3, <1>4, <1>7, <1>8, <1>9

LEMMA ImageIsFinite ==
    ASSUME NEW S, IsFiniteSet(S), NEW D, NEW at \in [S -> D], NEW T \in SUBSET S
    PROVE  IsFiniteSet({at[x] : x \in T})
<1> DEFINE image == {at[x] : x \in T}
           f == [x \in T |-> at[x]]
<1>1. f \in Surjection(T, image)
    BY DEF Surjection
<1>2. IsFiniteSet(T)
    BY FS_Subset
<1> HIDE DEF f, image
<1>3. IsFiniteSet(image)
    BY <1>1, <1>2, FS_Surjection
<1> QED BY <1>3 DEF image

(* A sum does not depend on where the summands stand.                      *)
LEMMA SumsMove ==
    ASSUME NEW items, NEW S, IsFiniteSet(S), Sizes(items, S),
           NEW others, NEW image, NEW at \in [S -> image],
           \A y \in image : \E x \in S : y = at[x],
           \A x, y \in S : at[x] = at[y] => x = y,
           \A x \in S : others[at[x]].size = items[x].size
    PROVE  Tokens(others, image) = Tokens(items, S)
<1> DEFINE Image(T) == {at[x] : x \in T}
           Bad == {T \in SUBSET S : Tokens(others, Image(T)) # Tokens(items, T)}
<1>1. SUFFICES ASSUME Bad # {} PROVE FALSE
  <2>1. image = Image(S) /\ S \in SUBSET S
      OBVIOUS
  <2> HIDE DEF Image
  <2> QED BY <1>1, <2>1
<1>2. PICK T \in Bad : /\ T \subseteq S /\ IsFiniteSet(T)
                       /\ \A U \in SUBSET T : U # T => U \notin Bad
  <2>1. Bad \in SUBSET (SUBSET S)
      OBVIOUS
  <2> HIDE DEF Bad
  <2> QED BY <1>1, <2>1, SmallestExists
<1>3. Tokens(others, Image(T)) # Tokens(items, T)
    BY <1>2
<1>4. PICK p \in T : TRUE
  <2>1. Image({}) = {}
      OBVIOUS
  <2> HIDE DEF Image
  <2> QED BY <1>3, <2>1, EmptySum
<1> DEFINE U == T \ {p}
<1>5. Tokens(others, Image(U)) = Tokens(items, U)
    BY <1>2, <1>4
<1>6. Tokens(items, T) = items[p].size + Tokens(items, U)
    BY <1>2, <1>4, SumTakesOut DEF Sizes
<1>7. Tokens(others, Image(T)) = items[p].size + Tokens(others, Image(U))
  <2>1. IsFiniteSet(Image(T))
      BY <1>2, ImageIsFinite
  <2>2. Image(T) \ {at[p]} = Image(U)
      BY <1>2, <1>4
  <2>3. at[p] \in Image(T) /\ Sizes(others, Image(T)) /\ others[at[p]].size = items[p].size
      BY <1>2, <1>4 DEF Sizes
  <2> HIDE DEF Image, U
  <2> QED BY <2>1, <2>2, <2>3, SumTakesOut
<1> HIDE DEF U, Image
<1> QED BY <1>3, <1>5, <1>6, <1>7

(* Smaller summands make a smaller sum.                                    *)
LEMMA SumsCompare ==
    ASSUME NEW items, NEW S, IsFiniteSet(S), Sizes(items, S),
           NEW others, Sizes(others, S),
           \A x \in S : items[x].size <= others[x].size
    PROVE  Tokens(items, S) <= Tokens(others, S)
<1> DEFINE Bad == {T \in SUBSET S : ~(Tokens(items, T) <= Tokens(others, T))}
<1>1. SUFFICES ASSUME Bad # {} PROVE FALSE
    OBVIOUS
<1>2. PICK T \in Bad : /\ T \subseteq S /\ IsFiniteSet(T)
                       /\ \A U \in SUBSET T : U # T => U \notin Bad
  <2>1. Bad \in SUBSET (SUBSET S)
      OBVIOUS
  <2> HIDE DEF Bad
  <2> QED BY <1>1, <2>1, SmallestExists
<1>3. ~(Tokens(items, T) <= Tokens(others, T))
    BY <1>2
<1>4. PICK p \in T : TRUE
    BY <1>3, EmptySum
<1> DEFINE U == T \ {p}
<1>5. Tokens(items, U) <= Tokens(others, U)
    BY <1>2, <1>4
<1>6. /\ Tokens(items, T) = items[p].size + Tokens(items, U)
      /\ Tokens(others, T) = others[p].size + Tokens(others, U)
    BY <1>2, <1>4, SumTakesOut DEF Sizes
<1>7. /\ Tokens(items, U) \in Nat /\ Tokens(others, U) \in Nat
      /\ items[p].size \in Nat /\ others[p].size \in Nat
      /\ items[p].size <= others[p].size
  <2>1. IsFiniteSet(U)
      BY <1>2, FS_Subset
  <2> QED BY <1>2, <1>4, <2>1, SumIsNat DEF Sizes
<1> HIDE DEF U
<1> QED BY <1>3, <1>5, <1>6, <1>7

(* The sum of two parts.                                                   *)
LEMMA SumsAdd ==
    ASSUME NEW items, NEW S, IsFiniteSet(S), Sizes(items, S),
           NEW R, IsFiniteSet(R), Sizes(items, R), S \cap R = {}
    PROVE  Tokens(items, S \cup R) = Tokens(items, S) + Tokens(items, R)
<1> DEFINE Bad == {T \in SUBSET R : Tokens(items, S \cup T) # Tokens(items, S) + Tokens(items, T)}
<1>1. SUFFICES ASSUME Bad # {} PROVE FALSE
    OBVIOUS
<1>2. PICK T \in Bad : /\ T \subseteq R /\ IsFiniteSet(T)
                       /\ \A U \in SUBSET T : U # T => U \notin Bad
  <2>1. Bad \in SUBSET (SUBSET R)
      OBVIOUS
  <2> HIDE DEF Bad
  <2> QED BY <1>1, <2>1, SmallestExists
<1>3. Tokens(items, S \cup T) # Tokens(items, S) + Tokens(items, T)
    BY <1>2
<1>4. Tokens(items, S) \in Nat
    BY SumIsNat
<1>5. PICK p \in T : TRUE
    BY <1>3, <1>4, EmptySum
<1> DEFINE U == T \ {p}
<1>6. Tokens(items, S \cup U) = Tokens(items, S) + Tokens(items, U)
    BY <1>2, <1>5
<1>7. Tokens(items, T) = items[p].size + Tokens(items, U)
    BY <1>2, <1>5, SumTakesOut DEF Sizes
<1>8. Tokens(items, S \cup T) = items[p].size + Tokens(items, S \cup U)
  <2>1. IsFiniteSet(S \cup T) /\ Sizes(items, S \cup T) /\ p \in S \cup T
      BY <1>2, <1>5, FS_Union DEF Sizes
  <2>2. (S \cup T) \ {p} = S \cup U
      BY <1>2, <1>5
  <2> HIDE DEF U
  <2> QED BY <2>1, <2>2, SumTakesOut
<1>9. Tokens(items, U) \in Nat /\ items[p].size \in Nat
  <2>1. IsFiniteSet(U)
      BY <1>2, FS_Subset
  <2> QED BY <1>2, <1>5, <2>1, SumIsNat DEF Sizes
<1> HIDE DEF U
<1> QED BY <1>3, <1>4, <1>6, <1>7, <1>8, <1>9

(* A part is not larger than the whole.                                    *)
LEMMA PartsAreSmaller ==
    ASSUME NEW items, NEW S, IsFiniteSet(S), Sizes(items, S), NEW T \in SUBSET S
    PROVE  Tokens(items, T) <= Tokens(items, S)
<1>1. IsFiniteSet(T) /\ IsFiniteSet(S \ T)
    BY FS_Subset
<1>2. Sizes(items, T) /\ Sizes(items, S \ T)
    BY DEF Sizes
<1>3. Tokens(items, T \cup (S \ T)) = Tokens(items, T) + Tokens(items, S \ T)
    BY <1>1, <1>2, SumsAdd
<1>4. T \cup (S \ T) = S
    OBVIOUS
<1>5. Tokens(items, T) \in Nat /\ Tokens(items, S \ T) \in Nat
    BY <1>1, <1>2, SumIsNat
<1>6. Tokens(items, S) = Tokens(items, T) + Tokens(items, S \ T)
    BY <1>3, <1>4
<1> QED BY <1>5, <1>6

-----------------------------------------------------------------------------
(* Halvings.                                                               *)

(* What is left of the texts of an item by the loop of halvings.           *)
Halving(items, S, i, halved) ==
    [size \in 0..items[i].size |->
       LET half == size \div 2
           cut == [items EXCEPT ![i] = Cut(items[i], Marked(half))]
       IN  IF half = 0 \/ Fits(cut, S) THEN Marked(half) ELSE halved[half]]

LEMMA HalvingExists ==
    ASSUME NEW items, NEW S, NEW i, items[i].size \in Nat
    PROVE  \E halved : halved = Halving(items, S, i, halved)
<1> DEFINE n == items[i].size
           Stops(k) == \/ k \div 2 = 0
                       \/ Fits([items EXCEPT ![i] = Cut(items[i], Marked(k \div 2))], S)
           Then(f, k) == IF Stops(k) THEN Marked(k \div 2) ELSE f[k \div 2]
           Works(f, m) == \A k \in 0..m : f[k] = Then(f, k)
           Bad == {m \in Nat : ~ \E f : Works(f, m)}
<1>1. SUFFICES Bad = {}
  <2>1. PICK f : Works(f, n)
      BY <1>1
  <2> DEFINE g == [k \in 0..n |-> Then(f, k)]
  <2>2. \A k \in 0..n : g[k] = f[k] /\ k \div 2 \in 0..n
    <3>1. \A k \in 0..n : k \div 2 \in 0..n
        OBVIOUS
    <3>2. \A k \in 0..n : f[k] = Then(f, k)
        BY <2>1
    <3> HIDE DEF Then, n
    <3> QED BY <3>1, <3>2
  <2> HIDE DEF g, Stops
  <2>3. \A k \in 0..n : Then(f, k) = Then(g, k)
      BY <2>2
  <2>4. g = [k \in 0..n |-> Then(g, k)]
      BY <2>3 DEF g
  <2>5. Halving(items, S, i, g) = [k \in 0..n |-> Then(g, k)]
      BY DEF Halving, Stops
  <2> QED BY <2>4, <2>5
<1>2. SUFFICES ASSUME Bad # {} PROVE FALSE
    OBVIOUS
<1> HIDE DEF Stops
<1>3. PICK m \in Bad : \A l \in Bad : m <= l
  <2>1. Bad \in SUBSET Nat
      OBVIOUS
  <2> HIDE DEF Bad
  <2> QED BY <1>2, <2>1, LeastExists
<1>4. m \in Nat
    BY <1>3
<1>5. PICK f : m # 0 => Works(f, m - 1)
  <2>1. CASE m = 0
      BY <2>1
  <2>2. CASE m # 0
    <3>1. m - 1 \in Nat /\ ~(m <= m - 1)
        BY <1>4, <2>2
    <3>2. m - 1 \notin Bad
        BY <1>3, <3>1
    <3> QED BY <3>1, <3>2
  <2> QED BY <2>1, <2>2
<1> DEFINE g == [k \in 0..m |-> Then(f, k)]
<1>6. ASSUME NEW k \in 0..m PROVE g[k] = Then(g, k)
  <2>1. CASE k = 0
    <3>1. Stops(k)
        BY <2>1 DEF Stops
    <3> QED BY <3>1
  <2>2. CASE k # 0
    <3>1. k \div 2 \in 0..(m - 1) /\ k \div 2 \in 0..m /\ m # 0
        BY <1>4, <2>2
    <3>2. f[k \div 2] = Then(f, k \div 2)
        BY <1>5, <3>1
    <3>3. g[k \div 2] = f[k \div 2]
        BY <3>1, <3>2
    <3>4. g[k] = Then(f, k)
        OBVIOUS
    <3> HIDE DEF g
    <3> QED BY <3>3, <3>4
  <2> QED BY <2>1, <2>2
<1>7. Works(g, m)
  <2> HIDE DEF g, Then
  <2> QED BY <1>6
<1> HIDE DEF g, Works
<1> QED BY <1>3, <1>7

(* A loop of halvings ends: the items fit, or only the mark is left.       *)
LEMMA HalvingEnds ==
    ASSUME NEW items, NEW S, NEW i \in DOMAIN items, items[i].size \in Nat
    PROVE  /\ HalvedSize(items, S, i) \in Nat \ {0}
           /\ \/ HalvedSize(items, S, i) = Mark
              \/ Fits(Halved(items, S, i), S)
<1> DEFINE n == items[i].size
           halved == CHOOSE f : f = Halving(items, S, i, f)
           With(size) == [items EXCEPT ![i] = Cut(items[i], size)]
           Good(size) == size \in Nat \ {0} /\ (size = Mark \/ Fits(With(size), S))
           Bad == {k \in 0..n : ~Good(halved[k])}
<1>1. halved = Halving(items, S, i, halved)
  <2>1. \E f : f = Halving(items, S, i, f)
      BY HalvingExists
  <2> QED BY <2>1
<1>2. HalvedSize(items, S, i) = halved[n]
    BY DEF HalvedSize, Halving
<1>3. Halved(items, S, i) = With(halved[n])
    BY <1>2 DEF Halved
<1> HIDE DEF halved
<1>4. SUFFICES ASSUME Bad # {} PROVE FALSE
  <2>1. n \in 0..n
      OBVIOUS
  <2>2. Good(halved[n])
      BY <1>4, <2>1
  <2> QED BY <1>2, <1>3, <2>2
<1>5. PICK k \in Bad : \A l \in Bad : k <= l
  <2>1. Bad \in SUBSET Nat
      OBVIOUS
  <2> HIDE DEF Bad
  <2> QED BY <1>4, <2>1, LeastExists
<1>6. k \in 0..n /\ ~Good(halved[k])
    BY <1>5
<1> DEFINE half == k \div 2
<1>7. half \in 0..n /\ (half # 0 => ~(k <= half))
    BY <1>6
<1>8. halved[k] = IF half = 0 \/ Fits(With(Marked(half)), S) THEN Marked(half) ELSE halved[half]
  <2>1. \A f : Halving(items, S, i, f)[k]
               = IF half = 0 \/ Fits(With(Marked(half)), S) THEN Marked(half) ELSE f[half]
      BY <1>6 DEF Halving
  <2> QED BY <1>1, <2>1
<1> HIDE DEF half, With
<1>9. Mark \in Nat \ {0} /\ Marked(half) \in Nat \ {0} /\ (half = 0 => Marked(half) = Mark)
    BY <1>7, WindowAssumption DEF Marked
<1>10. CASE half = 0 \/ Fits(With(Marked(half)), S)
    BY <1>6, <1>8, <1>9, <1>10
<1>11. CASE ~(half = 0 \/ Fits(With(Marked(half)), S))
  <2>1. halved[k] = halved[half] /\ half \notin Bad
      BY <1>5, <1>7, <1>8, <1>11
  <2> QED BY <1>6, <1>7, <2>1
<1> QED BY <1>10, <1>11

-----------------------------------------------------------------------------
(* ContextWindow.fit keeps calls and results together, drops nothing       *)
(* needlessly, and gives up last.                                          *)

Fields == {"kind", "of", "size", "stub", "whole"}

(* An item and the least that a cut leaves of it: of a user message the    *)
(* mark.                                                                   *)
Shaped(item) ==
    /\ item = [field \in Fields |-> item[field]]
    /\ ItemOK(item)
    /\ item.stub \in Nat \ {0}
    /\ item.kind = "user" => item.stub = Mark

Paired(items) ==
    \A i \in DOMAIN items :
        /\ items[i].kind = "call" => Has(items, "result", items[i].of)
        /\ items[i].kind = "result" => Has(items, "call", items[i].of)

OneSummary(items) == \A i, j \in IndexesOf(items, "summary") : i = j

Talk(items) ==
    /\ Len(items) \in Nat /\ items = [i \in 1..Len(items) |-> items[i]]
    /\ \A i \in DOMAIN items : Shaped(items[i])
    /\ Paired(items)
    /\ OneSummary(items)

(* The same items, whatever was cut.                                       *)
Alike(items, others) ==
    /\ others = [i \in DOMAIN items |-> others[i]]
    /\ \A i \in DOMAIN items : /\ Shaped(others[i])
                               /\ others[i].kind = items[i].kind
                               /\ others[i].of = items[i].of
                               /\ others[i].stub = items[i].stub

LEMMA ItemIsShaped ==
    ASSUME NEW kind \in Kind, NEW of \in SUBSET Nat, NEW size \in Nat \ {0},
           NEW stub \in Nat \ {0}, kind = "user" => stub = Mark
    PROVE  /\ Shaped(Item(kind, of, size, stub))
           /\ Item(kind, of, size, stub).kind = kind
           /\ Item(kind, of, size, stub).of = of
BY DEF Item, Shaped, ItemOK, Fields

LEMMA CutKeepsItem ==
    ASSUME NEW item, Shaped(item), NEW size \in Nat \ {0}
    PROVE  /\ Shaped(Cut(item, size))
           /\ Cut(item, size).kind = item.kind
           /\ Cut(item, size).of = item.of
           /\ Cut(item, size).stub = item.stub
           /\ Cut(item, size).size = size
BY DEF Shaped, ItemOK, Cut, Fields

LEMMA AlikeIsTalk ==
    ASSUME NEW items, Talk(items), NEW others, Alike(items, others)
    PROVE  Talk(others) /\ DOMAIN others = DOMAIN items
<1>1. DOMAIN items = 1..Len(items) /\ Len(items) \in Nat
    BY DEF Talk
<1>2. DOMAIN others = DOMAIN items
    BY DEF Alike
<1>3. Len(others) = Len(items) /\ others = [i \in 1..Len(others) |-> others[i]]
    BY <1>1 DEF Alike
<1>4. \A i \in DOMAIN items : /\ others[i].kind = items[i].kind
                              /\ others[i].of = items[i].of
    BY DEF Alike
<1>5. Paired(others)
  <2>1. ASSUME NEW kind, NEW of, Has(items, kind, of) PROVE Has(others, kind, of)
      BY <1>2, <1>4, <2>1 DEF Has
  <2>2. Paired(items)
      BY DEF Talk
  <2> QED BY <1>2, <1>4, <2>1, <2>2 DEF Paired
<1>6. OneSummary(others)
    BY <1>2, <1>4 DEF Talk, OneSummary, IndexesOf
<1> QED BY <1>1, <1>2, <1>3, <1>5, <1>6 DEF Talk, Alike

LEMMA AlikeIsTransitive ==
    ASSUME NEW a, NEW b, NEW c, Alike(a, b), Alike(b, c)
    PROVE  Alike(a, c)
BY DEF Alike

LEMMA TruncatedIsAlike ==
    ASSUME NEW items, Talk(items)
    PROVE  Alike(items, [i \in DOMAIN items |-> TruncateResult(items[i])])
<1>1. ToolLimit \in Nat \ {0}
    BY WindowAssumption
<1>2. ASSUME NEW item, Shaped(item)
      PROVE  LET truncated == TruncateResult(item)
             IN  /\ Shaped(truncated) /\ truncated.kind = item.kind
                 /\ truncated.of = item.of /\ truncated.stub = item.stub
    BY <1>1, <1>2, CutKeepsItem DEF TruncateResult
<1> QED BY <1>2 DEF Alike, Talk

LEMMA HalvedIsAlike ==
    ASSUME NEW items, Talk(items), NEW S, NEW i \in DOMAIN items
    PROVE  Alike(items, Halved(items, S, i))
<1>1. Halved(items, S, i) = [items EXCEPT ![i] = Cut(items[i], HalvedSize(items, S, i))]
    BY DEF Halved
<1>2. Shaped(items[i])
    BY DEF Talk
<1>3. \A j \in DOMAIN items : Shaped(items[j])
    BY DEF Talk
<1>4. items = [j \in DOMAIN items |-> items[j]]
    BY DEF Talk
<1> DEFINE cut == Cut(items[i], HalvedSize(items, S, i))
<1>5. /\ Shaped(cut) /\ cut.kind = items[i].kind /\ cut.of = items[i].of
      /\ cut.stub = items[i].stub
  <2>1. HalvedSize(items, S, i) \in Nat \ {0}
      BY <1>2, HalvingEnds DEF Shaped, ItemOK
  <2> QED BY <1>2, <2>1, CutKeepsItem
<1> HIDE DEF cut
<1>6. Halved(items, S, i) = [items EXCEPT ![i] = cut]
    BY <1>1 DEF cut
<1>7. Halved(items, S, i) = [j \in DOMAIN items |-> IF j = i THEN cut ELSE items[j]]
    BY <1>4, <1>6
<1> QED BY <1>3, <1>5, <1>7 DEF Alike

LEMMA ShrunkIsAlike ==
    ASSUME NEW items, Talk(items)
    PROVE  Alike(items, ShrinkMandatory(items))
<1> DEFINE stubs == [i \in DOMAIN items |->
                       IF items[i].kind \in {"call", "result"}
                         THEN Cut(items[i], items[i].stub) ELSE items[i]]
           user == Latest(IndexesOf(items, "user"))
           one == CHOOSE i \in user : TRUE
<1>1. Alike(items, stubs)
  <2>1. \A i \in DOMAIN items : Shaped(items[i]) /\ items[i].stub \in Nat \ {0}
      BY DEF Talk, Shaped
  <2> QED BY <2>1, CutKeepsItem DEF Alike
<1>2. Talk(stubs) /\ DOMAIN stubs = DOMAIN items
    BY <1>1, AlikeIsTalk
<1>3. user \subseteq DOMAIN items
    BY DEF Latest, IndexesOf
<1>4. ASSUME user # {} PROVE Alike(items, Halved(stubs, DOMAIN stubs, one))
  <2>1. one \in DOMAIN stubs
      BY <1>2, <1>3, <1>4
  <2> HIDE DEF stubs, one, user
  <2>2. Alike(stubs, Halved(stubs, DOMAIN stubs, one))
      BY <1>2, <2>1, HalvedIsAlike
  <2> QED BY <1>1, <2>2, AlikeIsTransitive
<1> QED BY <1>1, <1>4 DEF ShrinkMandatory

(* Some of the items, every call among them with a result of it, every     *)
(* result with its call.                                                   *)
PairClosed(items, S) ==
    /\ S \subseteq DOMAIN items
    /\ \A i \in S :
         /\ items[i].kind = "call" =>
              \E j \in S : items[j].kind = "result" /\ items[j].of = items[i].of
         /\ items[i].kind = "result" =>
              \E j \in S : items[j].kind = "call" /\ items[j].of = items[i].of

LEMMA UnionIsClosed ==
    ASSUME NEW items, NEW S, PairClosed(items, S), NEW T, PairClosed(items, T)
    PROVE  PairClosed(items, S \cup T)
BY DEF PairClosed

LEMMA RelatedIsClosed ==
    ASSUME NEW items, Paired(items), NEW i \in DOMAIN items
    PROVE  PairClosed(items, Related(items, i))
<1>1. \A j \in DOMAIN items : j \in Related(items, i) <=>
         \/ j = i
         \/ /\ items[j].of = items[i].of
            /\ \/ items[i].kind = "call" /\ items[j].kind = "result"
               \/ items[i].kind = "result" /\ items[j].kind = "call"
    BY DEF Related
<1>2. Related(items, i) \subseteq DOMAIN items /\ i \in Related(items, i)
    BY DEF Related
<1>3. ASSUME items[i].kind = "call"
      PROVE  \E j \in Related(items, i) : items[j].kind = "result" /\ items[j].of = items[i].of
    BY <1>1, <1>3 DEF Paired, Has
<1>4. ASSUME items[i].kind = "result"
      PROVE  \E j \in Related(items, i) : items[j].kind = "call" /\ items[j].of = items[i].of
    BY <1>1, <1>4 DEF Paired, Has
<1> QED BY <1>1, <1>2, <1>3, <1>4 DEF PairClosed

LEMMA MandatoryIsClosed ==
    ASSUME NEW items, Paired(items)
    PROVE  PairClosed(items, Mandatory(items))
<1> DEFINE user == Latest(IndexesOf(items, "user"))
           result == Latest(IndexesOf(items, "result"))
<1>1. PairClosed(items, user)
    BY DEF PairClosed, Latest, IndexesOf
<1>2. result \subseteq DOMAIN items
    BY DEF Latest, IndexesOf
<1>3. \A i \in result : PairClosed(items, Related(items, i))
    BY <1>2, RelatedIsClosed
<1>4. PairClosed(items, UNION {Related(items, i) : i \in result})
    BY <1>3 DEF PairClosed
<1> QED BY <1>1, <1>4, UnionIsClosed DEF Mandatory

(* The recursion from the newest item to the oldest, which has a value.    *)
Selecting(items, selected, chosen) ==
    [i \in 1..(Len(items) + 1) |->
       IF i > Len(items)
         THEN selected
         ELSE IF i \notin chosen[i + 1] /\ Fits(items, chosen[i + 1] \cup Related(items, i))
                THEN chosen[i + 1] \cup Related(items, i)
                ELSE chosen[i + 1]]

LEMMA SelectionExists ==
    ASSUME NEW items, Len(items) \in Nat, NEW selected
    PROVE  \E chosen : chosen = Selecting(items, selected, chosen)
<1> DEFINE n == Len(items)
           Then(i, later) == IF i \notin later /\ Fits(items, later \cup Related(items, i))
                               THEN later \cup Related(items, i) ELSE later
           At(i, f) == IF i > n THEN selected ELSE Then(i, f[i + 1])
           Works(f, k) == \A i \in (n + 1 - k)..(n + 1) : f[i] = At(i, f)
           Bad == {k \in 0..n : ~ \E f : Works(f, k)}
<1> HIDE DEF Then
<1>1. SUFFICES Bad = {}
  <2>1. PICK f : Works(f, n)
      BY <1>1
  <2> DEFINE g == [i \in 1..(n + 1) |-> f[i]]
  <2>2. \A i \in 1..(n + 1) : g[i] = At(i, g)
      BY <2>1
  <2>3. g = [i \in 1..(n + 1) |-> At(i, g)]
      BY <2>2
  <2> HIDE DEF g
  <2> QED BY <2>3 DEF Then, Selecting
<1>2. SUFFICES ASSUME Bad # {} PROVE FALSE
    OBVIOUS
<1>3. PICK k \in Bad : \A l \in Bad : k <= l
  <2>1. Bad \in SUBSET Nat
      OBVIOUS
  <2> HIDE DEF Bad
  <2> QED BY <1>2, <2>1, LeastExists
<1>4. CASE k = 0
  <2> DEFINE f == [i \in {n + 1} |-> selected]
  <2>1. Works(f, 0)
      OBVIOUS
  <2> QED BY <1>4, <2>1
<1>5. CASE k # 0
  <2>1. k - 1 \in 0..n /\ k - 1 \notin Bad
    <3>1. k \in 0..n /\ \A l \in Bad : k <= l
        BY <1>3
    <3>2. k - 1 \in 0..n /\ ~(k <= k - 1)
        BY <1>5, <3>1
    <3> HIDE DEF Bad
    <3> QED BY <3>1, <3>2
  <2>2. PICK f : Works(f, k - 1)
      BY <2>1
  <2> DEFINE first == n + 1 - k
             g == [i \in 1..(n + 1) |-> IF i = first THEN Then(i, f[i + 1]) ELSE f[i]]
  <2>3. first \in 1..n
      BY <1>3, <1>5
  <2>4. g[first] = At(first, g)
      BY <2>3
  <2>5. \A i \in (first + 1)..(n + 1) : g[i] = At(i, g)
      BY <2>2, <2>3
  <2>6. Works(g, k)
    <3>1. \A i \in first..(n + 1) : i = first \/ i \in (first + 1)..(n + 1)
        BY <2>3
    <3> HIDE DEF g
    <3> QED BY <2>4, <2>5, <3>1
  <2> HIDE DEF g
  <2> QED BY <1>3, <2>6
<1> QED BY <1>4, <1>5

LEMMA SelectIsClosed ==
    ASSUME NEW items, Talk(items), NEW selected, PairClosed(items, selected)
    PROVE  PairClosed(items, Select(items, selected))
<1> DEFINE n == Len(items)
           chosen == CHOOSE f : f = Selecting(items, selected, f)
           Bad == {k \in 0..n : ~PairClosed(items, chosen[n + 1 - k])}
<1>1. n \in Nat /\ DOMAIN items = 1..n /\ Paired(items)
    BY DEF Talk
<1>2. chosen = Selecting(items, selected, chosen)
  <2>1. \E f : f = Selecting(items, selected, f)
      BY <1>1, SelectionExists
  <2> QED BY <2>1
<1>3. Select(items, selected) = chosen[1]
    BY DEF Select, Selecting
<1> HIDE DEF chosen
<1>4. chosen[n + 1] = selected
    BY <1>1, <1>2 DEF Selecting
<1>5. \A i \in 1..n : chosen[i] \in {chosen[i + 1], chosen[i + 1] \cup Related(items, i)}
  <2>1. \A f : \A i \in 1..n : Selecting(items, selected, f)[i] \in {f[i + 1], f[i + 1] \cup Related(items, i)}
      BY <1>1 DEF Selecting
  <2>2. \A i \in 1..n : chosen[i] = Selecting(items, selected, chosen)[i]
      BY <1>2
  <2> QED BY <2>1, <2>2
<1>6. SUFFICES ASSUME Bad # {} PROVE FALSE
  <2>1. n \in 0..n /\ n + 1 - n = 1
      BY <1>1
  <2> QED BY <1>3, <1>6, <2>1
<1>7. PICK k \in Bad : \A l \in Bad : k <= l
  <2>1. Bad \in SUBSET Nat
      BY <1>1
  <2> HIDE DEF Bad
  <2> QED BY <1>6, <2>1, LeastExists
<1>8. k \in 0..n /\ ~PairClosed(items, chosen[n + 1 - k])
    BY <1>7
<1>9. k # 0
    BY <1>1, <1>4, <1>8
<1>10. k - 1 \in 0..n /\ ~(k <= k - 1)
    BY <1>1, <1>8, <1>9
<1>11. PairClosed(items, chosen[n + 1 - (k - 1)])
    BY <1>7, <1>10
<1> DEFINE i == n + 1 - k
<1>12. i \in 1..n /\ n + 1 - (k - 1) = i + 1
    BY <1>1, <1>8, <1>9
<1> HIDE DEF i
<1>13. PairClosed(items, chosen[i + 1]) /\ PairClosed(items, Related(items, i))
    BY <1>1, <1>11, <1>12, RelatedIsClosed
<1>14. PairClosed(items, chosen[i])
    BY <1>5, <1>12, <1>13, UnionIsClosed
<1> QED BY <1>8, <1>14 DEF i

LEMMA ChosenIsTalk ==
    ASSUME NEW items, Talk(items), NEW S, PairClosed(items, S)
    PROVE  Talk(Chosen(items, S))
<1> DEFINE order == Ordered(S)
           chosen == Chosen(items, S)
<1>1. Len(items) \in Nat /\ S \in SUBSET (1..Len(items))
    BY DEF Talk, PairClosed
<1>2. /\ DOMAIN order = 1..Cardinality(S) /\ Cardinality(S) \in Nat
      /\ \A k \in DOMAIN order : order[k] \in S /\ Rank(S, order[k]) = k
      /\ \A x \in S : \E k \in DOMAIN order : order[k] = x
    BY <1>1, OrderedIsComplete
<1> HIDE DEF order
<1>3. chosen = [k \in DOMAIN order |-> items[order[k]]]
    BY DEF Chosen, order
<1> HIDE DEF chosen
<1>4. DOMAIN chosen = 1..Cardinality(S) /\ Len(chosen) = Cardinality(S)
    BY <1>2, <1>3
<1>5. chosen = [k \in 1..Len(chosen) |-> chosen[k]]
    BY <1>2, <1>3, <1>4
<1>6. \A k \in DOMAIN chosen : Shaped(chosen[k])
    BY <1>1, <1>2, <1>3 DEF Talk
<1>7. Paired(chosen)
  <2>1. ASSUME NEW k \in DOMAIN chosen, NEW kind, NEW j \in S,
               items[j].kind = kind, items[j].of = chosen[k].of
        PROVE  Has(chosen, kind, chosen[k].of)
      BY <1>2, <1>3, <2>1 DEF Has
  <2>2. \A k \in DOMAIN chosen : order[k] \in S /\ chosen[k] = items[order[k]]
      BY <1>2, <1>3
  <2> QED BY <2>1, <2>2 DEF Paired, PairClosed
<1>8. OneSummary(chosen)
  <2>1. \A k \in DOMAIN chosen : chosen[k] = items[order[k]] /\ order[k] \in DOMAIN items
      BY <1>2, <1>3 DEF PairClosed
  <2>2. \A k, l \in DOMAIN chosen : order[k] = order[l] => k = l
      BY <1>2, <1>3
  <2> QED BY <2>1, <2>2 DEF Talk, OneSummary, IndexesOf
<1>9. Talk(chosen)
    BY <1>2, <1>4, <1>5, <1>6, <1>7, <1>8 DEF Talk
<1> QED BY <1>9 DEF chosen

(* What is selected fits, unless nothing could be added to the start, and  *)
(* what is not selected did not fit beside what was selected before it.    *)
LEMMA SelectIsGreedy ==
    ASSUME NEW items, Talk(items), NEW selected \in SUBSET DOMAIN items
    PROVE  LET S == Select(items, selected)
           IN  /\ selected \subseteq S /\ S \subseteq DOMAIN items
               /\ S = selected \/ Fits(items, S)
               /\ \A i \in DOMAIN items \ S :
                    \E T \in SUBSET S : ~Fits(items, T \cup Related(items, i))
<1> DEFINE n == Len(items)
           chosen == CHOOSE f : f = Selecting(items, selected, f)
           Good(m, S) ==
             /\ selected \subseteq S /\ S \subseteq DOMAIN items
             /\ S = selected \/ Fits(items, S)
             /\ \A i \in m..n : i \in S \/ \E T \in SUBSET S : ~Fits(items, T \cup Related(items, i))
           Bad == {k \in 0..n : ~Good(n + 1 - k, chosen[n + 1 - k])}
<1>1. n \in Nat /\ DOMAIN items = 1..n
    BY DEF Talk
<1>2. chosen = Selecting(items, selected, chosen)
  <2>1. \E f : f = Selecting(items, selected, f)
      BY <1>1, SelectionExists
  <2> QED BY <2>1
<1>3. Select(items, selected) = chosen[1]
    BY DEF Select, Selecting
<1> HIDE DEF chosen
<1>4. chosen[n + 1] = selected
    BY <1>1, <1>2 DEF Selecting
<1>5. ASSUME NEW i \in 1..n
      PROVE  chosen[i] = IF i \notin chosen[i + 1] /\ Fits(items, chosen[i + 1] \cup Related(items, i))
                           THEN chosen[i + 1] \cup Related(items, i)
                           ELSE chosen[i + 1]
  <2>1. \A f : Selecting(items, selected, f)[i] =
                 IF i \notin f[i + 1] /\ Fits(items, f[i + 1] \cup Related(items, i))
                   THEN f[i + 1] \cup Related(items, i)
                   ELSE f[i + 1]
      BY <1>1 DEF Selecting
  <2> QED BY <1>2, <2>1
<1>6. SUFFICES ASSUME Bad # {} PROVE FALSE
  <2>1. n \in 0..n /\ n + 1 - n = 1
      BY <1>1
  <2>2. Good(1, chosen[1])
      BY <1>6, <2>1
  <2> HIDE DEF Bad
  <2> QED BY <1>1, <1>3, <2>2
<1>7. PICK k \in Bad : \A l \in Bad : k <= l
  <2>1. Bad \in SUBSET Nat
      BY <1>1
  <2> HIDE DEF Bad
  <2> QED BY <1>6, <2>1, LeastExists
<1>8. k \in 0..n /\ ~Good(n + 1 - k, chosen[n + 1 - k])
    BY <1>7
<1>9. k # 0
  <2>1. Good(n + 1, chosen[n + 1])
    <3>1. (n + 1)..n = {}
        BY <1>1
    <3> QED BY <1>4, <3>1
  <2>2. n + 1 - 0 = n + 1
      BY <1>1
  <2> HIDE DEF Good
  <2> QED BY <1>8, <2>1, <2>2
<1>10. k - 1 \in 0..n /\ ~(k <= k - 1)
    BY <1>1, <1>8, <1>9
<1> DEFINE i == n + 1 - k
           later == chosen[i + 1]
<1>11. i \in 1..n /\ n + 1 - (k - 1) = i + 1
    BY <1>1, <1>8, <1>9
<1>12. Good(i + 1, later)
  <2>1. Good(n + 1 - (k - 1), chosen[n + 1 - (k - 1)])
      BY <1>7, <1>10
  <2> HIDE DEF Good
  <2> QED BY <1>11, <2>1
<1> HIDE DEF i, later
<1>13. \A j \in i..n : j = i \/ j \in (i + 1)..n
    BY <1>1, <1>11
<1>14. Related(items, i) \subseteq DOMAIN items
    BY <1>1, <1>11 DEF Related
<1>15. Good(i, chosen[i])
  <2>1. CASE i \notin later /\ Fits(items, later \cup Related(items, i))
    <3>1. chosen[i] = later \cup Related(items, i) /\ i \in Related(items, i)
        BY <1>5, <1>11, <2>1 DEF later, Related
    <3> QED BY <1>12, <1>13, <1>14, <2>1, <3>1
  <2>2. CASE ~(i \notin later /\ Fits(items, later \cup Related(items, i)))
    <3>1. chosen[i] = later
        BY <1>5, <1>11, <2>2 DEF later
    <3>2. i \in later \/ \E T \in SUBSET later : ~Fits(items, T \cup Related(items, i))
        BY <2>2
    <3> QED BY <1>12, <1>13, <3>1, <3>2
  <2> QED BY <2>1, <2>2
<1> HIDE DEF Good
<1> QED BY <1>8, <1>15 DEF i

(* The sizes of a conversation, and of the same items cut.                 *)
LEMMA TalkHasSizes ==
    ASSUME NEW items, Talk(items), NEW S \in SUBSET DOMAIN items
    PROVE  /\ IsFiniteSet(S) /\ Sizes(items, S) /\ Tokens(items, S) \in Nat
           /\ Fits(items, S) <=> FixedTokens + Tokens(items, S) <= MaxInput
<1>1. IsFiniteSet(S)
  <2>1. DOMAIN items = 1..Len(items) /\ Len(items) \in Nat
      BY DEF Talk
  <2>2. IsFiniteSet(1..Len(items))
      BY <2>1, FS_Interval
  <2> QED BY <2>1, <2>2, FS_Subset
<1>2. Sizes(items, S)
    BY DEF Sizes, Talk, Shaped, ItemOK
<1> QED BY <1>1, <1>2, SumIsNat DEF Fits

LEMMA SameSums ==
    ASSUME NEW items, NEW S, IsFiniteSet(S), Sizes(items, S),
           NEW others, \A x \in S : others[x].size = items[x].size
    PROVE  Tokens(others, S) = Tokens(items, S)
<1>1. Sizes(others, S)
    BY DEF Sizes
<1>2. \A x \in S : items[x].size <= others[x].size /\ others[x].size <= items[x].size
    BY DEF Sizes
<1>3. Tokens(items, S) <= Tokens(others, S) /\ Tokens(others, S) <= Tokens(items, S)
    BY <1>1, <1>2, SumsCompare
<1> QED BY <1>1, <1>3, SumIsNat

(* Chosen items are as large as before they were put together.             *)
LEMMA ChosenHasSum ==
    ASSUME NEW items, Talk(items), NEW S \in SUBSET DOMAIN items
    PROVE  LET order == Ordered(S)
               chosen == Chosen(items, S)
           IN  /\ DOMAIN chosen = DOMAIN order /\ IsFiniteSet(DOMAIN order)
               /\ order \in [DOMAIN order -> S]
               /\ S = {order[k] : k \in DOMAIN order}
               /\ \A k, l \in DOMAIN order : order[k] = order[l] => k = l
               /\ \A k \in DOMAIN order : chosen[k] = items[order[k]]
               /\ Tokens(chosen, DOMAIN chosen) = Tokens(items, S)
<1> DEFINE order == Ordered(S)
           chosen == Chosen(items, S)
<1>1. Len(items) \in Nat /\ S \in SUBSET (1..Len(items))
    BY DEF Talk
<1>2. /\ DOMAIN order = 1..Cardinality(S) /\ Cardinality(S) \in Nat
      /\ order \in [1..Cardinality(S) -> S]
      /\ \A k \in DOMAIN order : order[k] \in S /\ Rank(S, order[k]) = k
      /\ \A x \in S : \E k \in DOMAIN order : order[k] = x
    BY <1>1, OrderedIsComplete
<1>3. order = [k \in DOMAIN order |-> order[k]] /\ DOMAIN chosen = DOMAIN order
      /\ \A k \in DOMAIN order : chosen[k] = items[order[k]]
  <2>1. order = [k \in DOMAIN order |-> order[k]]
      BY <1>2
  <2> HIDE DEF order
  <2>2. chosen = [k \in DOMAIN order |-> items[order[k]]]
      BY DEF Chosen, order
  <2> HIDE DEF chosen
  <2> QED BY <2>1, <2>2
<1> HIDE DEF order, chosen
<1>4. /\ order \in [DOMAIN order -> S] /\ S = {order[k] : k \in DOMAIN order}
      /\ \A k, l \in DOMAIN order : order[k] = order[l] => k = l
    BY <1>2, <1>3
<1>5. IsFiniteSet(DOMAIN order)
    BY <1>2, FS_Interval
<1>6. Sizes(chosen, DOMAIN order) /\ \A k \in DOMAIN order : items[order[k]].size = chosen[k].size
  <2>1. Sizes(items, S)
      BY TalkHasSizes
  <2> QED BY <1>3, <1>4, <2>1 DEF Sizes
<1>7. Tokens(items, S) = Tokens(chosen, DOMAIN order)
    BY <1>4, <1>5, <1>6, SumsMove
<1>8. Tokens(chosen, DOMAIN chosen) = Tokens(items, S)
    BY <1>3, <1>4, <1>7
<1> QED BY <1>3, <1>4, <1>5, <1>8 DEF order, chosen

(* What must be kept is the latest interaction, whatever was cut.          *)
LEMMA MandatoryIsInteraction ==
    ASSUME NEW items, Talk(items), NEW others, Alike(items, others)
    PROVE  Mandatory(others) = Interaction(items)
<1> DEFINE user == Latest(IndexesOf(items, "user"))
           result == Latest(IndexesOf(items, "result"))
           calls == {i \in IndexesOf(items, "call") : \E j \in result : items[i].of = items[j].of}
<1>1. /\ DOMAIN others = DOMAIN items
      /\ \A i \in DOMAIN items : others[i].kind = items[i].kind /\ others[i].of = items[i].of
    BY DEF Alike
<1>2. /\ Latest(IndexesOf(others, "user")) = user
      /\ Latest(IndexesOf(others, "result")) = result
  <2>1. \A kind : IndexesOf(others, kind) = IndexesOf(items, kind)
      BY <1>1 DEF IndexesOf
  <2> QED BY <2>1
<1>3. result \subseteq DOMAIN items /\ \A i \in result : items[i].kind = "result"
    BY DEF Latest, IndexesOf
<1> HIDE DEF user, result
<1>4. ASSUME NEW i \in result, NEW j
      PROVE  j \in Related(others, i) <=>
               \/ j = i
               \/ j \in IndexesOf(items, "call") /\ items[j].of = items[i].of
    BY <1>1, <1>3 DEF Related, IndexesOf
<1>5. UNION {Related(others, i) : i \in result} = result \cup calls
  <2>1. ASSUME NEW j
        PROVE  j \in UNION {Related(others, i) : i \in result} <=> j \in result \cup calls
    <3>1. j \in UNION {Related(others, i) : i \in result}
            <=> \E i \in result : j \in Related(others, i)
        OBVIOUS
    <3> QED BY <1>4, <3>1
  <2> HIDE DEF calls
  <2> QED BY <2>1
<1>6. Mandatory(others) = user \cup UNION {Related(others, i) : i \in result}
    BY <1>2 DEF Mandatory
<1>7. Interaction(items) = user \cup result \cup calls
    BY DEF Interaction, user, result
<1> HIDE DEF calls
<1> QED BY <1>5, <1>6, <1>7

LEMMA InteractionHasKinds ==
    ASSUME NEW items
    PROVE  /\ Interaction(items) \subseteq DOMAIN items
           /\ \A i \in Interaction(items) :
                /\ items[i].kind \in {"user", "call", "result"}
                /\ items[i].kind = "user" => i \in Latest(IndexesOf(items, "user"))
BY DEF Interaction, Latest, IndexesOf

(* The start of a selection: with the summary if there is room for it.     *)
LEMMA WithSummaryStarts ==
    ASSUME NEW items, Talk(items)
    PROVE  LET start == WithSummary(items)
               must == Mandatory(items)
               both == must \cup IndexesOf(items, "summary")
           IN  /\ Alike(items, start.items)
               /\ \A i \in DOMAIN items :
                    items[i].kind # "summary" => start.items[i] = items[i]
               /\ \/ start.selected = both /\ Fits(start.items, both)
                  \/ start.selected = must /\ ~Fits(items, both)
<1> DEFINE must == Mandatory(items)
           summary == IndexesOf(items, "summary")
           both == must \cup summary
           one == CHOOSE i \in summary : TRUE
           shrunk == IF summary = {} \/ Fits(items, both)
                       THEN items
                       ELSE Halved(items, both, one)
           start == WithSummary(items)
<1>1. start = [items |-> shrunk, selected |-> IF Fits(shrunk, both) THEN both ELSE must]
    BY DEF WithSummary
<1>2. Alike(items, items)
    BY DEF Alike, Talk
<1>3. summary # {} => one \in DOMAIN items /\ items[one].kind = "summary"
    BY DEF IndexesOf
<1>4. summary = {} => Fits(items, both) \/ must = both
    OBVIOUS
<1> HIDE DEF start, must, summary, one
<1>5. ASSUME ~(summary = {} \/ Fits(items, both))
      PROVE  /\ Alike(items, Halved(items, both, one))
             /\ \A i \in DOMAIN items :
                  items[i].kind # "summary" => Halved(items, both, one)[i] = items[i]
  <2>1. Alike(items, Halved(items, both, one))
      BY <1>3, <1>5, HalvedIsAlike
  <2>2. \A i \in DOMAIN items : i # one => Halved(items, both, one)[i] = items[i]
    <3>1. items = [i \in DOMAIN items |-> items[i]]
        BY DEF Talk
    <3>2. Halved(items, both, one) =
            [items EXCEPT ![one] = Cut(items[one], HalvedSize(items, both, one))]
        BY DEF Halved
    <3> HIDE DEF both
    <3> QED BY <3>1, <3>2
  <2> QED BY <1>3, <1>5, <2>1, <2>2
<1>6. /\ Alike(items, shrunk)
      /\ \A i \in DOMAIN items : items[i].kind # "summary" => shrunk[i] = items[i]
    BY <1>2, <1>5
<1>7. Fits(shrunk, both) \/ ~Fits(items, both)
    OBVIOUS
<1> HIDE DEF shrunk, both
<1> QED BY <1>1, <1>6, <1>7 DEF both, start, must, summary

(* The mandatory items, cut to stubs: they take at most what their stubs   *)
(* do, or the text of the user was cut until they fit.                     *)
LEMMA MandatoryShrinks ==
    ASSUME NEW items, Talk(items),
           FixedTokens + Tokens(Stubs(items), Mandatory(items)) <= MaxInput
    PROVE  Count(ShrinkMandatory(Chosen(items, Mandatory(items)))) <= MaxInput
<1> DEFINE must == Mandatory(items)
           order == Ordered(must)
           fitted == Chosen(items, must)
           all == DOMAIN fitted
           stubs == [k \in all |-> IF fitted[k].kind \in {"call", "result"}
                                     THEN Cut(fitted[k], fitted[k].stub)
                                     ELSE fitted[k]]
           user == Latest(IndexesOf(fitted, "user"))
           one == CHOOSE k \in user : TRUE
           result == ShrinkMandatory(fitted)
<1>1. /\ must \in SUBSET DOMAIN items /\ PairClosed(items, must)
      /\ \A i \in must : /\ items[i].kind \in {"user", "call", "result"}
                         /\ items[i].kind = "user" => i \in Latest(IndexesOf(items, "user"))
  <2>1. must = Interaction(items)
    <3>1. Alike(items, items)
        BY DEF Alike, Talk
    <3> QED BY <3>1, MandatoryIsInteraction
  <2>2. PairClosed(items, must)
      BY MandatoryIsClosed DEF Talk
  <2> QED BY <2>1, <2>2, InteractionHasKinds
<1> HIDE DEF must
<1>2. /\ all = DOMAIN order /\ IsFiniteSet(all)
      /\ order \in [all -> must]
      /\ must = {order[k] : k \in all}
      /\ \A k, l \in all : order[k] = order[l] => k = l
      /\ \A k \in all : fitted[k] = items[order[k]]
    BY <1>1, ChosenHasSum
<1>3. Talk(fitted)
    BY <1>1, ChosenIsTalk
<1> HIDE DEF order, fitted
<1>4. \A k, l \in all : fitted[k].kind = "user" /\ fitted[l].kind = "user" => k = l
  <2>1. \A i, j \in must : items[i].kind = "user" /\ items[j].kind = "user" => i = j
    <3>1. \A i, j \in Latest(IndexesOf(items, "user")) : i \in Nat /\ j \in Nat /\ i <= j /\ j <= i
      <4>1. DOMAIN items = 1..Len(items)
          BY DEF Talk
      <4> QED BY <4>1 DEF Latest, IndexesOf
    <3> QED BY <1>1, <3>1
  <2> QED BY <1>2, <2>1
<1>5. \A k \in all : /\ fitted[k].kind \in {"user", "call", "result"}
                     /\ Shaped(fitted[k]) /\ fitted[k].stub \in Nat \ {0}
    BY <1>1, <1>2, <1>3 DEF Talk, Shaped
<1>6. \/ Count(result) <= MaxInput
      \/ DOMAIN result = all /\ \A k \in all : result[k].size = fitted[k].stub
  <2>1. /\ DOMAIN stubs = all
        /\ \A k \in all : fitted[k].kind # "user" => stubs[k].size = fitted[k].stub
        /\ \A k \in all : stubs[k].size \in Nat
    <3>1. \A k \in all : Cut(fitted[k], fitted[k].stub).size = fitted[k].stub
        BY <1>5, CutKeepsItem
    <3>2. \A k \in all : fitted[k].size \in Nat
        BY <1>5 DEF Shaped, ItemOK
    <3> QED BY <1>5, <3>1, <3>2
  <2>2. result = IF Count(stubs) <= MaxInput \/ user = {}
                   THEN stubs ELSE Halved(stubs, DOMAIN stubs, one)
      BY DEF ShrinkMandatory
  <2> HIDE DEF stubs, result
  <2>3. CASE Count(stubs) <= MaxInput
      BY <2>2, <2>3
  <2>4. CASE ~(Count(stubs) <= MaxInput) /\ user = {}
    <3>1. ASSUME NEW k \in all, fitted[k].kind = "user" PROVE k \in user
      <4>1. k <= k
          BY <1>3 DEF Talk
      <4> QED BY <1>4, <3>1, <4>1 DEF Latest, IndexesOf
    <3>2. result = stubs
        BY <2>2, <2>4
    <3> HIDE DEF user, all
    <3> QED BY <2>1, <2>4, <3>1, <3>2
  <2>5. CASE ~(Count(stubs) <= MaxInput) /\ user # {}
    <3>1. one \in all /\ fitted[one].kind = "user" /\ one \in DOMAIN stubs
      <4>1. one \in user
          BY <2>5
      <4> QED BY <2>1, <4>1 DEF Latest, IndexesOf
    <3> HIDE DEF one, user, all
    <3>2. result = Halved(stubs, DOMAIN stubs, one)
        BY <2>2, <2>5
    <3>3. result = [stubs EXCEPT ![one] = Cut(stubs[one], HalvedSize(stubs, DOMAIN stubs, one))]
        BY <3>2 DEF Halved
    <3>4. /\ DOMAIN result = all
          /\ \A k \in all : k # one => result[k] = stubs[k]
          /\ result[one] = Cut(stubs[one], HalvedSize(stubs, DOMAIN stubs, one))
        BY <2>1, <3>1, <3>3
    <3>5. /\ HalvedSize(stubs, DOMAIN stubs, one) \in Nat \ {0}
          /\ HalvedSize(stubs, DOMAIN stubs, one) = Mark \/ Fits(result, DOMAIN stubs)
        BY <2>1, <3>1, <3>2, HalvingEnds
    <3>6. CASE Fits(result, DOMAIN stubs)
        BY <2>1, <3>4, <3>6 DEF Fits, Count
    <3>7. CASE HalvedSize(stubs, DOMAIN stubs, one) = Mark
      <4>1. stubs[one] = fitted[one]
          BY <3>1 DEF stubs, all
      <4>2. result[one].size = Mark /\ fitted[one].stub = Mark
        <5>1. result[one] = Cut(fitted[one], Mark)
            BY <3>4, <3>7, <4>1
        <5>2. Shaped(fitted[one])
            BY <1>5, <3>1
        <5>3. Mark \in Nat \ {0}
            BY WindowAssumption
        <5>4. Cut(fitted[one], Mark).size = Mark
            BY <5>2, <5>3, CutKeepsItem
        <5> QED BY <3>1, <5>1, <5>2, <5>4 DEF Shaped
      <4>3. \A k \in all : result[k].size = fitted[k].stub
          BY <1>4, <2>1, <3>1, <3>4, <4>2
      <4> QED BY <2>1, <3>4, <4>3
    <3> QED BY <3>5, <3>6, <3>7
  <2> QED BY <2>3, <2>4, <2>5
<1> HIDE DEF result, all, stubs, user, one
<1>7. SUFFICES ASSUME DOMAIN result = all, \A k \in all : result[k].size = fitted[k].stub
               PROVE  Count(result) <= MaxInput
    BY <1>6 DEF result, fitted, must
<1>8. \A k \in all : Stubs(items)[order[k]].size = result[k].size
  <2>1. \A i \in DOMAIN items : Stubs(items)[i].size = items[i].stub
    <3>1. \A i \in DOMAIN items : [items[i] EXCEPT !.size = items[i].stub].size = items[i].stub
        BY DEF Talk, Shaped, Fields
    <3> QED BY <3>1 DEF Stubs
  <2> QED BY <1>1, <1>2, <1>7, <2>1
<1>9. Sizes(result, all)
    BY <1>5, <1>7 DEF Sizes
<1>10. Tokens(Stubs(items), must) = Tokens(result, all)
    BY <1>2, <1>8, <1>9, SumsMove
<1> QED BY <1>7, <1>10 DEF Count, must

(* The steps of fit: the items with their results cut to the limit, the    *)
(* start, what is selected and what is put together.                       *)
LEMMA FitSelects ==
    ASSUME NEW items, Talk(items)
    PROVE  \E limited, kept, S :
             /\ Talk(limited) /\ Alike(items, limited)
             /\ \A T \in SUBSET DOMAIN items :
                  Tokens(limited, T) = Tokens(Limited(items), T)
             /\ Talk(kept) /\ Alike(limited, kept)
             /\ \A i \in DOMAIN items :
                  items[i].kind # "summary" => kept[i] = limited[i]
             /\ PairClosed(kept, S) /\ Interaction(items) \subseteq S
             /\ \A i \in DOMAIN items \ S :
                  \E T \in SUBSET S : ~Fits(kept, T \cup Related(kept, i))
             /\ \/ IndexesOf(items, "summary") \subseteq S
                \/ ~Fits(limited, Interaction(items) \cup IndexesOf(items, "summary"))
             /\ Fits(kept, S) \/ S = Interaction(items)
             /\ Fit(items) = IF Fits(kept, S) THEN Chosen(kept, S)
                                              ELSE ShrinkMandatory(Chosen(kept, S))
<1> DEFINE limited == [i \in DOMAIN items |-> TruncateResult(items[i])]
           must == Mandatory(limited)
           summary == IndexesOf(limited, "summary")
           both == must \cup summary
           start == WithSummary(limited)
           kept == start.items
           S == Select(kept, start.selected)
           fitted == Chosen(kept, S)
<1>1. Alike(items, limited) /\ Talk(limited) /\ DOMAIN limited = DOMAIN items
    BY TruncatedIsAlike, AlikeIsTalk
<1>2. ASSUME NEW T \in SUBSET DOMAIN items
      PROVE  Tokens(limited, T) = Tokens(Limited(items), T)
  <2>1. \A i \in DOMAIN items : Limited(items)[i].size = limited[i].size
    <3>1. ToolLimit \in Nat \ {0}
        BY WindowAssumption
    <3>2. ASSUME NEW i \in DOMAIN items, NEW size
          PROVE  /\ [items[i] EXCEPT !.size = size].size = size
                 /\ Cut(items[i], size).size = size
        BY DEF Talk, Shaped, Fields, Cut
    <3>3. ASSUME NEW i \in DOMAIN items
          PROVE  Limited(items)[i].size = limited[i].size
      <4>1. items[i].size \in Nat
          BY DEF Talk, Shaped, ItemOK
      <4>2. CASE items[i].kind = "result" /\ items[i].size > ToolLimit
        <5>1. Limited(items)[i] = [items[i] EXCEPT !.size = ToolLimit]
            BY <4>2 DEF Limited
        <5>2. limited[i] = Cut(items[i], ToolLimit)
            BY <4>2 DEF TruncateResult
        <5> QED BY <3>2, <5>1, <5>2
      <4>3. CASE ~(items[i].kind = "result" /\ items[i].size > ToolLimit)
        <5>1. Limited(items)[i] = [items[i] EXCEPT !.size = items[i].size]
            BY <4>3 DEF Limited
        <5>2. limited[i] = items[i]
            BY <4>3 DEF TruncateResult
        <5> QED BY <3>2, <5>1, <5>2
      <4> QED BY <4>2, <4>3
    <3> QED BY <3>3
  <2> HIDE DEF limited
  <2>2. IsFiniteSet(T) /\ Sizes(limited, T)
      BY <1>1, TalkHasSizes
  <2>3. \A i \in T : Limited(items)[i].size = limited[i].size
      BY <2>1
  <2>4. Tokens(Limited(items), T) = Tokens(limited, T)
      BY <2>2, <2>3, SameSums
  <2> QED BY <2>4
<1> HIDE DEF limited
<1>3. must = Interaction(items)
    BY <1>1, MandatoryIsInteraction
<1>4. summary = IndexesOf(items, "summary")
    BY <1>1 DEF Alike, IndexesOf
<1>5. /\ Alike(limited, kept)
      /\ \A i \in DOMAIN items : items[i].kind # "summary" => kept[i] = limited[i]
      /\ \/ start.selected = both /\ Fits(kept, both)
         \/ start.selected = must /\ ~Fits(limited, both)
  <2>1. \A i \in DOMAIN items : items[i].kind # "summary" => limited[i].kind # "summary"
      BY <1>1 DEF Alike
  <2>2. /\ Alike(limited, kept)
        /\ \A i \in DOMAIN limited : limited[i].kind # "summary" => kept[i] = limited[i]
        /\ \/ start.selected = both /\ Fits(kept, both)
           \/ start.selected = must /\ ~Fits(limited, both)
      BY <1>1, WithSummaryStarts
  <2> HIDE DEF start, must, summary
  <2> QED BY <1>1, <2>1, <2>2
<1>6. PairClosed(limited, must) /\ PairClosed(limited, both)
  <2>1. PairClosed(limited, must)
      BY <1>1, MandatoryIsClosed DEF Talk
  <2>2. PairClosed(limited, summary)
      BY DEF IndexesOf, PairClosed
  <2> HIDE DEF must, summary
  <2> QED BY <2>1, <2>2, UnionIsClosed
<1>7. Talk(kept) /\ DOMAIN kept = DOMAIN items /\ PairClosed(kept, start.selected)
  <2> HIDE DEF start, must, summary
  <2>1. Talk(kept) /\ DOMAIN kept = DOMAIN limited
      BY <1>1, <1>5, AlikeIsTalk
  <2>2. PairClosed(limited, start.selected)
      BY <1>5, <1>6
  <2> HIDE DEF kept
  <2>3. \A i \in DOMAIN limited : kept[i].kind = limited[i].kind /\ kept[i].of = limited[i].of
      BY <1>5 DEF Alike
  <2>4. PairClosed(kept, start.selected)
      BY <2>1, <2>2, <2>3 DEF PairClosed
  <2> QED BY <1>1, <2>1, <2>4
<1> HIDE DEF start, must, summary
<1>8. PairClosed(kept, S)
    BY <1>7, SelectIsClosed
<1>9. /\ start.selected \subseteq S /\ S \subseteq DOMAIN kept
      /\ S = start.selected \/ Fits(kept, S)
      /\ \A i \in DOMAIN kept \ S :
           \E T \in SUBSET S : ~Fits(kept, T \cup Related(kept, i))
  <2>1. start.selected \in SUBSET DOMAIN kept
      BY <1>7 DEF PairClosed
  <2> QED BY <1>7, <2>1, SelectIsGreedy
<1>10. Count(fitted) <= MaxInput <=> Fits(kept, S)
  <2>1. Tokens(fitted, DOMAIN fitted) = Tokens(kept, S)
      BY <1>7, <1>9, ChosenHasSum
  <2> QED BY <2>1 DEF Count, Fits
<1>11. Fit(items) = IF Count(fitted) <= MaxInput THEN fitted ELSE ShrinkMandatory(fitted)
    BY DEF Fit, limited, start
<1>12. must \subseteq S /\ (summary \subseteq S \/ ~Fits(limited, both))
    BY <1>5, <1>9
<1>13. Fits(kept, S) \/ S = must
    BY <1>5, <1>9
<1> HIDE DEF S
<1> WITNESS limited, kept, S
<1> QED BY <1>1, <1>2, <1>3, <1>4, <1>5, <1>7, <1>8, <1>9, <1>10, <1>11, <1>12, <1>13

(* fit: what is trimmed keeps its calls and results together.              *)
LEMMA FitKeepsPairs ==
    ASSUME NEW items, Talk(items)
    PROVE  Talk(Fit(items))
<1>1. PICK kept, S :
        /\ Talk(kept) /\ PairClosed(kept, S)
        /\ Fit(items) = IF Fits(kept, S) THEN Chosen(kept, S)
                                         ELSE ShrinkMandatory(Chosen(kept, S))
    BY FitSelects
<1>2. Talk(Chosen(kept, S))
    BY <1>1, ChosenIsTalk
<1>3. Talk(ShrinkMandatory(Chosen(kept, S)))
    BY <1>2, ShrunkIsAlike, AlikeIsTalk
<1> QED BY <1>1, <1>2, <1>3

(* What fit gives up on does not fit as stubs.                             *)
LEMMA FitIsLastResort ==
    ASSUME NEW items, Talk(items), LeastRequest(items) <= MaxInput
    PROVE  Count(Fit(items)) <= MaxInput
<1>1. PICK limited, kept, S :
        /\ Talk(limited) /\ Alike(items, limited)
        /\ Talk(kept) /\ Alike(limited, kept)
        /\ PairClosed(kept, S)
        /\ Fits(kept, S) \/ S = Interaction(items)
        /\ Fit(items) = IF Fits(kept, S) THEN Chosen(kept, S)
                                         ELSE ShrinkMandatory(Chosen(kept, S))
    BY FitSelects
<1>2. CASE Fits(kept, S)
  <2>1. S \in SUBSET DOMAIN kept
      BY <1>1 DEF PairClosed
  <2>2. Tokens(Chosen(kept, S), DOMAIN Chosen(kept, S)) = Tokens(kept, S)
      BY <1>1, <2>1, ChosenHasSum
  <2> QED BY <1>1, <1>2, <2>2 DEF Count, Fits
<1>3. CASE ~Fits(kept, S)
  <2>1. Alike(items, kept)
      BY <1>1, AlikeIsTransitive
  <2>2. Mandatory(kept) = Interaction(items)
      BY <2>1, MandatoryIsInteraction
  <2>3. DOMAIN kept = DOMAIN items /\ Interaction(items) \in SUBSET DOMAIN items
      BY <2>1, InteractionHasKinds DEF Alike
  <2>4. \A i \in DOMAIN items : /\ Stubs(items)[i].size = items[i].stub
                                /\ Stubs(kept)[i].size = items[i].stub
                                /\ items[i].stub \in Nat
    <3>1. ASSUME NEW i \in DOMAIN items
          PROVE  /\ Stubs(items)[i].size = items[i].stub
                 /\ Stubs(kept)[i].size = items[i].stub
                 /\ items[i].stub \in Nat
      <4>1. Shaped(items[i]) /\ Shaped(kept[i]) /\ kept[i].stub = items[i].stub
          BY <1>1, <2>1, <2>3 DEF Talk, Alike
      <4>2. [items[i] EXCEPT !.size = items[i].stub].size = items[i].stub
          BY <4>1 DEF Shaped, Fields
      <4>3. [kept[i] EXCEPT !.size = kept[i].stub].size = kept[i].stub
          BY <4>1 DEF Shaped, Fields
      <4>4. items[i].stub \in Nat
          BY <4>1 DEF Shaped
      <4>5. /\ Stubs(items)[i] = [items[i] EXCEPT !.size = items[i].stub]
            /\ Stubs(kept)[i] = [kept[i] EXCEPT !.size = kept[i].stub]
          BY <2>3 DEF Stubs
      <4> QED BY <4>1, <4>2, <4>3, <4>4, <4>5
    <3> QED BY <3>1
  <2>5. Tokens(Stubs(kept), Interaction(items)) = Tokens(Stubs(items), Interaction(items))
    <3>1. IsFiniteSet(Interaction(items))
        BY <2>3, TalkHasSizes
    <3>2. Sizes(Stubs(items), Interaction(items))
        BY <2>3, <2>4 DEF Sizes
    <3>3. \A i \in Interaction(items) : Stubs(kept)[i].size = Stubs(items)[i].size
        BY <2>3, <2>4
    <3> QED BY <3>1, <3>2, <3>3, SameSums
  <2>6. Count(ShrinkMandatory(Chosen(kept, Mandatory(kept)))) <= MaxInput
      BY <1>1, <2>2, <2>5, MandatoryShrinks DEF LeastRequest
  <2> QED BY <1>1, <1>3, <2>2, <2>6
<1> QED BY <1>2, <1>3

(* What fit drops does not fit.                                            *)
LEMMA FitIsMaximal ==
    ASSUME NEW items, Talk(items), InteractionFits(items)
    PROVE  NothingElseFits(items, Fit(items))
<1> DEFINE last == Interaction(items)
           summary == IndexesOf(items, "summary")
<1>1. PICK limited, kept, S :
        /\ Talk(limited) /\ Alike(items, limited)
        /\ \A T \in SUBSET DOMAIN items :
             Tokens(limited, T) = Tokens(Limited(items), T)
        /\ Talk(kept) /\ Alike(limited, kept)
        /\ \A i \in DOMAIN items :
             items[i].kind # "summary" => kept[i] = limited[i]
        /\ PairClosed(kept, S) /\ last \subseteq S
        /\ \A i \in DOMAIN items \ S :
             \E T \in SUBSET S : ~Fits(kept, T \cup Related(kept, i))
        /\ summary \subseteq S \/ ~Fits(limited, last \cup summary)
        /\ Fits(kept, S) \/ S = last
        /\ Fit(items) = IF Fits(kept, S) THEN Chosen(kept, S)
                                         ELSE ShrinkMandatory(Chosen(kept, S))
    BY FitSelects
<1>2. /\ DOMAIN limited = DOMAIN items /\ DOMAIN kept = DOMAIN items
      /\ \A i \in DOMAIN items : kept[i].kind = items[i].kind /\ kept[i].of = items[i].of
      /\ S \in SUBSET DOMAIN items
    BY <1>1 DEF Alike, PairClosed
<1>3. ASSUME NEW T \in SUBSET DOMAIN items
      PROVE  /\ IsFiniteSet(T) /\ Sizes(limited, T) /\ Sizes(kept, T)
             /\ Tokens(limited, T) \in Nat /\ Tokens(kept, T) \in Nat
             /\ Fits(limited, T) <=> FixedTokens + Tokens(limited, T) <= MaxInput
             /\ Fits(kept, T) <=> FixedTokens + Tokens(kept, T) <= MaxInput
    BY <1>1, <1>2, TalkHasSizes
<1>4. ASSUME NEW T \in SUBSET DOMAIN items, \A i \in T : items[i].kind # "summary"
      PROVE  Tokens(kept, T) = Tokens(limited, T)
    BY <1>1, <1>3, <1>4, SameSums
<1>5. last \in SUBSET DOMAIN items /\ \A i \in last : items[i].kind # "summary"
    BY InteractionHasKinds
<1>6. FixedTokens \in Nat /\ MaxInput \in Nat
    BY WindowAssumption
<1> HIDE DEF last, summary
<1>7. Fits(kept, S)
  <2>1. FixedTokens + Tokens(limited, last) <= MaxInput
      BY <1>1, <1>5 DEF InteractionFits, Fits, last
  <2> QED BY <1>1, <1>3, <1>4, <1>5, <2>1
<1>8. Fit(items) = Chosen(kept, S)
    BY <1>1, <1>7
<1>9. Count(Fit(items)) = FixedTokens + Tokens(kept, S)
    BY <1>1, <1>2, <1>8, ChosenHasSum DEF Count
<1>10. ASSUME NEW i \in S PROVE Has(Fit(items), items[i].kind, items[i].of)
  <2>1. PICK k \in DOMAIN Chosen(kept, S) : Chosen(kept, S)[k] = kept[i]
      BY <1>1, <1>2, ChosenHasSum
  <2> QED BY <1>2, <1>8, <2>1 DEF Has
<1>11. SUFFICES ASSUME NEW i \in DOMAIN items, ~Has(Fit(items), items[i].kind, items[i].of)
                PROVE  Count(Fit(items)) + Tokens(Limited(items), Missing(items, Fit(items), i)) > MaxInput
    BY DEF NothingElseFits
<1> DEFINE missing == Missing(items, Fit(items), i)
<1>12. /\ i \notin S /\ missing \in SUBSET DOMAIN items /\ i \in missing
       /\ Tokens(Limited(items), missing) = Tokens(limited, missing)
    BY <1>1, <1>10, <1>11 DEF Missing
<1>13. CASE items[i].kind # "summary"
  <2> DEFINE more == Related(kept, i) \ S
  <2>1. more \subseteq missing /\ \A j \in more : items[j].kind # "summary"
    <3>1. ASSUME NEW j \in more PROVE j \in missing /\ items[j].kind # "summary"
      <4>1. j \in DOMAIN items /\ j \notin S
          BY <1>2, <3>1 DEF Related
      <4>2. CASE j = i
          BY <1>12, <1>13, <4>2
      <4>3. CASE j # i
        <5>1. items[j].of = items[i].of /\ {items[i].kind, items[j].kind} = {"call", "result"}
            BY <1>2, <3>1, <4>1, <4>3 DEF Related
        <5>2. \/ items[i].kind = "call" /\ items[j].kind = "result"
              \/ items[i].kind = "result" /\ items[j].kind = "call"
            BY <5>1
        <5>3. ASSUME Has(Fit(items), items[j].kind, items[j].of) PROVE FALSE
          <6>1. PICK k \in S : kept[k].kind = items[j].kind /\ kept[k].of = items[j].of
              BY <1>1, <1>2, <1>8, <5>3, ChosenHasSum DEF Has
          <6>2. PICK l \in S : kept[l].kind = items[i].kind /\ kept[l].of = kept[k].of
              BY <1>1, <5>2, <6>1 DEF PairClosed
          <6> QED BY <1>2, <1>10, <1>11, <5>1, <6>1, <6>2
        <5> QED BY <4>1, <5>1, <5>2, <5>3 DEF Missing, Dict
      <4> QED BY <4>2, <4>3
    <3> QED BY <3>1
  <2>2. PICK T \in SUBSET S : ~Fits(kept, T \cup Related(kept, i))
      BY <1>1, <1>12
  <2>3. /\ T \cup Related(kept, i) \in SUBSET (S \cup more)
        /\ S \cup more \in SUBSET DOMAIN items /\ more \in SUBSET DOMAIN items
        /\ S \cap more = {}
      BY <1>2, <1>12, <2>1
  <2> HIDE DEF more, missing
  <2>4. Tokens(kept, T \cup Related(kept, i)) <= Tokens(kept, S \cup more)
      BY <1>3, <2>3, PartsAreSmaller
  <2>5. Tokens(kept, S \cup more) = Tokens(kept, S) + Tokens(kept, more)
      BY <1>2, <1>3, <2>3, SumsAdd
  <2>6. Tokens(kept, more) = Tokens(limited, more)
      BY <1>4, <2>1, <2>3
  <2>7. Tokens(limited, more) <= Tokens(limited, missing)
      BY <1>3, <1>12, <2>1, PartsAreSmaller
  <2>8. ~(FixedTokens + Tokens(kept, T \cup Related(kept, i)) <= MaxInput)
    <3>1. T \cup Related(kept, i) \in SUBSET DOMAIN items
        BY <2>3
    <3> QED BY <1>3, <2>2, <3>1
  <2>9. /\ Tokens(kept, T \cup Related(kept, i)) \in Nat
        /\ Tokens(kept, S) \in Nat /\ Tokens(kept, more) \in Nat
        /\ Tokens(limited, missing) \in Nat
      BY <1>2, <1>3, <1>12, <2>3
  <2> QED BY <1>6, <1>9, <1>12, <2>4, <2>5, <2>6, <2>7, <2>8, <2>9 DEF missing
<1>14. CASE items[i].kind = "summary"
  <2>1. summary = {i}
    <3>1. i \in summary /\ \A j \in summary : j = i
        BY <1>14 DEF Talk, OneSummary, summary, IndexesOf
    <3> QED BY <3>1
  <2>2. ~Fits(limited, last \cup {i})
      BY <1>1, <1>12, <2>1
  <2>3. /\ last \cup {i} \in SUBSET DOMAIN items /\ {i} \in SUBSET DOMAIN items
        /\ last \cap {i} = {} /\ {i} \in SUBSET missing
      BY <1>1, <1>5, <1>12
  <2> HIDE DEF missing
  <2>4. Tokens(limited, last \cup {i}) = Tokens(limited, last) + Tokens(limited, {i})
      BY <1>3, <1>5, <2>3, SumsAdd
  <2>5. Tokens(limited, last) <= Tokens(kept, S)
      BY <1>1, <1>2, <1>3, <1>4, <1>5, PartsAreSmaller
  <2>6. Tokens(limited, {i}) <= Tokens(limited, missing)
      BY <1>3, <1>12, <2>3, PartsAreSmaller
  <2>7. ~(FixedTokens + Tokens(limited, last \cup {i}) <= MaxInput)
      BY <1>3, <2>2, <2>3
  <2>8. /\ Tokens(limited, last) \in Nat /\ Tokens(limited, {i}) \in Nat
        /\ Tokens(kept, S) \in Nat /\ Tokens(limited, missing) \in Nat
      BY <1>2, <1>3, <1>5, <1>12, <2>3
  <2> QED BY <1>6, <1>9, <1>12, <2>4, <2>5, <2>6, <2>7, <2>8 DEF missing
<1> QED BY <1>13, <1>14

-----------------------------------------------------------------------------
(* Items that are put one after another.                                   *)

LEMMA LengthsAdd ==
    ASSUME NEW S, NEW a \in Seq(S), NEW b \in Seq(S)
    PROVE  Len(a \o b) = Len(a) + Len(b)
OBVIOUS

LEMMA JoinIsFunction ==
    ASSUME NEW S, NEW a \in Seq(S), NEW b \in Seq(S)
    PROVE  a \o b = [i \in 1..(Len(a) + Len(b)) |-> (a \o b)[i]]
<1> DEFINE c == a \o b
<1>1. c \in Seq(S)
    OBVIOUS
<1>2. Len(c) = Len(a) + Len(b)
    BY LengthsAdd
<1> HIDE DEF c
<1>3. c = [i \in 1..Len(c) |-> c[i]]
    BY <1>1
<1> QED BY <1>2, <1>3 DEF c

LEMMA ElementsJoin ==
    ASSUME NEW S, NEW a \in Seq(S), NEW b \in Seq(S)
    PROVE  /\ \A i \in 1..Len(a) : (a \o b)[i] = a[i]
           /\ \A i \in 1..Len(b) : (a \o b)[Len(a) + i] = b[i]
OBVIOUS

LEMMA SequencesJoin ==
    ASSUME NEW a, Len(a) \in Nat, a = [i \in 1..Len(a) |-> a[i]],
           NEW b, Len(b) \in Nat, b = [i \in 1..Len(b) |-> b[i]]
    PROVE  /\ Len(a \o b) = Len(a) + Len(b)
           /\ a \o b = [i \in 1..(Len(a) + Len(b)) |->
                          IF i <= Len(a) THEN a[i] ELSE b[i - Len(a)]]
<1> DEFINE S == {a[i] : i \in 1..Len(a)} \cup {b[i] : i \in 1..Len(b)}
<1>1. a \in Seq(S) /\ b \in Seq(S)
  <2>1. a \in [1..Len(a) -> S] /\ b \in [1..Len(b) -> S]
      OBVIOUS
  <2> QED BY <2>1
<1> HIDE DEF S
<1>2. /\ Len(a \o b) = Len(a) + Len(b)
      /\ a \o b = [i \in 1..(Len(a) + Len(b)) |-> (a \o b)[i]]
    BY <1>1, LengthsAdd, JoinIsFunction
<1>3. /\ \A i \in 1..Len(a) : (a \o b)[i] = a[i]
      /\ \A i \in 1..Len(b) : (a \o b)[Len(a) + i] = b[i]
    BY <1>1, ElementsJoin
<1> DEFINE c == a \o b
<1> HIDE DEF c
<1>4. ASSUME NEW i \in 1..(Len(a) + Len(b))
      PROVE  c[i] = IF i <= Len(a) THEN a[i] ELSE b[i - Len(a)]
  <2>1. i <= Len(a) => i \in 1..Len(a)
      OBVIOUS
  <2>2. ~(i <= Len(a)) => i - Len(a) \in 1..Len(b) /\ i = Len(a) + (i - Len(a))
      OBVIOUS
  <2> QED BY <1>3, <2>1, <2>2 DEF c
<1> QED BY <1>2, <1>4 DEF c

(* Rows become items that need no partner.                                 *)
LEMMA VerbatimIsTalk ==
    ASSUME NEW rows \in Seq(Row), NEW ids \in SUBSET (1..Len(rows))
    PROVE  /\ Talk(Verbatim(rows, ids))
           /\ \A i \in DOMAIN Verbatim(rows, ids) :
                Verbatim(rows, ids)[i].kind \in {"user", "assistant"}
           /\ ids \subseteq Represented(Verbatim(rows, ids))
<1> DEFINE order == Ordered(ids)
           items == Verbatim(rows, ids)
<1>1. Len(rows) \in Nat
    OBVIOUS
<1>2. /\ DOMAIN order = 1..Cardinality(ids) /\ Cardinality(ids) \in Nat
      /\ \A k \in DOMAIN order : order[k] \in ids
      /\ \A x \in ids : \E k \in DOMAIN order : order[k] = x
    BY <1>1, OrderedIsComplete
<1> HIDE DEF order
<1>3. items = [k \in DOMAIN order |->
                 Item(rows[order[k]].role, {order[k]}, rows[order[k]].size, Mark)]
    BY DEF Verbatim, order
<1> HIDE DEF items
<1>4. \A k \in DOMAIN order : /\ rows[order[k]].role \in {"user", "assistant"}
                             /\ rows[order[k]].size \in Nat \ {0}
  <2>1. \A id \in 1..Len(rows) : rows[id] \in Row
      OBVIOUS
  <2> QED BY <1>2, <2>1 DEF Row
<1>5. \A k \in DOMAIN items : /\ Shaped(items[k])
                            /\ items[k].kind \in {"user", "assistant"}
                            /\ items[k].of = {order[k]}
  <2>1. Mark \in Nat \ {0} /\ {"user", "assistant"} \subseteq Kind
      BY WindowAssumption DEF Kind, Dict
  <2>2. \A k \in DOMAIN order : {order[k]} \in SUBSET Nat
    <3>1. ids \subseteq Nat
        BY <1>1
    <3> QED BY <1>2, <3>1
  <2> QED BY <1>3, <1>4, <2>1, <2>2, ItemIsShaped
<1>6. /\ DOMAIN items = DOMAIN order
      /\ Len(items) \in Nat /\ items = [i \in 1..Len(items) |-> items[i]]
    BY <1>2, <1>3
<1>7. Talk(items)
    BY <1>5, <1>6 DEF Talk, Paired, OneSummary, IndexesOf
<1>8. ids \subseteq Represented(items)
  <2>1. ASSUME NEW x \in ids PROVE x \in Represented(items)
    <3>1. PICK k \in DOMAIN items : order[k] = x
        BY <1>2, <1>6
    <3>2. x \in items[k].of /\ items[k].kind \in Dict
        BY <1>5, <3>1 DEF Dict
    <3> QED BY <3>2 DEF Represented
  <2> QED BY <2>1
<1> QED BY <1>5, <1>7, <1>8 DEF items

LEMMA EmptyIsTalk == Talk(<<>>)
BY DEF Talk, Paired, OneSummary, IndexesOf

(* A summary before the rows, and calls with their results after them.     *)
LEMMA SummaryFirstIsTalk ==
    ASSUME NEW items, Talk(items), \A i \in DOMAIN items : items[i].kind # "summary",
           NEW text \in SUBSET Nat,
           NEW size \in Nat \ {0}, NEW stub \in Nat \ {0}
    PROVE  LET all == <<Item("summary", text, size, stub)>> \o items
           IN  /\ Talk(all)
               /\ text \cup Represented(items) \subseteq Represented(all)
<1> DEFINE first == <<Item("summary", text, size, stub)>>
           all == first \o items
<1>1. /\ Len(first) = 1 /\ first = [i \in 1..1 |-> first[i]]
      /\ Shaped(first[1]) /\ first[1].kind = "summary" /\ first[1].of = text
  <2>1. "summary" \in Kind /\ "summary" # "user"
      BY DEF Kind, Dict
  <2> QED BY <2>1, ItemIsShaped
<1> HIDE DEF first
<1>2. Len(items) \in Nat /\ items = [i \in 1..Len(items) |-> items[i]]
    BY DEF Talk
<1>3. /\ Len(all) = 1 + Len(items)
      /\ all = [i \in 1..(1 + Len(items)) |-> IF i <= 1 THEN first[i] ELSE items[i - 1]]
    BY <1>1, <1>2, SequencesJoin
<1> HIDE DEF all
<1>4. /\ DOMAIN all = 1..(1 + Len(items)) /\ DOMAIN items = 1..Len(items)
      /\ all[1] = first[1]
      /\ \A i \in 1..Len(items) : i + 1 \in DOMAIN all /\ all[i + 1] = items[i]
      /\ \A i \in DOMAIN all : i = 1 \/ (i - 1 \in DOMAIN items /\ all[i] = items[i - 1])
    BY <1>2, <1>3
<1>5. Paired(all)
  <2>1. ASSUME NEW kind, NEW of, Has(items, kind, of) PROVE Has(all, kind, of)
      BY <1>4, <2>1 DEF Has
  <2> QED BY <1>1, <1>4, <2>1 DEF Paired, Talk
<1>6. OneSummary(all)
    BY <1>4 DEF OneSummary, IndexesOf
<1>7. Talk(all)
    BY <1>1, <1>2, <1>3, <1>4, <1>5, <1>6 DEF Talk
<1>8. text \cup Represented(items) \subseteq Represented(all)
  <2>1. ASSUME NEW x \in text PROVE x \in Represented(all)
    <3>1. 1 \in DOMAIN all /\ all[1].of = text /\ all[1].kind \in Dict
        BY <1>1, <1>2, <1>4 DEF Dict
    <3> QED BY <3>1 DEF Represented
  <2>2. ASSUME NEW x \in Represented(items) PROVE x \in Represented(all)
    <3>1. PICK i \in DOMAIN items : items[i].kind \in Dict /\ x \in items[i].of
        BY DEF Represented
    <3> QED BY <1>4, <3>1 DEF Represented
  <2> QED BY <2>1, <2>2
<1> QED BY <1>7, <1>8 DEF all, first

LEMMA CallsAndResultsAreTalk ==
    ASSUME NEW items, Talk(items), NEW n \in Nat,
           NEW calls, NEW results,
           calls = [i \in 1..n |-> calls[i]], results = [i \in 1..n |-> results[i]],
           \A i \in 1..n : /\ Shaped(calls[i]) /\ Shaped(results[i])
                           /\ calls[i].kind = "call" /\ results[i].kind = "result"
                           /\ calls[i].of = results[i].of
    PROVE  Talk(items \o calls \o results)
<1> DEFINE k == Len(items)
           all == items \o calls \o results
<1>1. k \in Nat /\ items = [i \in 1..k |-> items[i]] /\ DOMAIN items = 1..k
    BY DEF Talk
<1>2. Len(calls) = n /\ Len(results) = n
    OBVIOUS
<1>3. /\ Len(items \o calls) = k + n
      /\ items \o calls = [i \in 1..(k + n) |-> IF i <= k THEN items[i] ELSE calls[i - k]]
    BY <1>1, <1>2, SequencesJoin
<1>4. /\ Len(all) = k + n + n
      /\ all = [i \in 1..(k + n + n) |->
                  IF i <= k + n THEN (items \o calls)[i] ELSE results[i - (k + n)]]
  <2> DEFINE c == items \o calls
  <2>1. Len(c) = k + n /\ Len(c) \in Nat /\ c = [i \in 1..Len(c) |-> c[i]]
      BY <1>1, <1>3
  <2> HIDE DEF c
  <2>2. /\ Len(c \o results) = Len(c) + Len(results)
        /\ c \o results = [i \in 1..(Len(c) + Len(results)) |->
                             IF i <= Len(c) THEN c[i] ELSE results[i - Len(c)]]
      BY <1>2, <2>1, SequencesJoin
  <2> QED BY <1>2, <2>1, <2>2 DEF c
<1> HIDE DEF all
<1>5. /\ DOMAIN all = 1..(k + n + n)
      /\ \A i \in 1..k : i \in DOMAIN all /\ all[i] = items[i]
      /\ \A i \in 1..n : k + i \in DOMAIN all /\ all[k + i] = calls[i]
      /\ \A i \in 1..n : k + n + i \in DOMAIN all /\ all[k + n + i] = results[i]
    BY <1>1, <1>3, <1>4
<1>6. \A i \in DOMAIN all : \/ i \in 1..k
                            \/ \E j \in 1..n : i = k + j
                            \/ \E j \in 1..n : i = k + n + j
  <2>1. \A i \in DOMAIN all : i \in 1..k \/ i - k \in 1..n \/ i - (k + n) \in 1..n
      BY <1>1, <1>5
  <2>2. \A i \in DOMAIN all : i = k + (i - k) /\ i = k + n + (i - (k + n))
      BY <1>1, <1>5
  <2> QED BY <2>1, <2>2
<1>7. Paired(all)
  <2>1. ASSUME NEW kind, NEW of, Has(items, kind, of) PROVE Has(all, kind, of)
      BY <1>1, <1>5, <2>1 DEF Has
  <2>2. \A i \in 1..k : /\ all[i].kind = "call" => Has(all, "result", all[i].of)
                        /\ all[i].kind = "result" => Has(all, "call", all[i].of)
      BY <1>1, <1>5, <2>1 DEF Talk, Paired
  <2>3. \A j \in 1..n : /\ all[k + j].kind = "call" /\ Has(all, "result", all[k + j].of)
                        /\ all[k + n + j].kind = "result" /\ Has(all, "call", all[k + n + j].of)
      BY <1>5 DEF Has
  <2> QED BY <1>6, <2>2, <2>3 DEF Paired
<1>8. \A i \in DOMAIN all : Shaped(all[i])
    BY <1>1, <1>5, <1>6 DEF Talk
<1>9. OneSummary(all)
    BY <1>1, <1>5, <1>6 DEF Talk, OneSummary, IndexesOf
<1>10. Len(all) \in Nat /\ all = [i \in 1..Len(all) |-> all[i]]
  <2>1. Len(all) \in Nat
      BY <1>1, <1>4
  <2>2. all = [i \in 1..(k + n + n) |-> all[i]]
      BY <1>4
  <2> QED BY <1>4, <2>1, <2>2
<1>11. Talk(all)
    BY <1>7, <1>8, <1>9, <1>10 DEF Talk
<1> QED BY <1>11 DEF all

-----------------------------------------------------------------------------
(* The conversations and the checkpoints of runs.                          *)

(* Every summary tells of something.                                       *)
SummariesSpeak ==
    /\ \A row \in summaries : row.content # {}
    /\ \A r \in Run : seen[r].summary # NoSummary => seen[r].summary.content # {}

(* A run writes one message of each role, and its answer at its end.       *)
RowsAreSingle ==
    /\ \A id, other \in DOMAIN messages :
         messages[id].run = messages[other].run /\ messages[id].role = messages[other].role
           => id = other
    /\ \A id \in DOMAIN messages :
         messages[id].role = "assistant" => pc[messages[id].run] \in {"answering", "completed"}

CountersOK == /\ turns \in 0..scene.turns /\ crashes \in 0..scene.crashes
              /\ lost \subseteq Run

TalksArePaired ==
    /\ conv = [r \in Run |-> conv[r]]
    /\ checkpoint = [r \in Run |-> checkpoint[r]]
    /\ \A r \in Run : Talk(conv[r]) /\ Talk(checkpoint[r])

ConversationInv ==
    /\ SummariesSpeak
    /\ RowsAreSingle
    /\ CountersOK
    /\ TalksArePaired

LEMMA BoundsAreNat ==
    ASSUME HistoryInv
    PROVE  scene.turns \in Nat /\ scene.crashes \in Nat
BY HistoryAssumption DEF HistoryInv, TablesTypeOK, Scene

LEMMA CountersAreNat ==
    ASSUME HistoryInv, CountersOK
    PROVE  turns \in Nat /\ crashes \in Nat
BY BoundsAreNat DEF CountersOK

LEMMA PutKeepsTalks ==
    ASSUME TalksArePaired, NEW r \in Run,
           NEW said, Talk(said), NEW saved, Talk(saved),
           conv' = [conv EXCEPT ![r] = said],
           checkpoint' = [checkpoint EXCEPT ![r] = saved]
    PROVE  TalksArePaired'
<1>1. /\ conv = [q \in Run |-> conv[q]] /\ checkpoint = [q \in Run |-> checkpoint[q]]
      /\ \A q \in Run : Talk(conv[q]) /\ Talk(checkpoint[q])
    BY DEF TalksArePaired
<1>2. /\ conv' = [q \in Run |-> IF q = r THEN said ELSE conv[q]]
      /\ checkpoint' = [q \in Run |-> IF q = r THEN saved ELSE checkpoint[q]]
    BY <1>1
<1>3. \A q \in Run : Talk(conv'[q]) /\ Talk(checkpoint'[q])
    BY <1>1, <1>2
<1>4. conv' = [q \in Run |-> conv'[q]] /\ checkpoint' = [q \in Run |-> checkpoint'[q]]
    BY <1>2
<1> QED BY <1>3, <1>4 DEF TalksArePaired

LEMMA KeptTalks ==
    ASSUME TalksArePaired, NEW r \in Run
    PROVE  /\ conv = [conv EXCEPT ![r] = conv[r]] /\ Talk(conv[r])
           /\ checkpoint = [checkpoint EXCEPT ![r] = checkpoint[r]] /\ Talk(checkpoint[r])
BY DEF TalksArePaired

LEMMA SameTalks ==
    ASSUME TalksArePaired, UNCHANGED <<conv, checkpoint>>
    PROVE  TalksArePaired'
BY DEF TalksArePaired

LEMMA StartKeepsTalks ==
    ASSUME HistoryInv, HistoryInv', TalksArePaired, NEW r \in Run, Start(r)
    PROVE  TalksArePaired'
<1>1. ASSUME NEW rows \in Seq(Row), NEW ids \in SUBSET DOMAIN rows,
             FirstCheckpoint(r, rows, ids), conv' = conv
      PROVE  TalksArePaired'
  <2>1. LastRows(ids, Keep) \in SUBSET (1..Len(rows))
      BY <1>1 DEF LastRows
  <2> DEFINE first == Verbatim(rows, LastRows(ids, Keep))
  <2>2. Talk(first)
      BY <2>1, VerbatimIsTalk
  <2>3. checkpoint' = [checkpoint EXCEPT ![r] = first]
      BY <1>1 DEF FirstCheckpoint
  <2> HIDE DEF first
  <2>4. conv' = [conv EXCEPT ![r] = conv[r]] /\ Talk(conv[r])
      BY <1>1, KeptTalks
  <2> QED BY <2>2, <2>3, <2>4, PutKeepsTalks
<1>2. CASE BeginInbound(r)
    BY <1>2, SameTalks DEF BeginInbound, loop
<1>3. CASE CommitInbound(r)
  <2>1. messages \in Seq(Row) /\ visible \cup Own(r) \in SUBSET DOMAIN messages
      BY DEF HistoryInv, TablesTypeOK, Own
  <2> QED BY <1>1, <1>3, <2>1 DEF CommitInbound
<1>4. CASE StartInbound(r)
  <2>1. messages' \in Seq(Row) /\ visible' \in SUBSET DOMAIN messages'
      BY DEF HistoryInv, TablesTypeOK
  <2>2. visible' = visible \cup {Len(messages) + 1}
      BY <1>4 DEF StartInbound, Show
  <2> QED BY <1>1, <1>4, <2>1, <2>2 DEF StartInbound
<1> QED BY <1>2, <1>3, <1>4 DEF Start

(* A text that tells of something is not empty.                            *)
LEMMA TextHasSize ==
    ASSUME HistoryInv, NEW text \in SUBSET (1..Len(messages)), text # {}
    PROVE  SumOf(text) \in Nat \ {0}
<1>1. \A id \in text : messages[id].size \in Nat \ {0}
  <2>1. messages \in Seq(Row)
      BY DEF HistoryInv, TablesTypeOK
  <2>2. \A id \in 1..Len(messages) : messages[id] \in Row
      BY <2>1
  <2> QED BY <2>2 DEF Row
<1>2. IsFiniteSet(text)
  <2>1. Len(messages) \in Nat
      BY TablesHaveType DEF HistoryInv
  <2>2. IsFiniteSet(1..Len(messages))
      BY <2>1, FS_Interval
  <2> QED BY <2>2, FS_Subset
<1>3. Tokens(messages, text) \in Nat \ {0}
    BY <1>1, <1>2, SumIsPositive
<1> QED BY <1>3 DEF SumOf, Tokens

(* What a build puts together.                                             *)
Context(r) ==
    IF seen[r].summary = NoSummary
      THEN Verbatim(messages, Rows(r))
      ELSE <<Item("summary", seen[r].summary.content, SumOf(seen[r].summary.content), Mark)>>
             \o Verbatim(messages, Rows(r))

LEMMA ContextIsTalk ==
    ASSUME HistoryInv, SummariesSpeak, NEW r \in Run
    PROVE  /\ Talk(Context(r))
           /\ seen[r].summary.content \cup Rows(r) \subseteq Represented(Context(r))
<1> DEFINE text == seen[r].summary.content
           rest == Verbatim(messages, Rows(r))
<1>1. Rows(r) \in SUBSET (1..Len(messages)) /\ messages \in Seq(Row)
    BY TablesHaveType DEF Rows, MessagesAfter, HistoryInv, TablesTypeOK
<1>2. /\ Talk(rest) /\ Rows(r) \subseteq Represented(rest)
      /\ \A i \in DOMAIN rest : rest[i].kind # "summary"
    BY <1>1, VerbatimIsTalk
<1> HIDE DEF rest
<1>3. CASE seen[r].summary = NoSummary
  <2>1. Context(r) = rest /\ text = {}
      BY <1>3 DEF Context, rest, NoSummary
  <2> QED BY <1>2, <2>1
<1>4. CASE seen[r].summary # NoSummary
  <2>1. Context(r) = <<Item("summary", text, SumOf(text), Mark)>> \o rest
      BY <1>4 DEF Context, rest
  <2>3. text # {} /\ text \in SUBSET (1..Len(messages))
    <3>1. /\ seen[r].summary.through \in Nat /\ Len(messages) \in Nat
          /\ seen[r].summary.through <= Len(messages)
          /\ text \subseteq 1..seen[r].summary.through
        BY SeenHasType, TablesHaveType
           DEF HistoryInv, SummariesAreTrue, TrueSummary, Tables
    <3> QED BY <1>4, <3>1 DEF SummariesSpeak
  <2> HIDE DEF text
  <2>4. SumOf(text) \in Nat \ {0} /\ Mark \in Nat \ {0} /\ text \in SUBSET Nat
      BY <2>3, TextHasSize, WindowAssumption
  <2>2. LET all == <<Item("summary", text, SumOf(text), Mark)>> \o rest
        IN  Talk(all) /\ text \cup Represented(rest) \subseteq Represented(all)
      BY <1>2, <2>4, SummaryFirstIsTalk
  <2> QED BY <1>2, <2>1, <2>2 DEF text
<1> QED BY <1>3, <1>4

LEMMA BuiltPutsContext ==
    ASSUME NEW r \in Run, NEW from, Built(r, from)
    PROVE  \/ /\ conv' = [conv EXCEPT ![r] = Context(r)]
              /\ checkpoint' = [checkpoint EXCEPT ![r] = Context(r)]
           \/ /\ pc' = [pc EXCEPT ![r] = "raised"]
              /\ UNCHANGED <<conv, checkpoint>>
BY DEF Built, Context, Move

LEMMA BuildKeepsTalks ==
    ASSUME HistoryInv, SummariesSpeak, TalksArePaired, NEW r \in Run, Build(r)
    PROVE  TalksArePaired'
<1>1. CASE ReadSummary(r) \/ ReadOld(r) \/ SaveSummary(r)
    BY <1>1, SameTalks DEF ReadSummary, ReadOld, SaveSummary, loop
<1>2. ASSUME NEW from, Built(r, from) PROVE TalksArePaired'
  <2>1. \/ /\ conv' = [conv EXCEPT ![r] = Context(r)]
           /\ checkpoint' = [checkpoint EXCEPT ![r] = Context(r)]
        \/ UNCHANGED <<conv, checkpoint>>
      BY <1>2, BuiltPutsContext
  <2> QED BY <2>1, ContextIsTalk, PutKeepsTalks, SameTalks
<1>3. CASE BuildOrCompact(r)
    BY <1>2, <1>3, SameTalks DEF BuildOrCompact
<1>4. CASE BuildAfterCompact(r)
    BY <1>2, <1>4 DEF BuildAfterCompact
<1> QED BY <1>1, <1>3, <1>4 DEF Build

LEMMA EndKeepsTalks ==
    ASSUME TalksArePaired, NEW r \in Run, EndConversation(r)
    PROVE  TalksArePaired'
BY EmptyIsTalk, PutKeepsTalks DEF EndConversation

LEMMA UseToolsKeepsTalks ==
    ASSUME HistoryInv, CountersOK, TalksArePaired,
           NEW r \in Run, NEW n \in 1..2, NEW tools \in [1..n -> ToolSizes],
           UseTools(r, tools)
    PROVE  TalksArePaired'
<1> DEFINE calls == [i \in DOMAIN tools |->
                       Item("call", CallId(i), tools[i].call, tools[i].name)]
           results == [i \in DOMAIN tools |->
                         Item("result", CallId(i), tools[i].result, 1)]
           all == conv[r] \o calls \o results
<1>1. DOMAIN tools = 1..n /\ n \in Nat
    OBVIOUS
<1>2. \A i \in 1..n : /\ CallId(i) \in SUBSET Nat
                      /\ tools[i].call \in Nat \ {0} /\ tools[i].name \in Nat \ {0}
                      /\ tools[i].result \in Nat \ {0}
  <2>1. turns \in Nat /\ \A i \in 1..n : tools[i] \in ToolSizes
      BY CountersAreNat
  <2>2. \A tool \in ToolSizes : /\ tool.call \in Nat \ {0} /\ tool.name \in Nat \ {0}
                                /\ tool.result \in Nat \ {0}
      BY HistoryAssumption
  <2> QED BY <2>1, <2>2 DEF CallId
<1>3. \A i \in 1..n : /\ Shaped(calls[i]) /\ Shaped(results[i])
                      /\ calls[i].kind = "call" /\ results[i].kind = "result"
                      /\ calls[i].of = results[i].of
  <2>1. "call" \in Kind /\ "result" \in Kind /\ 1 \in Nat \ {0}
      BY DEF Kind
  <2> SUFFICES ASSUME NEW i \in 1..n
               PROVE  /\ Shaped(calls[i]) /\ Shaped(results[i])
                      /\ calls[i].kind = "call" /\ results[i].kind = "result"
                      /\ calls[i].of = results[i].of
      OBVIOUS
  <2>2. /\ calls[i] = Item("call", CallId(i), tools[i].call, tools[i].name)
        /\ results[i] = Item("result", CallId(i), tools[i].result, 1)
      BY <1>1
  <2>3. /\ Shaped(calls[i]) /\ calls[i].kind = "call"
        /\ calls[i].of = CallId(i)
    <3>1. "call" # "user"
        OBVIOUS
    <3> QED BY <1>2, <2>1, <2>2, <3>1, ItemIsShaped
  <2>4. /\ Shaped(results[i]) /\ results[i].kind = "result"
        /\ results[i].of = CallId(i)
    <3>1. "result" # "user"
        OBVIOUS
    <3> QED BY <1>2, <2>1, <2>2, <3>1, ItemIsShaped
  <2> QED BY <2>3, <2>4
<1>4. calls = [i \in 1..n |-> calls[i]] /\ results = [i \in 1..n |-> results[i]]
    BY <1>1
<1>5. conv' = [conv EXCEPT ![r] = all] /\ checkpoint' = [checkpoint EXCEPT ![r] = all]
    BY DEF UseTools
<1> HIDE DEF calls, results
<1>6. Talk(conv[r])
    BY KeptTalks
<1>7. Talk(all)
    BY <1>1, <1>3, <1>4, <1>6, CallsAndResultsAreTalk
<1> HIDE DEF all
<1> QED BY <1>5, <1>7, PutKeepsTalks

LEMMA WorkKeepsTalks ==
    ASSUME HistoryInv, CountersOK, TalksArePaired, NEW r \in Run, Work(r)
    PROVE  TalksArePaired'
<1>1. CASE Prepare(r)
  <2>1. Talk(Fit(conv[r]))
      BY KeptTalks, FitKeepsPairs
  <2>2. \/ /\ conv' = [conv EXCEPT ![r] = Fit(conv[r])]
           /\ checkpoint' = [checkpoint EXCEPT ![r] = Fit(conv[r])]
        \/ /\ conv' = [conv EXCEPT ![r] = <<>>]
           /\ checkpoint' = [checkpoint EXCEPT ![r] = checkpoint[r]]
      BY <1>1, KeptTalks DEF Prepare
  <2> QED BY <2>1, <2>2, EmptyIsTalk, KeptTalks, PutKeepsTalks
<1>2. CASE \E n \in 1..2 : \E tools \in [1..n -> ToolSizes] : UseTools(r, tools)
    BY <1>2, UseToolsKeepsTalks
<1>3. CASE InsertAnswer(r) \/ CompleteRun(r)
    BY <1>3, EndKeepsTalks DEF InsertAnswer, CompleteRun
<1>4. CASE CommitAnswer(r)
    BY <1>4, SameTalks DEF CommitAnswer, loop
<1> QED BY <1>1, <1>2, <1>3, <1>4 DEF Work

LEMMA RestKeepsTalks ==
    ASSUME TalksArePaired,
           \/ \E r \in Run : \/ Crash(r) \/ Resume(r)
                             \/ Fail(r) \/ Recover(r) \/ Cancel(r)
           \/ Retain
    PROVE  TalksArePaired'
<1>1. ASSUME NEW r \in Run, Crash(r) PROVE TalksArePaired'
    BY <1>1, EmptyIsTalk, KeptTalks, PutKeepsTalks DEF Crash
<1>2. ASSUME NEW r \in Run, Resume(r) PROVE TalksArePaired'
    BY <1>2, KeptTalks, PutKeepsTalks DEF Resume, loop
<1>3. ASSUME NEW r \in Run, Cancel(r) PROVE TalksArePaired'
    BY <1>3, EndKeepsTalks, SameTalks DEF Cancel
<1>4. ASSUME NEW r \in Run, Fail(r) \/ Recover(r) PROVE TalksArePaired'
    BY <1>4, EmptyIsTalk, KeptTalks, PutKeepsTalks, SameTalks DEF Fail, Recover
<1>5. CASE Retain
    BY <1>5, SameTalks DEF Retain, Purge, PurgeSummaries, PurgeMessages, PurgeCheckpoints,
                           CommitPurge, NothingCommitted
<1> QED BY <1>1, <1>2, <1>3, <1>4, <1>5

LEMMA InitHasTalks == ASSUME Init PROVE TalksArePaired
BY EmptyIsTalk DEF Init, TalksArePaired

LEMMA NextKeepsTalks ==
    ASSUME HistoryInv, HistoryInv', SummariesSpeak, CountersOK, TalksArePaired, Next
    PROVE  TalksArePaired'
BY StartKeepsTalks, BuildKeepsTalks, WorkKeepsTalks, RestKeepsTalks DEF Next

LEMMA CountersStayOK ==
    ASSUME HistoryInv, CountersOK, [Next]_vars
    PROVE  CountersOK'
<1>1. /\ turns \in Nat /\ crashes \in Nat
      /\ scene.turns \in Nat /\ scene.crashes \in Nat
    BY BoundsAreNat, CountersAreNat
<1> DEFINE Grows(used, used2, bound) == used2 = used \/ (used < bound /\ used2 = used + 1)
<1>2. /\ scene' = scene
      /\ Grows(turns, turns', scene.turns) /\ Grows(crashes, crashes', scene.crashes)
  <2>1. ASSUME NEW r \in Run, Start(r) PROVE UNCHANGED <<scene, turns, crashes>>
      BY <2>1 DEF Start, BeginInbound, CommitInbound, StartInbound, loop
  <2>2. ASSUME NEW r \in Run, Build(r) PROVE UNCHANGED <<scene, turns, crashes>>
      BY <2>2 DEF Build, ReadSummary, BuildOrCompact, ReadOld, SaveSummary,
                  BuildAfterCompact, loop
  <2>3. ASSUME NEW r \in Run, Work(r)
        PROVE  UNCHANGED <<scene, crashes>> /\ Grows(turns, turns', scene.turns)
      BY <2>3 DEF Work, Prepare, UseTools, InsertAnswer, CommitAnswer, CompleteRun, loop
  <2>4. ASSUME NEW r \in Run,
               Crash(r) \/ Resume(r) \/ Fail(r) \/ Recover(r) \/ Cancel(r)
        PROVE  UNCHANGED <<scene, turns>> /\ Grows(crashes, crashes', scene.crashes)
      BY <2>4 DEF Crash, Resume, Fail, Recover, Cancel, loop
  <2>5. ASSUME Retain PROVE UNCHANGED <<scene, turns, crashes>>
      BY <2>5 DEF Retain, Purge, PurgeSummaries, PurgeMessages, PurgeCheckpoints,
                  CommitPurge, NothingCommitted
  <2>6. ASSUME UNCHANGED vars PROVE UNCHANGED <<scene, turns, crashes>>
      BY <2>6 DEF vars, loop
  <2> QED BY <2>1, <2>2, <2>3, <2>4, <2>5, <2>6 DEF Next
<1>3. lost' \subseteq Run
  <2>1. ASSUME NEW r \in Run, Start(r) \/ Build(r) PROVE lost' = lost
      BY <2>1 DEF Start, BeginInbound, CommitInbound, StartInbound, Build, ReadSummary,
                  BuildOrCompact, ReadOld, SaveSummary, BuildAfterCompact, loop, admin
  <2>2. ASSUME NEW r \in Run, Work(r) PROVE lost' = lost
      BY <2>2 DEF Work, Prepare, UseTools, InsertAnswer, CommitAnswer, CompleteRun, loop,
                  admin
  <2>3. ASSUME NEW r \in Run,
               Crash(r) \/ Resume(r) \/ Fail(r) \/ Recover(r) \/ Cancel(r)
        PROVE  lost' = lost
      BY <2>3 DEF Crash, Resume, Fail, Recover, Cancel, loop, admin
  <2>4. ASSUME Retain PROVE lost' = lost \/ \E gone \in SUBSET Run : lost' = lost \cup gone
    <3>1. purge.runs \subseteq Run /\ \A cutoff : OldCheckpoints(cutoff) \subseteq Run
        BY DEF HistoryInv, TablesTypeOK, PurgeType, OldCheckpoints
    <3>2. CASE CommitPurge
        BY <3>1, <3>2 DEF CommitPurge, Delete
    <3>3. ASSUME NEW cutoff, Purge(cutoff) PROVE \E gone \in SUBSET Run : lost' = lost \cup gone
        BY <3>1, <3>3 DEF Purge, Delete
    <3> QED BY <2>4, <3>2, <3>3 DEF Retain, PurgeSummaries, PurgeMessages, PurgeCheckpoints,
                                    NothingCommitted
  <2>5. CASE UNCHANGED vars
      BY <2>5 DEF vars, loop, admin, CountersOK
  <2> QED BY <2>1, <2>2, <2>3, <2>4, <2>5 DEF Next, CountersOK
<1> QED BY <1>1, <1>2, <1>3 DEF CountersOK

LEMMA SummariesKeepSpeaking ==
    ASSUME HistoryInv, SummariesSpeak, [Next]_vars
    PROVE  SummariesSpeak'
<1>1. seen = [r \in Run |-> seen[r]]
    BY DEF HistoryInv, TablesTypeOK
<1>2. ASSUME summaries' \subseteq summaries, seen' = seen PROVE SummariesSpeak'
    BY <1>2 DEF SummariesSpeak
<1>3. ASSUME NEW r \in Run, NEW new, seen' = [seen EXCEPT ![r] = new],
             new.summary # NoSummary => new.summary.content # {},
             \A row \in summaries' \ summaries : row.content # {}
      PROVE  SummariesSpeak'
    BY <1>1, <1>3 DEF SummariesSpeak
<1>4. ASSUME NEW r \in Run, Forget(r), summaries' = summaries PROVE SummariesSpeak'
  <2>1. NothingSeen.summary = NoSummary
      BY DEF NothingSeen
  <2> QED BY <1>3, <1>4, <2>1 DEF Forget
<1>5. ASSUME NEW r \in Run
      PROVE  /\ seen[r] \in Seen
             /\ \A ids : [seen[r] EXCEPT !.rows = ids].summary = seen[r].summary
             /\ seen[r].summary # NoSummary => seen[r].summary.content # {}
    BY SeenHasType DEF HistoryInv, Seen, SummariesSpeak
<1>6. ASSUME NEW r \in Run, Start(r) PROVE SummariesSpeak'
    BY <1>2, <1>6 DEF Start, BeginInbound, CommitInbound, StartInbound
<1>7. ASSUME NEW r \in Run, ReadSummary(r) PROVE SummariesSpeak'
  <2>1. PICK since : seen' = [seen EXCEPT ![r] =
                                [seen[r] EXCEPT !.summary = LatestSummary, !.since = since]]
      BY <1>7 DEF ReadSummary
  <2>2. [seen[r] EXCEPT !.summary = LatestSummary, !.since = since].summary = LatestSummary
      BY <1>5 DEF Seen
  <2>3. LatestSummary # NoSummary => LatestSummary.content # {}
      BY LatestSummaryCoversMost DEF SummariesSpeak
  <2>4. summaries' = summaries
      BY <1>7 DEF ReadSummary, tables
  <2> QED BY <1>3, <2>1, <2>2, <2>3, <2>4
<1>8. ASSUME NEW r \in Run, ReadOld(r) PROVE SummariesSpeak'
  <2>1. /\ seen' = [seen EXCEPT ![r] = [seen[r] EXCEPT !.rows = Compactable(r)]]
        /\ summaries' = summaries
      BY <1>8 DEF ReadOld, tables
  <2> QED BY <1>3, <1>5, <2>1
<1>9. ASSUME NEW r \in Run, SaveSummary(r) PROVE SummariesSpeak'
  <2>1. seen' = [seen EXCEPT ![r] = [seen[r] EXCEPT !.rows = {}]]
      BY <1>9 DEF SaveSummary
  <2>2. \A row \in summaries' \ summaries : row.content = Summarised(r)
      BY <1>9 DEF SaveSummary
  <2>3. Summarised(r) # {}
      BY <1>9 DEF SaveSummary, Summarised, HistoryInv, BatchesFit
  <2> QED BY <1>3, <1>5, <2>1, <2>2, <2>3
<1>10. ASSUME NEW r \in Run, BuildOrCompact(r) \/ BuildAfterCompact(r) PROVE SummariesSpeak'
    BY <1>2, <1>4, <1>10 DEF BuildOrCompact, BuildAfterCompact, Built, tables
<1>11. ASSUME NEW r \in Run, Work(r) PROVE SummariesSpeak'
    BY <1>2, <1>11 DEF Work, Prepare, UseTools, InsertAnswer, CommitAnswer, CompleteRun,
                       tables, loop
<1>12. ASSUME NEW r \in Run, Crash(r) \/ Resume(r) \/ Fail(r) \/ Recover(r) \/ Cancel(r)
       PROVE  SummariesSpeak'
    BY <1>2, <1>4, <1>12 DEF Crash, Resume, Fail, Recover, Cancel, tables
<1>13. CASE Retain
    BY <1>2, <1>13 DEF Retain, Purge, PurgeSummaries, PurgeMessages, PurgeCheckpoints,
                       CommitPurge, NothingCommitted, Delete, tables
<1>14. CASE UNCHANGED vars
    BY <1>2, <1>14 DEF vars, tables
<1> QED BY <1>6, <1>7, <1>8, <1>9, <1>10, <1>11, <1>12, <1>13, <1>14 DEF Next, Build

LEMMA RowsStaySingle ==
    ASSUME HistoryInv, RowsAreSingle, [Next]_vars
    PROVE  RowsAreSingle'
<1>1. pc \in [Run -> Pc] /\ messages \in Seq(Row) /\ Len(messages) \in Nat
      /\ DOMAIN messages = 1..Len(messages)
      /\ \A id \in DOMAIN messages : messages[id].run \in Run /\ pc[messages[id].run] # "new"
    BY TablesHaveType DEF HistoryInv, TablesTypeOK, RowsHaveRuns
<1>2. ASSUME messages' = messages,
             \A q \in Run : pc[q] \in {"answering", "completed"} =>
                            pc'[q] \in {"answering", "completed"}
      PROVE  RowsAreSingle'
    BY <1>1, <1>2 DEF RowsAreSingle
<1>3. ASSUME NEW r \in Run, NEW to, pc' = [pc EXCEPT ![r] = to], messages' = messages,
             pc[r] \in {"answering", "completed"} => to \in {"answering", "completed"}
      PROVE  RowsAreSingle'
    BY <1>1, <1>2, <1>3
<1>4. ASSUME NEW r \in Run, NEW role, NEW sizes, NEW to, Insert(r, role, sizes),
             pc' = [pc EXCEPT ![r] = to],
             \/ role = "user" /\ pc[r] = "new"
             \/ /\ role = "assistant" /\ pc[r] = "sent"
                /\ to \in {"answering", "completed"}
      PROVE  RowsAreSingle'
  <2>1. PICK size : messages' = Append(messages, [run |-> r, role |-> role, size |-> size])
      BY <1>4 DEF Insert
  <2> DEFINE n == Len(messages) + 1
  <2>2. /\ DOMAIN messages' = DOMAIN messages \cup {n} /\ n \notin DOMAIN messages
        /\ messages'[n].run = r /\ messages'[n].role = role
        /\ \A id \in DOMAIN messages : messages'[id] = messages[id]
      BY <1>1, <2>1
  <2>3. \A id \in DOMAIN messages : ~(messages[id].run = r /\ messages[id].role = role)
      BY <1>1, <1>4 DEF RowsAreSingle
  <2>4. \A q \in Run : pc'[q] = IF q = r THEN to ELSE pc[q]
      BY <1>1, <1>4
  <2>5. \A id \in DOMAIN messages : messages[id].role = "assistant" =>
          pc'[messages[id].run] \in {"answering", "completed"}
      BY <1>1, <1>4, <2>4 DEF RowsAreSingle
  <2>6. role = "assistant" => pc'[r] \in {"answering", "completed"}
      BY <1>4, <2>4
  <2> HIDE DEF n
  <2> QED BY <2>2, <2>3, <2>5, <2>6 DEF RowsAreSingle
<1>5. ASSUME NEW r \in Run, Start(r) PROVE RowsAreSingle'
  <2>1. CASE BeginInbound(r)
      BY <1>4, <2>1 DEF BeginInbound, Move
  <2>2. CASE CommitInbound(r)
      BY <1>3, <2>2 DEF CommitInbound, Move
  <2>3. CASE StartInbound(r)
      BY <1>4, <2>3 DEF StartInbound, Move
  <2> QED BY <1>5, <2>1, <2>2, <2>3 DEF Start
<1>6. ASSUME NEW r \in Run, Build(r) PROVE RowsAreSingle'
    BY <1>3, <1>6 DEF Build, ReadSummary, BuildOrCompact, ReadOld, SaveSummary,
                      BuildAfterCompact, Built, Move, tables
<1>7. ASSUME NEW r \in Run, Work(r) PROVE RowsAreSingle'
  <2>1. CASE Prepare(r) \/ CommitAnswer(r)
      BY <1>3, <2>1 DEF Prepare, CommitAnswer, Move, tables
  <2>2. CASE \E n \in 1..2 : \E tools \in [1..n -> ToolSizes] : UseTools(r, tools)
      BY <1>3, <2>2 DEF UseTools, Move, tables
  <2>3. CASE InsertAnswer(r)
      BY <1>4, <2>3 DEF InsertAnswer, Move
  <2>4. CASE CompleteRun(r)
      BY <1>4, <2>4 DEF CompleteRun, Move
  <2> QED BY <1>7, <2>1, <2>2, <2>3, <2>4 DEF Work
<1>8. ASSUME NEW r \in Run, Crash(r) \/ Resume(r) PROVE RowsAreSingle'
    BY <1>3, <1>8 DEF Crash, Resume, Move, InFlight, tables
<1>9. ASSUME NEW r \in Run, Fail(r) \/ Recover(r) \/ Cancel(r) PROVE RowsAreSingle'
  <2>1. CASE Fail(r) \/ Recover(r)
      BY <1>3, <2>1 DEF Fail, Recover, Move, tables
  <2>2. CASE Cancel(r)
    <3>1. pc[r] \notin {"answering", "completed"} /\ messages' = messages
        BY <2>2 DEF Cancel, Live, SessionIsFree, InFlight, tables
    <3> QED BY <1>2, <1>3, <2>2, <3>1 DEF Cancel
  <2> QED BY <1>9, <2>1, <2>2
<1>10. CASE Retain
    BY <1>2, <1>10 DEF Retain, Purge, PurgeSummaries, PurgeMessages, PurgeCheckpoints,
                       CommitPurge, NothingCommitted, tables
<1>11. CASE UNCHANGED vars
    BY <1>2, <1>11 DEF vars, tables
<1> QED BY <1>5, <1>6, <1>7, <1>8, <1>9, <1>10, <1>11 DEF Next

LEMMA InitHasConversations == ASSUME Init PROVE ConversationInv
<1>1. scene.turns \in Nat /\ scene.crashes \in Nat
    BY HistoryAssumption DEF Init, Scene
<1>2. NothingSeen.summary = NoSummary
    BY DEF NothingSeen
<1> QED BY <1>1, <1>2, InitHasTalks
        DEF Init, ConversationInv, SummariesSpeak, RowsAreSingle, CountersOK

LEMMA StepKeepsConversations ==
    ASSUME HistoryInv, HistoryInv', ConversationInv, [Next]_vars
    PROVE  ConversationInv'
<1>1. TalksArePaired'
  <2>1. CASE Next
      BY <2>1, NextKeepsTalks DEF ConversationInv
  <2>2. CASE UNCHANGED vars
      BY <2>2, SameTalks DEF vars, loop, ConversationInv
  <2> QED BY <2>1, <2>2
<1> QED BY <1>1, CountersStayOK, SummariesKeepSpeaking, RowsStaySingle DEF ConversationInv

(* A build that ends puts its context into the conversation.               *)
LEMMA BuildEndsWithContext ==
    ASSUME HistoryInv, TalksArePaired, [Next]_vars, NEW r \in Run, BuildEnds(r)
    PROVE  conv'[r] = Context(r)
<1>1. pc \in [Run -> Pc] /\ conv = [q \in Run |-> conv[q]]
    BY DEF HistoryInv, TablesTypeOK, TalksArePaired
<1>2. ASSUME NEW q \in Run, NEW from, Built(q, from) PROVE conv'[r] = Context(r)
  <2>1. \/ conv' = [conv EXCEPT ![q] = Context(q)] /\ pc' = [pc EXCEPT ![q] = "turn"]
        \/ pc' = [pc EXCEPT ![q] = "raised"]
      BY <1>2 DEF Built, Context, Move
  <2>2. pc' = [pc EXCEPT ![q] = pc'[q]] /\ q = r
      BY <1>1, <2>1 DEF BuildEnds
  <2> QED BY <1>1, <2>1, <2>2 DEF BuildEnds
<1>3. ASSUME pc' = pc PROVE FALSE
    BY <1>3 DEF BuildEnds
<1>4. ASSUME NEW q \in Run, NEW to, pc' = [pc EXCEPT ![q] = to],
             pc[q] \notin {"read_rows", "read_rest"} \/ to # "turn"
      PROVE  FALSE
    BY <1>1, <1>4 DEF BuildEnds
<1>5. ASSUME NEW q \in Run, Start(q) PROVE FALSE
    BY <1>4, <1>5 DEF Start, BeginInbound, CommitInbound, StartInbound, Move
<1>6. ASSUME NEW q \in Run, Build(q) PROVE conv'[r] = Context(r)
  <2>1. CASE ReadSummary(q) \/ ReadOld(q) \/ SaveSummary(q)
      BY <1>4, <2>1 DEF ReadSummary, ReadOld, SaveSummary, Move
  <2>2. CASE BuildOrCompact(q)
      BY <1>2, <1>4, <2>2 DEF BuildOrCompact, Move
  <2>3. CASE BuildAfterCompact(q)
      BY <1>2, <2>3 DEF BuildAfterCompact
  <2> QED BY <1>6, <2>1, <2>2, <2>3 DEF Build
<1>7. ASSUME NEW q \in Run, Work(q) PROVE FALSE
    BY <1>4, <1>7 DEF Work, Prepare, UseTools, InsertAnswer, CommitAnswer, CompleteRun, Move
<1>8. ASSUME NEW q \in Run, Crash(q) \/ Resume(q) \/ Fail(q) \/ Recover(q) \/ Cancel(q)
      PROVE  FALSE
    BY <1>3, <1>4, <1>8 DEF Crash, Resume, Fail, Recover, Cancel, Move
<1>9. CASE Retain
    BY <1>3, <1>9 DEF Retain, Purge, PurgeSummaries, PurgeMessages, PurgeCheckpoints,
                      CommitPurge, NothingCommitted
<1>10. CASE UNCHANGED vars
    BY <1>3, <1>10 DEF vars
<1> QED BY <1>5, <1>6, <1>7, <1>8, <1>9, <1>10 DEF Next

(* A conversation that goes to the model is what fit leaves of it.         *)
LEMMA TrimEndsWithFit ==
    ASSUME HistoryInv, TalksArePaired, [Next]_vars, NEW r \in Run, Trims(r)
    PROVE  conv'[r] = Fit(conv[r])
<1>1. pc \in [Run -> Pc] /\ conv = [q \in Run |-> conv[q]]
    BY DEF HistoryInv, TablesTypeOK, TalksArePaired
<1>2. ASSUME pc' = pc PROVE FALSE
    BY <1>2 DEF Trims
<1>3. ASSUME NEW q \in Run, NEW to, pc' = [pc EXCEPT ![q] = to], to # "sent" PROVE FALSE
    BY <1>1, <1>3 DEF Trims
<1>4. ASSUME NEW q \in Run, Prepare(q) PROVE conv'[r] = Fit(conv[r])
  <2> DEFINE fitted == Fit(conv[q])
  <2>1. CASE Count(fitted) <= MaxInput
    <3>1. pc' = [pc EXCEPT ![q] = "sent"] /\ conv' = [conv EXCEPT ![q] = fitted]
        BY <1>4, <2>1 DEF Prepare, Move
    <3>2. q = r
        BY <1>1, <3>1 DEF Trims
    <3> QED BY <1>1, <3>1, <3>2
  <2>2. CASE ~(Count(fitted) <= MaxInput)
    <3>1. pc' = [pc EXCEPT ![q] = "interrupted"]
        BY <1>4, <2>2 DEF Prepare, Move
    <3> QED BY <1>3, <3>1
  <2> QED BY <2>1, <2>2
<1>5. ASSUME NEW q \in Run, Start(q) PROVE FALSE
    BY <1>3, <1>5 DEF Start, BeginInbound, CommitInbound, StartInbound, Move
<1>6. ASSUME NEW q \in Run, Build(q) PROVE FALSE
    BY <1>3, <1>6 DEF Build, ReadSummary, BuildOrCompact, ReadOld, SaveSummary,
                      BuildAfterCompact, Built, Move
<1>7. ASSUME NEW q \in Run, Work(q) PROVE conv'[r] = Fit(conv[r])
    BY <1>3, <1>4, <1>7 DEF Work, UseTools, InsertAnswer, CommitAnswer, CompleteRun, Move
<1>8. ASSUME NEW q \in Run, Crash(q) \/ Resume(q) \/ Fail(q) \/ Recover(q) \/ Cancel(q)
      PROVE  FALSE
    BY <1>2, <1>3, <1>8 DEF Crash, Resume, Fail, Recover, Cancel, Move
<1>9. CASE Retain
    BY <1>2, <1>9 DEF Retain, Purge, PurgeSummaries, PurgeMessages, PurgeCheckpoints,
                      CommitPurge, NothingCommitted
<1>10. CASE UNCHANGED vars
    BY <1>2, <1>10 DEF vars
<1> QED BY <1>5, <1>6, <1>7, <1>8, <1>9, <1>10 DEF Next

(* A run has an inbound message and an answer.                             *)
LEMMA OwnRowsAreFew ==
    ASSUME HistoryInv, RowsAreSingle, NEW r \in Run
    PROVE  Cardinality(Own(r)) <= 2
<1> DEFINE roles == {"user", "assistant"}
           role == [id \in Own(r) |-> messages[id].role]
<1>1. \A id \in DOMAIN messages : messages[id] \in Row
    BY DEF HistoryInv, TablesTypeOK
<1>2. role \in Injection(Own(r), roles)
  <2>1. role \in [Own(r) -> roles]
      BY <1>1 DEF Own, Row
  <2>2. \A x, y \in Own(r) : role[x] = role[y] => x = y
      BY DEF Own, RowsAreSingle
  <2> QED BY <2>1, <2>2 DEF Injection, IsInjective
<1>3. IsFiniteSet(roles) /\ Cardinality(roles) = 2
  <2>1. IsFiniteSet({"user"}) /\ Cardinality({"user"}) = 1
      BY FS_Singleton
  <2>2. roles = {"user"} \cup {"assistant"} /\ "assistant" \notin {"user"}
      OBVIOUS
  <2> HIDE DEF roles
  <2> QED BY <2>1, <2>2, FS_AddElement
<1> HIDE DEF role, roles
<1>4. Cardinality(Own(r)) <= Cardinality(roles)
    BY <1>2, <1>3, FS_Injection
<1> QED BY <1>3, <1>4

-----------------------------------------------------------------------------
(* The theorems.                                                           *)

(* The tables, the summaries and what builds have read of them agree in    *)
(* every state, in either store, and what the statements of a purge have   *)
(* found is of runs that are over still, or that were recovered since.     *)
THEOREM HistoryIsSound == Spec => []HistoryInv
<1>1. Init => HistoryInv
    BY InitHasInv
<1>2. HistoryInv /\ [Next]_vars => HistoryInv'
    BY NextKeepsInv, StutterKeepsInv
<1> QED BY <1>1, <1>2, PTL DEF Spec

(* save_summary: versions are unique, cover more and more, and end at a    *)
(* message that can be read, whatever races and whatever is purged.        *)
THEOREM VersionsAdvance == Spec => []SummariesAdvance
<1>1. HistoryInv => SummariesAdvance
    BY DEF HistoryInv
<1> QED BY <1>1, HistoryIsSound, PTL

(* A summary tells of every message it covers but for the two known        *)
(* losses.                                                                 *)
THEOREM SummariesAreFaithful == Spec => []SummaryIsFaithful
<1>1. HistoryInv => SummaryIsFaithful
    BY DEF HistoryInv, SummariesAreTrue, TrueSummary, Tables, SummaryIsFaithful
<1> QED BY <1>1, HistoryIsSound, PTL

(* Both invariants together.                                               *)
THEOREM TalksAreSound == Spec => [](HistoryInv /\ ConversationInv)
<1>1. Init => HistoryInv /\ ConversationInv
    BY InitHasInv, InitHasConversations
<1>2. HistoryInv /\ ConversationInv /\ [Next]_vars => HistoryInv' /\ ConversationInv'
  <2>1. ASSUME HistoryInv, ConversationInv, [Next]_vars PROVE HistoryInv'
      BY <2>1, NextKeepsInv, StutterKeepsInv
  <2> QED BY <2>1, StepKeepsConversations
<1> QED BY <1>1, <1>2, PTL DEF Spec

(* fit: in every conversation, of however many trimmed turns, crashes and  *)
(* resumptions, each call has its result and each result its call.         *)
THEOREM TalksStayPaired == Spec => []PairsStayTogether
<1>1. ConversationInv => PairsStayTogether
    BY DEF ConversationInv, TalksArePaired, PairsStayTogether, Talk, Paired
<1> QED BY <1>1, TalksAreSound, PTL

(* build: a context represents every message that was there when the build *)
(* began and has not been purged, but for the two known losses.            *)
THEOREM ContextsAreComplete == Spec => ContextIsComplete
<1>1. ASSUME HistoryInv, ConversationInv, [Next]_vars, NEW r \in Run, BuildEnds(r)
      PROVE  seen[r].since \cap visible
               \subseteq Represented(conv'[r]) \cup late \cup seen[r].summary.left
  <2> DEFINE s == seen[r].summary
  <2>1. conv'[r] = Context(r) /\ s.content \cup Rows(r) \subseteq Represented(Context(r))
      BY <1>1, BuildEndsWithContext, ContextIsTalk DEF ConversationInv
  <2>2. TrueSummary(s, Tables) /\ s.through \in Nat
      BY <1>1, SeenHasType DEF HistoryInv, SummariesAreTrue
  <2>3. visible \subseteq Nat
      BY <1>1, TablesHaveType DEF HistoryInv, TablesTypeOK
  <2>4. ASSUME NEW id \in visible PROVE id \in s.content \cup late \cup s.left \cup Rows(r)
    <3>1. id \in Nat /\ (id <= s.through \/ id > s.through)
        BY <2>2, <2>3
    <3>2. CASE id <= s.through
        BY <2>2, <3>2 DEF TrueSummary, Tables
    <3>3. CASE id > s.through
        BY <3>3 DEF Rows, MessagesAfter
    <3> QED BY <3>1, <3>2, <3>3
  <2> QED BY <2>1, <2>4
<1>2. HistoryInv /\ ConversationInv /\ [Next]_vars =>
        [\A r \in Run : BuildEnds(r) =>
           seen[r].since \cap visible
             \subseteq Represented(conv'[r]) \cup late \cup seen[r].summary.left]_vars
    BY <1>1
<1> QED BY <1>2, TalksAreSound, PTL DEF Spec, ContextIsComplete

(* purge_tenant_data: in SQLite no row is taken from a session with a run  *)
(* that is not over; in Postgres none from a run that is not over, but for *)
(* a failed one that was recovered while the purge was under way.          *)
THEOREM PurgesSpareLiveRuns == Spec => PurgeSparesLiveRuns
<1>1. ASSUME HistoryInv, [Next]_vars, NEW id \in visible \ visible'
      PROVE  /\ \/ messages[id].run \notin Live
                \/ messages[id].run \in purge.reopened
             /\ scene.backend = "sqlite" => Live = {}
  <2>1. ASSUME visible \subseteq visible' PROVE FALSE
      BY <1>1, <2>1
  <2>2. ASSUME NEW q \in Run, Start(q) PROVE FALSE
      BY <2>1, <2>2 DEF Start, BeginInbound, CommitInbound, StartInbound, Show
  <2>3. ASSUME NEW q \in Run, Build(q) PROVE FALSE
      BY <2>1, <2>3 DEF Build, ReadSummary, BuildOrCompact, ReadOld, SaveSummary,
                        BuildAfterCompact, tables
  <2>4. ASSUME NEW q \in Run, Work(q) PROVE FALSE
      BY <2>1, <2>4 DEF Work, Prepare, UseTools, InsertAnswer, CommitAnswer, CompleteRun,
                        Show, tables
  <2>5. ASSUME NEW q \in Run, Crash(q) \/ Resume(q) \/ Fail(q) \/ Recover(q) \/ Cancel(q)
        PROVE  FALSE
      BY <2>1, <2>5 DEF Crash, Resume, Fail, Recover, Cancel, tables
  <2>6. CASE UNCHANGED vars
      BY <2>1, <2>6 DEF vars, tables
  <2>7. ASSUME NEW cutoff \in 2..(Len(messages) + 1), Purge(cutoff) PROVE Live = {}
      BY <1>1, <2>7 DEF Purge, Delete, OldMessages
  <2>8. ASSUME NEW cutoff \in 2..(Len(messages) + 1), PurgeSummaries(cutoff) PROVE FALSE
      BY <2>1, <2>8 DEF PurgeSummaries, NothingCommitted, tables
  <2>9. CASE PurgeMessages \/ PurgeCheckpoints
      BY <2>1, <2>9 DEF PurgeMessages, PurgeCheckpoints, NothingCommitted, tables
  <2>10. CASE CommitPurge
    <3>1. id \in purge.messages /\ purge.at = "commit"
        BY <1>1, <2>10 DEF CommitPurge, Delete
    <3>2. Spent(messages[id].run) /\ scene.backend = "postgres"
        BY <1>1, <3>1 DEF HistoryInv, PurgeFits
    <3> QED BY <3>2 DEF Spent, Over, Live
  <2>11. CASE Retain
      BY <2>7, <2>8, <2>9, <2>10, <2>11 DEF Retain
  <2> QED BY <1>1, <2>2, <2>3, <2>4, <2>5, <2>6, <2>11 DEF Next
<1>2. HistoryInv /\ [Next]_vars =>
        [\A id \in visible \ visible' :
           /\ \/ messages[id].run \notin Live
              \/ messages[id].run \in purge.reopened
           /\ scene.backend = "sqlite" => Live = {}]_vars
    BY <1>1
<1> QED BY <1>2, HistoryIsSound, PTL DEF Spec, PurgeSparesLiveRuns

(* Rows, items and counters are well formed, whatever was trimmed, crashed *)
(* or purged: a run has no more than its inbound message and its answer,   *)
(* and no item of a context or of a checkpoint is cut down to nothing.     *)
THEOREM HistoryHasType == Spec => []HistoryTypeOK
<1>1. HistoryInv /\ ConversationInv => HistoryTypeOK
  <2> SUFFICES ASSUME HistoryInv, ConversationInv PROVE HistoryTypeOK
      OBVIOUS
  <2>1. \A n \in DOMAIN messages : messages[n] \in Row
      BY DEF HistoryInv, TablesTypeOK
  <2>2. \A r \in Run : Cardinality(Own(r)) <= 2
      BY OwnRowsAreFew DEF ConversationInv
  <2>3. \A r \in Run : /\ \A i \in DOMAIN conv[r] : ItemOK(conv[r][i])
                       /\ \A i \in DOMAIN checkpoint[r] : ItemOK(checkpoint[r][i])
      BY DEF ConversationInv, TalksArePaired, Talk, Shaped
  <2>4. /\ purge.at \in {"idle", "messages", "checkpoints", "commit"}
        /\ purge.runs \subseteq Run /\ purge.reopened \subseteq Run
      BY DEF HistoryInv, TablesTypeOK, PurgeType
  <2> QED BY <2>1, <2>2, <2>3, <2>4
          DEF HistoryTypeOK, HistoryInv, TablesTypeOK, PurgeFits, Row, ConversationInv, CountersOK
<1> QED BY <1>1, TalksAreSound, PTL

(* fit: a conversation is refused only if not even its latest user message *)
(* and tool interaction fit when they are cut to stubs, whatever it has    *)
(* been through.                                                           *)
THEOREM OverflowsAreLastResort == Spec => []OverflowIsLastResort
<1>1. ConversationInv => OverflowIsLastResort
    BY FitIsLastResort DEF ConversationInv, TalksArePaired, OverflowIsLastResort
<1> QED BY <1>1, TalksAreSound, PTL

(* fit: of a conversation whose latest interaction fits, nothing is        *)
(* dropped that there would still be room for, with its partner.           *)
THEOREM TrimmingsAreMaximal == Spec => TrimmingIsMaximal
<1>1. ASSUME HistoryInv, ConversationInv, [Next]_vars, NEW r \in Run,
             Trims(r), InteractionFits(conv[r])
      PROVE  NothingElseFits(conv[r], conv'[r])
  <2>1. Talk(conv[r])
      BY <1>1 DEF ConversationInv, TalksArePaired
  <2>2. conv'[r] = Fit(conv[r])
      BY <1>1, TrimEndsWithFit DEF ConversationInv
  <2> QED BY <1>1, <2>1, <2>2, FitIsMaximal
<1>2. HistoryInv /\ ConversationInv /\ [Next]_vars =>
        [\A r \in Run : Trims(r) /\ InteractionFits(conv[r]) =>
           NothingElseFits(conv[r], conv'[r])]_vars
    BY <1>1
<1> QED BY <1>2, TalksAreSound, PTL DEF Spec, TrimmingIsMaximal
=============================================================================
