---------------------------- MODULE ContextWindow ----------------------------
(***************************************************************************)
(* ContextWindow.fit: the choice of the items of a conversation that are   *)
(* sent to the model under a token budget, as a function of the            *)
(* conversation.  An item has a kind, the things it stands for (the ids of *)
(* messages, or the id of a tool call), its size in tokens, the size of    *)
(* the stub that a cut leaves of it, and whether it is whole or was cut.   *)
(* The count of a request is the fixed part (system prompt and tool        *)
(* schemas) plus the sizes of its items.                                   *)
(***************************************************************************)
EXTENDS Naturals, Sequences, FiniteSets, SequencesExt

CONSTANTS MaxInput,    \* max_input_tokens
          FixedTokens, \* the system prompt and the tool schemas
          ToolLimit,   \* tool_result_max_tokens
          Mark         \* size of the text that marks a cut

ASSUME WindowAssumption ==
    /\ MaxInput \in Nat
    /\ ToolLimit \in Nat \ {0}
    /\ Mark \in Nat \ {0}
    /\ FixedTokens \in 0..(MaxInput - 1)  \* fit refuses everything otherwise

Dict == {"user", "assistant", "summary"}
Kind == Dict \cup {"call", "result"}

Item(kind, of, size, stub) == [kind |-> kind, of |-> of, size |-> size,
                               stub |-> stub, whole |-> TRUE]

Tokens(items, S) == MapThenSumSet(LAMBDA i : items[i].size, S)
Count(items) == FixedTokens + Tokens(items, DOMAIN items)

Fits(items, S) == FixedTokens + Tokens(items, S) <= MaxInput

Cut(item, size) == [item EXCEPT !.size = size, !.whole = FALSE]

TruncateResult(item) ==
    IF item.kind = "result" /\ item.size > ToolLimit
      THEN Cut(item, ToolLimit)
      ELSE item

IndexesOf(items, kind) == {i \in DOMAIN items : items[i].kind = kind}

Latest(S) == {i \in S : \A j \in S : j <= i}

(* Mutant: a result brings its call, but a call does not bring its result. *)
RelatedOfResults(items, i) ==
    {i} \cup {j \in DOMAIN items : /\ items[j].of = items[i].of
                                   /\ items[i].kind = "result"
                                   /\ items[j].kind = "call"}

(* _related_indexes: a call and its result go together.  The ids of calls  *)
(* are unique, so the nearest call or result is the only one.              *)
Related(items, i) ==
    {i} \cup {j \in DOMAIN items : /\ items[j].of = items[i].of
                                   /\ {items[i].kind, items[j].kind}
                                        = {"call", "result"}}

(* _mandatory_indexes: the current user message and the latest tool        *)
(* interaction.                                                            *)
Mandatory(items) ==
    LET result == Latest(IndexesOf(items, "result"))
    IN  Latest(IndexesOf(items, "user"))
          \cup UNION {Related(items, i) : i \in result}

(* Mutant: the cut is not marked.                                          *)
Unmarked(size) == size

(* The size of a text that was cut to this much and marked.                *)
Marked(size) == size + Mark

(* The loop that halves the text of item i until S fits or nothing is left *)
(* but the mark: the size it leaves.                                       *)
HalvedSize(items, S, i) ==
    LET halved[size \in 0..items[i].size] ==
          LET half == size \div 2
              cut == [items EXCEPT ![i] = Cut(@, Marked(half))]
          IN  IF half = 0 \/ Fits(cut, S) THEN Marked(half) ELSE halved[half]
    IN  halved[items[i].size]

Halved(items, S, i) == [items EXCEPT ![i] = Cut(@, HalvedSize(items, S, i))]

(* The summary is kept if it fits beside the mandatory items, after being  *)
(* shrunk if need be; the result is the items and the indexes selected.    *)
WithSummary(items) ==
    LET must == Mandatory(items)
        summary == IndexesOf(items, "summary")
        both == must \cup summary
        shrunk == IF summary = {} \/ Fits(items, both)
                    THEN items
                    ELSE Halved(items, both, CHOOSE i \in summary : TRUE)
    IN  [items |-> shrunk,
         selected |-> IF Fits(shrunk, both) THEN both ELSE must]

(* Mutant: everything older than the first item without room is dropped.   *)
SelectUntilFull(items, selected) ==
    LET Consider(i, state) ==
          LET candidate == state.selected \cup Related(items, i)
              room == state.open /\ Fits(items, candidate)
          IN  [selected |-> IF room THEN candidate ELSE state.selected,
               open |-> room \/ (state.open /\ i \in state.selected)]
    IN  FoldRight(Consider, [i \in DOMAIN items |-> i],
                  [selected |-> selected, open |-> TRUE]).selected

(* From the newest item to the oldest: each one that still has room is     *)
(* selected, with its partner.                                             *)
Select(items, selected) ==
    LET chosen[i \in 1..(Len(items) + 1)] ==
          IF i > Len(items)
            THEN selected
            ELSE LET later == chosen[i + 1]
                     candidate == later \cup Related(items, i)
                 IN  IF i \notin later /\ Fits(items, candidate)
                       THEN candidate
                       ELSE later
    IN  chosen[1]

(* Numbers in increasing order.                                            *)
Ordered(S) ==
    [n \in 1..Cardinality(S) |->
       CHOOSE x \in S : Cardinality({y \in S : y <= x}) = n]

Chosen(items, selected) ==
    LET order == Ordered(selected)
    IN  [n \in DOMAIN order |-> items[order[n]]]

(* Mutant: only the results are shrunk.                                    *)
ShrinkResults(items) ==
    [i \in DOMAIN items |->
       IF items[i].kind = "result" THEN Cut(items[i], items[i].stub)
                                   ELSE items[i]]

(* _shrink_mandatory: results and the arguments of calls are cut to a      *)
(* stub, and if that is not enough the text of the latest user message.    *)
ShrinkMandatory(items) ==
    LET stubs == [i \in DOMAIN items |->
                    IF items[i].kind \in {"call", "result"}
                      THEN Cut(items[i], items[i].stub)
                      ELSE items[i]]
        user == Latest(IndexesOf(items, "user"))
    IN  IF Count(stubs) <= MaxInput \/ user = {}
          THEN stubs
          ELSE Halved(stubs, DOMAIN stubs, CHOOSE i \in user : TRUE)

(* The request, which is refused (ContextOverflowError) if it is still too *)
(* large.                                                                  *)
Fit(items) ==
    LET truncated == [i \in DOMAIN items |-> TruncateResult(items[i])]
        start == WithSummary(truncated)
        fitted == Chosen(start.items, Select(start.items, start.selected))
    IN  IF Count(fitted) <= MaxInput THEN fitted ELSE ShrinkMandatory(fitted)
=============================================================================
