-------------------------- MODULE MCSessionHistory --------------------------
(* SessionHistory for TLC: runs race over the summaries of either store,   *)
(* use tools turn after turn, or are cancelled, fail and are recovered     *)
(* while old rows are purged.                                              *)
EXTENDS SessionHistory

CONSTANTS r1, r2, r3

Symmetry == Permutations(Run)

Scenario(store, n, tokens, tools, ends, cancels, fails, purges) ==
    [backend |-> store, runs |-> n, sizes |-> tokens, turns |-> tools,
     crashes |-> ends, cancels |-> cancels, fails |-> fails,
     purges |-> purges]

MCScenes == {
    Scenario("sqlite", 3, {2}, 0, 1, 0, FALSE, 0),
    Scenario("postgres", 3, {2}, 0, 1, 0, FALSE, 0),
    Scenario("sqlite", 2, {2, 7}, 2, 1, 0, FALSE, 0),
    Scenario("sqlite", 3, {2}, 0, 0, 1, FALSE, 1),
    Scenario("sqlite", 2, {2}, 0, 0, 1, TRUE, 1),
    Scenario("postgres", 2, {2}, 0, 0, 1, TRUE, 1)}

MCToolSizes == {[call |-> 1, name |-> 1, result |-> 1],
                [call |-> 2, name |-> 1, result |-> 5],
                [call |-> 6, name |-> 6, result |-> 1]}
=============================================================================
