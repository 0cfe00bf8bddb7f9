----------------------------- MODULE ModelClient -----------------------------
(***************************************************************************)
(* How the agent loop asks a model (ResilientModelProvider.generate):      *)
(* attempts at the primary provider with a timeout, a circuit breaker that *)
(* the threads of a process share, a fallback provider, and the id of the  *)
(* last answer by which a provider continues a conversation                *)
(* (previous_response_id), which the loop keeps in memory and in the       *)
(* checkpoints of the run.                                                 *)
(*                                                                         *)
(* Each worker is a thread that drives one run.  An answer is abstracted   *)
(* to the provider that gave it; delays between attempts are not timed.    *)
(***************************************************************************)
EXTENDS Naturals, FiniteSets

CONSTANTS Worker,       \* threads that share the breaker of a process
          MaxAttempts,  \* RetryPolicy.max_attempts
          Threshold,    \* CircuitBreaker.failure_threshold
          Recovery,     \* CircuitBreaker.recovery_timeout_seconds, in ticks
          HasFallback,  \* a fallback provider is configured
          Issuers,      \* providers whose answers carry an id
          NoId, Nobody

Provider == {"primary", "fallback"}

ASSUME ModelClientAssumption ==
    /\ IsFiniteSet(Worker)
    /\ MaxAttempts \in Nat \ {0}
    /\ Threshold \in Nat \ {0}
    /\ Recovery \in Nat
    /\ HasFallback \in BOOLEAN
    /\ Issuers \subseteq Provider
    /\ NoId \notin [by : Provider, latest : BOOLEAN]
    /\ Nobody \notin Provider

VARIABLES
    failures,  \* CircuitBreaker._failures
    opened,    \* CircuitBreaker._opened_at is not None
    elapsed,   \* clock() - _opened_at, counted up to Recovery
    pc,        \* where each worker is in generate
    provider,  \* the provider its attempts go to
    attempt,   \* the attempt of _generate_with_retry
    previous,  \* request.previous_response_id
    primaryAttempts, attempts,  \* of generate, and of its response
    chain,     \* previous_response_id of each run in memory
    saved,     \* and in its latest checkpoint
    sent,      \* history: requests made for this answer, by provider
    refused,   \* history: the breaker was seen open for this answer
    load       \* history: requests to the primary since the breaker opened

breaker == <<failures, opened, elapsed>>
counts == <<attempt, primaryAttempts, attempts, sent>>
request == <<provider, previous, refused>>
chains == <<chain, saved>>
vars == <<breaker, pc, counts, request, chains, load>>

\* An id, the provider that issued it, and whether the answer it came with
\* is still the latest of the conversation.
Id == [by : Provider, latest : BOOLEAN] \cup {NoId}

Pc == {"idle", "admit", "send", "wait", "failed", "answered", "degrade",
       "annotate", "save"}

None == [p \in Provider |-> 0]

Init ==
    /\ failures = 0 /\ opened = FALSE /\ elapsed = 0 /\ load = 0
    /\ pc = [x \in Worker |-> "idle"]
    /\ provider = [x \in Worker |-> Nobody]
    /\ attempt = [x \in Worker |-> 0]
    /\ previous = [x \in Worker |-> NoId]
    /\ primaryAttempts = [x \in Worker |-> 0]
    /\ attempts = [x \in Worker |-> 0]
    /\ sent = [x \in Worker |-> None]
    /\ refused = [x \in Worker |-> FALSE]
    /\ chain = [x \in Worker |-> NoId]
    /\ saved = [x \in Worker |-> NoId]

Go(x, from, to) == pc[x] = from /\ pc' = [pc EXCEPT ![x] = to]

\* The locals of a call end with it.
Forget(x) ==
    /\ provider' = [provider EXCEPT ![x] = Nobody]
    /\ attempt' = [attempt EXCEPT ![x] = 0]
    /\ previous' = [previous EXCEPT ![x] = NoId]
    /\ primaryAttempts' = [primaryAttempts EXCEPT ![x] = 0]
    /\ attempts' = [attempts EXCEPT ![x] = 0]
    /\ sent' = [sent EXCEPT ![x] = None]
    /\ refused' = [refused EXCEPT ![x] = FALSE]

\* A raise ends the turn: the run is interrupted, and whoever resumes it
\* starts from its latest checkpoint.
Raise(x, from) ==
    /\ Go(x, from, "idle")
    /\ Forget(x)
    /\ chain' = [chain EXCEPT ![x] = saved[x]]
    /\ UNCHANGED <<breaker, saved, load>>

-----------------------------------------------------------------------------
\* The loop begins a turn: checkpoint before_model, then generate.
Ask(x) ==
    /\ Go(x, "idle", "admit")
    /\ previous' = [previous EXCEPT ![x] = chain[x]]
    /\ saved' = [saved EXCEPT ![x] = chain[x]]
    /\ UNCHANGED <<breaker, counts, provider, refused, chain, load>>

\* Mutant: the breaker never lets a request through while it is open.
MayPassClosed == ~opened

MayPass == ~opened \/ elapsed >= Recovery

\* Mutant: a breaker whose time has passed lets requests through and stays
\* open.
AfterPassLeftOpen == [failures |-> failures, opened |-> opened]

AfterPass == [failures |-> IF opened THEN 0 ELSE failures, opened |-> FALSE]

\* Attempts at a provider begin.
Try(x, from, p) ==
    /\ Go(x, from, "send")
    /\ provider' = [provider EXCEPT ![x] = p]
    /\ attempt' = [attempt EXCEPT ![x] = 1]

\* allow_request: an open breaker whose time has passed is closed and
\* forgets its failures; there is no half-open state with a single probe.
Admit(x) ==
    /\ MayPass
    /\ Try(x, "admit", "primary")
    /\ failures' = AfterPass.failures
    /\ opened' = AfterPass.opened
    /\ elapsed' = 0
    /\ UNCHANGED <<previous, primaryAttempts, attempts, sent, refused,
                   chains, load>>

Refuse(x) ==
    /\ ~MayPass
    /\ Go(x, "admit", "degrade")
    /\ refused' = [refused EXCEPT ![x] = TRUE]
    /\ UNCHANGED <<breaker, counts, provider, previous, chains, load>>

\* What a breaker that stays open lets through: the attempts of the other
\* threads, admitted before.
LoadBound == (Cardinality(Worker) - 1) * MaxAttempts

\* Histories count up to one more than they may reach.
CountTo(n, bound) == IF n > bound THEN n ELSE n + 1

\* One attempt at the provider of the request.
Send(x) ==
    /\ Go(x, "send", "wait")
    /\ sent' = [sent EXCEPT ![x][provider[x]] = CountTo(@, MaxAttempts)]
    /\ load' = IF provider[x] = "primary" /\ opened
               THEN CountTo(load, LoadBound) ELSE load
    /\ UNCHANGED <<breaker, attempt, primaryAttempts, attempts, request,
                   chains>>

Answer(x) ==
    /\ Go(x, "wait", IF provider[x] = "primary" THEN "answered" ELSE "annotate")
    /\ UNCHANGED <<breaker, counts, request, chains, load>>

MayRetry(x) == attempt[x] < MaxAttempts

\* Mutant: the retry loop does not count.
RetryUncounted(x) ==
    /\ MayRetry(x)
    /\ Go(x, "wait", "send")
    /\ UNCHANGED <<breaker, counts, request, chains, load>>

\* A RetryableModelError, or no answer in time: the request is abandoned,
\* not stopped, and its answer will be dropped.
Retry(x) ==
    /\ MayRetry(x)
    /\ Go(x, "wait", "send")
    /\ attempt' = [attempt EXCEPT ![x] = @ + 1]
    /\ UNCHANGED <<breaker, primaryAttempts, attempts, sent, request, chains,
                   load>>

CountPrimary(x) ==
    primaryAttempts' = [primaryAttempts EXCEPT ![x] = MaxAttempts]

\* The last attempt at the primary failed.
Exhaust(x) ==
    /\ ~MayRetry(x)
    /\ provider[x] = "primary"
    /\ Go(x, "wait", "failed")
    /\ CountPrimary(x)
    /\ UNCHANGED <<breaker, attempt, attempts, sent, request, chains, load>>

\* A PermanentModelError, or the last attempt at the fallback failed.
GiveUp(x) == Raise(x, "wait")

Opens == failures + 1 >= Threshold

\* record_failure: opens the breaker, or starts its time again.
RecordFailure(x) ==
    /\ Go(x, "failed", "degrade")
    /\ failures' = failures + 1
    /\ IF Opens
       THEN /\ opened' = TRUE
            /\ elapsed' = 0
            /\ load' = IF opened THEN load ELSE 0
       ELSE UNCHANGED <<opened, elapsed, load>>
    /\ UNCHANGED <<counts, request, chains>>

\* record_success: closes the breaker, whoever opened it meanwhile.
RecordSuccess(x) ==
    /\ Go(x, "answered", "annotate")
    /\ failures' = 0
    /\ opened' = FALSE
    /\ elapsed' = 0
    /\ UNCHANGED <<counts, request, chains, load>>

\* Mutant: the request to the fallback is that to the primary.
DegradeKeepingId(x) ==
    /\ HasFallback
    /\ Try(x, "degrade", "fallback")
    /\ saved' = [saved EXCEPT ![x] = NoId]
    /\ UNCHANGED <<breaker, previous, primaryAttempts, attempts, sent, refused,
                   chain, load>>

\* on_fallback saves the checkpoint before_model_fallback, without an id;
\* the request to the fallback carries none either.
Degrade(x) ==
    /\ HasFallback
    /\ Try(x, "degrade", "fallback")
    /\ saved' = [saved EXCEPT ![x] = NoId]
    /\ previous' = [previous EXCEPT ![x] = NoId]
    /\ UNCHANGED <<breaker, primaryAttempts, attempts, sent, refused, chain,
                   load>>

\* Without a fallback the error of the primary is raised; with one, the
\* checkpoint raises when the run was lost.
RaiseDegraded(x) == Raise(x, "degrade")

NewId(p) == IF p \in Issuers THEN [by |-> p, latest |-> TRUE] ELSE NoId

\* previous_response_id after an answer: after a fallback the id of the
\* answer or none, otherwise the id of the answer or the one before.
NextChain(p, old) ==
    IF p = "fallback" \/ p \in Issuers THEN NewId(p)
    ELSE IF old = NoId THEN NoId
    ELSE [by |-> old.by, latest |-> FALSE]

\* The response is labelled with its provider and attempts, and returned.
Annotate(x) ==
    /\ Go(x, "annotate", "save")
    /\ attempts' = [attempts EXCEPT ![x] = primaryAttempts[x] + attempt[x]]
    /\ chain' = [chain EXCEPT ![x] = NextChain(provider[x], chain[x])]
    /\ UNCHANGED <<breaker, attempt, primaryAttempts, sent, request, saved,
                   load>>

\* The loop saves before_tools and goes on, saves before_finalize and ends
\* (the next run starts without an id), or finds that it lost the run.
Continue(x) ==
    /\ Go(x, "save", "idle")
    /\ Forget(x)
    /\ saved' = [saved EXCEPT ![x] = chain[x]]
    /\ UNCHANGED <<breaker, chain, load>>

Finish(x) ==
    /\ Go(x, "save", "idle")
    /\ Forget(x)
    /\ chain' = [chain EXCEPT ![x] = NoId]
    /\ saved' = [saved EXCEPT ![x] = NoId]
    /\ UNCHANGED <<breaker, load>>

RaiseUnsaved(x) == Raise(x, "save")

\* The process dies: the breaker is new, the checkpoints stay.
Crash ==
    /\ failures' = 0 /\ opened' = FALSE /\ elapsed' = 0 /\ load' = 0
    /\ pc' = [x \in Worker |-> "idle"]
    /\ provider' = [x \in Worker |-> Nobody]
    /\ attempt' = [x \in Worker |-> 0]
    /\ previous' = [x \in Worker |-> NoId]
    /\ primaryAttempts' = [x \in Worker |-> 0]
    /\ attempts' = [x \in Worker |-> 0]
    /\ sent' = [x \in Worker |-> None]
    /\ refused' = [x \in Worker |-> FALSE]
    /\ chain' = saved
    /\ UNCHANGED saved

\* Time passes for an open breaker.
Tick ==
    /\ opened
    /\ elapsed < Recovery
    /\ elapsed' = elapsed + 1
    /\ UNCHANGED <<failures, opened, pc, counts, request, chains, load>>

\* A turn once begun goes on: requests end by their timeout.
Work(x) ==
    \/ Admit(x) \/ Refuse(x) \/ Send(x) \/ Answer(x) \/ Retry(x)
    \/ Exhaust(x) \/ GiveUp(x) \/ RecordFailure(x) \/ RecordSuccess(x)
    \/ Degrade(x) \/ RaiseDegraded(x) \/ Annotate(x)
    \/ Continue(x) \/ Finish(x) \/ RaiseUnsaved(x)

Next ==
    \/ \E x \in Worker : Ask(x) \/ Work(x)
    \/ Crash
    \/ Tick

\* Threads are scheduled and the clock runs; nobody has to ask.
Fairness == WF_vars(Tick) /\ \A x \in Worker : WF_vars(Work(x))

Safe == Init /\ [][Next]_vars

Spec == Safe /\ Fairness

-----------------------------------------------------------------------------
\* Types of the variables.
ModelTypeOK ==
    /\ failures \in Nat
    /\ opened \in BOOLEAN
    /\ elapsed \in 0 .. Recovery
    /\ pc \in [Worker -> Pc]
    /\ provider \in [Worker -> Provider \cup {Nobody}]
    /\ attempt \in [Worker -> 0 .. MaxAttempts]
    /\ previous \in [Worker -> Id]
    /\ primaryAttempts \in [Worker -> 0 .. MaxAttempts]
    /\ attempts \in [Worker -> 0 .. 2 * MaxAttempts]
    /\ chain \in [Worker -> Id]
    /\ saved \in [Worker -> Id]
    /\ sent \in [Worker -> [Provider -> 0 .. MaxAttempts]]
    /\ refused \in [Worker -> BOOLEAN]
    /\ load \in Nat

\* The breaker is open exactly while it has counted Threshold failures since
\* it was last closed, whatever threads that were admitted earlier report
\* (CircuitBreaker keeps the count and the time in two fields).
BreakerIsConsistent == opened <=> failures >= Threshold

\* A request names an earlier answer only to the provider that gave it, and
\* only if that answer is the latest of the conversation: an id never
\* crosses a fallback, in memory or through a checkpoint (the aim of
\* docs/plans/2026-07-19-model-reliability-fallback.md).
IdsStayWithProvider ==
    \A x \in Worker : pc[x] = "wait" /\ previous[x] # NoId =>
        previous[x] = [by |-> provider[x], latest |-> TRUE]

\* Whichever providers issue ids: the id of an answer of the primary is sent
\* to the primary alone, while it is the latest, also after retries,
\* fallbacks, crashes and checkpoints of both; only an id that the fallback
\* has issued can be sent to the other provider, as in gap_response_id.
OnlyFallbackIdsCross ==
    \A x \in Worker : pc[x] = "wait" /\ previous[x] # NoId =>
        \/ previous[x] = [by |-> provider[x], latest |-> TRUE]
        \/ /\ previous[x].by = "fallback" /\ "fallback" \in Issuers
           /\ provider[x] = "primary"

\* The fallback is asked only after every attempt at the primary failed or
\* the breaker was seen open.
FallbackIsLastResort ==
    \A x \in Worker : sent[x]["fallback"] > 0 =>
        refused[x] = TRUE \/ sent[x]["primary"] = MaxAttempts

\* The attempts reported with an answer, which feed the retry metric, are
\* the requests that were really made for it at both providers.
AttemptsAreReported ==
    \A x \in Worker : pc[x] = "save" =>
        attempts[x] = sent[x]["primary"] + sent[x]["fallback"]

\* A breaker that stays open lets a bounded number of requests through to
\* the primary: those of the other threads it had admitted before.
OpenBreakerBoundsLoad == opened => load <= LoadBound

\* Every turn that has asked the model ends, by an answer or an error.
EveryAskEnds == \A x \in Worker : pc[x] # "idle" ~> pc[x] = "idle"

\* If workers keep asking, an open breaker does not stay open: refused
\* requests and late failures of admitted ones cannot postpone it for ever.
BreakerRecovers ==
    []<>(\E x \in Worker : pc[x] = "admit") => (opened ~> ~opened)
=============================================================================
