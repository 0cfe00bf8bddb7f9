-------------------------- MODULE ModelClientProofs --------------------------
(***************************************************************************)
(* What ModelClient guarantees for any number of workers and attempts, any *)
(* threshold and any recovery time.  CallOK relates the locals of a call   *)
(* to the requests really made for it; Sound is what an id can be: one of  *)
(* the primary is the latest of its conversation, one of the fallback may  *)
(* be older if the primary issues none.                                    *)
(***************************************************************************)
EXTENDS ModelClient, FiniteSetTheorems, TLAPS

InCall == {"send", "wait", "answered", "annotate"}

CallOK(x) ==
    /\ pc[x] \in {"idle", "admit"} => /\ provider[x] = Nobody
                                     /\ primaryAttempts[x] = 0
                                     /\ sent[x]["primary"] = 0
    /\ pc[x] \in InCall =>
           /\ provider[x] \in Provider
           /\ attempt[x] \in 1 .. MaxAttempts
           /\ provider[x] = "primary" => primaryAttempts[x] = 0
           /\ sent[x][provider[x]] = IF pc[x] = "send" THEN attempt[x] - 1
                                                      ELSE attempt[x]
    /\ pc[x] \in {"failed", "answered"} => provider[x] = "primary"
    /\ pc[x] = "failed" => /\ primaryAttempts[x] = MaxAttempts
                           /\ sent[x]["primary"] = MaxAttempts
    /\ pc[x] = "degrade" =>
           /\ provider[x] # "fallback"
           /\ sent[x]["primary"] = primaryAttempts[x]
           /\ refused[x] = TRUE \/ primaryAttempts[x] = MaxAttempts
    /\ provider[x] = "fallback" =>
           /\ sent[x]["primary"] = primaryAttempts[x]
           /\ refused[x] = TRUE \/ primaryAttempts[x] = MaxAttempts
    /\ provider[x] # "fallback" => sent[x]["fallback"] = 0

CallsOK == \A x \in Worker : CallOK(x)

IInv == ModelTypeOK /\ BreakerIsConsistent /\ CallsOK /\ AttemptsAreReported

Sound(id) ==
    \/ id = NoId
    \/ id = [by |-> "primary", latest |-> TRUE] /\ "primary" \in Issuers
    \/ id \in [by : {"fallback"}, latest : BOOLEAN] /\ "fallback" \in Issuers

IdsOK ==
    \A x \in Worker :
        /\ Sound(chain[x])
        /\ Sound(saved[x])
        /\ Sound(previous[x])
        /\ provider[x] = "fallback" => previous[x] = NoId

-----------------------------------------------------------------------------
THEOREM InitOK == Init => IInv
<1> SUFFICES ASSUME Init PROVE IInv
  OBVIOUS
<1> USE ModelClientAssumption
<1>1. ModelTypeOK
  <2>1. opened \in BOOLEAN /\ refused \in [Worker -> BOOLEAN]
    BY Zenon DEF Init
  <2>2. /\ failures \in Nat /\ elapsed \in 0 .. Recovery /\ load \in Nat
        /\ pc \in [Worker -> Pc]
        /\ provider \in [Worker -> Provider \cup {Nobody}]
        /\ attempt \in [Worker -> 0 .. MaxAttempts]
        /\ primaryAttempts \in [Worker -> 0 .. MaxAttempts]
        /\ attempts \in [Worker -> 0 .. 2 * MaxAttempts]
        /\ sent \in [Worker -> [Provider -> 0 .. MaxAttempts]]
    BY SMT DEF Init, Pc, None
  <2>3. /\ previous \in [Worker -> Id]
        /\ chain \in [Worker -> Id]
        /\ saved \in [Worker -> Id]
    BY Zenon DEF Init, Id
  <2>4. QED
    BY <2>1, <2>2, <2>3 DEF ModelTypeOK
<1>2. BreakerIsConsistent
  <2>1. ~(failures >= Threshold)
    BY SMT DEF Init
  <2>2. opened = FALSE
    BY DEF Init
  <2>3. QED
    BY <2>1, <2>2, Zenon DEF BreakerIsConsistent
<1>3. CallsOK
  BY SMT DEF Init, CallsOK, CallOK, None, Provider, InCall
<1>4. AttemptsAreReported
  BY SMT DEF Init, AttemptsAreReported
<1>5. QED
  BY <1>1, <1>2, <1>3, <1>4 DEF IInv

LEMMA AskStep ==
    ASSUME IInv, NEW x \in Worker, Ask(x)
    PROVE  ModelTypeOK' /\ CallsOK' /\ AttemptsAreReported'
<1> USE ModelClientAssumption
<1>1. ModelTypeOK'
  BY SMT DEF IInv, ModelTypeOK, Pc, Id, Provider, Ask, Go, counts, request,
     chains, breaker
<1>2. ASSUME NEW y \in Worker PROVE CallOK(y)'
  BY <1>2, SMT DEF IInv, ModelTypeOK, CallsOK, CallOK, InCall, Provider,
     Ask, Go, counts, request
<1>3. AttemptsAreReported'
  BY SMT DEF IInv, ModelTypeOK, AttemptsAreReported, Ask, Go, counts
<1>4. QED
  BY <1>1, <1>2, <1>3 DEF CallsOK

LEMMA AdmitStep ==
    ASSUME IInv, NEW x \in Worker, Admit(x)
    PROVE  ModelTypeOK' /\ CallsOK' /\ AttemptsAreReported'
<1> USE ModelClientAssumption
<1>1. ModelTypeOK'
  BY SMT DEF IInv, ModelTypeOK, Pc, Id, Provider, Admit, Go, Try, AfterPass,
     counts, request, chains, breaker
<1>2. ASSUME NEW y \in Worker PROVE CallOK(y)'
  BY <1>2, SMT DEF IInv, ModelTypeOK, CallsOK, CallOK, InCall, Provider,
     Admit, Go, Try, counts, request
<1>3. AttemptsAreReported'
  BY SMT DEF IInv, ModelTypeOK, AttemptsAreReported, Admit, Go, Try, counts
<1>4. QED
  BY <1>1, <1>2, <1>3 DEF CallsOK

LEMMA RefuseStep ==
    ASSUME IInv, NEW x \in Worker, Refuse(x)
    PROVE  ModelTypeOK' /\ CallsOK' /\ AttemptsAreReported'
<1> USE ModelClientAssumption
<1>1. ModelTypeOK'
  BY SMT DEF IInv, ModelTypeOK, Pc, Id, Provider, Refuse, Go, counts,
     request, chains, breaker
<1>2. ASSUME NEW y \in Worker PROVE CallOK(y)'
  BY <1>2, SMT DEF IInv, ModelTypeOK, CallsOK, CallOK, InCall, Provider,
     Refuse, Go, counts, request
<1>3. AttemptsAreReported'
  BY SMT DEF IInv, ModelTypeOK, AttemptsAreReported, Refuse, Go, counts
<1>4. QED
  BY <1>1, <1>2, <1>3 DEF CallsOK

LEMMA SendStep ==
    ASSUME IInv, NEW x \in Worker, Send(x)
    PROVE  ModelTypeOK' /\ CallsOK' /\ AttemptsAreReported'
<1> USE ModelClientAssumption
<1>0. /\ pc[x] = "send"
      /\ provider[x] \in Provider
      /\ attempt[x] \in 1 .. MaxAttempts
      /\ sent[x] \in [Provider -> 0 .. MaxAttempts]
      /\ sent[x][provider[x]] = attempt[x] - 1
  BY SMT DEF IInv, ModelTypeOK, CallsOK, CallOK, InCall, Send, Go
<1>a. sent' = [sent EXCEPT ![x] = [sent[x] EXCEPT ![provider[x]] = attempt[x]]]
  <2>1. CountTo(sent[x][provider[x]], MaxAttempts) = attempt[x]
    BY <1>0, SMT DEF CountTo
  <2>2. sent' = [sent EXCEPT ![x] = [sent[x] EXCEPT ![provider[x]] =
                    CountTo(sent[x][provider[x]], MaxAttempts)]]
    BY DEF Send
  <2>3. QED
    BY <2>1, <2>2
<1>1. ModelTypeOK'
  <2>1. [sent[x] EXCEPT ![provider[x]] = attempt[x]] \in [Provider -> 0 .. MaxAttempts]
    BY <1>0, SMT
  <2>2. sent' \in [Worker -> [Provider -> 0 .. MaxAttempts]]
    BY <1>a, <2>1 DEF IInv, ModelTypeOK
  <2>3. load' \in Nat /\ pc' \in [Worker -> Pc]
    BY SMT DEF IInv, ModelTypeOK, Pc, Send, Go, CountTo
  <2>4. QED
    BY <2>2, <2>3 DEF IInv, ModelTypeOK, Send, breaker, request, chains
<1>2. ASSUME NEW y \in Worker PROVE CallOK(y)'
  <2>1. CallOK(y)
    BY <1>2 DEF IInv, CallsOK
  <2>2. CASE y = x
    <3>1. /\ sent'[x][provider[x]] = attempt[x]
          /\ \A p \in Provider \ {provider[x]} : sent'[x][p] = sent[x][p]
      BY <1>0, <1>a, SMT DEF IInv, ModelTypeOK
    <3>2. pc'[x] = "wait"
      BY SMT DEF IInv, ModelTypeOK, Send, Go
    <3>3. QED
      BY <1>0, <2>1, <2>2, <3>1, <3>2, SMT DEF CallOK, InCall, Provider, Send,
         request
  <2>3. CASE y # x
    <3>1. sent'[y] = sent[y] /\ pc'[y] = pc[y]
      BY <1>2, <1>a, <2>3, SMT DEF IInv, ModelTypeOK, Send, Go
    <3>2. QED
      BY <2>1, <3>1, SMT DEF CallOK, Send, request
  <2>4. QED
    BY <2>2, <2>3
<1>3. AttemptsAreReported'
  BY SMT DEF IInv, ModelTypeOK, AttemptsAreReported, Send, Go, CountTo,
     counts
<1>4. QED
  BY <1>1, <1>2, <1>3 DEF CallsOK

LEMMA AnswerStep ==
    ASSUME IInv, NEW x \in Worker, Answer(x)
    PROVE  ModelTypeOK' /\ CallsOK' /\ AttemptsAreReported'
<1> USE ModelClientAssumption
<1>1. ModelTypeOK'
  BY SMT DEF IInv, ModelTypeOK, Pc, Id, Provider, Answer, Go, counts,
     request, chains, breaker
<1>2. ASSUME NEW y \in Worker PROVE CallOK(y)'
  BY <1>2, SMT DEF IInv, ModelTypeOK, CallsOK, CallOK, InCall, Provider,
     Answer, Go, counts, request
<1>3. AttemptsAreReported'
  BY SMT DEF IInv, ModelTypeOK, AttemptsAreReported, Answer, Go, counts
<1>4. QED
  BY <1>1, <1>2, <1>3 DEF CallsOK

LEMMA RetryStep ==
    ASSUME IInv, NEW x \in Worker, Retry(x)
    PROVE  ModelTypeOK' /\ CallsOK' /\ AttemptsAreReported'
<1> USE ModelClientAssumption
<1>1. ModelTypeOK'
  BY SMT DEF IInv, ModelTypeOK, Pc, Id, Provider, Retry, Go, MayRetry,
     counts, request, chains, breaker
<1>2. ASSUME NEW y \in Worker PROVE CallOK(y)'
  BY <1>2, SMT DEF IInv, ModelTypeOK, CallsOK, CallOK, InCall, Provider,
     Retry, Go, MayRetry, counts, request
<1>3. AttemptsAreReported'
  BY SMT DEF IInv, ModelTypeOK, AttemptsAreReported, Retry, Go, MayRetry,
     counts
<1>4. QED
  BY <1>1, <1>2, <1>3 DEF CallsOK

LEMMA ExhaustStep ==
    ASSUME IInv, NEW x \in Worker, Exhaust(x)
    PROVE  ModelTypeOK' /\ CallsOK' /\ AttemptsAreReported'
<1> USE ModelClientAssumption
<1>1. ModelTypeOK'
  BY SMT DEF IInv, ModelTypeOK, Pc, Id, Provider, Exhaust, Go, MayRetry,
     CountPrimary, counts, request, chains, breaker
<1>2. ASSUME NEW y \in Worker PROVE CallOK(y)'
  <2>1. attempt[x] = MaxAttempts /\ sent[x]["primary"] = MaxAttempts
    BY SMT DEF IInv, ModelTypeOK, CallsOK, CallOK, InCall, Exhaust, Go, MayRetry
  <2>2. CallOK(y)
    BY <1>2 DEF IInv, CallsOK
  <2>3. QED
    BY <1>2, <2>1, <2>2, SMT DEF IInv, ModelTypeOK, CallOK, InCall, Pc,
       Provider, Exhaust, Go, CountPrimary, counts, request
<1>3. AttemptsAreReported'
  BY SMT DEF IInv, ModelTypeOK, AttemptsAreReported, Exhaust, Go, MayRetry,
     CountPrimary, counts
<1>4. QED
  BY <1>1, <1>2, <1>3 DEF CallsOK

LEMMA GiveUpStep ==
    ASSUME IInv, NEW x \in Worker, GiveUp(x)
    PROVE  ModelTypeOK' /\ CallsOK' /\ AttemptsAreReported'
<1> USE ModelClientAssumption
<1>1. ModelTypeOK'
  BY SMT DEF IInv, ModelTypeOK, Pc, Id, Provider, GiveUp, Go, Raise, Forget,
     None, counts, request, chains, breaker
<1>2. ASSUME NEW y \in Worker PROVE CallOK(y)'
  BY <1>2, SMT DEF IInv, ModelTypeOK, CallsOK, CallOK, InCall, Provider,
     GiveUp, Go, Raise, Forget, None, counts, request
<1>3. AttemptsAreReported'
  BY SMT DEF IInv, ModelTypeOK, AttemptsAreReported, GiveUp, Go, Raise,
     Forget, None, counts
<1>4. QED
  BY <1>1, <1>2, <1>3 DEF CallsOK

LEMMA RecordFailureStep ==
    ASSUME IInv, NEW x \in Worker, RecordFailure(x)
    PROVE  ModelTypeOK' /\ CallsOK' /\ AttemptsAreReported'
<1> USE ModelClientAssumption
<1>1. ModelTypeOK'
  <2>1. opened' \in BOOLEAN
    BY Zenon DEF IInv, ModelTypeOK, RecordFailure
  <2>2. /\ failures' \in Nat /\ elapsed' \in 0 .. Recovery
        /\ load' \in Nat /\ pc' \in [Worker -> Pc]
    BY SMT DEF IInv, ModelTypeOK, Pc, RecordFailure, Go
  <2>3. QED
    BY <2>1, <2>2 DEF IInv, ModelTypeOK, RecordFailure, counts, request, chains
<1>2. ASSUME NEW y \in Worker PROVE CallOK(y)'
  BY <1>2, SMT DEF IInv, ModelTypeOK, CallsOK, CallOK, InCall, Provider,
     RecordFailure, Go, counts, request
<1>3. AttemptsAreReported'
  BY SMT DEF IInv, ModelTypeOK, AttemptsAreReported, RecordFailure, Go,
     counts
<1>4. QED
  BY <1>1, <1>2, <1>3 DEF CallsOK

LEMMA RecordSuccessStep ==
    ASSUME IInv, NEW x \in Worker, RecordSuccess(x)
    PROVE  ModelTypeOK' /\ CallsOK' /\ AttemptsAreReported'
<1> USE ModelClientAssumption
<1>1. ModelTypeOK'
  <2>1. opened' \in BOOLEAN
    BY Zenon DEF RecordSuccess
  <2>2. /\ failures' \in Nat /\ elapsed' \in 0 .. Recovery
        /\ pc' \in [Worker -> Pc]
    BY SMT DEF IInv, ModelTypeOK, Pc, RecordSuccess, Go
  <2>3. QED
    BY <2>1, <2>2 DEF IInv, ModelTypeOK, RecordSuccess, counts, request, chains
<1>2. ASSUME NEW y \in Worker PROVE CallOK(y)'
  BY <1>2, SMT DEF IInv, ModelTypeOK, CallsOK, CallOK, InCall, Provider,
     RecordSuccess, Go, counts, request
<1>3. AttemptsAreReported'
  BY SMT DEF IInv, ModelTypeOK, AttemptsAreReported, RecordSuccess, Go,
     counts
<1>4. QED
  BY <1>1, <1>2, <1>3 DEF CallsOK

LEMMA DegradeStep ==
    ASSUME IInv, NEW x \in Worker, Degrade(x)
    PROVE  ModelTypeOK' /\ CallsOK' /\ AttemptsAreReported'
<1> USE ModelClientAssumption
<1>1. ModelTypeOK'
  BY SMT DEF IInv, ModelTypeOK, Pc, Id, Provider, Degrade, Go, Try, counts,
     request, chains, breaker
<1>2. ASSUME NEW y \in Worker PROVE CallOK(y)'
  BY <1>2, SMT DEF IInv, ModelTypeOK, CallsOK, CallOK, InCall, Provider,
     Degrade, Go, Try, counts, request
<1>3. AttemptsAreReported'
  BY SMT DEF IInv, ModelTypeOK, AttemptsAreReported, Degrade, Go, Try,
     counts
<1>4. QED
  BY <1>1, <1>2, <1>3 DEF CallsOK

LEMMA RaiseDegradedStep ==
    ASSUME IInv, NEW x \in Worker, RaiseDegraded(x)
    PROVE  ModelTypeOK' /\ CallsOK' /\ AttemptsAreReported'
<1> USE ModelClientAssumption
<1>1. ModelTypeOK'
  BY SMT DEF IInv, ModelTypeOK, Pc, Id, Provider, RaiseDegraded, Go, Raise,
     Forget, None, counts, request, chains, breaker
<1>2. ASSUME NEW y \in Worker PROVE CallOK(y)'
  BY <1>2, SMT DEF IInv, ModelTypeOK, CallsOK, CallOK, InCall, Provider,
     RaiseDegraded, Go, Raise, Forget, None, counts, request
<1>3. AttemptsAreReported'
  BY SMT DEF IInv, ModelTypeOK, AttemptsAreReported, RaiseDegraded, Go,
     Raise, Forget, None, counts
<1>4. QED
  BY <1>1, <1>2, <1>3 DEF CallsOK

LEMMA AnnotateStep ==
    ASSUME IInv, NEW x \in Worker, Annotate(x)
    PROVE  ModelTypeOK' /\ CallsOK' /\ AttemptsAreReported'
<1> USE ModelClientAssumption
<1>1. ModelTypeOK'
  <2>1. \A p \in Provider, id \in Id : NextChain(p, id) \in Id
    <3>1. ASSUME NEW p \in Provider, NEW id \in Id, id # NoId
          PROVE  [by |-> id.by, latest |-> FALSE] \in Id
      BY <3>1, SMT DEF Id
    <3>2. \A p \in Provider : NewId(p) \in Id
      BY SMT DEF NewId, Id
    <3>3. QED
      BY <3>1, <3>2, Zenon DEF NextChain, Id
  <2>2. provider[x] \in Provider /\ chain[x] \in Id
    BY SMT DEF IInv, ModelTypeOK, CallsOK, CallOK, InCall, Annotate, Go
  <2>3. chain' \in [Worker -> Id]
    BY <2>1, <2>2, Zenon DEF IInv, ModelTypeOK, Annotate
  <2>4. pc' \in [Worker -> Pc] /\ attempts' \in [Worker -> 0 .. 2 * MaxAttempts]
    BY SMT DEF IInv, ModelTypeOK, Pc, Annotate, Go
  <2>5. QED
    BY <2>3, <2>4 DEF IInv, ModelTypeOK, Annotate, breaker, request
<1>2. ASSUME NEW y \in Worker PROVE CallOK(y)'
  BY <1>2, SMT DEF IInv, ModelTypeOK, CallsOK, CallOK, InCall, Pc, Provider,
     Annotate, Go, counts, request, chains, breaker
<1>3. AttemptsAreReported'
  BY SMT DEF IInv, ModelTypeOK, CallsOK, CallOK, InCall,
     AttemptsAreReported, Pc, Provider, Annotate, Go, counts, request,
     chains, breaker
<1>4. QED
  BY <1>1, <1>2, <1>3 DEF CallsOK

LEMMA ContinueStep ==
    ASSUME IInv, NEW x \in Worker, Continue(x)
    PROVE  ModelTypeOK' /\ CallsOK' /\ AttemptsAreReported'
<1> USE ModelClientAssumption
<1>1. ModelTypeOK'
  BY SMT DEF IInv, ModelTypeOK, Pc, Id, Provider, Continue, Go, Forget,
     None, counts, request, chains, breaker
<1>2. ASSUME NEW y \in Worker PROVE CallOK(y)'
  BY <1>2, SMT DEF IInv, ModelTypeOK, CallsOK, CallOK, InCall, Provider,
     Continue, Go, Forget, None, counts, request
<1>3. AttemptsAreReported'
  BY SMT DEF IInv, ModelTypeOK, AttemptsAreReported, Continue, Go, Forget,
     None, counts
<1>4. QED
  BY <1>1, <1>2, <1>3 DEF CallsOK

LEMMA FinishStep ==
    ASSUME IInv, NEW x \in Worker, Finish(x)
    PROVE  ModelTypeOK' /\ CallsOK' /\ AttemptsAreReported'
<1> USE ModelClientAssumption
<1>1. ModelTypeOK'
  BY SMT DEF IInv, ModelTypeOK, Pc, Id, Provider, Finish, Go, Forget, None,
     counts, request, chains, breaker
<1>2. ASSUME NEW y \in Worker PROVE CallOK(y)'
  BY <1>2, SMT DEF IInv, ModelTypeOK, CallsOK, CallOK, InCall, Provider,
     Finish, Go, Forget, None, counts, request
<1>3. AttemptsAreReported'
  BY SMT DEF IInv, ModelTypeOK, AttemptsAreReported, Finish, Go, Forget,
     None, counts
<1>4. QED
  BY <1>1, <1>2, <1>3 DEF CallsOK

LEMMA RaiseUnsavedStep ==
    ASSUME IInv, NEW x \in Worker, RaiseUnsaved(x)
    PROVE  ModelTypeOK' /\ CallsOK' /\ AttemptsAreReported'
<1> USE ModelClientAssumption
<1>1. ModelTypeOK'
  BY SMT DEF IInv, ModelTypeOK, Pc, Id, Provider, RaiseUnsaved, Go, Raise,
     Forget, None, counts, request, chains, breaker
<1>2. ASSUME NEW y \in Worker PROVE CallOK(y)'
  BY <1>2, SMT DEF IInv, ModelTypeOK, CallsOK, CallOK, InCall, Provider,
     RaiseUnsaved, Go, Raise, Forget, None, counts, request
<1>3. AttemptsAreReported'
  BY SMT DEF IInv, ModelTypeOK, AttemptsAreReported, RaiseUnsaved, Go,
     Raise, Forget, None, counts
<1>4. QED
  BY <1>1, <1>2, <1>3 DEF CallsOK

LEMMA CrashStep ==
    ASSUME IInv, Crash
    PROVE  ModelTypeOK' /\ CallsOK' /\ AttemptsAreReported'
<1> USE ModelClientAssumption
<1>1. ModelTypeOK'
  <2>1. opened' \in BOOLEAN /\ refused' \in [Worker -> BOOLEAN]
    BY Zenon DEF Crash
  <2>2. /\ failures' \in Nat /\ elapsed' \in 0 .. Recovery /\ load' \in Nat
        /\ pc' \in [Worker -> Pc]
        /\ provider' \in [Worker -> Provider \cup {Nobody}]
        /\ attempt' \in [Worker -> 0 .. MaxAttempts]
        /\ primaryAttempts' \in [Worker -> 0 .. MaxAttempts]
        /\ attempts' \in [Worker -> 0 .. 2 * MaxAttempts]
        /\ sent' \in [Worker -> [Provider -> 0 .. MaxAttempts]]
    BY SMT DEF Crash, Pc, None
  <2>3. /\ previous' \in [Worker -> Id]
        /\ chain' \in [Worker -> Id]
        /\ saved' \in [Worker -> Id]
    BY Zenon DEF IInv, ModelTypeOK, Crash, Id
  <2>4. QED
    BY <2>1, <2>2, <2>3 DEF ModelTypeOK
<1>2. CallsOK'
  BY SMT DEF Crash, CallsOK, CallOK, None, Provider, InCall
<1>3. AttemptsAreReported'
  BY SMT DEF Crash, AttemptsAreReported
<1>4. QED
  BY <1>1, <1>2, <1>3

LEMMA TickStep ==
    ASSUME IInv, Tick
    PROVE  ModelTypeOK' /\ CallsOK' /\ AttemptsAreReported'
<1> USE ModelClientAssumption
<1>1. elapsed' \in 0 .. Recovery
  BY SMT DEF IInv, ModelTypeOK, Tick
<1>2. UNCHANGED <<failures, opened, pc, counts, request, chains, load>>
  BY DEF Tick
<1>3. ModelTypeOK'
  BY <1>1, <1>2 DEF IInv, ModelTypeOK, counts, request, chains
<1>4. CallsOK'
  BY <1>2 DEF IInv, CallsOK, CallOK, counts, request
<1>5. AttemptsAreReported'
  BY <1>2 DEF IInv, AttemptsAreReported, counts
<1>6. QED
  BY <1>3, <1>4, <1>5

\* The two fields of the breaker move together.
LEMMA BreakerStep ==
    ASSUME IInv, [Next]_vars
    PROVE  BreakerIsConsistent'
<1> USE ModelClientAssumption
<1>1. failures \in Nat /\ opened \in BOOLEAN
  BY DEF IInv, ModelTypeOK
<1>2. CASE \E x \in Worker : Admit(x)
  <2>1. opened' = FALSE /\ failures' = IF opened THEN 0 ELSE failures
    BY <1>2 DEF Admit, AfterPass
  <2>2. ~(0 >= Threshold)
    BY SMT
  <2>3. CASE opened
    BY <2>1, <2>2, <2>3, Zenon DEF BreakerIsConsistent
  <2>4. CASE ~opened
    BY <2>1, <2>4, Zenon DEF IInv, BreakerIsConsistent
  <2>5. QED
    BY <2>3, <2>4
<1>3. CASE \E x \in Worker : RecordFailure(x)
  <2>1. failures' = failures + 1
    BY <1>3 DEF RecordFailure
  <2>2. CASE failures + 1 >= Threshold
    BY <1>3, <2>1, <2>2, Zenon DEF RecordFailure, Opens, BreakerIsConsistent
  <2>3. CASE ~(failures + 1 >= Threshold)
    <3>1. ~(failures >= Threshold)
      BY <1>1, <2>3, SMT
    <3>2. opened' = opened
      BY <1>3, <2>3, Zenon DEF RecordFailure, Opens
    <3>3. QED
      BY <2>1, <2>3, <3>1, <3>2, Zenon DEF IInv, BreakerIsConsistent
  <2>4. QED
    BY <2>2, <2>3
<1>4. CASE (\E x \in Worker : RecordSuccess(x)) \/ Crash
  <2>1. opened' = FALSE /\ failures' = 0
    BY <1>4 DEF RecordSuccess, Crash
  <2>2. ~(0 >= Threshold)
    BY SMT
  <2>3. QED
    BY <2>1, <2>2, Zenon DEF BreakerIsConsistent
<1>5. CASE UNCHANGED <<failures, opened>>
  BY <1>5 DEF IInv, BreakerIsConsistent
<1>6. QED
  BY <1>2, <1>3, <1>4, <1>5 DEF Next, Work, Ask, Refuse, Send, Answer, Retry,
     Exhaust, GiveUp, Degrade, RaiseDegraded, Annotate, Continue, Finish,
     RaiseUnsaved, Raise, Tick, vars, breaker

\* A step of one worker keeps the parts about calls.
LEMMA WorkStep ==
    ASSUME IInv, NEW x \in Worker, Ask(x) \/ Work(x)
    PROVE  ModelTypeOK' /\ CallsOK' /\ AttemptsAreReported'
BY AskStep, AdmitStep, RefuseStep, SendStep, AnswerStep, RetryStep, ExhaustStep,
   GiveUpStep, RecordFailureStep, RecordSuccessStep, DegradeStep,
   RaiseDegradedStep, AnnotateStep, ContinueStep, FinishStep, RaiseUnsavedStep
   DEF Work

LEMMA NextKeepsIInv == IInv /\ [Next]_vars => IInv'
<1> SUFFICES ASSUME IInv, [Next]_vars PROVE IInv'
  OBVIOUS
<1>1. BreakerIsConsistent'
  BY BreakerStep
<1>2. ModelTypeOK' /\ CallsOK' /\ AttemptsAreReported'
  <2>1. CASE \E x \in Worker : Ask(x) \/ Work(x)
    BY <2>1, WorkStep
  <2>2. CASE Crash
    BY <2>2, CrashStep
  <2>3. CASE Tick
    BY <2>3, TickStep
  <2>4. CASE UNCHANGED vars
    BY <2>4 DEF IInv, ModelTypeOK, CallsOK, CallOK, AttemptsAreReported, vars,
       breaker, counts, request, chains
  <2>5. QED
    BY <2>1, <2>2, <2>3, <2>4 DEF Next
<1>3. QED
  BY <1>1, <1>2 DEF IInv

\* ModelClient: generate, its retry loop and the breaker keep the relation
\* between their locals and the requests made.
THEOREM CallsAreSound == Safe => []IInv
<1>1. Init => IInv
  BY InitOK
<1>2. IInv /\ [Next]_vars => IInv'
  BY NextKeepsIInv
<1>3. QED
  BY <1>1, <1>2, PTL DEF Safe

\* The state of ModelClient keeps its types; no call makes more than
\* max_attempts requests to a provider.
THEOREM CallsAreWellTyped == Safe => []ModelTypeOK
<1>1. IInv => ModelTypeOK
  BY DEF IInv
<1>2. QED
  BY <1>1, CallsAreSound, PTL

\* CircuitBreaker: open exactly at Threshold failures.
THEOREM BreakerCountsFailures == Safe => []BreakerIsConsistent
<1>1. IInv => BreakerIsConsistent
  BY DEF IInv
<1>2. QED
  BY <1>1, CallsAreSound, PTL

\* generate: the attempts of a response are the requests made for it.
THEOREM ReportsAreExact == Safe => []AttemptsAreReported
<1>1. IInv => AttemptsAreReported
  BY DEF IInv
<1>2. QED
  BY <1>1, CallsAreSound, PTL

\* generate: the fallback is asked only when the primary is exhausted or
\* the breaker is open.
THEOREM FallbackComesLast == Safe => []FallbackIsLastResort
<1>1. ASSUME IInv PROVE FallbackIsLastResort
  <2> SUFFICES ASSUME NEW x \in Worker, sent[x]["fallback"] > 0
               PROVE  refused[x] = TRUE \/ sent[x]["primary"] = MaxAttempts
    BY DEF FallbackIsLastResort
  <2>1. CallOK(x)
    BY <1>1 DEF IInv, CallsOK
  <2>2. provider[x] = "fallback"
    BY <2>1, SMT DEF CallOK
  <2>3. QED
    BY <2>1, <2>2, Zenon DEF CallOK
<1>2. QED
  BY <1>1, CallsAreSound, PTL

-----------------------------------------------------------------------------
LEMMA IdsStart == Init => IdsOK
BY Zenon DEF Init, IdsOK, Sound, Provider, ModelClientAssumption

LEMMA IdsStep ==
    ASSUME IInv, IdsOK, [Next]_vars
    PROVE  IdsOK'
<1> USE ModelClientAssumption
<1> DEFINE OK(y) == /\ Sound(chain[y])
                    /\ Sound(saved[y])
                    /\ Sound(previous[y])
                    /\ provider[y] = "fallback" => previous[y] = NoId
<1>0. Sound(NoId)
  BY DEF Sound
<1> SUFFICES ASSUME NEW y \in Worker PROVE OK(y)'
  BY DEF IdsOK
<1>1. OK(y)
  BY DEF IdsOK
<1>2. CASE \E x \in Worker : Ask(x)
  <2> PICK x \in Worker : Ask(x)
    BY <1>2
  <2>1. CASE y = x
    <3>1. provider[y] = Nobody
      BY <2>1, SMT DEF IInv, CallsOK, CallOK, Ask, Go
    <3>2. previous'[y] = chain[y] /\ saved'[y] = chain[y]
      BY <2>1 DEF IInv, ModelTypeOK, Ask
    <3>3. QED
      BY <1>1, <3>1, <3>2 DEF Ask, Provider
  <2>2. CASE y # x
    BY <1>1, <2>2 DEF IInv, ModelTypeOK, Ask
  <2>3. QED
    BY <2>1, <2>2
<1>3. CASE \E x \in Worker : Admit(x)
  <2> PICK x \in Worker : Admit(x)
    BY <1>3
  <2>1. provider'[y] = "fallback" => provider[y] = "fallback"
    BY DEF IInv, ModelTypeOK, Admit, Try
  <2>2. UNCHANGED <<previous, chains>>
    BY DEF Admit
  <2>3. QED
    BY <1>1, <2>1, <2>2 DEF chains
<1>4. CASE \E x \in Worker : Degrade(x)
  <2> PICK x \in Worker : Degrade(x)
    BY <1>4
  <2>1. CASE y = x
    BY <1>0, <1>1, <2>1 DEF IInv, ModelTypeOK, Degrade, Try
  <2>2. CASE y # x
    BY <1>1, <2>2 DEF IInv, ModelTypeOK, Degrade, Try
  <2>3. QED
    BY <2>1, <2>2
<1>5. CASE \E x \in Worker : Annotate(x)
  <2> PICK x \in Worker : Annotate(x)
    BY <1>5
  <2>1. UNCHANGED <<request, saved>>
    BY DEF Annotate
  <2>2. CASE y = x
    <3>1. provider[x] \in {"primary", "fallback"}
      BY SMT DEF IInv, CallsOK, CallOK, InCall, Annotate, Go, Provider
    <3>2. chain'[y] = NextChain(provider[x], chain[x])
      BY <2>2 DEF IInv, ModelTypeOK, Annotate
    <3>3. Sound(NextChain(provider[x], chain[x]))
      <4>1. CASE provider[x] = "fallback"
        BY <1>0, <4>1 DEF NextChain, NewId, Sound
      <4>2. CASE provider[x] = "primary" /\ "primary" \in Issuers
        BY <4>2 DEF NextChain, NewId, Sound
      <4>3. CASE provider[x] = "primary" /\ "primary" \notin Issuers
        <5>1. \/ chain[x] = NoId
              \/ /\ chain[x] \in [by : {"fallback"}, latest : BOOLEAN]
                 /\ "fallback" \in Issuers
          BY <1>1, <2>2, <4>3 DEF Sound
        <5>2. \/ NextChain(provider[x], chain[x]) = NoId
              \/ NextChain(provider[x], chain[x])
                   = [by |-> chain[x].by, latest |-> FALSE]
          BY <4>3 DEF NextChain
        <5>3. QED
          BY <1>0, <4>3, <5>1, <5>2
             DEF NextChain, Sound
      <4>4. QED
        BY <3>1, <4>1, <4>2, <4>3
    <3>4. Sound(chain'[y])
      BY <3>2, <3>3
    <3>5. QED
      BY <1>1, <2>1, <3>4 DEF request
  <2>3. CASE y # x
    BY <1>1, <2>1, <2>3 DEF IInv, ModelTypeOK, Annotate, request
  <2>4. QED
    BY <2>2, <2>3
<1>6. CASE \E x \in Worker : Continue(x) \/ Finish(x)
  <2> PICK x \in Worker : Continue(x) \/ Finish(x)
    BY <1>6
  <2>1. CASE y = x
    BY <1>0, <1>1, <2>1 DEF IInv, ModelTypeOK, Continue, Finish, Forget
  <2>2. CASE y # x
    BY <1>1, <2>2 DEF IInv, ModelTypeOK, Continue, Finish, Forget
  <2>3. QED
    BY <2>1, <2>2
<1>7. CASE \E x \in Worker : GiveUp(x) \/ RaiseDegraded(x) \/ RaiseUnsaved(x)
  <2> PICK x \in Worker : GiveUp(x) \/ RaiseDegraded(x) \/ RaiseUnsaved(x)
    BY <1>7
  <2>1. /\ Forget(x)
        /\ chain' = [chain EXCEPT ![x] = saved[x]]
        /\ UNCHANGED saved
    BY DEF GiveUp, RaiseDegraded, RaiseUnsaved, Raise
  <2>2. CASE y = x
    BY <1>0, <1>1, <2>1, <2>2 DEF IInv, ModelTypeOK, Forget
  <2>3. CASE y # x
    BY <1>1, <2>1, <2>3 DEF IInv, ModelTypeOK, Forget
  <2>4. QED
    BY <2>2, <2>3
<1>8. CASE Crash
  BY <1>0, <1>1, <1>8 DEF Crash
<1>9. CASE UNCHANGED <<provider, previous, chains>>
  BY <1>1, <1>9 DEF chains
<1>10. QED
  BY <1>2, <1>3, <1>4, <1>5, <1>6, <1>7, <1>8, <1>9
     DEF Next, Work, Refuse, Send, Answer, Retry, Exhaust, RecordFailure,
         RecordSuccess, Tick, vars, request

\* The loop and generate, whichever providers issue ids: an id of the primary
\* is sent only to the primary and only while it is the latest; only an id of
\* the fallback can be sent to the other provider.
THEOREM PrimaryIdsDoNotCross == Safe => []OnlyFallbackIdsCross
<1>1. IInv /\ IdsOK => OnlyFallbackIdsCross
  <2> SUFFICES ASSUME IInv, IdsOK, NEW x \in Worker,
                      pc[x] = "wait", previous[x] # NoId
               PROVE  \/ previous[x] = [by |-> provider[x], latest |-> TRUE]
                      \/ /\ previous[x].by = "fallback"
                         /\ "fallback" \in Issuers
                         /\ provider[x] = "primary"
    BY DEF OnlyFallbackIdsCross
  <2>1. provider[x] \in {"primary", "fallback"}
    BY SMT DEF IInv, CallsOK, CallOK, InCall, Provider
  <2>2. QED
    BY <2>1 DEF IdsOK, Sound
<1>2. Init => IdsOK
  BY IdsStart
<1>3. IInv /\ IdsOK /\ [Next]_vars => IdsOK'
  BY IdsStep
<1>4. QED
  BY <1>1, <1>2, <1>3, CallsAreSound, PTL DEF Safe

-----------------------------------------------------------------------------
\* The requests to the primary that the admitted workers may still make, each
\* named by its worker and its attempt: as a set, so that what is left of them
\* and what was sent are counted without a sum over the workers.
Pending(x) == {k \in 1 .. MaxAttempts :
                 /\ provider[x] = "primary"
                 /\ \/ pc[x] = "send" /\ k >= attempt[x]
                    \/ pc[x] = "wait" /\ k > attempt[x]}

Outstanding == {s \in Worker \X (1 .. MaxAttempts) : s[2] \in Pending(s[1])}

\* What an open breaker has let through and may still let through.
LoadInv == opened => load + Cardinality(Outstanding) <= LoadBound

LEMMA SlotsAreFinite ==
    /\ IsFiniteSet(Worker \X (1 .. MaxAttempts))
    /\ \A S \in SUBSET (Worker \X (1 .. MaxAttempts)) :
         IsFiniteSet(S) /\ Cardinality(S) \in Nat
<1>1. IsFiniteSet(1 .. MaxAttempts)
  BY ModelClientAssumption, FS_Interval
<1>2. IsFiniteSet(Worker \X (1 .. MaxAttempts))
  BY <1>1, ModelClientAssumption, FS_Product
<1>3. QED
  BY <1>2, FS_Subset, FS_CardinalityType

\* The worker that opens the breaker has made its last request.
LEMMA OthersFit ==
    ASSUME NEW x \in Worker,
           NEW S \in SUBSET ((Worker \ {x}) \X (1 .. MaxAttempts))
    PROVE  Cardinality(S) <= LoadBound /\ LoadBound \in Nat
<1> USE ModelClientAssumption
<1> DEFINE n == Cardinality(Worker)
           Others == (Worker \ {x}) \X (1 .. MaxAttempts)
<1>1. IsFiniteSet(1 .. MaxAttempts) /\ Cardinality(1 .. MaxAttempts) = MaxAttempts
  BY FS_Interval
<1>2. /\ IsFiniteSet(Worker \ {x}) /\ Cardinality(Worker \ {x}) = n - 1
      /\ n - 1 \in Nat
  <2>1. IsFiniteSet(Worker \ {x}) /\ Cardinality(Worker \ {x}) = n - 1
    BY FS_RemoveElement
  <2>2. Cardinality(Worker \ {x}) \in Nat
    BY <2>1, FS_CardinalityType
  <2>3. QED
    BY <2>1, <2>2
<1>3. IsFiniteSet(Others) /\ Cardinality(Others) = (n - 1) * MaxAttempts
  BY <1>1, <1>2, FS_Product
<1>4. Cardinality(S) <= Cardinality(Others)
  BY <1>3, FS_Subset
<1>5. (n - 1) * MaxAttempts \in Nat
  BY <1>1, <1>2, FS_Product, <1>3, FS_CardinalityType
<1>6. QED
  BY <1>3, <1>4, <1>5 DEF LoadBound

LEMMA LoadBoundType == LoadBound \in Int
<1>1. Cardinality(Worker) \in Nat /\ MaxAttempts \in Nat
  BY ModelClientAssumption, FS_CardinalityType
<1>2. \A m \in Int, n \in Int : m * n \in Int
  OBVIOUS
<1>3. QED
  BY <1>1, <1>2 DEF LoadBound

LEMMA LoadStays ==
    ASSUME LoadInv, load \in Nat, opened' => opened, load' = load,
           Outstanding' \subseteq Outstanding
    PROVE  LoadInv'
<1>1. SUFFICES ASSUME opened'
               PROVE  load + Cardinality(Outstanding') <= LoadBound
  BY DEF LoadInv, LoadBound
<1>2. /\ Cardinality(Outstanding') <= Cardinality(Outstanding)
      /\ Cardinality(Outstanding') \in Nat /\ Cardinality(Outstanding) \in Nat
  BY SlotsAreFinite, FS_Subset DEF Outstanding
<1>3. load + Cardinality(Outstanding) <= LoadBound
  BY <1>1 DEF LoadInv
<1>4. QED
  BY <1>2, <1>3, LoadBoundType

\* No other action lets a worker make more requests than it might before.
LEMMA PendingShrinks ==
    ASSUME IInv, NEW x \in Worker,
           \/ Ask(x) \/ Refuse(x) \/ Send(x) \/ Answer(x) \/ Retry(x)
           \/ Exhaust(x) \/ GiveUp(x) \/ RecordFailure(x) \/ RecordSuccess(x)
           \/ Degrade(x) \/ RaiseDegraded(x) \/ Annotate(x) \/ Continue(x)
           \/ Finish(x) \/ RaiseUnsaved(x)
    PROVE  /\ Outstanding' \subseteq Outstanding
           /\ Send(x) /\ provider[x] = "primary" =>
                /\ <<x, attempt[x]>> \in Outstanding
                /\ <<x, attempt[x]>> \notin Outstanding'
<1> USE ModelClientAssumption
<1>1. \A y \in Worker \ {x} : /\ pc'[y] = pc[y] /\ provider'[y] = provider[y]
                              /\ attempt'[y] = attempt[y]
  BY DEF IInv, ModelTypeOK, Ask, Refuse, Send, Answer, Retry, Exhaust, GiveUp,
     RecordFailure, RecordSuccess, Degrade, RaiseDegraded, Annotate, Continue,
     Finish, RaiseUnsaved, Raise, Go, Try, Forget, counts, request
<1>2. \A y \in Worker \ {x} : Pending(y)' = Pending(y)
  BY <1>1 DEF Pending
<1>3. attempt[x] \in 0 .. MaxAttempts
  BY DEF IInv, ModelTypeOK
<1>4. CASE pc'[x] \notin {"send", "wait"} \/ provider'[x] # "primary"
  <2>1. Pending(x)' = {}
    BY <1>4 DEF Pending
  <2>2. ~Send(x) \/ provider[x] # "primary"
    BY <1>4 DEF Send, Go, IInv, ModelTypeOK, request
  <2>3. QED
    BY <1>2, <2>1, <2>2 DEF Outstanding
<1>5. CASE Send(x)
  <2>1. /\ pc[x] = "send" /\ pc'[x] = "wait" /\ provider'[x] = provider[x]
        /\ attempt'[x] = attempt[x]
    BY <1>5 DEF Send, Go, IInv, ModelTypeOK, request
  <2>2. attempt[x] \in 1 .. MaxAttempts
    BY <2>1 DEF IInv, CallsOK, CallOK, InCall
  <2>3. /\ Pending(x)' \subseteq Pending(x)
        /\ provider[x] = "primary" => /\ attempt[x] \in Pending(x)
                                      /\ attempt[x] \notin Pending(x)'
    BY <2>1, <2>2 DEF Pending
  <2>4. QED
    BY <1>2, <2>2, <2>3 DEF Outstanding
<1>6. CASE Retry(x)
  <2>1. /\ pc[x] = "wait" /\ pc'[x] = "send" /\ provider'[x] = provider[x]
        /\ attempt'[x] = attempt[x] + 1
    BY <1>6 DEF Retry, Go, IInv, ModelTypeOK, request
  <2>2. Pending(x)' = Pending(x)
    BY <1>3, <2>1 DEF Pending
  <2>3. QED
    BY <1>2, <1>6, <2>1, <2>2 DEF Outstanding, Send, Go
<1>7. QED
  <2>1. Degrade(x) => provider'[x] # "primary"
    BY DEF Degrade, Try, IInv, ModelTypeOK
  <2>2. \/ Ask(x) \/ Refuse(x) \/ Answer(x) \/ Exhaust(x) \/ GiveUp(x)
        \/ RecordFailure(x) \/ RecordSuccess(x) \/ RaiseDegraded(x)
        \/ Annotate(x) \/ Continue(x) \/ Finish(x) \/ RaiseUnsaved(x)
        => pc'[x] \notin {"send", "wait"}
    BY DEF IInv, ModelTypeOK, Ask, Refuse, Answer, Exhaust, GiveUp,
       RecordFailure, RecordSuccess, RaiseDegraded, Annotate, Continue,
       Finish, RaiseUnsaved, Raise, Go
  <2>3. QED
    BY <1>4, <1>5, <1>6, <2>1, <2>2

LEMMA LoadStep ==
    ASSUME IInv, LoadInv, [Next]_vars
    PROVE  LoadInv'
<1> USE ModelClientAssumption
<1>1. /\ load \in Nat /\ opened \in BOOLEAN
      /\ Outstanding \subseteq Worker \X (1 .. MaxAttempts)
      /\ Outstanding' \subseteq Worker \X (1 .. MaxAttempts)
  BY DEF IInv, ModelTypeOK, Outstanding
<1>2. CASE ~opened'
  BY <1>2 DEF LoadInv
<1>3. ASSUME NEW x \in Worker, RecordFailure(x)
      PROVE  LoadInv'
  <2>1. Outstanding' \subseteq Outstanding
    BY <1>3, PendingShrinks
  <2>2. CASE load' = load /\ (opened' => opened)
    BY <1>1, <2>1, <2>2, LoadStays
  <2>3. CASE load' = 0
    <3>1. pc'[x] = "degrade"
      BY <1>3 DEF RecordFailure, Go, IInv, ModelTypeOK
    <3>2. Outstanding' \in SUBSET ((Worker \ {x}) \X (1 .. MaxAttempts))
      BY <3>1 DEF Outstanding, Pending
    <3>3. Cardinality(Outstanding') <= LoadBound
      BY <3>2, OthersFit
    <3>4. Cardinality(Outstanding') \in Nat
      BY <1>1, SlotsAreFinite
    <3>5. LoadBound' = LoadBound
      BY DEF LoadBound
    <3>6. QED
      BY <2>3, <3>3, <3>4, <3>5 DEF LoadInv
  <2>4. QED
    BY <1>3, <2>2, <2>3 DEF RecordFailure
<1>4. ASSUME NEW x \in Worker, Send(x)
      PROVE  LoadInv'
  <2>1. /\ Outstanding' \subseteq Outstanding
        /\ provider[x] = "primary" => /\ <<x, attempt[x]>> \in Outstanding
                                      /\ <<x, attempt[x]>> \notin Outstanding'
    BY <1>4, PendingShrinks
  <2>2. opened' = opened
    BY <1>4 DEF Send, breaker
  <2>3. CASE load' = load
    BY <1>1, <2>1, <2>2, <2>3, LoadStays
  <2>4. CASE provider[x] = "primary" /\ opened /\ load' # load
    <3> DEFINE s == <<x, attempt[x]>>
    <3>1. load' = load + 1
      BY <1>4, <2>4 DEF Send, CountTo
    <3>2. Outstanding' \subseteq Outstanding \ {s} /\ s \in Outstanding
      BY <2>1, <2>4
    <3>3. /\ IsFiniteSet(Outstanding) /\ Cardinality(Outstanding) \in Nat
          /\ Cardinality(Outstanding') \in Nat
      BY <1>1, SlotsAreFinite
    <3>4. /\ IsFiniteSet(Outstanding \ {s})
          /\ Cardinality(Outstanding \ {s}) = Cardinality(Outstanding) - 1
      BY <3>2, <3>3, FS_RemoveElement
    <3>5. Cardinality(Outstanding') <= Cardinality(Outstanding) - 1
      BY <3>2, <3>4, FS_Subset
    <3>6. load + Cardinality(Outstanding) <= LoadBound /\ LoadBound' = LoadBound
      BY <2>4 DEF LoadInv, LoadBound
    <3>7. QED
      BY <1>1, <3>1, <3>3, <3>5, <3>6, LoadBoundType DEF LoadInv
  <2>5. QED
    BY <1>4, <2>3, <2>4 DEF Send
<1>5. ASSUME NEW x \in Worker,
             \/ Ask(x) \/ Refuse(x) \/ Answer(x) \/ Retry(x) \/ Exhaust(x)
             \/ GiveUp(x) \/ Degrade(x) \/ RaiseDegraded(x) \/ Annotate(x)
             \/ Continue(x) \/ Finish(x) \/ RaiseUnsaved(x)
      PROVE  LoadInv'
  <2>1. Outstanding' \subseteq Outstanding
    BY <1>5, PendingShrinks
  <2>2. load' = load /\ opened' = opened
    BY <1>5 DEF Ask, Refuse, Answer, Retry, Exhaust, GiveUp, Degrade,
       RaiseDegraded, Annotate, Continue, Finish, RaiseUnsaved, Raise, breaker
  <2>3. QED
    BY <1>1, <2>1, <2>2, LoadStays
<1>6. CASE Tick \/ UNCHANGED vars
  <2>1. UNCHANGED <<load, opened, pc, provider, attempt>>
    BY <1>6 DEF Tick, vars, breaker, counts, request
  <2>2. Outstanding' = Outstanding
    BY <2>1 DEF Outstanding, Pending
  <2>3. QED
    BY <1>1, <2>1, <2>2, LoadStays
<1>7. ~opened' \/ ~Crash
  BY DEF Crash
<1>8. \A x \in Worker : Admit(x) \/ RecordSuccess(x) => ~opened'
  BY DEF Admit, AfterPass, RecordSuccess
<1>9. QED
  BY <1>2, <1>3, <1>4, <1>5, <1>6, <1>7, <1>8 DEF Next, Work

\* CircuitBreaker: threads admitted before it opened, their retries and the
\* failures they report late are all that still reach the primary, for any
\* number of threads.
THEOREM OpenBreakerIsRespected == Safe => []OpenBreakerBoundsLoad
<1>1. Init => LoadInv
  BY DEF Init, LoadInv
<1>2. IInv /\ LoadInv /\ [Next]_vars => LoadInv'
  BY LoadStep
<1>3. ASSUME IInv, LoadInv PROVE OpenBreakerBoundsLoad
  <2>1. load \in Nat /\ Cardinality(Outstanding) \in Nat
    <3>1. Outstanding \in SUBSET (Worker \X (1 .. MaxAttempts))
      BY DEF Outstanding
    <3>2. QED
      BY <1>3, <3>1, SlotsAreFinite DEF IInv, ModelTypeOK
  <2>2. QED
    BY <1>3, <2>1, LoadBoundType DEF LoadInv, OpenBreakerBoundsLoad
<1>4. QED
  BY <1>1, <1>2, <1>3, CallsAreSound, PTL DEF Safe
=============================================================================
