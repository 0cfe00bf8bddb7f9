------------------------- MODULE ConversationProofs -------------------------
(***************************************************************************)
(* What the agent loop keeps of its conversations, for any number of       *)
(* processes, threads, calls and crashes: every checkpoint, every stored   *)
(* continuation and every request to a model is a conversation in which    *)
(* each call has its one result or is still to be run, and no result says  *)
(* what the ledger does not bear out.  The invariant stands on RuntimeInv  *)
(* of AgentRuntimeProofs.                                                  *)
(***************************************************************************)
EXTENDS AgentRuntimeProofs

-----------------------------------------------------------------------------
(* What the results in a conversation may rest on; it only grows.          *)

(* A call that was not run and will never be: policy denies it, its        *)
(* request was refused, or the executor that took the confirmation turned  *)
(* away from it.                                                           *)
WillNotRun(r, c) ==
    \/ Policy[c] = "deny"
    \/ /\ Policy[c] = "approve"
       /\ approval[<<r, c>>] \in {"rejected", "expired"}
    \/ /\ Policy[c] = "approve"
       /\ approval[<<r, c>>] \in Spending
       /\ ledger[r][c].status = "absent"
       /\ \A t \in Thread : WillExecute(th[t]) => CallOf(th[t]) # <<r, c>>

World == [asked |-> {a \in Request : a[2] \in issued[a[1]]},
          done |-> {a \in Request : ledger[a[1]][a[2]].status = "completed"},
          barred |-> {a \in Request : WillNotRun(a[1], a[2])}]

ResultFits(a, out, w) ==
    /\ out = "output" => a \in w.done
    /\ out \in {"denied", "refused"} => a \in w.barred

HistoryFits(r, h, w) ==
    \A i \in DOMAIN h :
        /\ <<r, h[i].call>> \in w.asked
        /\ h[i].kind = "result" => ResultFits(<<r, h[i].call>>, h[i].text, w)

(* Exactly the remaining calls lack their results, and none remains twice. *)
Coherent(h, calls) == Answered(h, Range(calls)) /\ IsInjective(calls)

(* Labels from which the loop goes on with its conversation, and those at  *)
(* which no call remains.                                                  *)
TurnLabels == {"context", "before_model", "renew_model", "model",
               "before_finalize"}
TalkLabels == TurnLabels \cup ToolLabels \cup
              {"before_tools", "after_call", "gate", "park_checkpoint",
               "rr_claim", "rr_token", "rs_run", "rs_claim", "rs_token",
               "rs_consume", "rs_ledger", "rs_settle", "rs_execute",
               "approval_done", "approval_fail"}

FrameTalks(f, w) ==
    /\ HistoryFits(f.run, f.history, w)
    /\ f.pc \in TalkLabels => Coherent(f.history, f.calls)
    /\ f.pc \in TurnLabels => f.calls = <<>>
    /\ f.pc \in {"after_call", "approval_done", "approval_fail", "rs_settle"}
         => ResultFits(CallOf(f), f.out, w)
    /\ f.pc \in {"rs_run", "rs_claim", "rs_token", "rs_consume"} /\
       f.seen \in {"rejected", "expired"} => CallOf(f) \in w.barred
    /\ f.pc = "rs_consume" => f.seen \in {"rejected", "expired"}

StateTalks(r, s, w) ==
    s # NoState =>
        /\ HistoryFits(r, s.history, w)
        /\ s.action = "approval" =>
             Positions(s.history, "result", Head(s.calls)) = {}
        /\ s.action # "approval" => Coherent(s.history, s.calls)
        /\ s.action \in {"model", "finalize"} => s.calls = <<>>

RequestTalks(a, k, w) ==
    /\ HistoryFits(a[1], k.history, w)
    /\ Coherent(k.history, k.calls)
    /\ Head(k.calls) = a[2]

TalkInv ==
    /\ \A t \in Thread : FrameTalks(th[t], World)
    /\ \A r \in Run : StateTalks(r, checkpoint[r].state, World)
    /\ \A a \in Request :
         approval[a] # "absent" => RequestTalks(a, continuation[a], World)

-----------------------------------------------------------------------------
(* Conversations: asking for new calls and answering the first of them.    *)

LEMMA PositionsOfRun ==
    ASSUME NEW h \in Seq(Entry), NEW kind, NEW c
    PROVE  Positions(h, kind, c)
             = {i \in 1..Len(h) : h[i].kind = kind /\ h[i].call = c}
    BY DEF Positions

LEMMA Concatenation ==
    ASSUME NEW g \in Seq(Entry), NEW h \in Seq(Entry)
    PROVE  /\ g \o h \in Seq(Entry) /\ Len(g \o h) = Len(g) + Len(h)
           /\ \A i \in 1..Len(g) : (g \o h)[i] = g[i]
           /\ \A i \in 1..Len(h) : (g \o h)[Len(g) + i] = h[i]
           /\ \A i \in 1..Len(g \o h) : i \notin 1..Len(g) =>
                \E j \in 1..Len(h) : i = Len(g) + j
<1>1. /\ g \o h \in Seq(Entry) /\ Len(g \o h) = Len(g) + Len(h)
      /\ \A i \in 1..Len(g) : (g \o h)[i] = g[i]
      /\ \A i \in 1..Len(h) : (g \o h)[Len(g) + i] = h[i]
    OBVIOUS
<1>2. \A i \in 1..Len(g \o h) : i \notin 1..Len(g) =>
        i - Len(g) \in 1..Len(h) /\ i = Len(g) + (i - Len(g))
    BY <1>1
<1>3. QED
    BY <1>1, <1>2

LEMMA SamePositions ==
    ASSUME NEW h \in Seq(Entry), NEW H \in Seq(Entry), Len(h) <= Len(H),
           NEW kind, NEW c,
           \A i \in 1..Len(h) : H[i] = h[i],
           \A i \in 1..Len(H) :
             i \notin 1..Len(h) => ~(H[i].kind = kind /\ H[i].call = c)
    PROVE  Positions(H, kind, c) = Positions(h, kind, c)
<1>1. \A i : i \in Positions(H, kind, c) <=> i \in Positions(h, kind, c)
    BY DEF Positions
<1>2. QED
    BY <1>1

LEMMA AskingIsCoherent ==
    ASSUME NEW h \in Seq(Entry), NEW batch \in Seq(Call), IsInjective(batch),
           Coherent(h, <<>>), \A i \in DOMAIN h : h[i].call \notin Range(batch)
    PROVE  Coherent(h \o [i \in DOMAIN batch |-> Asked(batch[i])], batch)
<1> DEFINE asks == [i \in DOMAIN batch |-> Asked(batch[i])]
           H == h \o asks
<1>1. asks \in Seq(Entry) /\ Len(asks) = Len(batch)
    BY DEF Asked, Entry
<1>2. \A i \in 1..Len(batch) :
        asks[i].kind = "call" /\ asks[i].call = batch[i]
    BY DEF Asked
<1> HIDE DEF asks
<1>3. /\ H \in Seq(Entry) /\ Len(H) = Len(h) + Len(batch)
      /\ \A i \in 1..Len(h) : H[i] = h[i]
      /\ \A i \in 1..Len(batch) : H[Len(h) + i] = asks[i]
    BY <1>1
<1>4. \A i \in 1..Len(H) : i \notin 1..Len(h) =>
        \E j \in 1..Len(batch) : i = Len(h) + j
    <2>1. \A i \in 1..Len(h \o asks) : i \notin 1..Len(h) =>
            \E j \in 1..Len(asks) : i = Len(h) + j
        BY <1>1, Concatenation
    <2>2. QED
        BY <1>1, <2>1
<1> HIDE DEF H
<1>5. ASSUME NEW c \in Call, c \notin Range(batch)
      PROVE  /\ Positions(H, "call", c) = Positions(h, "call", c)
             /\ Positions(H, "result", c) = Positions(h, "result", c)
    <2>1. \A j \in 1..Len(batch) : batch[j] # c
        BY <1>5 DEF Range
    <2>2. QED
        <3>1. ASSUME NEW i \in 1..Len(H), i \notin 1..Len(h)
              PROVE  H[i].call # c
            <4>1. PICK j \in 1..Len(batch) : i = Len(h) + j
                BY <1>4, <3>1
            <4>2. QED
                BY <1>2, <1>3, <2>1, <4>1
        <3>2. Len(h) <= Len(H)
            BY <1>3
        <3>3. ASSUME NEW kind
              PROVE  Positions(H, kind, c) = Positions(h, kind, c)
            <4>1. \A i \in 1..Len(H) :
                    i \notin 1..Len(h) => ~(H[i].kind = kind /\ H[i].call = c)
                BY <3>1
            <4>2. \A i \in 1..Len(h) : H[i] = h[i]
                BY <1>3
            <4>3. H \in Seq(Entry)
                BY <1>3
            <4>4. QED
                BY <3>2, <4>1, <4>2, <4>3, SamePositions
        <3>4. QED
            BY <3>3
<1>6. ASSUME NEW c \in Call, c \in Range(batch)
      PROVE  /\ \E i : Positions(H, "call", c) = {i}
             /\ Positions(H, "result", c) = {}
    <2>1. PICK k \in 1..Len(batch) : batch[k] = c
        BY <1>6 DEF Range
    <2>2. \A j \in 1..Len(batch) : batch[j] = c => j = k
        BY <2>1 DEF IsInjective
    <2>3. \A i \in 1..Len(h) : h[i].call # c
        BY <1>6
    <2>4. Positions(H, "call", c) = {Len(h) + k}
        <3>1. \A i \in 1..Len(H) : H[i].call = c => i = Len(h) + k
            <4> SUFFICES ASSUME NEW i \in 1..Len(H), H[i].call = c
                         PROVE  i = Len(h) + k
                OBVIOUS
            <4>1. i \notin 1..Len(h)
                BY <1>3, <2>3
            <4>2. PICK j \in 1..Len(batch) : i = Len(h) + j
                BY <1>4, <4>1
            <4>3. QED
                BY <1>2, <1>3, <2>2, <4>2
        <3>2. /\ Len(h) + k \in 1..Len(H) /\ H[Len(h) + k].kind = "call"
              /\ H[Len(h) + k].call = c
            BY <1>2, <1>3, <2>1
        <3>3. \A i : i \in Positions(H, "call", c) <=> i = Len(h) + k
            BY <1>3, <3>1, <3>2 DEF Positions
        <3>4. QED
            BY <3>3
    <2>5. Positions(H, "result", c) = {}
        <3>1. ASSUME NEW i \in 1..Len(H)
              PROVE  ~(H[i].kind = "result" /\ H[i].call = c)
            <4>1. CASE i \in 1..Len(h)
                BY <1>3, <2>3, <4>1
            <4>2. CASE i \notin 1..Len(h)
                <5>1. PICK j \in 1..Len(batch) : i = Len(h) + j
                    BY <1>4, <4>2
                <5>2. H[i].kind = "call"
                    BY <1>2, <1>3, <5>1
                <5>3. QED
                    BY <5>2
            <4>3. QED
                BY <4>1, <4>2
        <3>2. QED
            BY <1>3, <3>1 DEF Positions
    <2>6. QED
        BY <2>4, <2>5
<1>7. Range(<<>>) = {}
    BY DEF Range
<1>8. Answered(H, Range(batch))
    <2> SUFFICES ASSUME NEW c \in Call
                 PROVE  LET asked == Positions(H, "call", c)
                            told == Positions(H, "result", c) IN
                        \/ asked = {} /\ told = {} /\ c \notin Range(batch)
                        \/ \E i \in asked :
                             /\ asked = {i}
                             /\ IF c \in Range(batch) THEN told = {}
                                ELSE \E j \in told : told = {j} /\ i < j
        BY DEF Answered
    <2>1. CASE c \in Range(batch)
        BY <1>6, <2>1
    <2>2. CASE c \notin Range(batch)
        BY <1>5, <1>7, <2>2 DEF Coherent, Answered
    <2>3. QED
        BY <2>1, <2>2
<1>9. QED
    BY <1>8 DEF Coherent, H, asks

LEMMA TailForgetsHead ==
    ASSUME NEW calls \in Seq(Call), calls # <<>>, IsInjective(calls)
    PROVE  /\ IsInjective(Tail(calls))
           /\ Range(Tail(calls)) = Range(calls) \ {Head(calls)}
           /\ Head(calls) \in Range(calls)
<1>1. /\ Tail(calls) \in Seq(Call) /\ Len(Tail(calls)) = Len(calls) - 1
      /\ Len(calls) > 0 /\ Head(calls) = calls[1]
      /\ \A i \in 1..Len(calls) - 1 : Tail(calls)[i] = calls[i + 1]
    OBVIOUS
<1>2. IsInjective(Tail(calls))
    BY <1>1 DEF IsInjective
<1>3. ASSUME NEW c
      PROVE  c \in Range(Tail(calls)) <=> c \in Range(calls) \ {Head(calls)}
    <2>1. ASSUME c \in Range(Tail(calls))
          PROVE  c \in Range(calls) /\ c # Head(calls)
        <3>1. PICK i \in 1..Len(calls) - 1 : c = Tail(calls)[i]
            BY <1>1, <2>1 DEF Range
        <3>2. c = calls[i + 1] /\ i + 1 \in 1..Len(calls) /\ i + 1 # 1
            BY <1>1, <3>1
        <3>3. QED
            BY <1>1, <3>2 DEF Range, IsInjective
    <2>2. ASSUME c \in Range(calls), c # Head(calls)
          PROVE  c \in Range(Tail(calls))
        <3>1. PICK i \in 1..Len(calls) : c = calls[i]
            BY <2>2 DEF Range
        <3>2. i - 1 \in 1..Len(calls) - 1 /\ c = Tail(calls)[i - 1]
            BY <1>1, <2>2, <3>1
        <3>3. QED
            BY <1>1, <3>2 DEF Range
    <2>3. QED
        BY <2>1, <2>2
<1>4. Head(calls) \in Range(calls)
    BY <1>1 DEF Range
<1>5. QED
    BY <1>2, <1>3, <1>4

LEMMA AnsweringIsCoherent ==
    ASSUME NEW h \in Seq(Entry), NEW calls \in Seq(Call), calls # <<>>,
           NEW out \in Output, Coherent(h, calls)
    PROVE  Coherent(Append(h, Result(Head(calls), out)), Tail(calls))
<1> DEFINE e == Result(Head(calls), out)
           H == Append(h, e)
<1>1. /\ IsInjective(Tail(calls))
      /\ Range(Tail(calls)) = Range(calls) \ {Head(calls)}
      /\ Head(calls) \in Range(calls)
    BY TailForgetsHead DEF Coherent
<1>2. e \in Entry /\ e.kind = "result" /\ e.call = Head(calls)
    <2>1. Head(calls) \in Call
        OBVIOUS
    <2>2. QED
        BY <2>1 DEF Result, Entry
<1> HIDE DEF e
<1>3. /\ H \in Seq(Entry) /\ Len(H) = Len(h) + 1
      /\ \A i \in 1..Len(h) : H[i] = h[i]
      /\ H[Len(h) + 1] = e
    BY <1>2
<1> HIDE DEF H
<1> \A i \in 1..Len(H) : i \notin 1..Len(h) => i = Len(h) + 1
    BY <1>3
<1>4. \A c \in Call : Positions(H, "call", c) = Positions(h, "call", c)
    BY <1>2, <1>3, SamePositions
<1>5. \A c \in Call : c # Head(calls) =>
        Positions(H, "result", c) = Positions(h, "result", c)
    BY <1>2, <1>3, SamePositions
<1>6. Positions(h, "result", Head(calls)) = {} =>
        Positions(H, "result", Head(calls)) = {Len(h) + 1}
    <2> SUFFICES ASSUME Positions(h, "result", Head(calls)) = {}
                 PROVE  Positions(H, "result", Head(calls)) = {Len(h) + 1}
        OBVIOUS
    <2>1. \A i : i \in Positions(H, "result", Head(calls))
                 <=> i = Len(h) + 1
        BY <1>2, <1>3 DEF Positions
    <2>2. QED
        BY <2>1
<1>7. \A c : \A i \in Positions(h, "call", c) : i < Len(h) + 1
    BY PositionsOfRun
<1>8. Answered(H, Range(Tail(calls)))
    <2> SUFFICES ASSUME NEW c \in Call
                 PROVE  LET asked == Positions(H, "call", c)
                            told == Positions(H, "result", c) IN
                        \/ /\ asked = {} /\ told = {}
                           /\ c \notin Range(Tail(calls))
                        \/ \E i \in asked :
                             /\ asked = {i}
                             /\ IF c \in Range(Tail(calls)) THEN told = {}
                                ELSE \E j \in told : told = {j} /\ i < j
        BY DEF Answered
    <2>1. CASE c = Head(calls)
        BY <1>1, <1>4, <1>6, <1>7, <2>1 DEF Coherent, Answered
    <2>2. CASE c # Head(calls)
        BY <1>1, <1>4, <1>5, <2>2 DEF Coherent, Answered
    <2>3. QED
        BY <2>1, <2>2
<1>9. QED
    BY <1>1, <1>8 DEF Coherent, H, e

-----------------------------------------------------------------------------
(* What results rest on is never taken back.                               *)

Grows(v, w) == /\ v.asked \subseteq w.asked
               /\ v.done \subseteq w.done
               /\ v.barred \subseteq w.barred

LEMMA TalkStays ==
    ASSUME NEW v, NEW w, Grows(v, w)
    PROVE  /\ \A f : FrameTalks(f, v) => FrameTalks(f, w)
           /\ \A r, s : StateTalks(r, s, v) => StateTalks(r, s, w)
           /\ \A a, k : RequestTalks(a, k, v) => RequestTalks(a, k, w)
<1>1. \A r, h : HistoryFits(r, h, v) => HistoryFits(r, h, w)
    BY DEF Grows, HistoryFits, ResultFits
<1>2. \A a, out : ResultFits(a, out, v) => ResultFits(a, out, w)
    BY DEF Grows, ResultFits
<1>3. v.barred \subseteq w.barred
    BY DEF Grows
<1>4. ASSUME NEW f, FrameTalks(f, v)
      PROVE  FrameTalks(f, w)
    BY <1>1, <1>2, <1>3, <1>4 DEF FrameTalks
<1>5. \A r, s : StateTalks(r, s, v) => StateTalks(r, s, w)
    BY <1>1 DEF StateTalks
<1>6. \A a, k : RequestTalks(a, k, v) => RequestTalks(a, k, w)
    BY <1>1 DEF RequestTalks
<1>7. QED
    BY <1>4, <1>5, <1>6

RefusalsStay ==
    \A a \in Request :
        approval[a] \in {"rejected", "expired"} => approval'[a] = approval[a]

LEMMA RefusalsAreFinal ==
    ASSUME ApprovalTypeOK, [ApprovalNext]_approvalVars
    PROVE  RefusalsStay
    BY DEF RefusalsStay, ApprovalTypeOK, ApprovalNext, approvalVars,
           CreateRequest, DeadlinePasses, DecideTooLate, Decide, Verdict,
           ClaimExecution, CompleteApproval, FailApproval, Move, MarkConsumed,
           ExpirePending, AfterExpiry, Expired

(* A protected call begins only where a thread was about to execute it,    *)
(* and a thread comes to that only with an approval it has just taken.     *)
Steady ==
    /\ \A r \in Run : issued[r] \subseteq issued'[r]
    /\ \A r \in Run, c \in Call :
         Policy[c] = "approve" /\ ledger'[r][c].status # "absent" =>
            \/ ledger[r][c].status # "absent"
            \/ \E t \in Thread : WillExecute(th[t]) /\ CallOf(th[t]) = <<r, c>>
    /\ \A t \in Thread :
         WillExecute(th'[t]) =>
            \/ WillExecute(th[t]) /\ CallOf(th'[t]) = CallOf(th[t])
            \/ approval[CallOf(th'[t])] = "approved"

LEMMA WorldGrows ==
    ASSUME RuntimeInv, StoresStep, Steady
    PROVE  Grows(World, World')
<1>1. RowsStay /\ RequestsStay
    BY StoresKeepInv DEF RuntimeInv
<1>2. RefusalsStay
    BY RefusalsAreFinal, SameApprovals
       DEF RuntimeInv, BaseInv, StoresStep, Approvals!ApprovalInv
<1>3. \A a \in Request : a[1] \in Run /\ a[2] \in Call /\ a = <<a[1], a[2]>>
    BY DEF Request
<1>4. World.asked \subseteq World'.asked
    BY <1>3 DEF World, Steady
<1>5. World.done \subseteq World'.done
    BY <1>1, <1>3 DEF World, RowsStay
<1>6. ASSUME NEW r \in Run, NEW c \in Call, WillNotRun(r, c)
      PROVE  WillNotRun(r, c)'
    <2>1. <<r, c>> \in Request
        BY DEF Request
    <2>2. CASE Policy[c] = "deny"
        BY <2>2 DEF WillNotRun
    <2>3. CASE /\ Policy[c] = "approve"
               /\ approval[<<r, c>>] \in {"rejected", "expired"}
        BY <1>2, <2>1, <2>3 DEF WillNotRun, RefusalsStay
    <2>4. CASE /\ Policy[c] = "approve"
               /\ approval[<<r, c>>] \in Spending
               /\ ledger[r][c].status = "absent"
               /\ \A t \in Thread : WillExecute(th[t]) => CallOf(th[t]) # <<r, c>>
        <3>1. approval'[<<r, c>>] \in Spending
            BY <1>1, <2>1, <2>4 DEF RequestsStay
        <3>2. ledger'[r][c].status = "absent"
            BY <2>4 DEF Steady
        <3>3. ASSUME NEW t \in Thread, WillExecute(th'[t])
              PROVE  CallOf(th'[t]) # <<r, c>>
            BY <2>4, <3>3 DEF Steady, Spending
        <3>4. QED
            BY <2>4, <3>1, <3>2, <3>3 DEF WillNotRun, WillExecute, CallOf
    <2>5. QED
        BY <1>6, <2>2, <2>3, <2>4 DEF WillNotRun
<1>7. World.barred \subseteq World'.barred
    BY <1>3, <1>6 DEF World
<1>8. QED
    BY <1>4, <1>5, <1>7 DEF Grows

-----------------------------------------------------------------------------
(* Steps.                                                                  *)

LEMMA TalkIsKept ==
    ASSUME RuntimeInv, TalkInv, StoresStep, Steady,
           \A t \in Thread : \/ th'[t] = th[t]
                             \/ FrameTalks(th'[t], World)
                             \/ FrameTalks(th'[t], World'),
           \A r \in Run :
             \/ checkpoint'[r].state = checkpoint[r].state
             \/ StateTalks(r, checkpoint'[r].state, World),
           \A a \in Request : approval'[a] # "absent" =>
             \/ approval[a] # "absent"
             \/ RequestTalks(a, continuation'[a], World)
    PROVE  TalkInv'
<1>1. Grows(World, World')
    BY WorldGrows
<1>2. RequestsStay
    BY StoresKeepInv DEF RuntimeInv
<1>3. \A t \in Thread : FrameTalks(th'[t], World')
    BY <1>1, TalkStays DEF TalkInv
<1>4. \A r \in Run : StateTalks(r, checkpoint'[r].state, World')
    BY <1>1, TalkStays DEF TalkInv
<1>5. \A a \in Request : approval'[a] # "absent" =>
        RequestTalks(a, continuation'[a], World')
    BY <1>1, <1>2, TalkStays DEF TalkInv, RequestsStay
<1>6. QED
    BY <1>3, <1>4, <1>5 DEF TalkInv

(* A step of one thread that begins no call and makes no request.          *)
LEMMA ThreadTalks ==
    ASSUME RuntimeInv, TalkInv, StoresStep, NEW t \in Thread, NEW g,
           Become(t, g), UNCHANGED issued,
           \A r \in Run, c \in Call :
             ledger'[r][c].status # "absent" => ledger[r][c].status # "absent",
           \A a \in Request : approval'[a] # "absent" => approval[a] # "absent",
           \A r \in Run :
             \/ checkpoint'[r].state = checkpoint[r].state
             \/ StateTalks(r, checkpoint'[r].state, World),
           WillExecute(g) => WillExecute(th[t]) /\ CallOf(g) = CallOf(th[t]),
           FrameTalks(g, World) \/ FrameTalks(g, World')
    PROVE  TalkInv'
<1>1. \A u \in Thread : th'[u] = IF u = t THEN g ELSE th[u]
    BY DEF Become, RuntimeInv, BaseInv, WorldTypeOK
<1>2. Steady
    BY <1>1 DEF Steady
<1>3. QED
    BY <1>1, <1>2, TalkIsKept

(* What most steps do to the stores: no call begins, no checkpoint changes *)
(* and no request is made.                                                 *)
Rest ==
    /\ StoresStep
    /\ UNCHANGED <<issued, checkpoint>>
    /\ \A r \in Run, c \in Call :
         ledger'[r][c].status # "absent" => ledger[r][c].status # "absent"
    /\ \A a \in Request : approval'[a] # "absent" => approval[a] # "absent"

LEMMA RestingThreadTalks ==
    ASSUME RuntimeInv, TalkInv, Rest, NEW t \in Thread, NEW g, Become(t, g),
           ~WillExecute(g), FrameTalks(g, World) \/ FrameTalks(g, World')
    PROVE  TalkInv'
    BY ThreadTalks DEF Rest

LEMMA ThreadOnlyRests ==
    ASSUME StoresStep, OnlyThread
    PROVE  Rest
    BY DEF Rest, OnlyThread, sessionDb, approvalDb, worldVars

LEMMA RunStepRests ==
    ASSUME StoresStep, UNCHANGED <<checkpoint, ledger, approvalDb, worldVars>>
    PROVE  Rest
    BY DEF Rest, approvalDb, worldVars

(* What a label asks of a frame that comes to it from another label.       *)
OutLabels == {"after_call", "approval_done", "approval_fail", "rs_settle"}
SeenLabels == {"rs_run", "rs_claim", "rs_token", "rs_consume"}

LEMMA LabelTalks ==
    ASSUME NEW f \in Frame, NEW w, FrameTalks(f, w), NEW l \in Labels,
           l \in TalkLabels => f.pc \in TalkLabels,
           l \in TurnLabels => f.calls = <<>>,
           l \in OutLabels => f.pc \in OutLabels,
           l \in SeenLabels => f.pc \in SeenLabels,
           l = "rs_consume" => f.seen \in {"rejected", "expired"}
    PROVE  /\ FrameTalks([f EXCEPT !.pc = l], w)
           /\ l \notin {"renew_tool", "claim_tool"} =>
                ~WillExecute([f EXCEPT !.pc = l])
<1> DEFINE g == [f EXCEPT !.pc = l]
<1>1. /\ g.pc = l /\ g.run = f.run /\ g.calls = f.calls /\ g.out = f.out
      /\ g.history = f.history /\ g.seen = f.seen /\ CallOf(g) = CallOf(f)
    BY DEF Frame, CallOf
<1> HIDE DEF g
<1>2. FrameTalks(g, w)
    BY <1>1 DEF FrameTalks, OutLabels, SeenLabels
<1>3. QED
    BY <1>1, <1>2 DEF g, WillExecute

LEMMA EmptyIsCoherent == Coherent(<<>>, <<>>)
    BY DEF Coherent, Answered, Positions, Range, IsInjective

LEMMA IdleTalks ==
    \A w : FrameTalks(Idle, w) /\ ~WillExecute(Idle)
    BY DEF FrameTalks, Idle, HistoryFits, TalkLabels, TurnLabels, ToolLabels,
           ClaimedLabels, WillExecute

LEMMA RaiseTalks ==
    ASSUME NEW t \in Thread, th[t] \in Frame, FrameTalks(th[t], World),
           Raise(t)
    PROVE  \E g : Become(t, g) /\ FrameTalks(g, World) /\ ~WillExecute(g)
<1>1. CASE th[t].guarded
    <2>1. Become(t, [th[t] EXCEPT !.pc = "interrupt"])
        BY <1>1 DEF Raise, Goto
    <2>2. QED
        BY <2>1, LabelTalks
           DEF Labels, TalkLabels, TurnLabels, ToolLabels, ClaimedLabels,
               OutLabels, SeenLabels
<1>2. CASE ~th[t].guarded
    BY <1>2, IdleTalks DEF Raise, Return
<1>3. QED
    BY <1>1, <1>2

LEMMA ProceedTalks ==
    ASSUME NEW f \in Frame, f.run \in Run, f.seen = "none",
           HistoryFits(f.run, f.history, World),
           Coherent(f.history, f.calls)
    PROVE  FrameTalks(Proceed(f), World) /\ ~WillExecute(Proceed(f))
<1>1. CASE f.calls = <<>>
    <2>1. \/ Proceed(f) = [f EXCEPT !.pc = "before_model"]
          \/ Proceed(f) = [f EXCEPT !.pc = "complete"]
        BY <1>1 DEF Proceed
    <2>2. QED
        BY <1>1, <2>1
           DEF FrameTalks, Frame, TalkLabels, TurnLabels, ToolLabels,
               ClaimedLabels, WillExecute
<1>2. CASE f.calls # <<>> /\ Policy[Head(f.calls)] \in {"allow", "approve"}
    <2>1. \/ Proceed(f) = [f EXCEPT !.pc = "renew_tool"]
          \/ Proceed(f) = [f EXCEPT !.pc = "gate"]
        BY <1>2 DEF Proceed
    <2>2. QED
        BY <1>2, <2>1
           DEF FrameTalks, Frame, TalkLabels, TurnLabels, ToolLabels,
               ClaimedLabels, WillExecute
<1>3. CASE f.calls # <<>> /\ Policy[Head(f.calls)] \notin {"allow", "approve"}
    <2>1. Proceed(f) = [f EXCEPT !.pc = "after_call", !.out = "denied"]
        BY <1>3 DEF Proceed
    <2>2. CallOf(f) \in Request /\ CallOf(f)[1] = f.run
          /\ CallOf(f)[2] = Head(f.calls) /\ Head(f.calls) \in Call
        BY <1>3, CallOfFrame DEF CallOf
    <2>3. CallOf(f) \in World.barred
        BY <1>3, <2>2, RuntimeAssumption DEF World, WillNotRun
    <2>4. ResultFits(CallOf(f), "denied", World)
        BY <2>3 DEF ResultFits
    <2>5. CallOf(Proceed(f)) = CallOf(f) /\ Proceed(f).out = "denied"
          /\ Proceed(f).pc = "after_call" /\ Proceed(f).run = f.run
          /\ Proceed(f).calls = f.calls /\ Proceed(f).history = f.history
        BY <2>1 DEF Frame, CallOf
    <2>6. QED
        BY <2>4, <2>5 DEF FrameTalks, TurnLabels, WillExecute
<1>4. QED
    BY <1>1, <1>2, <1>3

LEMMA SaveTalks ==
    ASSUME RuntimeInv, TalkInv, StoresStep, NEW t \in Thread,
           th[t].pc # "idle", NEW state, NEW next, Save(t, state, next),
           StateTalks(th[t].run, state, World), FrameTalks(next, World),
           ~WillExecute(next)
    PROVE  TalkInv'
<1>1. th[t] \in Frame /\ th[t].run \in Run /\ FrameTalks(th[t], World)
    BY ThreadFacts DEF RuntimeInv, TalkInv
<1>2. CASE SaveCheckpoint(Me(t), th[t].run, th[t].token, state)
           /\ Become(t, next)
    <2>1. checkpoint \in [Run -> Checkpoint]
        BY SameStore DEF RuntimeInv, BaseInv, Store!StoreInv, StoreTypeOK
    <2>2. \A r \in Run : \/ checkpoint'[r].state = checkpoint[r].state
                         \/ StateTalks(r, checkpoint'[r].state, World)
        BY <1>1, <1>2, <2>1 DEF SaveCheckpoint, WriteCheckpoint
    <2>3. UNCHANGED <<ledger, approval, issued>>
        BY <1>2 DEF Save, SaveCheckpoint, WriteCheckpoint, approvalDb,
           worldVars
    <2>4. QED
        BY <1>2, <2>2, <2>3, ThreadTalks
<1>3. CASE Raise(t) /\ UNCHANGED sessionDb
    <2>1. Rest
        BY <1>3, ThreadOnlyRests DEF Save, OnlyThread
    <2>2. PICK g : Become(t, g) /\ FrameTalks(g, World) /\ ~WillExecute(g)
        BY <1>1, <1>3, RaiseTalks
    <2>3. QED
        BY <2>1, <2>2, RestingThreadTalks
<1>4. QED
    BY <1>2, <1>3 DEF Save

LEMMA RaiseKeepsTalk ==
    ASSUME RuntimeInv, TalkInv, StoresStep, NEW t \in Thread, Raise(t),
           OnlyThread
    PROVE  TalkInv'
<1>1. th[t] \in Frame /\ FrameTalks(th[t], World)
    BY ThreadFacts DEF RuntimeInv, TalkInv
<1>2. PICK g : Become(t, g) /\ FrameTalks(g, World) /\ ~WillExecute(g)
    BY <1>1, RaiseTalks
<1>3. QED
    BY <1>2, ThreadOnlyRests, RestingThreadTalks

(* The frame of a thread at a label of the loop that goes on.              *)
LEMMA TalkingFrame ==
    ASSUME RuntimeInv, TalkInv, NEW t \in Thread,
           NEW label \in TalkLabels, At(t, label)
    PROVE  /\ th[t] \in Frame /\ th[t].run \in Run /\ th[t].pc = label
           /\ th[t].pc # "idle" /\ FrameTalks(th[t], World)
           /\ HistoryFits(th[t].run, th[t].history, World)
           /\ Coherent(th[t].history, th[t].calls)
           /\ label \in LoopLabels => th[t].seen = "none"
           /\ label \in TurnLabels => th[t].calls = <<>>
<1>1. th[t].pc = label /\ label # "idle"
    BY DEF At, TalkLabels, TurnLabels, ToolLabels, ClaimedLabels
<1>2. th[t] \in Frame /\ Fits(th[t]) /\ th[t].run \in Run
    BY <1>1, ThreadFacts DEF RuntimeInv
<1>3. FrameTalks(th[t], World)
    BY DEF TalkInv
<1>4. QED
    BY <1>1, <1>2, <1>3 DEF FrameTalks, Fits, FrameFits

LEMMA SavedTalks ==
    ASSUME NEW f, NEW r, NEW action \in {"model", "tools", "finalize"},
           HistoryFits(r, f.history, World), Coherent(f.history, f.calls),
           action # "tools" => f.calls = <<>>
    PROVE  StateTalks(r, Saved(action, f), World)
    BY DEF StateTalks, Saved

-----------------------------------------------------------------------------
(* The turns of the model.                                                 *)

LEMMA BuildContextTalks ==
    ASSUME RuntimeInv, TalkInv, StoresStep, NEW t \in Thread, BuildContext(t)
    PROVE  TalkInv'
<1>1. At(t, "context")
    BY DEF BuildContext
<1> DEFINE f == th[t]
           g == [f EXCEPT !.guarded = TRUE]
<1>2. /\ f \in Frame /\ f.run \in Run /\ f.pc # "idle" /\ f.seen = "none"
      /\ HistoryFits(f.run, f.history, World)
      /\ Coherent(f.history, f.calls) /\ f.calls = <<>>
    BY <1>1, TalkingFrame DEF TalkLabels, TurnLabels, LoopLabels
<1>3. CASE Save(t, Saved("model", f), Proceed(g))
    <2>1. StateTalks(f.run, Saved("model", f), World)
        BY <1>2, SavedTalks
    <2>2. /\ g \in Frame /\ g.run = f.run /\ g.seen = f.seen
          /\ g.history = f.history /\ g.calls = f.calls
        BY <1>2 DEF Frame
    <2> HIDE DEF g
    <2>3. FrameTalks(Proceed(g), World) /\ ~WillExecute(Proceed(g))
        BY <1>2, <2>2, ProceedTalks
    <2>4. QED
        BY <1>2, <1>3, <2>1, <2>3, SaveTalks
<1>4. QED
    BY <1>3, RaiseKeepsTalk DEF BuildContext

LEMMA SaveAtLabelTalks ==
    ASSUME RuntimeInv, TalkInv, StoresStep, NEW t \in Thread,
           \/ SaveBeforeModel(t) \/ SaveBeforeFinalize(t)
           \/ SaveBeforeTools(t)
    PROVE  TalkInv'
<1> DEFINE f == th[t]
<1>1. PICK label \in {"before_model", "before_finalize", "before_tools"} :
        At(t, label) /\ \/ label = "before_model" /\ SaveBeforeModel(t)
                        \/ label = "before_finalize" /\ SaveBeforeFinalize(t)
                        \/ label = "before_tools" /\ SaveBeforeTools(t)
    BY DEF SaveBeforeModel, SaveBeforeFinalize, SaveBeforeTools
<1>2. /\ f \in Frame /\ f.run \in Run /\ f.pc = label /\ f.pc # "idle"
      /\ f.seen = "none" /\ FrameTalks(f, World)
      /\ HistoryFits(f.run, f.history, World)
      /\ Coherent(f.history, f.calls)
      /\ label # "before_tools" => f.calls = <<>>
    <2>1. label \in TalkLabels /\ label \in LoopLabels
          /\ (label # "before_tools" => label \in TurnLabels)
        BY DEF TalkLabels, TurnLabels, LoopLabels
    <2>2. QED
        BY <1>1, <2>1, TalkingFrame
<1>3. CASE label = "before_model"
    <2>1. StateTalks(f.run, Saved("model", f), World)
        BY <1>2, <1>3, SavedTalks
    <2>2. /\ FrameTalks([f EXCEPT !.pc = "renew_model"], World)
          /\ ~WillExecute([f EXCEPT !.pc = "renew_model"])
        BY <1>2, <1>3, LabelTalks DEF Labels, TalkLabels, TurnLabels,
                                      OutLabels, SeenLabels
    <2>3. QED
        BY <1>1, <1>2, <1>3, <2>1, <2>2, SaveTalks DEF SaveBeforeModel
<1>4. CASE label = "before_finalize"
    <2>1. StateTalks(f.run, Saved("finalize", f), World)
        BY <1>2, <1>4, SavedTalks
    <2>2. /\ FrameTalks([f EXCEPT !.pc = "complete"], World)
          /\ ~WillExecute([f EXCEPT !.pc = "complete"])
        BY <1>2, <1>4, LabelTalks
           DEF Labels, TalkLabels, TurnLabels, ToolLabels, ClaimedLabels,
               OutLabels, SeenLabels
    <2>3. QED
        BY <1>1, <1>2, <1>4, <2>1, <2>2, SaveTalks DEF SaveBeforeFinalize
<1>5. CASE label = "before_tools"
    <2>1. StateTalks(f.run, Saved("tools", f), World)
        BY <1>2, SavedTalks
    <2>2. FrameTalks(Proceed(f), World) /\ ~WillExecute(Proceed(f))
        BY <1>2, ProceedTalks
    <2>3. QED
        BY <1>1, <1>2, <1>5, <2>1, <2>2, SaveTalks DEF SaveBeforeTools
<1>6. QED
    BY <1>3, <1>4, <1>5

(* The calls of a new batch are new to the run, hence to its history.      *)
LEMMA AskTalks ==
    ASSUME RuntimeInv, TalkInv, StoresStep, NEW t \in Thread, At(t, "model"),
           NEW batch \in Batches,
           Range(batch) \cap issued[th[t].run] = {},
           issued' = [issued EXCEPT ![th[t].run] = @ \cup Range(batch)],
           Become(t, [th[t] EXCEPT
             !.pc = "before_tools", !.calls = batch, !.turn = @ + 1,
             !.history = @ \o [i \in DOMAIN batch |-> Asked(batch[i])]]),
           UNCHANGED <<sessionDb, approvalDb, processVars, sent, effect>>
    PROVE  TalkInv'
<1> DEFINE f == th[t]
           asks == [i \in DOMAIN batch |-> Asked(batch[i])]
           H == f.history \o asks
           g == [f EXCEPT !.pc = "before_tools", !.calls = batch,
                          !.turn = @ + 1, !.history = H]
<1>1. /\ f \in Frame /\ f.run \in Run /\ f.seen = "none"
      /\ HistoryFits(f.run, f.history, World)
      /\ Coherent(f.history, <<>>)
    BY TalkingFrame DEF TalkLabels, TurnLabels, LoopLabels
<1>2. batch \in Seq(Call) /\ IsInjective(batch) /\ f.history \in Seq(Entry)
    BY <1>1, RuntimeAssumption DEF Frame
<1>3. \A i \in DOMAIN f.history : f.history[i].call \notin Range(batch)
    BY <1>1 DEF HistoryFits, World
<1>4. Coherent(H, batch)
    BY <1>1, <1>2, <1>3, AskingIsCoherent
<1>5. issued \in [Run -> SUBSET Call] /\ th \in [Thread -> Frame]
    BY DEF RuntimeInv, BaseInv, WorldTypeOK
<1>6. issued'[f.run] = issued[f.run] \cup Range(batch)
      /\ \A r \in Run : issued[r] \subseteq issued'[r]
    BY <1>1, <1>5
<1>7. \A u \in Thread : th'[u] = IF u = t THEN g ELSE th[u]
    BY <1>5 DEF Become
<1>8. g.pc = "before_tools" /\ g.run = f.run /\ g.calls = batch
      /\ g.history = H
    BY <1>1 DEF Frame
<1>9. UNCHANGED <<ledger, approval, checkpoint>>
    BY DEF sessionDb, approvalDb
<1>10. Steady
    BY <1>6, <1>7, <1>8, <1>9 DEF Steady, WillExecute
<1>11. HistoryFits(f.run, f.history, World')
    <2>1. Grows(World, World')
        BY <1>10, WorldGrows
    <2>2. QED
        BY <1>1, <2>1 DEF Grows, HistoryFits, ResultFits
<1>12. HistoryFits(f.run, H, World')
    <2> SUFFICES ASSUME NEW i \in DOMAIN H
                 PROVE  /\ <<f.run, H[i].call>> \in World'.asked
                        /\ H[i].kind = "result" =>
                             ResultFits(<<f.run, H[i].call>>, H[i].text, World')
        BY DEF HistoryFits
    <2>1. asks \in Seq(Entry) /\ Len(asks) = Len(batch)
          /\ \A j \in 1..Len(batch) : asks[j] = Asked(batch[j])
        BY <1>2 DEF Asked, Entry
    <2> HIDE DEF asks
    <2>2. /\ i \in 1..Len(H)
          /\ \A j \in 1..Len(f.history) : H[j] = f.history[j]
          /\ \A j \in 1..Len(batch) : H[Len(f.history) + j] = asks[j]
          /\ i \notin 1..Len(f.history) =>
               \E j \in 1..Len(batch) : i = Len(f.history) + j
        <3>1. /\ H \in Seq(Entry)
              /\ \A j \in 1..Len(f.history) : H[j] = f.history[j]
              /\ \A j \in 1..Len(asks) : H[Len(f.history) + j] = asks[j]
              /\ \A j \in 1..Len(H) : j \notin 1..Len(f.history) =>
                   \E l \in 1..Len(asks) : j = Len(f.history) + l
            BY <1>2, <2>1, Concatenation
        <3> HIDE DEF H
        <3>2. i \in 1..Len(H)
            BY <3>1
        <3>3. QED
            BY <2>1, <3>1, <3>2
    <2> HIDE DEF H
    <2>3. CASE i \in 1..Len(f.history)
        <3>1. H[i] = f.history[i] /\ i \in DOMAIN f.history
            BY <1>2, <2>2, <2>3
        <3>2. QED
            BY <1>11, <3>1 DEF HistoryFits
    <2>4. CASE i \notin 1..Len(f.history)
        <3>1. PICK j \in 1..Len(batch) : i = Len(f.history) + j
            BY <2>2, <2>4
        <3>2. H[i] = Asked(batch[j])
            BY <2>1, <2>2, <3>1
        <3>3. H[i].kind = "call" /\ H[i].call = batch[j] /\ batch[j] \in Call
            BY <1>2, <3>2 DEF Asked
        <3>4. batch[j] \in issued'[f.run]
            BY <1>2, <1>6 DEF Range
        <3>5. <<f.run, H[i].call>> \in World'.asked
            BY <1>1, <3>3, <3>4 DEF World, Request
        <3>6. QED
            BY <3>3, <3>5
    <2>5. QED
        BY <2>3, <2>4
<1> HIDE DEF H, g
<1>13. FrameTalks(g, World')
    BY <1>4, <1>8, <1>12 DEF FrameTalks, TurnLabels
<1>14. QED
    BY <1>7, <1>9, <1>10, <1>13, TalkIsKept

LEMMA ModelStepTalks ==
    ASSUME RuntimeInv, TalkInv, StoresStep, NEW t \in Thread, ModelStep(t)
    PROVE  TalkInv'
<1>1. CASE SaveBeforeModel(t) \/ SaveBeforeFinalize(t) \/ SaveBeforeTools(t)
    BY <1>1, SaveAtLabelTalks
<1>2. CASE RenewForModel(t)
    <2>1. CASE RenewLease(t, "model")
        <3>1. /\ th[t] \in Frame /\ th[t].pc = "renew_model"
              /\ FrameTalks(th[t], World) /\ th[t].calls = <<>>
            BY <1>2, TalkingFrame DEF RenewForModel, TalkLabels, TurnLabels
        <3>2. /\ FrameTalks([th[t] EXCEPT !.pc = "model"], World)
              /\ ~WillExecute([th[t] EXCEPT !.pc = "model"])
            BY <3>1, LabelTalks DEF Labels, TalkLabels, TurnLabels, OutLabels,
                                    SeenLabels
        <3>3. Rest
            BY <2>1, RunStepRests DEF RenewLease, RenewRun
        <3>4. QED
            BY <2>1, <3>2, <3>3, RestingThreadTalks DEF RenewLease, Goto
    <2>2. QED
        BY <1>2, <2>1, RaiseKeepsTalk DEF RenewForModel
<1>3. CASE ModelAnswers(t)
    <2>1. CASE Goto(t, "before_finalize") /\ OnlyThread
        <3>1. /\ th[t] \in Frame /\ th[t].pc = "model"
              /\ FrameTalks(th[t], World) /\ th[t].calls = <<>>
            BY <1>3, TalkingFrame DEF ModelAnswers, TalkLabels, TurnLabels
        <3>2. /\ FrameTalks([th[t] EXCEPT !.pc = "before_finalize"], World)
              /\ ~WillExecute([th[t] EXCEPT !.pc = "before_finalize"])
            BY <3>1, LabelTalks DEF Labels, TalkLabels, TurnLabels, OutLabels,
                                    SeenLabels
        <3>3. QED
            BY <2>1, <3>2, ThreadOnlyRests, RestingThreadTalks DEF Goto
    <2>2. QED
        BY <1>3, <2>1, AskTalks DEF ModelAnswers
<1>4. CASE ModelFails(t)
    BY <1>4, RaiseKeepsTalk DEF ModelFails
<1>5. CASE Finish(t)
    <2>1. ASSUME NEW x \in Text,
                 CompleteRun(Me(t), th[t].run, th[t].token, x), Return(t),
                 UNCHANGED <<approvalDb, processVars, worldVars>>
          PROVE  TalkInv'
        <3>1. Rest
            BY <2>1, RunStepRests DEF CompleteRun, WriteCompletion
        <3>2. QED
            BY <2>1, <3>1, IdleTalks, RestingThreadTalks DEF Return
    <2>2. QED
        BY <1>5, <2>1, RaiseKeepsTalk DEF Finish
<1>6. CASE Interrupt(t)
    <2>1. Rest
        BY <1>6, RunStepRests
           DEF Interrupt, TryTransition, TransitionRun, sessionDb
    <2>2. QED
        BY <1>6, <2>1, IdleTalks, RestingThreadTalks DEF Interrupt, Return
<1>7. QED
    BY <1>1, <1>2, <1>3, <1>4, <1>5, <1>6 DEF ModelStep

-----------------------------------------------------------------------------
(* One call of a tool.                                                     *)

(* The call of a frame has got the result out.                             *)
LEMMA OutTalks ==
    ASSUME NEW f \in Frame, NEW v, FrameTalks(f, v), f.pc \in TalkLabels,
           NEW w, Grows(v, w), NEW l \in OutLabels, NEW out,
           ResultFits(CallOf(f), out, w)
    PROVE  /\ FrameTalks([f EXCEPT !.out = out, !.pc = l], w)
           /\ ~WillExecute([f EXCEPT !.out = out, !.pc = l])
<1> DEFINE g == [f EXCEPT !.out = out, !.pc = l]
<1>1. /\ g.pc = l /\ g.run = f.run /\ g.calls = f.calls /\ g.out = out
      /\ g.history = f.history /\ g.seen = f.seen /\ CallOf(g) = CallOf(f)
    BY DEF Frame, CallOf
<1>2. HistoryFits(f.run, f.history, w)
    BY TalkStays DEF FrameTalks
<1>3. l \notin TurnLabels \cup SeenLabels \cup {"renew_tool", "claim_tool"}
    BY DEF OutLabels, TurnLabels, SeenLabels
<1> HIDE DEF g
<1>4. QED
    BY <1>1, <1>2, <1>3 DEF FrameTalks, OutLabels, SeenLabels, WillExecute, g

LEMMA SameWorld == \A w : Grows(w, w)
    BY DEF Grows

LEMMA ToolRaisesTalks ==
    ASSUME NEW f \in Frame, FrameTalks(f, World), f.pc \in TalkLabels
    PROVE  /\ FrameTalks(ToolRaises(f), World)
           /\ ~WillExecute(ToolRaises(f))
<1>1. PICK l \in OutLabels :
        ToolRaises(f) = [f EXCEPT !.out = "failed", !.pc = l]
    BY DEF ToolRaises, OutLabels
<1>2. ResultFits(CallOf(f), "failed", World)
    BY DEF ResultFits
<1>3. /\ FrameTalks([f EXCEPT !.out = "failed", !.pc = l], World)
      /\ ~WillExecute([f EXCEPT !.out = "failed", !.pc = l])
    BY <1>2, OutTalks, SameWorld
<1>4. QED
    BY <1>1, <1>3

LEMMA ToolReturnsTalks ==
    ASSUME NEW f \in Frame, NEW v, FrameTalks(f, v), f.pc \in TalkLabels,
           NEW w, Grows(v, w), NEW out, ResultFits(CallOf(f), out, w)
    PROVE  /\ FrameTalks(ToolReturns(f, out), w)
           /\ ~WillExecute(ToolReturns(f, out))
<1>1. PICK l \in OutLabels :
        ToolReturns(f, out) = [f EXCEPT !.out = out, !.pc = l]
    BY DEF ToolReturns, OutLabels
<1>2. /\ FrameTalks([f EXCEPT !.out = out, !.pc = l], w)
      /\ ~WillExecute([f EXCEPT !.out = out, !.pc = l])
    BY OutTalks
<1>3. QED
    BY <1>1, <1>2

LEMMA ToolFrame ==
    ASSUME RuntimeInv, TalkInv, NEW t \in Thread, th[t].pc \in ToolLabels
    PROVE  /\ th[t] \in Frame /\ th[t].pc \in TalkLabels
           /\ FrameTalks(th[t], World) /\ Admitted(th[t], approval)
           /\ th[t].run \in Run /\ Head(th[t].calls) \in Call
           /\ CallOf(th[t]) = <<th[t].run, Head(th[t].calls)>>
           /\ CallOf(th[t]) \in Request
<1>1. th[t].pc \in TalkLabels /\ th[t].pc \in CallLabels
    BY DEF TalkLabels, CallLabels
<1>2. At(t, th[t].pc)
    BY DEF At
<1>3. th[t] \in Frame /\ FrameTalks(th[t], World)
    BY <1>1, <1>2, TalkingFrame
<1>4. Admitted(th[t], approval)
    BY <1>3, ThreadFacts DEF RuntimeInv, Fits, FrameFits
<1>5. QED
    BY <1>1, <1>2, <1>3, <1>4, CallLabel DEF RuntimeInv, CallOf

LEMMA RenewForToolTalks ==
    ASSUME RuntimeInv, TalkInv, StoresStep, NEW t \in Thread, RenewForTool(t)
    PROVE  TalkInv'
<1> DEFINE f == th[t]
           g == [f EXCEPT !.pc = "claim_tool"]
<1>1. f \in Frame /\ f.pc = "renew_tool" /\ f.pc \in TalkLabels
      /\ FrameTalks(f, World)
    BY ToolFrame DEF RenewForTool, At, ToolLabels, ClaimedLabels
<1>2. CASE RenewLease(t, "claim_tool")
    <2>1. FrameTalks(g, World)
        BY <1>1, LabelTalks
           DEF Labels, TalkLabels, TurnLabels, ToolLabels, ClaimedLabels,
               OutLabels, SeenLabels
    <2>2. WillExecute(g) => WillExecute(f) /\ CallOf(g) = CallOf(f)
        BY <1>1 DEF WillExecute, CallOf, Frame
    <2>3. UNCHANGED <<checkpoint, ledger, approval, issued>> /\ Become(t, g)
        BY <1>2 DEF RenewLease, RenewRun, Goto, approvalDb, worldVars
    <2>4. QED
        BY <2>1, <2>2, <2>3, ThreadTalks
<1>3. CASE Become(t, ToolRaises(f)) /\ OnlyThread
    BY <1>1, <1>3, ToolRaisesTalks, ThreadOnlyRests, RestingThreadTalks
<1>4. QED
    BY <1>2, <1>3 DEF RenewForTool

LEMMA ClaimCallTalks ==
    ASSUME RuntimeInv, TalkInv, StoresStep, NEW t \in Thread, ClaimCall(t)
    PROVE  TalkInv'
<1> DEFINE f == th[t]
           c == Head(f.calls)
           g == [f EXCEPT !.pc = "execute"]
<1>1. /\ f \in Frame /\ f.pc = "claim_tool" /\ f.pc \in TalkLabels
      /\ FrameTalks(f, World) /\ Admitted(f, approval)
      /\ f.run \in Run /\ c \in Call /\ CallOf(f) = <<f.run, c>>
      /\ CallOf(f) \in Request
    BY ToolFrame DEF ClaimCall, At, ToolLabels, ClaimedLabels
<1>2. ASSUME NEW tl \in Tool, ClaimTool(Me(t), f.run, f.token, c, tl),
             Goto(t, "execute"),
             UNCHANGED <<approvalDb, processVars, worldVars>>
      PROVE  TalkInv'
    <2>1. UNCHANGED <<checkpoint, approval, issued>>
        BY <1>2 DEF ClaimTool, WriteExecution, approvalDb, worldVars
    <2>2. ledger \in [Run -> [Call -> Execution]]
        BY SameStore DEF RuntimeInv, BaseInv, Store!StoreInv, StoreTypeOK
    <2>3. \A r \in Run, d \in Call : ledger'[r][d].status # "absent" =>
            ledger[r][d].status # "absent" \/ <<r, d>> = <<f.run, c>>
        BY <1>1, <1>2, <2>2 DEF ClaimTool, WriteExecution
    <2>4. FrameTalks(g, World) /\ ~WillExecute(g)
        BY <1>1, LabelTalks
           DEF Labels, TalkLabels, TurnLabels, ToolLabels, ClaimedLabels,
               OutLabels, SeenLabels
    <2>5. Policy[c] = "approve" => WillExecute(f)
        BY <1>1 DEF Admitted, Paid, WillExecute
    <2>6. \A u \in Thread : th'[u] = IF u = t THEN g ELSE th[u]
        BY <1>2 DEF Goto, Become, RuntimeInv, BaseInv, WorldTypeOK
    <2>7. Steady
        <3>1. ASSUME NEW r \in Run, NEW d \in Call, Policy[d] = "approve",
                     ledger'[r][d].status # "absent"
              PROVE  \/ ledger[r][d].status # "absent"
                     \/ \E u \in Thread :
                          WillExecute(th[u]) /\ CallOf(th[u]) = <<r, d>>
            BY <1>1, <2>3, <2>5, <3>1
        <3>2. \A u \in Thread : WillExecute(th'[u]) =>
                WillExecute(th[u]) /\ CallOf(th'[u]) = CallOf(th[u])
            BY <2>4, <2>6
        <3>3. QED
            BY <2>1, <3>1, <3>2 DEF Steady
    <2>8. QED
        BY <2>1, <2>4, <2>6, <2>7, TalkIsKept
<1>3. CASE Become(t, ToolRaises(f)) /\ OnlyThread
    BY <1>1, <1>3, ToolRaisesTalks, ThreadOnlyRests, RestingThreadTalks
<1>4. CASE /\ ledger[f.run][c].status = "completed"
           /\ Become(t, ToolReturns(f, "output")) /\ OnlyThread
    <2>1. ResultFits(CallOf(f), "output", World)
        BY <1>1, <1>4 DEF ResultFits, World
    <2>2. QED
        BY <1>1, <1>4, <2>1, ToolReturnsTalks, SameWorld, ThreadOnlyRests,
           RestingThreadTalks
<1>5. CASE Become(t, ToolReturns(f, "uncertain")) /\ OnlyThread
    <2>1. ResultFits(CallOf(f), "uncertain", World)
        BY DEF ResultFits
    <2>2. QED
        BY <1>1, <1>5, <2>1, ToolReturnsTalks, SameWorld, ThreadOnlyRests,
           RestingThreadTalks
<1>6. QED
    BY <1>2, <1>3, <1>4, <1>5 DEF ClaimCall

LEMMA ExecuteTalks ==
    ASSUME RuntimeInv, TalkInv, StoresStep, NEW t \in Thread, Execute(t)
    PROVE  TalkInv'
<1> DEFINE f == th[t]
<1>1. /\ f \in Frame /\ f.pc = "execute" /\ f.pc \in TalkLabels
      /\ FrameTalks(f, World)
    BY ToolFrame DEF Execute, At, ToolLabels, ClaimedLabels
<1>2. PICK l \in {"complete_tool", "fail_tool"} : Goto(t, l)
    BY DEF Execute
<1>3. FrameTalks([f EXCEPT !.pc = l], World)
      /\ ~WillExecute([f EXCEPT !.pc = l])
    BY <1>1, LabelTalks
       DEF Labels, TalkLabels, TurnLabels, ToolLabels, ClaimedLabels,
           OutLabels, SeenLabels
<1>4. Rest
    BY DEF Execute, Rest, OnlyThread, sessionDb, approvalDb, worldVars
<1>5. QED
    BY <1>2, <1>3, <1>4, RestingThreadTalks DEF Goto

LEMMA SettleRests ==
    ASSUME RuntimeInv, StoresStep, NEW t \in Thread, NEW outcome,
           outcome # "absent", th[t].run \in Run, Head(th[t].calls) \in Call,
           SettleTool(th[t].run, th[t].token, Head(th[t].calls), outcome),
           UNCHANGED <<approvalDb, processVars, worldVars>>
    PROVE  /\ Rest
           /\ ledger'[th[t].run][Head(th[t].calls)].status = outcome
<1>1. ledger \in [Run -> [Call -> Execution]]
    BY SameStore DEF RuntimeInv, BaseInv, Store!StoreInv, StoreTypeOK
<1>2. QED
    BY <1>1 DEF SettleTool, SettleRow, Rest, approvalDb, worldVars

LEMMA CheckOwnerTalks ==
    ASSUME RuntimeInv, TalkInv, StoresStep, NEW t \in Thread,
           \/ CheckOwner(t, "complete_tool", "complete_row")
           \/ CheckOwner(t, "fail_tool", "fail_row")
    PROVE  TalkInv'
<1> DEFINE f == th[t]
<1>1. /\ f \in Frame /\ f.pc \in {"complete_tool", "fail_tool"}
      /\ f.pc \in TalkLabels /\ FrameTalks(f, World)
      /\ f.run \in Run /\ Head(f.calls) \in Call
      /\ CallOf(f) = <<f.run, Head(f.calls)>> /\ CallOf(f) \in Request
    BY ToolFrame DEF CheckOwner, At, ToolLabels, ClaimedLabels
<1>2. OnlyThread
    BY DEF CheckOwner
<1>3. Rest
    BY <1>2, ThreadOnlyRests
<1>4. CASE \E l \in {"complete_row", "fail_row"} : Goto(t, l)
    <2>1. PICK l \in {"complete_row", "fail_row"} : Goto(t, l)
        BY <1>4
    <2>2. FrameTalks([f EXCEPT !.pc = l], World)
          /\ ~WillExecute([f EXCEPT !.pc = l])
        BY <1>1, LabelTalks
           DEF Labels, TalkLabels, TurnLabels, ToolLabels, ClaimedLabels,
               OutLabels, SeenLabels
    <2>3. QED
        BY <1>3, <2>1, <2>2, RestingThreadTalks DEF Goto
<1>5. CASE Become(t, ToolRaises(f))
    BY <1>1, <1>3, <1>5, ToolRaisesTalks, RestingThreadTalks
<1>6. QED
    BY <1>4, <1>5 DEF CheckOwner

LEMMA RecordOutcomeTalks ==
    ASSUME RuntimeInv, TalkInv, StoresStep, NEW t \in Thread,
           \/ RecordOutcome(t, "complete_row", "completed",
                            ToolReturns(th[t], "output"))
           \/ RecordOutcome(t, "fail_row", "failed", ToolRaises(th[t]))
    PROVE  TalkInv'
<1> DEFINE f == th[t]
           c == Head(f.calls)
<1>1. At(t, "complete_row") \/ At(t, "fail_row")
    BY DEF RecordOutcome
<1>2. /\ f \in Frame /\ f.pc \in TalkLabels /\ FrameTalks(f, World)
      /\ f.run \in Run /\ c \in Call /\ CallOf(f) = <<f.run, c>>
      /\ CallOf(f) \in Request
    BY <1>1, ToolFrame DEF At, ToolLabels, ClaimedLabels
<1>3. CASE Become(t, ToolRaises(f)) /\ UNCHANGED sessionDb
           /\ UNCHANGED <<approvalDb, processVars, worldVars>>
    <2>1. Rest
        BY <1>3, ThreadOnlyRests DEF OnlyThread
    <2>2. QED
        BY <1>2, <1>3, <2>1, ToolRaisesTalks, RestingThreadTalks
<1>4. CASE /\ SettleTool(f.run, f.token, c, "completed")
           /\ Become(t, ToolReturns(f, "output"))
           /\ UNCHANGED <<approvalDb, processVars, worldVars>>
    <2>1. Rest /\ ledger'[f.run][c].status = "completed"
        BY <1>2, <1>4, SettleRests
    <2>2. CallOf(f) \in World'.done
        BY <1>2, <2>1 DEF World
    <2>3. ResultFits(CallOf(f), "output", World')
        BY <2>2 DEF ResultFits
    <2>4. Grows(World, World')
        <3>1. \A u \in Thread : th'[u] =
                IF u = t THEN ToolReturns(f, "output") ELSE th[u]
            BY <1>4 DEF Become, RuntimeInv, BaseInv, WorldTypeOK
        <3>2. ~WillExecute(ToolReturns(f, "output"))
            BY <1>2 DEF ToolReturns, WillExecute, Frame
        <3>3. Steady
            BY <2>1, <3>1, <3>2 DEF Steady, Rest
        <3>4. QED
            BY <3>3, WorldGrows
    <2>5. /\ FrameTalks(ToolReturns(f, "output"), World')
          /\ ~WillExecute(ToolReturns(f, "output"))
        BY <1>2, <2>3, <2>4, ToolReturnsTalks
    <2>6. QED
        BY <1>4, <2>1, <2>5, RestingThreadTalks
<1>5. CASE /\ SettleTool(f.run, f.token, c, "failed")
           /\ Become(t, ToolRaises(f))
           /\ UNCHANGED <<approvalDb, processVars, worldVars>>
    <2>1. Rest
        BY <1>2, <1>5, SettleRests
    <2>2. QED
        BY <1>2, <1>5, <2>1, ToolRaisesTalks, RestingThreadTalks
<1>6. QED
    BY <1>3, <1>4, <1>5 DEF RecordOutcome

(* The result is appended, and the rest of the calls remains.              *)
LEMMA SaveAfterCallTalks ==
    ASSUME RuntimeInv, TalkInv, StoresStep, NEW t \in Thread, SaveAfterCall(t)
    PROVE  TalkInv'
<1> DEFINE f == th[t]
           H == Append(f.history, Result(Head(f.calls), f.out))
           g == [f EXCEPT !.history = H, !.calls = Tail(@), !.out = "none",
                          !.seen = "none"]
           action == IF g.calls = <<>> THEN "model" ELSE "tools"
<1>1. At(t, "after_call") /\ Save(t, Saved(action, g), Proceed(g))
    BY DEF SaveAfterCall
<1>2. /\ f \in Frame /\ f.run \in Run /\ f.pc = "after_call"
      /\ f.pc # "idle" /\ FrameTalks(f, World)
      /\ HistoryFits(f.run, f.history, World)
      /\ Coherent(f.history, f.calls)
    BY <1>1, TalkingFrame DEF TalkLabels
<1>3. /\ f.calls # <<>> /\ f.calls \in Seq(Call) /\ f.history \in Seq(Entry)
      /\ f.out \in Output /\ Head(f.calls) \in Call
    <2>1. f.calls # <<>> /\ f.out # "none"
        BY <1>2, ThreadFacts DEF RuntimeInv, Fits, FrameFits, CallLabels
    <2>2. QED
        BY <1>2, <2>1 DEF Frame
<1>4. Coherent(H, Tail(f.calls))
    BY <1>2, <1>3, AnsweringIsCoherent
<1>5. Result(Head(f.calls), f.out) \in Entry
    BY <1>3 DEF Result, Entry
<1>6. /\ H \in Seq(Entry) /\ Len(H) = Len(f.history) + 1
      /\ \A i \in 1..Len(f.history) : H[i] = f.history[i]
      /\ H[Len(f.history) + 1] = Result(Head(f.calls), f.out)
    BY <1>3, <1>5
<1> HIDE DEF H
<1>7. /\ g \in Frame /\ g.run = f.run /\ g.seen = "none"
      /\ g.history = H /\ g.calls = Tail(f.calls)
    <2>1. Tail(f.calls) \in Seq(Call) /\ H \in Seq(Entry)
        BY <1>3, <1>6
    <2>2. QED
        BY <1>2, <2>1 DEF Frame
<1>8. HistoryFits(f.run, H, World)
    <2>1. CallOf(f) \in World.asked
        <3>1. Head(f.calls) \in Range(f.calls)
            BY <1>2, <1>3, TailForgetsHead DEF Coherent
        <3>2. PICK i : i \in Positions(f.history, "call", Head(f.calls))
            BY <1>2, <1>3, <3>1 DEF Coherent, Answered
        <3>3. i \in DOMAIN f.history /\ f.history[i].call = Head(f.calls)
            BY <3>2 DEF Positions
        <3>4. QED
            BY <1>2, <3>3 DEF HistoryFits, CallOf
    <2>2. ResultFits(CallOf(f), f.out, World)
        BY <1>2 DEF FrameTalks
    <2> SUFFICES ASSUME NEW i \in DOMAIN H
                 PROVE  /\ <<f.run, H[i].call>> \in World.asked
                        /\ H[i].kind = "result" =>
                             ResultFits(<<f.run, H[i].call>>, H[i].text, World)
        BY DEF HistoryFits
    <2>3. CASE i \in 1..Len(f.history)
        <3>1. H[i] = f.history[i] /\ i \in DOMAIN f.history
            BY <1>3, <1>6, <2>3
        <3>2. QED
            BY <1>2, <3>1 DEF HistoryFits
    <2>4. CASE i \notin 1..Len(f.history)
        <3>1. H[i] = Result(Head(f.calls), f.out)
            BY <1>3, <1>6, <2>4
        <3>2. H[i].call = Head(f.calls) /\ H[i].text = f.out
            BY <3>1 DEF Result
        <3>3. QED
            BY <2>1, <2>2, <3>2 DEF CallOf
    <2>5. QED
        BY <2>3, <2>4
<1> HIDE DEF g
<1>9. StateTalks(f.run, Saved(action, g), World)
    BY <1>4, <1>7, <1>8, SavedTalks
<1>10. FrameTalks(Proceed(g), World) /\ ~WillExecute(Proceed(g))
    BY <1>2, <1>4, <1>7, <1>8, ProceedTalks
<1>11. QED
    BY <1>1, <1>2, <1>9, <1>10, SaveTalks

LEMMA ToolCallStepTalks ==
    ASSUME RuntimeInv, TalkInv, StoresStep, NEW t \in Thread, ToolCallStep(t)
    PROVE  TalkInv'
    BY RenewForToolTalks, ClaimCallTalks, ExecuteTalks, CheckOwnerTalks,
       RecordOutcomeTalks, SaveAfterCallTalks
       DEF ToolCallStep, CompleteCall, FailCall

-----------------------------------------------------------------------------
(* A call that needs approval.                                             *)

LEMMA ApprovalStepRests ==
    ASSUME StoresStep, UNCHANGED <<sessionDb, issued>>,
           \A a \in Request : approval'[a] # "absent" => approval[a] # "absent"
    PROVE  Rest
    BY DEF Rest, sessionDb

LEMMA MoveMakesNoRequest ==
    ASSUME NEW a \in Request, NEW from \in ApprovalStatus \ {"absent"},
           NEW to, ApprovalTypeOK, Move(a, from, to)
    PROVE  \A b \in Request : approval'[b] # "absent" => approval[b] # "absent"
    BY DEF Move, ApprovalTypeOK

LEMMA ExpiryMakesNoRequest ==
    ASSUME ExpirePending
    PROVE  \A a \in Request : approval'[a] # "absent" => approval[a] # "absent"
    BY DEF ExpirePending, AfterExpiry, Expired

LEMMA ApprovalsAreTyped ==
    ASSUME RuntimeInv
    PROVE  ApprovalTypeOK
    BY SameApprovals DEF RuntimeInv, BaseInv, Approvals!ApprovalInv

LEMMA ParkedTalks ==
    ASSUME RuntimeInv, TalkInv, NEW t \in Thread, th[t].pc # "idle", Rest,
           Parked(t)
    PROVE  TalkInv'
<1>1. th[t] \in Frame /\ FrameTalks(th[t], World)
    BY ThreadFacts DEF RuntimeInv, TalkInv
<1>2. CASE Return(t)
    BY <1>2, IdleTalks, RestingThreadTalks DEF Return
<1>3. CASE Goto(t, "card")
    <2>1. FrameTalks([th[t] EXCEPT !.pc = "card"], World)
          /\ ~WillExecute([th[t] EXCEPT !.pc = "card"])
        BY <1>1, LabelTalks
           DEF Labels, TalkLabels, TurnLabels, ToolLabels, ClaimedLabels,
               OutLabels, SeenLabels
    <2>2. QED
        BY <1>3, <2>1, RestingThreadTalks DEF Goto
<1>4. QED
    BY <1>2, <1>3 DEF Parked

(* A request keeps the conversation up to its call, which is open.         *)
LEMMA RequestApprovalTalks ==
    ASSUME RuntimeInv, TalkInv, StoresStep, NEW t \in Thread,
           RequestApproval(t)
    PROVE  TalkInv'
<1> DEFINE f == th[t]
           k == Saved("approval", f)
           g == [f EXCEPT !.pc = "park_checkpoint"]
<1>1. At(t, "gate")
    BY DEF RequestApproval
<1>2. /\ f \in Frame /\ f.run \in Run /\ f.pc = "gate"
      /\ FrameTalks(f, World) /\ HistoryFits(f.run, f.history, World)
      /\ Coherent(f.history, f.calls)
    BY <1>1, TalkingFrame DEF TalkLabels
<1>3. Pending(t) \in Request /\ Pending(t) = <<f.run, Head(f.calls)>>
    BY <1>1, CallLabel DEF RuntimeInv, CallLabels, Pending
<1>4. RequestTalks(Pending(t), k, World)
    BY <1>2, <1>3 DEF RequestTalks, Saved
<1>5. UNCHANGED <<ledger, checkpoint, issued>>
    BY DEF RequestApproval, sessionDb, worldVars
<1>6. \A a \in Request : approval'[a] # "absent" =>
        approval[a] # "absent" \/ RequestTalks(a, continuation'[a], World)
    BY <1>3, <1>4, ApprovalsAreTyped
       DEF RequestApproval, CreateRequest, ApprovalTypeOK, approvalVars
<1>7. FrameTalks(g, World) /\ ~WillExecute(g)
    BY <1>2, LabelTalks
       DEF Labels, TalkLabels, TurnLabels, ToolLabels, ClaimedLabels,
           OutLabels, SeenLabels
<1>8. \A u \in Thread : th'[u] = IF u = t THEN g ELSE th[u]
    BY DEF RequestApproval, Goto, Become, RuntimeInv, BaseInv, WorldTypeOK
<1> HIDE DEF g
<1>9. Steady
    BY <1>5, <1>7, <1>8 DEF Steady
<1>10. QED
    BY <1>5, <1>6, <1>7, <1>8, <1>9, TalkIsKept

LEMMA SaveWaitingTalks ==
    ASSUME RuntimeInv, TalkInv, StoresStep, NEW t \in Thread, SaveWaiting(t)
    PROVE  TalkInv'
<1> DEFINE f == th[t]
           state == [Saved("approval", f) EXCEPT !.calls = <<Head(@)>>]
<1>1. At(t, "park_checkpoint") /\ Save(t, state, [f EXCEPT !.pc = "park"])
    BY DEF SaveWaiting
<1>2. /\ f \in Frame /\ f.pc = "park_checkpoint" /\ f.pc # "idle"
      /\ FrameTalks(f, World) /\ HistoryFits(f.run, f.history, World)
      /\ Coherent(f.history, f.calls)
    BY <1>1, TalkingFrame DEF TalkLabels
<1>3. f.calls # <<>> /\ f.calls \in Seq(Call) /\ Head(f.calls) \in Call
    BY <1>1, <1>2, CallLabel DEF RuntimeInv, CallLabels, Frame
<1>4. /\ state.action = "approval" /\ state.history = f.history
      /\ Head(state.calls) = Head(f.calls)
    BY DEF Saved
<1>5. Positions(f.history, "result", Head(f.calls)) = {}
    <2>1. Head(f.calls) \in Range(f.calls)
        BY <1>2, <1>3, TailForgetsHead DEF Coherent
    <2>2. QED
        BY <1>2, <1>3, <2>1 DEF Coherent, Answered
<1> HIDE DEF state
<1>6. StateTalks(f.run, state, World)
    BY <1>2, <1>4, <1>5 DEF StateTalks
<1>7. FrameTalks([f EXCEPT !.pc = "park"], World)
      /\ ~WillExecute([f EXCEPT !.pc = "park"])
    BY <1>2, LabelTalks
       DEF Labels, TalkLabels, TurnLabels, ToolLabels, ClaimedLabels,
           OutLabels, SeenLabels
<1>8. QED
    BY <1>1, <1>2, <1>6, <1>7, SaveTalks

LEMMA ParkStepTalks ==
    ASSUME RuntimeInv, TalkInv, StoresStep, NEW t \in Thread, ParkStep(t)
    PROVE  TalkInv'
<1> DEFINE f == th[t]
<1>1. CASE Park(t)
    <2>1. Rest
        BY <1>1, RunStepRests
           DEF Park, TryTransition, TransitionRun, sessionDb
    <2>2. QED
        BY <1>1, <2>1, ParkedTalks DEF Park, At
<1>2. ASSUME SendCard(t) \/ CancelUnsent(t) \/ ConsumeUnsent(t)
      PROVE  TalkInv'
    <2>1. f.pc \in {"card", "cancel_unsent", "consume_unsent"}
          /\ Pending(t) \in Request
        BY <1>2, CallLabel DEF RuntimeInv, CallLabels, SendCard, CancelUnsent,
                               ConsumeUnsent, At
    <2>2. f \in Frame /\ FrameTalks(f, World)
        BY ThreadFacts DEF RuntimeInv, TalkInv
    <2>3. \A a \in Request : approval'[a] # "absent" => approval[a] # "absent"
        BY <1>2, <2>1, ApprovalsAreTyped
           DEF SendCard, CancelUnsent, ConsumeUnsent, Decide, DecideTooLate,
               TryConsume, MarkConsumed, ApprovalTypeOK, approvalDb
    <2>4. Rest
        BY <1>2, <2>3, ApprovalStepRests
           DEF SendCard, CancelUnsent, ConsumeUnsent, worldVars
    <2>5. \/ Return(t)
          \/ \E l \in {"cancel_unsent", "consume_unsent"} : Goto(t, l)
        BY <1>2 DEF SendCard, CancelUnsent, ConsumeUnsent
    <2>6. ASSUME NEW l \in {"cancel_unsent", "consume_unsent"}
          PROVE  FrameTalks([f EXCEPT !.pc = l], World)
                 /\ ~WillExecute([f EXCEPT !.pc = l])
        BY <2>2, LabelTalks
           DEF Labels, TalkLabels, TurnLabels, ToolLabels, ClaimedLabels,
               OutLabels, SeenLabels
    <2>7. QED
        BY <2>4, <2>5, <2>6, IdleTalks, RestingThreadTalks DEF Return, Goto
<1>3. QED
    BY <1>1, <1>2, RequestApprovalTalks, SaveWaitingTalks DEF ParkStep

-----------------------------------------------------------------------------
(* Resumes.                                                                *)

(* A thread that claims a run goes on, or finds it claimed and gives up.   *)
LEMMA ClaimTalks ==
    ASSUME RuntimeInv, TalkInv, StoresStep, NEW t \in Thread, NEW expected,
           NEW next \in Labels, Claim(t, expected, next),
           FrameTalks([th[t] EXCEPT !.pc = next], World),
           ~WillExecute([th[t] EXCEPT !.pc = next])
    PROVE  TalkInv'
<1>1. Rest
    BY RunStepRests DEF Claim, ClaimRun, sessionDb
<1>2. QED
    BY <1>1, IdleTalks, RestingThreadTalks DEF Claim, Goto, Return

LEMMA ReadCheckpointTalks ==
    ASSUME RuntimeInv, TalkInv, StoresStep, NEW t \in Thread,
           ReadCheckpoint(t)
    PROVE  TalkInv'
<1> DEFINE f == th[t]
           s == checkpoint[f.run].state
<1>1. /\ f \in Frame /\ f.run \in Run /\ f.pc = "rr_checkpoint"
      /\ f.seen = "none" /\ Fits(f)
    BY LoopLabel, ThreadFacts DEF RuntimeInv, ReadCheckpoint, At, LoopLabels
<1>2. status[f.run] # "absent"
    BY <1>1 DEF Fits, FrameFits
<1>3. s # NoState /\ s \in SavedState /\ StateTalks(f.run, s, World)
    <2>1. StoreTypeOK
        BY SameStore DEF RuntimeInv, BaseInv, Store!StoreInv
    <2>2. QED
        BY <1>1, <1>2, <2>1, CheckpointsAreStates
           DEF RuntimeInv, BaseInv, RunsHaveCheckpoints, TalkInv
<1>4. PICK l \in {"rr_approval", "rr_claim_final", "rr_claim"} :
        /\ Become(t, [Loaded(f, s) EXCEPT !.pc = l])
        /\ l = "rr_claim" => s.action # "approval"
    <2>1. CASE s.action = "approval"
        BY <2>1 DEF ReadCheckpoint
    <2>2. CASE s.action = "finalize"
        BY <2>2 DEF ReadCheckpoint
    <2>3. CASE s.action \notin {"approval", "finalize"}
        BY <2>3 DEF ReadCheckpoint
    <2>4. QED
        BY <2>1, <2>2, <2>3
<1> DEFINE g == [Loaded(f, s) EXCEPT !.pc = l]
<1>5. /\ g.pc = l /\ g.run = f.run /\ g.history = s.history
      /\ g.calls = s.calls
    BY <1>1 DEF Loaded, Frame
<1> HIDE DEF g
<1>6. FrameTalks(g, World) /\ ~WillExecute(g)
    BY <1>3, <1>4, <1>5
       DEF FrameTalks, StateTalks, TurnLabels, WillExecute, TalkLabels,
           ToolLabels, ClaimedLabels
<1>7. QED
    BY <1>4, <1>6, ThreadOnlyRests, RestingThreadTalks DEF ReadCheckpoint, g

LEMMA LearnTokenTalks ==
    ASSUME RuntimeInv, TalkInv, StoresStep, NEW t \in Thread, LearnToken(t)
    PROVE  TalkInv'
<1> DEFINE f == th[t]
           g == [f EXCEPT !.token = token[f.run], !.guarded = TRUE]
<1>1. f \in Frame /\ f.run \in Run /\ f.seen = "none"
    BY LoopLabel DEF RuntimeInv, LearnToken, LoopLabels
<1>2. /\ g \in Frame /\ g.run = f.run /\ g.seen = f.seen
      /\ g.history = f.history /\ g.calls = f.calls
    <2>1. token[f.run] \in Nat
        BY <1>1, TokensAreNumbers DEF RuntimeInv
    <2>2. QED
        BY <1>1, <2>1 DEF Frame
<1>3. CASE At(t, "rr_token") /\ Become(t, Proceed(g))
    <2>1. /\ HistoryFits(f.run, f.history, World)
          /\ Coherent(f.history, f.calls)
        BY <1>3, TalkingFrame DEF TalkLabels
    <2> HIDE DEF g
    <2>2. FrameTalks(Proceed(g), World) /\ ~WillExecute(Proceed(g))
        BY <1>1, <1>2, <2>1, ProceedTalks
    <2>3. QED
        BY <1>3, <2>2, ThreadOnlyRests, RestingThreadTalks DEF LearnToken
<1>4. CASE Become(t, [g EXCEPT !.pc = "complete"])
    <2>1. FrameTalks([g EXCEPT !.pc = "complete"], World)
          /\ ~WillExecute([g EXCEPT !.pc = "complete"])
        BY <1>1
           DEF TalkInv, FrameTalks, Frame, TalkLabels, TurnLabels, ToolLabels,
               ClaimedLabels, WillExecute
    <2>2. QED
        BY <1>4, <2>1, ThreadOnlyRests, RestingThreadTalks DEF LearnToken
<1>5. QED
    BY <1>3, <1>4 DEF LearnToken

(* The status that LoadRequest reads of a refused request is final.        *)
LEMMA LoadRequestTalks ==
    ASSUME RuntimeInv, TalkInv, StoresStep, NEW t \in Thread, LoadRequest(t)
    PROVE  TalkInv'
<1> DEFINE f == th[t]
           a == Pending(t)
           k == continuation[a]
           g == [Loaded(f, k) EXCEPT !.pc = "rs_run", !.seen = AfterExpiry[a]]
<1>1. /\ f \in Frame /\ f.run \in Run /\ f.pc = "rs_load"
      /\ a \in Request /\ a = <<f.run, Head(f.calls)>> /\ a = CallOf(f)
      /\ Head(f.calls) \in Call
    BY CallLabel DEF RuntimeInv, LoadRequest, At, CallLabels, Pending
<1>2. approval[a] # "absent"
    BY <1>1, ThreadFacts DEF RuntimeInv, Fits, FrameFits
<1>3. k \in SavedState /\ Policy[a[2]] = "approve"
    BY <1>1, <1>2 DEF RuntimeInv, BaseInv, RequestsHaveContinuations
<1>4. RequestTalks(a, k, World)
    BY <1>1, <1>2 DEF TalkInv
<1>5. Rest
    BY ApprovalStepRests, ExpiryMakesNoRequest DEF LoadRequest, worldVars
<1>6. /\ g.pc = "rs_run" /\ g.run = f.run /\ g.calls = k.calls
      /\ g.history = k.history /\ g.seen = approval'[a]
    BY <1>1, <1>3 DEF Loaded, Frame, SavedState, LoadRequest, ExpirePending
<1>7. Become(t, g)
    BY DEF LoadRequest
<1> HIDE DEF g
<1>8. CallOf(g) = a
    <2>1. Head(k.calls) = a[2]
        BY <1>4 DEF RequestTalks
    <2>2. a[2] = Head(f.calls)
        BY <1>1
    <2>3. QED
        BY <1>1, <1>6, <2>1, <2>2 DEF CallOf
<1>9. \A u \in Thread : th'[u] = IF u = t THEN g ELSE th[u]
    BY <1>7 DEF Become, RuntimeInv, BaseInv, WorldTypeOK
<1>10. ~WillExecute(g)
    BY <1>6 DEF WillExecute
<1>11. Grows(World, World')
    <2>1. Steady
        BY <1>5, <1>9, <1>10 DEF Steady, Rest
    <2>2. QED
        BY <2>1, WorldGrows
<1>12. RequestTalks(a, k, World')
    BY <1>4, <1>11, TalkStays
<1>13. g.seen \in {"rejected", "expired"} => a \in World'.barred
    BY <1>1, <1>3, <1>6 DEF World, WillNotRun
<1>14. FrameTalks(g, World')
    <2>1. HistoryFits(f.run, k.history, World') /\ Coherent(k.history, k.calls)
        <3>1. a[1] = f.run
            BY <1>1
        <3> HIDE DEF a, k
        <3>2. QED
            BY <1>12, <3>1 DEF RequestTalks
    <2>2. g.pc \notin TurnLabels
        BY <1>6 DEF TurnLabels
    <2> HIDE DEF a, k
    <2>3. QED
        BY <1>6, <1>8, <1>13, <2>1, <2>2 DEF FrameTalks
<1>15. QED
    BY <1>5, <1>7, <1>10, <1>14, RestingThreadTalks

LEMMA LearnTokenOfParkedTalks ==
    ASSUME RuntimeInv, TalkInv, StoresStep, NEW t \in Thread,
           LearnTokenOfParked(t)
    PROVE  TalkInv'
<1> DEFINE f == th[t]
<1>1. /\ f \in Frame /\ f.run \in Run /\ f.pc = "rs_token"
      /\ FrameTalks(f, World)
    BY TalkingFrame DEF LearnTokenOfParked, TalkLabels
<1>2. PICK l \in {"rs_consume", "rs_execute", "rs_ledger"} :
        /\ Become(t, [f EXCEPT !.token = token[f.run], !.pc = l])
        /\ l = "rs_consume" => f.seen \in {"rejected", "expired"}
    <2>1. CASE f.seen \in {"rejected", "expired"}
        BY <2>1 DEF LearnTokenOfParked
    <2>2. CASE f.seen = "approved"
        BY <2>2 DEF LearnTokenOfParked
    <2>3. CASE f.seen \notin {"rejected", "expired", "approved"}
        BY <2>3 DEF LearnTokenOfParked
    <2>4. QED
        BY <2>1, <2>2, <2>3
<1> DEFINE g == [f EXCEPT !.token = token[f.run], !.pc = l]
<1>3. /\ g.pc = l /\ g.run = f.run /\ g.calls = f.calls
      /\ g.history = f.history /\ g.seen = f.seen /\ CallOf(g) = CallOf(f)
    BY <1>1 DEF Frame, CallOf
<1> HIDE DEF g
<1>4. FrameTalks(g, World) /\ ~WillExecute(g)
    BY <1>1, <1>2, <1>3
       DEF FrameTalks, TalkLabels, TurnLabels, WillExecute
<1>5. QED
    BY <1>2, <1>4, ThreadOnlyRests, RestingThreadTalks
       DEF LearnTokenOfParked, g

LEMMA ConsumeRefusalTalks ==
    ASSUME RuntimeInv, TalkInv, StoresStep, NEW t \in Thread,
           ConsumeRefusal(t)
    PROVE  TalkInv'
<1> DEFINE f == th[t]
           g == [f EXCEPT !.out = "refused", !.pc = "after_call"]
<1>1. f \in Frame /\ f.pc = "rs_consume" /\ FrameTalks(f, World)
    BY TalkingFrame DEF ConsumeRefusal, TalkLabels
<1>2. ResultFits(CallOf(f), "refused", World)
    BY <1>1 DEF FrameTalks, ResultFits
<1>3. FrameTalks(g, World) /\ ~WillExecute(g)
    BY <1>1, <1>2, OutTalks, SameWorld DEF TalkLabels, OutLabels
<1>4. Become(t, g)
    BY <1>1 DEF ConsumeRefusal, Frame
<1>5. Rest
    BY ApprovalStepRests
       DEF ConsumeRefusal, TryConsume, MarkConsumed, approvalDb, worldVars
<1>6. QED
    BY <1>3, <1>4, <1>5, RestingThreadTalks

LEMMA ConsultLedgerTalks ==
    ASSUME RuntimeInv, TalkInv, StoresStep, NEW t \in Thread,
           ConsultLedger(t)
    PROVE  TalkInv'
<1> DEFINE f == th[t]
<1>1. /\ f \in Frame /\ f.pc = "rs_ledger" /\ f.pc \in TalkLabels
      /\ FrameTalks(f, World)
    BY TalkingFrame DEF ConsultLedger, TalkLabels
<1>2. CallOf(f) = <<f.run, Head(f.calls)>> /\ CallOf(f) \in Request
    BY CallLabel DEF RuntimeInv, ConsultLedger, CallLabels, CallOf
<1>3. CASE ledger[f.run][Head(f.calls)].status = "completed"
    <2>1. ResultFits(CallOf(f), "output", World)
        BY <1>2, <1>3 DEF ResultFits, World
    <2>2. PICK l \in OutLabels :
            Become(t, [f EXCEPT !.out = "output", !.pc = l])
        BY <1>3 DEF ConsultLedger, OutLabels
    <2>3. /\ FrameTalks([f EXCEPT !.out = "output", !.pc = l], World)
          /\ ~WillExecute([f EXCEPT !.out = "output", !.pc = l])
        BY <1>1, <2>1, OutTalks, SameWorld
    <2>4. QED
        BY <2>2, <2>3, ThreadOnlyRests, RestingThreadTalks DEF ConsultLedger
<1>4. CASE Become(t, [f EXCEPT !.pc = "after_call", !.out = "uncertain"])
    <2>1. ResultFits(CallOf(f), "uncertain", World)
        BY DEF ResultFits
    <2>2. /\ FrameTalks([f EXCEPT !.out = "uncertain", !.pc = "after_call"],
                        World)
          /\ ~WillExecute([f EXCEPT !.out = "uncertain", !.pc = "after_call"])
        BY <1>1, <2>1, OutTalks, SameWorld DEF OutLabels
    <2>3. Become(t, [f EXCEPT !.out = "uncertain", !.pc = "after_call"])
        BY <1>1, <1>4 DEF Frame
    <2>4. QED
        BY <2>2, <2>3, ThreadOnlyRests, RestingThreadTalks DEF ConsultLedger
<1>5. CASE Goto(t, "rs_fail")
    <2>1. FrameTalks([f EXCEPT !.pc = "rs_fail"], World)
          /\ ~WillExecute([f EXCEPT !.pc = "rs_fail"])
        BY <1>1, LabelTalks
           DEF Labels, TalkLabels, TurnLabels, ToolLabels, ClaimedLabels,
               OutLabels, SeenLabels
    <2>2. QED
        BY <1>5, <2>1, ThreadOnlyRests, RestingThreadTalks
           DEF ConsultLedger, Goto
<1>6. QED
    BY <1>3, <1>4, <1>5 DEF ConsultLedger

(* A call whose approval was taken and whose policy has changed is barred: *)
(* nobody else was about to execute it, and nobody will take it again.     *)
LEMMA TakeApprovalTalks ==
    ASSUME RuntimeInv, TalkInv, StoresStep, NEW t \in Thread, TakeApproval(t)
    PROVE  TalkInv'
<1> DEFINE f == th[t]
           a == Pending(t)
           g == [f EXCEPT !.pc = "renew_tool"]
           h == [f EXCEPT !.out = "refused", !.pc = "approval_fail"]
<1>1. /\ f \in Frame /\ f.run \in Run /\ f.pc = "rs_execute"
      /\ f.pc \in TalkLabels /\ FrameTalks(f, World)
    BY TalkingFrame DEF TakeApproval, TalkLabels
<1>2. /\ a = CallOf(f) /\ a = <<f.run, Head(f.calls)>> /\ a \in Request
      /\ Head(f.calls) \in Call
    BY CallLabel DEF RuntimeInv, TakeApproval, CallLabels, CallOf
<1>3. approval \in [Request -> ApprovalStatus]
    BY ApprovalsAreTyped DEF ApprovalTypeOK
<1>4. CASE Return(t) /\ UNCHANGED approvalDb
    <2>1. Rest
        BY <1>4, ApprovalStepRests DEF TakeApproval, approvalDb, worldVars
    <2>2. QED
        BY <1>4, <2>1, IdleTalks, RestingThreadTalks DEF Return
<1>5. CASE ClaimExecution(a)
    <2>1. approval[a] = "approved" /\ approval'[a] = "executing"
        BY <1>2, <1>3, <1>5 DEF ClaimExecution, Move
    <2>2. UNCHANGED <<ledger, checkpoint, issued>>
        BY DEF TakeApproval, sessionDb, worldVars
    <2>3. \A b \in Request : approval'[b] # "absent" => approval[b] # "absent"
        BY <1>2, <1>3, <1>5 DEF ClaimExecution, Move
    <2>4. CASE Become(t, g)
        <3>1. FrameTalks(g, World)
            BY <1>1, LabelTalks
               DEF Labels, TalkLabels, TurnLabels, ToolLabels, ClaimedLabels,
                   OutLabels, SeenLabels
        <3>2. CallOf(g) = a
            BY <1>1, <1>2 DEF Frame, CallOf
        <3>3. \A u \in Thread : th'[u] = IF u = t THEN g ELSE th[u]
            BY <2>4 DEF Become, RuntimeInv, BaseInv, WorldTypeOK
        <3> HIDE DEF g
        <3>4. Steady
            BY <2>1, <2>2, <3>2, <3>3 DEF Steady
        <3>5. QED
            BY <2>2, <2>3, <3>1, <3>3, <3>4, TalkIsKept
    <2>5. CASE Become(t, [f EXCEPT !.pc = "approval_fail", !.out = "refused"])
        <3>1. Become(t, h)
            BY <1>1, <2>5 DEF Frame
        <3>2. ~WillExecute(h)
            BY <1>1 DEF WillExecute, Frame
        <3>3. \A u \in Thread : th'[u] = IF u = t THEN h ELSE th[u]
            BY <3>1 DEF Become, RuntimeInv, BaseInv, WorldTypeOK
        <3> HIDE DEF h
        <3>4. Steady
            BY <2>2, <3>2, <3>3 DEF Steady
        <3>5. Grows(World, World')
            BY <3>4, WorldGrows
        <3>6. Policy[a[2]] = "approve"
            BY <1>2, <2>1 DEF RuntimeInv, BaseInv, RequestsHaveContinuations
        <3>7. ledger[a[1]][a[2]].status = "absent"
            BY <1>1, <1>2, <2>1, <3>6
               DEF RuntimeInv, EffectInv, LedgerNeedsConsent, Spending
        <3>8. \A u \in Thread : WillExecute(th'[u]) => CallOf(th'[u]) # a
            <4> SUFFICES ASSUME NEW u \in Thread, WillExecute(th[u])
                         PROVE  CallOf(th[u]) # a
                BY <3>2, <3>3
            <4>1. Admitted(th[u], approval)
                BY ThreadFacts
                   DEF RuntimeInv, Fits, FrameFits, WillExecute, ToolLabels,
                       ClaimedLabels
            <4>2. QED
                BY <2>1, <4>1 DEF Admitted, Paid, WillExecute, Spending
        <3>9. a \in World'.barred
            BY <1>2, <2>1, <2>2, <3>6, <3>7, <3>8
               DEF World, WillNotRun, Spending, WillExecute, CallOf
        <3>10. ResultFits(CallOf(f), "refused", World')
            BY <1>2, <3>9 DEF ResultFits
        <3>11. FrameTalks(h, World')
            BY <1>1, <3>5, <3>10, OutTalks DEF OutLabels, h
        <3>12. QED
            BY <2>2, <2>3, <3>3, <3>4, <3>11, TalkIsKept
    <2>6. \/ Become(t, g)
          \/ Become(t, [f EXCEPT !.pc = "approval_fail", !.out = "refused"])
        BY <2>1 DEF TakeApproval, Goto
    <2>7. QED
        BY <2>4, <2>5, <2>6
<1>6. QED
    BY <1>4, <1>5 DEF TakeApproval

LEMMA SettleTalks ==
    ASSUME RuntimeInv, TalkInv, StoresStep, NEW t \in Thread,
           SettleForExecutor(t) \/ SettleApproval(t)
    PROVE  TalkInv'
<1> DEFINE f == th[t]
<1>1. PICK label \in {"rs_settle", "approval_done", "approval_fail"} :
        At(t, label)
    BY DEF SettleForExecutor, SettleApproval
<1>2. label \in TalkLabels /\ label \in OutLabels /\ label \in CallLabels
    BY DEF TalkLabels, OutLabels, CallLabels
<1>3. /\ f \in Frame /\ f.pc = label /\ FrameTalks(f, World)
      /\ Pending(t) \in Request
    BY <1>1, <1>2, TalkingFrame, CallLabel DEF RuntimeInv
<1>4. \A a \in Request : approval'[a] # "absent" => approval[a] # "absent"
    BY <1>3, ApprovalsAreTyped
       DEF SettleForExecutor, SettleApproval, TryMove, Move, approvalDb,
           ApprovalTypeOK
<1>5. Rest
    BY <1>4, ApprovalStepRests DEF SettleForExecutor, SettleApproval, worldVars
<1>6. CASE Goto(t, "after_call")
    <2>1. FrameTalks([f EXCEPT !.pc = "after_call"], World)
          /\ ~WillExecute([f EXCEPT !.pc = "after_call"])
        BY <1>2, <1>3, LabelTalks
           DEF Labels, TalkLabels, TurnLabels, ToolLabels, ClaimedLabels,
               OutLabels, SeenLabels
    <2>2. QED
        BY <1>5, <1>6, <2>1, RestingThreadTalks DEF Goto
<1>7. CASE Become(t, ToolRaises(f))
    BY <1>2, <1>3, <1>5, <1>7, ToolRaisesTalks, RestingThreadTalks
<1>8. QED
    BY <1>6, <1>7 DEF SettleForExecutor, SettleApproval

LEMMA ResumeStepTalks ==
    ASSUME RuntimeInv, TalkInv, StoresStep, NEW t \in Thread, ResumeStep(t)
    PROVE  TalkInv'
<1> DEFINE f == th[t]
<1>1. f \in Frame /\ FrameTalks(f, World)
    BY ThreadFacts DEF RuntimeInv, TalkInv
<1>2. CASE ReadRun(t)
    <2> DEFINE l == "rr_checkpoint"
    <2>1. l \in Labels \ (TalkLabels \cup OutLabels \cup SeenLabels)
        BY DEF Labels, TalkLabels, TurnLabels, ToolLabels, ClaimedLabels,
               OutLabels, SeenLabels
    <2>2. l \notin TurnLabels /\ l \notin {"renew_tool", "claim_tool"}
        BY DEF TurnLabels
    <2>3. FrameTalks([f EXCEPT !.pc = l], World)
          /\ ~WillExecute([f EXCEPT !.pc = l])
        BY <1>1, <2>1, <2>2, LabelTalks
    <2>4. QED
        BY <1>2, <2>3, IdleTalks, ThreadOnlyRests, RestingThreadTalks
           DEF ReadRun, Goto, Return
<1>3. CASE LoadParked(t)
    <2>1. Rest
        BY <1>3, ApprovalStepRests, ExpiryMakesNoRequest
           DEF LoadParked, worldVars
    <2>2. ASSUME NEW l \in {"rr_wait", "rs_load"}
          PROVE  FrameTalks([f EXCEPT !.pc = l], World)
                 /\ ~WillExecute([f EXCEPT !.pc = l])
        BY <1>1, LabelTalks
           DEF Labels, TalkLabels, TurnLabels, ToolLabels, ClaimedLabels,
               OutLabels, SeenLabels
    <2>3. PICK l \in {"rr_wait", "rs_load"} : Goto(t, l)
        BY <1>3 DEF LoadParked
    <2>4. QED
        BY <2>1, <2>2, <2>3, RestingThreadTalks DEF Goto
<1>4. CASE WaitAgain(t)
    <2>1. Rest
        BY <1>4, RunStepRests
           DEF WaitAgain, TryTransition, TransitionRun, sessionDb
    <2>2. QED
        BY <1>4, <2>1, ParkedTalks DEF WaitAgain, At
<1>5. CASE ClaimInterrupted(t)
    <2>1. CASE At(t, "rr_claim") /\ Claim(t, {"interrupted"}, "rr_token")
        <3>1. FrameTalks([f EXCEPT !.pc = "rr_token"], World)
              /\ ~WillExecute([f EXCEPT !.pc = "rr_token"])
            BY <1>1, <2>1, LabelTalks
               DEF At, Labels, TalkLabels, TurnLabels, ToolLabels,
                   ClaimedLabels, OutLabels, SeenLabels
        <3>2. QED
            BY <2>1, <3>1, ClaimTalks DEF Labels
    <2>2. CASE At(t, "rr_claim_final")
                 /\ Claim(t, {"interrupted"}, "rr_token_final")
        <3> DEFINE l == "rr_token_final"
        <3>1. l \in Labels \ (TalkLabels \cup OutLabels \cup SeenLabels)
            BY DEF Labels, TalkLabels, TurnLabels, ToolLabels, ClaimedLabels,
                   OutLabels, SeenLabels
        <3>2. l \notin TurnLabels /\ l \notin {"renew_tool", "claim_tool"}
            BY DEF TurnLabels
        <3>3. FrameTalks([f EXCEPT !.pc = l], World)
              /\ ~WillExecute([f EXCEPT !.pc = l])
            BY <1>1, <3>1, <3>2, LabelTalks
        <3>4. QED
            BY <2>2, <3>1, <3>3, ClaimTalks
    <2>3. QED
        BY <1>5, <2>1, <2>2 DEF ClaimInterrupted
<1>6. CASE CheckRun(t)
    <2>1. f.pc = "rs_run"
        BY <1>6 DEF CheckRun, At
    <2>2. FrameTalks([f EXCEPT !.pc = "rs_claim"], World)
          /\ ~WillExecute([f EXCEPT !.pc = "rs_claim"])
        BY <1>1, <2>1, LabelTalks
           DEF Labels, TalkLabels, TurnLabels, ToolLabels, ClaimedLabels,
               OutLabels, SeenLabels
    <2>3. QED
        BY <1>6, <2>2, IdleTalks, ThreadOnlyRests, RestingThreadTalks
           DEF CheckRun, Goto, Return
<1>7. CASE ClaimParked(t)
    <2>1. f.pc = "rs_claim"
        BY <1>7 DEF ClaimParked, At
    <2>2. FrameTalks([f EXCEPT !.pc = "rs_token"], World)
          /\ ~WillExecute([f EXCEPT !.pc = "rs_token"])
        BY <1>1, <2>1, LabelTalks
           DEF Labels, TalkLabels, TurnLabels, ToolLabels, ClaimedLabels,
               OutLabels, SeenLabels
    <2>3. QED
        BY <1>7, <2>2, ClaimTalks DEF ClaimParked, Labels
<1>8. CASE FailUncertain(t)
    <2>1. Rest
        BY <1>8, RunStepRests
           DEF FailUncertain, TryTransition, TransitionRun, sessionDb
    <2>2. QED
        BY <1>8, <2>1, IdleTalks, RestingThreadTalks DEF FailUncertain, Return
<1>9. QED
    BY <1>2, <1>3, <1>4, <1>5, <1>6, <1>7, <1>8, ReadCheckpointTalks,
       LearnTokenTalks, LoadRequestTalks, LearnTokenOfParkedTalks,
       ConsumeRefusalTalks, ConsultLedgerTalks, TakeApprovalTalks, SettleTalks
       DEF ResumeStep

-----------------------------------------------------------------------------
(* Beginnings, crashes, people and clocks.                                 *)

LEMMA BeginTalks ==
    ASSUME RuntimeInv, TalkInv, StoresStep, NEW t \in Thread, Begin(t)
    PROVE  TalkInv'
<1>1. ASSUME NEW g, g.pc \in {"context", "rr_get", "rs_load"},
             g.history = <<>>, g.pc = "context" => g.calls = <<>>
      PROVE  FrameTalks(g, World) /\ ~WillExecute(g)
    BY <1>1, EmptyIsCoherent
       DEF FrameTalks, HistoryFits, TalkLabels, TurnLabels, ToolLabels,
           ClaimedLabels, WillExecute
<1>2. ASSUME NEW m \in Message, NEW r \in Run,
             BeginInbound(Me(t), m, r, Saved("model", Idle)),
             Become(t, [Idle EXCEPT !.pc = "context", !.run = r, !.token = 1]),
             UNCHANGED <<approvalDb, processVars, worldVars>>
      PROVE  TalkInv'
    <2> DEFINE g == [Idle EXCEPT !.pc = "context", !.run = r, !.token = 1]
    <2>1. g.pc = "context" /\ g.history = <<>> /\ g.calls = <<>>
        BY DEF Idle
    <2> HIDE DEF g
    <2>2. FrameTalks(g, World) /\ ~WillExecute(g)
        BY <1>1, <2>1
    <2>3. StateTalks(r, Saved("model", Idle), World)
        BY EmptyIsCoherent DEF StateTalks, Saved, Idle, HistoryFits
    <2>4. checkpoint \in [Run -> Checkpoint]
        BY SameStore DEF RuntimeInv, BaseInv, Store!StoreInv, StoreTypeOK
    <2>5. \A q \in Run : \/ checkpoint'[q].state = checkpoint[q].state
                         \/ StateTalks(q, checkpoint'[q].state, World)
        BY <1>2, <2>3, <2>4 DEF BeginInbound, WriteInbound
    <2>6. UNCHANGED <<ledger, approval, issued>>
        BY <1>2 DEF BeginInbound, WriteInbound, approvalDb, worldVars
    <2>7. QED
        BY <1>2, <2>2, <2>5, <2>6, ThreadTalks DEF g
<1>3. ASSUME NEW r, Become(t, [Idle EXCEPT !.pc = "rr_get", !.run = r]),
             OnlyThread
      PROVE  TalkInv'
    <2> DEFINE g == [Idle EXCEPT !.pc = "rr_get", !.run = r]
    <2>1. g.pc = "rr_get" /\ g.history = <<>>
        BY DEF Idle
    <2> HIDE DEF g
    <2>2. FrameTalks(g, World) /\ ~WillExecute(g)
        BY <1>1, <2>1
    <2>3. QED
        BY <1>3, <2>2, ThreadOnlyRests, RestingThreadTalks DEF g
<1>4. ASSUME NEW a \in Request, Resume(t, a)
      PROVE  TalkInv'
    <2> DEFINE g == [Idle EXCEPT !.pc = "rs_load", !.run = a[1],
                                 !.calls = <<a[2]>>]
    <2>1. g.pc = "rs_load" /\ g.history = <<>>
        BY DEF Idle
    <2> HIDE DEF g
    <2>2. FrameTalks(g, World) /\ ~WillExecute(g)
        BY <1>1, <2>1
    <2>3. Rest
        BY <1>4 DEF Resume, Rest, sessionDb, approvalDb, worldVars
    <2>4. QED
        BY <1>4, <2>2, <2>3, RestingThreadTalks DEF Resume, g
<1>5. QED
    BY <1>2, <1>3, <1>4 DEF Begin, Deliver, ResumeRun, OnlyThread

(* A step that moves no thread, except that threads may die.               *)
LEMMA EnvironmentStepTalks ==
    ASSUME RuntimeInv, TalkInv, Rest,
           \A t \in Thread : th'[t] = th[t] \/ th'[t] = Idle
    PROVE  TalkInv'
<1>1. \A t \in Thread : \/ th'[t] = th[t]
                        \/ FrameTalks(th'[t], World) /\ ~WillExecute(th'[t])
    BY IdleTalks
<1>2. Steady
    BY <1>1 DEF Steady, Rest
<1>3. QED
    BY <1>1, <1>2, TalkIsKept DEF Rest

LEMMA EnvironmentTalks ==
    ASSUME RuntimeInv, TalkInv, StoresStep, Environment \/ UNCHANGED vars
    PROVE  TalkInv'
<1>1. th \in [Thread -> Frame]
    BY DEF RuntimeInv, BaseInv, WorldTypeOK
<1>2. ASSUME NEW p \in Process, Crash(p)
      PROVE  TalkInv'
    <2>1. Rest /\ \A t \in Thread : th'[t] = th[t] \/ th'[t] = Idle
        BY <1>2 DEF Crash, Rest, sessionDb, approvalDb, worldVars
    <2>2. QED
        BY <2>1, EnvironmentStepTalks
<1>3. ASSUME NEW p \in Process, Restart(p)
      PROVE  TalkInv'
    <2>1. Rest /\ UNCHANGED th
        BY <1>3 DEF Restart, InterruptIncomplete, Rest, approvalDb, worldVars
    <2>2. QED
        BY <2>1, EnvironmentStepTalks
<1>4. ASSUME NEW p \in Process, RecoverTick(p)
      PROVE  TalkInv'
    <2>1. Rest /\ UNCHANGED th
        BY <1>4, ApprovalStepRests, ExpiryMakesNoRequest
           DEF RecoverTick, worldVars
    <2>2. QED
        BY <2>1, EnvironmentStepTalks
<1>5. ASSUME NEW p \in Process, NEW a \in Request, NEW v \in Verdict,
             Click(p, a, v)
      PROVE  TalkInv'
    <2>1. \A b \in Request : approval'[b] # "absent" => approval[b] # "absent"
        BY <1>5, ApprovalsAreTyped
           DEF Click, Decide, DecideTooLate, ApprovalTypeOK
    <2>2. Rest /\ UNCHANGED th
        BY <1>5, <2>1, ApprovalStepRests DEF Click, worldVars
    <2>3. QED
        BY <2>2, EnvironmentStepTalks
<1>6. ASSUME NEW r \in Run, Administer(r)
      PROVE  TalkInv'
    <2>1. ledger \in [Run -> [Call -> Execution]]
        BY SameStore DEF RuntimeInv, BaseInv, Store!StoreInv, StoreTypeOK
    <2>2. Rest /\ UNCHANGED th
        BY <1>6, <2>1
           DEF Administer, AdminControlRun, AdminResolveTool, SettleRow, Rest,
               approvalDb, runtimeVars, worldVars
    <2>3. QED
        BY <2>2, EnvironmentStepTalks
<1>7. ASSUME NEW r \in Run, LeaseClock(r)
      PROVE  TalkInv'
    <2>1. Rest /\ UNCHANGED th
        BY <1>7, RunStepRests
           DEF LeaseClock, LeaseExpires, runtimeVars, worldVars
    <2>2. QED
        BY <2>1, EnvironmentStepTalks
<1>8. ASSUME NEW a \in Request, ApprovalClock(a)
      PROVE  TalkInv'
    <2>1. Rest /\ UNCHANGED th
        BY <1>8, ApprovalStepRests
           DEF ApprovalClock, DeadlinePasses, runtimeVars, worldVars
    <2>2. QED
        BY <2>1, EnvironmentStepTalks
<1>9. CASE UNCHANGED vars
    <2>1. Rest /\ UNCHANGED th
        BY <1>9 DEF vars, Rest, sessionDb, approvalDb, runtimeVars, worldVars
    <2>2. QED
        BY <2>1, EnvironmentStepTalks
<1>10. QED
    BY <1>2, <1>3, <1>4, <1>5, <1>6, <1>7, <1>8, <1>9 DEF Environment

LEMMA StepKeepsTalk == RuntimeInv /\ TalkInv /\ [Next]_vars => TalkInv'
<1> SUFFICES ASSUME RuntimeInv, TalkInv, [Next]_vars
             PROVE  TalkInv'
    OBVIOUS
<1>1. StoresStep
    BY RuntimeStepIsSound DEF SoundStep
<1>2. ASSUME NEW t \in Thread, Work(t) \/ Begin(t)
      PROVE  TalkInv'
    BY <1>1, <1>2, BuildContextTalks, ModelStepTalks, ToolCallStepTalks,
       ParkStepTalks, ResumeStepTalks, BeginTalks DEF Work
<1>3. QED
    BY <1>1, <1>2, EnvironmentTalks DEF Next

LEMMA InitTalks == Init => TalkInv
<1> SUFFICES ASSUME Init
             PROVE  TalkInv
    OBVIOUS
<1>1. /\ \A r \in Run : checkpoint[r].state = NoState
      /\ \A a \in Request : approval[a] = "absent"
      /\ \A t \in Thread : th[t] = Idle
    BY DEF Init, StoreInit, ApprovalInit, NoCheckpoint
<1>2. QED
    BY <1>1, IdleTalks DEF TalkInv, StateTalks

(* The invariant holds in every reachable state of the loop.               *)
THEOREM ConversationsAreSound == Spec => [](RuntimeInv /\ TalkInv)
<1>1. Init => RuntimeInv /\ TalkInv
    BY InitEstablishesRuntimeInv, InitTalks
<1>2. RuntimeInv /\ TalkInv /\ [Next]_vars => (RuntimeInv /\ TalkInv)'
    BY RuntimeStepIsSound, StepKeepsTalk DEF SoundStep
<1>3. QED
    BY <1>1, <1>2, PTL DEF Spec

(* save_checkpoint: whatever crashes, claims, resumes and duplicated       *)
(* deliveries happen, a checkpoint holds a conversation that can go on.    *)
THEOREM CheckpointsAreCoherent == Spec => []CheckpointIsCoherent
<1>1. RuntimeInv /\ TalkInv => CheckpointIsCoherent
    <2> SUFFICES ASSUME RuntimeInv, TalkInv, NEW r \in Run,
                        checkpoint[r].state # NoState
                 PROVE  LET s == checkpoint[r].state IN
                        CASE s.action = "approval" ->
                               Positions(s.history, "result", Head(s.calls)) = {}
                          [] s.action = "tools" ->
                               Answered(s.history, Range(s.calls))
                          [] OTHER -> Answered(s.history, {})
        BY DEF CheckpointIsCoherent
    <2>1. StateTalks(r, checkpoint[r].state, World)
        BY DEF TalkInv
    <2>2. Range(<<>>) = {}
        BY DEF Range
    <2> DEFINE s == checkpoint[r].state
    <2>3. CASE s.action = "approval"
        BY <2>1, <2>3 DEF StateTalks
    <2>4. CASE s.action = "tools"
        BY <2>1, <2>4 DEF StateTalks, Coherent
    <2>5. CASE s.action \notin {"approval", "tools"}
        <3>1. s.action \in {"model", "finalize"}
            BY <2>5, CheckpointsAreStates, SameStore
               DEF RuntimeInv, BaseInv, Store!StoreInv, SavedState
        <3>2. QED
            BY <2>1, <2>2, <2>5, <3>1 DEF StateTalks, Coherent
    <2>6. QED
        BY <2>3, <2>4, <2>5
<1>2. QED
    BY <1>1, ConversationsAreSound, PTL

(* ModelClient.respond: a model is only ever asked with a conversation in  *)
(* which every call has its one result.                                    *)
THEOREM RequestsAreCoherent == Spec => []RequestIsCoherent
<1>1. TalkInv => RequestIsCoherent
    <2> SUFFICES ASSUME TalkInv, NEW t \in Thread, At(t, "model")
                 PROVE  Answered(th[t].history, {})
        BY DEF RequestIsCoherent
    <2>1. Coherent(th[t].history, th[t].calls) /\ th[t].calls = <<>>
        BY DEF TalkInv, FrameTalks, At, TalkLabels, TurnLabels
    <2>2. Range(<<>>) = {}
        BY DEF Range
    <2>3. QED
        BY <2>1, <2>2 DEF Coherent
<1>2. QED
    BY <1>1, ConversationsAreSound, PTL

(* _process_calls and _resume_result: an output is in the ledger, and a    *)
(* call said to be denied or refused has not been made, on whichever path  *)
(* the result came.  A result "failed" tells nothing: an outcome that could *)
(* not be recorded raises after the call was made.                         *)
THEOREM ResultsAreBorneOut == Spec => []ResultsAreTrue
<1>1. RuntimeInv /\ TalkInv => ResultsAreTrue
    <2> SUFFICES ASSUME RuntimeInv, TalkInv
                 PROVE  ResultsAreTrue
        OBVIOUS
    <2>1. ASSUME NEW r \in Run, NEW c \in Call, WillNotRun(r, c)
          PROVE  effect[r][c] = 0
        <3>1. ledger[r][c].status = "absent"
            BY <2>1 DEF WillNotRun, RuntimeInv, EffectInv, LedgerNeedsConsent,
                        Spending
        <3>2. effect[r][c] \in Nat /\ effect[r][c] <= 1 /\ effect[r][c] # 1
            BY <3>1 DEF RuntimeInv, BaseInv, WorldTypeOK, EffectInv,
                        AtMostOneEffect
        <3>3. QED
            BY <3>2
    <2>2. ASSUME NEW r \in Run, NEW h, HistoryFits(r, h, World)
          PROVE  Truthful(r, h)
        <3> SUFFICES ASSUME NEW i \in DOMAIN h, h[i].kind = "result"
                     PROVE  /\ h[i].text = "output" =>
                                 ledger[r][h[i].call].status = "completed"
                            /\ h[i].text \in {"denied", "refused"} =>
                                 effect[r][h[i].call] = 0
            BY DEF Truthful
        <3>1. ResultFits(<<r, h[i].call>>, h[i].text, World)
              /\ <<r, h[i].call>> \in Request
            BY <2>2 DEF HistoryFits, World
        <3>2. h[i].call \in Call
            BY <3>1 DEF Request
        <3>3. QED
            BY <2>1, <3>1, <3>2 DEF ResultFits, World
    <2>3. ASSUME NEW r \in Run, checkpoint[r].state # NoState
          PROVE  Truthful(r, checkpoint[r].state.history)
        BY <2>2, <2>3 DEF TalkInv, StateTalks
    <2>4. ASSUME NEW t \in Thread, At(t, "model")
          PROVE  Truthful(th[t].run, th[t].history)
        BY <2>2, <2>4, TalkingFrame DEF TalkLabels, TurnLabels
    <2>5. QED
        BY <2>3, <2>4 DEF ResultsAreTrue
<1>2. QED
    BY <1>1, ConversationsAreSound, PTL
=============================================================================
