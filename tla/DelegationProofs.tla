--------------------------- MODULE DelegationProofs ----------------------------
(***************************************************************************)
(* What was proved of agent runs and of the approvals that gate their      *)
(* tools survives the worker and answers by hand, which share only tasks   *)
(* and messages with them; and how many answers a delegated task gets.     *)
(***************************************************************************)
EXTENDS Delegation, AgentRunProofs

DInv == ARInv /\ DTypeOK

LEMMA MovesType ==
  ASSUME DTypeOK, NEW t \in Delegated, NEW from, NEW to \in Delivery, Moves(t, from, to)
  PROVE  delivery' \in [Delegated -> Delivery]
  BY DEF DTypeOK, Moves

LEMMA HandlesType ==
  ASSUME DTypeOK, NEW h \in Respondents, NEW from, NEW to \in HandLabel, Handles(h, from, to)
  PROVE  answering' \in [Respondents -> HandLabel]
  BY DEF DTypeOK, Handles

LEMMA AnswersType ==
  ASSUME ARTypeOK, NEW t \in Tasks, Answers(t)
  PROVE  responses' \in [Tasks -> Nat]
  BY DEF ARTypeOK, Answers

\* The worker writes the task, the messages and its own progress.
LEMMA WorkerWrites ==
  ASSUME DInv, NEW t \in Delegated, WorkerStep(t) \/ WorkerStops(t)
  PROVE  /\ UNCHANGED <<taVars, run, loop, issuer, posting, answering>>
         /\ task' \in [Tasks -> TaskStatus]
         /\ responses' \in [Tasks -> Nat]
         /\ delivery' \in [Delegated -> Delivery]
<1>0. DTypeOK /\ ARTypeOK /\ t \in Tasks
  BY RunsAssumption DEF DInv, DTypeOK
<1>1. \E from \in Delivery, to \in Delivery : Moves(t, from, to)
  BY DEF WorkerStep, StartWork, Chat, StoreAnswer, PublishAnswer, CloseWork, WorkerThrows,
     FailWork, AnswerFailure, Acknowledge, WorkerStops, Delivery, WorkerTry
<1>2. /\ UNCHANGED <<taVars, run, loop, issuer, posting, answering>>
      /\ delivery' \in [Delegated -> Delivery]
  <2>1. UNCHANGED <<taVars, run, loop, issuer, posting, answering>> BY <1>1 DEF Moves
  <2>2. delivery' \in [Delegated -> Delivery] BY <1>0, <1>1, MovesType
  <2> QED BY <2>1, <2>2
<1>3. \/ UNCHANGED task
      \/ \E status \in TaskStatus : SetTask(t, status)
  BY DEF WorkerStep, StartWork, Chat, StoreAnswer, PublishAnswer, CloseWork, WorkerThrows,
     FailWork, AnswerFailure, Acknowledge, WorkerStops, TaskStatus
<1>4. task' \in [Tasks -> TaskStatus]
  BY <1>0, <1>3, SetTaskType DEF ARTypeOK
<1>5. UNCHANGED responses \/ Answers(t)
  BY DEF WorkerStep, StartWork, Chat, StoreAnswer, PublishAnswer, CloseWork, WorkerThrows,
     FailWork, AnswerFailure, Acknowledge, WorkerStops
<1>6. responses' \in [Tasks -> Nat]
  BY <1>0, <1>5, AnswersType DEF ARTypeOK
<1> QED BY <1>2, <1>4, <1>6

\* An answer by hand writes the task, the messages and its own progress.
LEMMA HandWrites ==
  ASSUME DInv, NEW h \in Respondents, HandStep(h)
  PROVE  /\ UNCHANGED <<taVars, run, loop, issuer, posting, delivery>>
         /\ task' \in [Tasks -> TaskStatus]
         /\ responses' \in [Tasks -> Nat]
         /\ answering' \in [Respondents -> HandLabel]
<1>0. DTypeOK /\ ARTypeOK /\ RespondsTo[h] \in Tasks
  BY RunsAssumption, RespondentsAssumption DEF DInv, DTypeOK
<1>1. \E from, to \in HandLabel : Handles(h, from, to)
  BY DEF HandStep, AcceptByHand, StoreByHand, FinishByHand, HandThrows, HandLabel
<1>2. UNCHANGED <<taVars, run, loop, issuer, posting, delivery>> BY <1>1 DEF Handles
<1>3. answering' \in [Respondents -> HandLabel] BY <1>0, <1>1, HandlesType
<1>4. UNCHANGED task \/ SetTask(RespondsTo[h], "COMPLETED")
  BY DEF HandStep, AcceptByHand, StoreByHand, FinishByHand, HandThrows
<1>5. task' \in [Tasks -> TaskStatus]
  BY <1>0, <1>4, SetTaskType DEF ARTypeOK, TaskStatus
<1>6. UNCHANGED responses \/ Answers(RespondsTo[h])
  BY DEF HandStep, AcceptByHand, StoreByHand, FinishByHand, HandThrows
<1>7. responses' \in [Tasks -> Nat]
  BY <1>0, <1>6, AnswersType DEF ARTypeOK
<1> QED BY <1>2, <1>3, <1>5, <1>7

LEMMA DInvInit == DInit => DInv
<1> SUFFICES ASSUME DInit PROVE DInv
  OBVIOUS
<1>1. ARInv BY ARInvInit DEF DInit
<1>2. delivery \in [Delegated -> Delivery] BY DEF DInit, Delivery, WorkerTry
<1>3. answering \in [Respondents -> HandLabel] BY DEF DInit, HandLabel
<1> QED BY <1>1, <1>2, <1>3 DEF DInv, DTypeOK, ARInv

\* What writes only tasks and messages, of the kinds they have, keeps what is
\* known of runs and callers.
LEMMA BesideRuns ==
  ASSUME DInv, UNCHANGED <<taVars, run, loop, issuer, posting>>,
         task' \in [Tasks -> TaskStatus], responses' \in [Tasks -> Nat]
  PROVE  ARInv'
<1>1. TypeOK' BY DEF DInv, DTypeOK, ARTypeOK, TypeOK, taVars
<1>2. ARTypeOK' BY <1>1 DEF DInv, DTypeOK, ARTypeOK
<1>3. \A p \in Callers : LoopKnows(p)' BY DEF DInv, ARInv, LoopKnows, taVars
<1>4. \A u \in Runs : DrivesAlone(u)' BY DEF DInv, ARInv, DrivesAlone, Drives
<1> QED BY <1>2, <1>3, <1>4 DEF ARInv

LEMMA DInvStep == DInv /\ [DNext]_dVars => DInv'
<1> SUFFICES ASSUME DInv, [DNext]_dVars PROVE DInv'
  OBVIOUS
<1>1. CASE (ARNext \/ UNCHANGED vars) /\ UNCHANGED <<delivery, answering>>
  <2>1. ARInv' BY <1>1, ARInvStep DEF DInv
  <2> QED BY <1>1, <2>1 DEF DInv, DTypeOK, ARInv
<1>2. ASSUME NEW t \in Delegated, WorkerStep(t) \/ WorkerStops(t)
      PROVE  DInv'
  <2>1. /\ ARInv' /\ UNCHANGED answering
        /\ delivery' \in [Delegated -> Delivery]
    BY <1>2, WorkerWrites, BesideRuns
  <2> QED BY <2>1 DEF DInv, DTypeOK, ARInv
<1>3. ASSUME NEW h \in Respondents, HandStep(h)
      PROVE  DInv'
  <2>1. /\ ARInv' /\ UNCHANGED delivery
        /\ answering' \in [Respondents -> HandLabel]
    BY <1>3, HandWrites, BesideRuns
  <2> QED BY <2>1 DEF DInv, DTypeOK, ARInv
<1> QED BY <1>1, <1>2, <1>3 DEF DNext, dVars

THEOREM DelegationInductive == DSpec => []DInv
  BY DInvInit, DInvStep, PTL DEF DSpec

\* With the worker and the employee beside it, a run still has one driver at a
\* time: they may overwrite the task, they cannot revive or advance the run.
THEOREM SoleDriverBesideWorker == DSpec => []OneLoopPerRun
<1>1. DInv => OneLoopPerRun
  BY DEF DInv, ARInv, DrivesAlone, OneLoopPerRun
<1> QED BY DelegationInductive, <1>1, PTL

\* Delegation opens no way around the approvals: its steps are steps of
\* ToolApproval or leave its state alone, so tools of delegated runs are gated.
THEOREM DelegationKeepsApprovals == DSpec => [](RunsOnlyApproved /\ OutcomeMatchesDecision)
<1>1. DInit => Init BY DEF DInit, ARInit
<1>2. DInv /\ [DNext]_dVars => [Next]_taVars
  <2> SUFFICES ASSUME DInv, [DNext]_dVars PROVE [Next]_taVars
    OBVIOUS
  <2>1. CASE ARNext \/ UNCHANGED vars
    BY <2>1, StepKeeps DEF DInv, ARInv
  <2>2. ASSUME NEW t \in Delegated, WorkerStep(t) \/ WorkerStops(t)
        PROVE  [Next]_taVars
    BY <2>2, WorkerWrites
  <2>3. ASSUME NEW h \in Respondents, HandStep(h)
        PROVE  [Next]_taVars
    BY <2>3, HandWrites
  <2> QED BY <2>1, <2>2, <2>3 DEF DNext, dVars
<1>3. DSpec => Spec BY DelegationInductive, <1>1, <1>2, PTL DEF DSpec, Spec
<1> QED BY <1>3, OnlyApprovedRun, OutcomesMatch, PTL

USE DEF RunStatus, TaskStatus, Reply, TryLabel, LoopLabel, Route, Job

-------------------------------------------------------------------------------
(* What callers and runs know, with the worker beside them *)

\* The worker touches only what delegated tasks look like.
LEMMA WorkerTask ==
  ASSUME ARTypeOK, NEW t \in Delegated, WorkerStep(t) \/ WorkerStops(t), NEW x \in Tasks, x # t
  PROVE  task'[x] = task[x]
<1>1. UNCHANGED task \/ \E status \in TaskStatus : SetTask(t, status)
  BY DEF WorkerStep, StartWork, Chat, StoreAnswer, PublishAnswer, CloseWork, WorkerThrows,
     FailWork, AnswerFailure, Acknowledge, WorkerStops
<1> QED BY <1>1 DEF SetTask, ARTypeOK

\* What is known before a step of the worker is known after it.
LEMMA WorkerKnows ==
  ASSUME DInv, KnownInv, NEW t \in Delegated, WorkerStep(t) \/ WorkerStops(t)
  PROVE  KnownInv'
<1>1. /\ UNCHANGED <<taVars, run, loop, issuer, posting>>
      /\ \A x \in Tasks : x # t => task'[x] = task[x]
  BY WorkerWrites, WorkerTask DEF DInv, ARInv
<1>2. ARInv' BY WorkerWrites, BesideRuns
<1> QED BY <1>1, <1>2, TaskOnlyKnows

\* And before a step of an answer by hand.
LEMMA HandKnows ==
  ASSUME DInv, KnownInv, NEW h \in Respondents, HandStep(h)
  PROVE  KnownInv'
<1>1. UNCHANGED <<taVars, run, loop, issuer, posting>> /\ ARInv'
  BY HandWrites, BesideRuns
<1>2. UNCHANGED task \/ SetTask(RespondsTo[h], "COMPLETED")
  BY DEF HandStep, AcceptByHand, StoreByHand, FinishByHand, HandThrows
<1>3. \A x \in Tasks \ Delegated : task'[x] = task[x]
  BY <1>2, RespondentsAssumption DEF SetTask, DInv, ARInv, ARTypeOK
<1> QED BY <1>1, <1>3, TaskOnlyKnows

\* What callers know of runs and tasks is as true beside the worker: it moves
\* delegated tasks only, of which none of it speaks.
THEOREM DelegationKnows == DSpec => []KnownInv
<1>1. DInit => KnownInv
  <2> SUFFICES ASSUME DInit PROVE KnownInv
    OBVIOUS
  <2>1. ARInit /\ Init BY DEF DInit, ARInit
  <2> QED BY <2>1, ARInvInit, LedgerInit, InductiveInit, EndInit DEF KnownInv
<1>2. DInv /\ KnownInv /\ [DNext]_dVars => KnownInv'
  <2> SUFFICES ASSUME DInv, KnownInv, [DNext]_dVars PROVE KnownInv'
    OBVIOUS
  <2>1. CASE ARNext \/ UNCHANGED vars BY <2>1, KnownStep
  <2>2. CASE \E t \in Delegated : WorkerStep(t) \/ WorkerStops(t) BY <2>2, WorkerKnows
  <2>3. CASE \E h \in Respondents : HandStep(h) BY <2>3, HandKnows
  <2> QED BY <2>1, <2>2, <2>3 DEF DNext, dVars
<1> QED BY <1>1, <1>2, DelegationInductive, PTL DEF DSpec

\* A delegated run asks for no more tools than its step limit allows.
THEOREM DelegationBoundsTools == DSpec => []ToolBudget
<1>1. KnownInv => ToolBudget BY DEF KnownInv, LedgerInv, LedgerOf, StepsOf, Asked, ToolBudget
<1> QED BY <1>1, DelegationKnows, PTL

\* A COMPLETED run accounts for its tools beside the worker too.
THEOREM DelegationAccountsForTools == DSpec => []CompletedRunAccountsForTools
<1>1. KnownInv => CompletedRunAccountsForTools BY LedgerAccounts DEF KnownInv, ARInv
<1> QED BY <1>1, DelegationKnows, PTL

\* A delegated run too stays as it ended, or is marked FAILED by a caller that
\* held it and threw: the worker never writes it.
THEOREM DelegationEndsAreFinal == DSpec => EndedRunsStayEnded
<1>1. KnownInv /\ [DNext]_dVars => [EndsKept]_vars
  <2> SUFFICES ASSUME KnownInv, [DNext]_dVars PROVE [EndsKept]_vars
    OBVIOUS
  <2>1. CASE ARNext \/ UNCHANGED vars
    BY <2>1, EndsStep
  <2>2. ASSUME NEW t \in Delegated, WorkerStep(t) \/ WorkerStops(t) PROVE EndsKept
    <3>1. UNCHANGED run
      BY <2>2 DEF WorkerStep, StartWork, Chat, StoreAnswer, PublishAnswer, CloseWork, WorkerThrows,
         FailWork, AnswerFailure, Acknowledge, WorkerStops, Moves
    <3> QED BY <3>1 DEF EndsKept
  <2>3. ASSUME NEW h \in Respondents, HandStep(h) PROVE EndsKept
    <3>1. UNCHANGED run
      BY <2>3 DEF HandStep, AcceptByHand, StoreByHand, FinishByHand, HandThrows, Handles
    <3> QED BY <3>1 DEF EndsKept
  <2> QED BY <2>1, <2>2, <2>3 DEF DNext, dVars
<1>2. DSpec => [][EndsKept]_vars BY DelegationKnows, <1>1, PTL DEF DSpec
<1> QED BY <1>2 DEF EndedRunsStayEnded, EndsKept

-------------------------------------------------------------------------------
(* The answers of a delegated task *)

\* A run that nobody can complete any more is not taken up again.
LEMMA FinishedStays ==
  ASSUME KnownInv, [ARNext]_vars, NEW u \in Runs, ~Unfinished(u)
  PROVE  ~Unfinished(u)'
<1>1. ARInv BY DEF KnownInv
<1>2. \A p \in Callers : ~Drives(p, u)' BY <1>1, DriverArrives DEF Unfinished
<1>3. CASE run'[u] = run[u] BY <1>2, <1>3 DEF Unfinished
<1>4. CASE run'[u] # run[u]
  <2>1. run'[u].status = "FAILED" BY <1>1, <1>4, RowWriter DEF Unfinished
  <2> QED BY <1>2, <2>1 DEF Unfinished
<1> QED BY <1>3, <1>4

\* A caller comes to answer for a run by driving it to its end.
LEMMA AnsweringStarts ==
  ASSUME KnownInv, [ARNext]_vars, NEW p \in Callers, NEW u \in Runs,
         Answering(p, u)', ~Answering(p, u)
  PROVE  /\ Drives(p, u) /\ loop[p].at # "create" /\ ~Drives(p, u)'
         /\ run'[u].status \in {"COMPLETED", "STEP_LIMIT_REACHED"}
<1>1. ARTypeOK /\ \A q \in Callers : LoopKnows(q) BY DEF KnownInv, ARInv
<1>2. loop'[p] # loop[p] BY DEF Answering
<1>3. ASSUME NEW q \in Callers, loop[q] # NoLoop, NEW l \in LoopLabel, Goes(q, l),
             \/ l \in {"settle", "delegated", "respond", "message"} /\ Answering(q, loop[q].run)
             \/ l = "settle" /\ loop[q].at \in {"claim", "returned"} /\ loop[q].reply # "threw"
             \/ l = "returned" /\ loop[q].at = "closeTask"
             \/ l \notin {"closeTask", "returned", "claim", "settle", "delegated", "respond", "message"}
      PROVE  FALSE
  <2>1. /\ \A x \in Callers \ {q} : loop'[x] = loop[x]
        /\ loop'[q].at = l /\ loop'[q].run = loop[q].run
    BY <1>1, <1>3, GoesOn
  <2>2. p = q BY <1>2, <2>1
  <2>3. loop'[q].reply = loop[q].reply
    BY <1>1, <1>3 DEF Goes, ARTypeOK, Loop
  <2> QED BY <1>3, <2>1, <2>2, <2>3 DEF Answering
<1>4. ASSUME NEW q \in Callers, Quits(q) PROVE FALSE
  <2>1. (\A x \in Callers \ {q} : loop'[x] = loop[x]) /\ loop'[q] = NoLoop
    BY <1>1, <1>4, QuitsOn
  <2> QED BY <1>2, <2>1 DEF Answering
<1>5. ASSUME NEW q \in Callers, loop[q] # NoLoop, NEW l \in {"returned", "settle"},
             NEW reply \in {"WAITING_FOR_HUMAN", "threw", "REJECTED"}, Returns(q, l, reply),
             l = "returned" => reply # "REJECTED"
      PROVE  FALSE
  <2>1. \A x \in Callers \ {q} : loop'[x] = loop[x]
    BY <1>1, <1>5 DEF Returns, ARTypeOK
  <2>2. p = q BY <1>2, <2>1
  <2>3. loop'[q].at = l /\ loop'[q].reply = reply
    BY <1>1, <1>5 DEF Returns, ARTypeOK, Loop
  <2> QED BY <1>5, <2>2, <2>3 DEF Answering
<1>6. ASSUME NEW q \in Callers, CompleteRun(q) \/ LimitRun(q)
      PROVE  /\ Drives(p, u) /\ loop[p].at # "create" /\ ~Drives(p, u)'
             /\ run'[u].status \in {"COMPLETED", "STEP_LIMIT_REACHED"}
  <2>1. /\ loop[q] # NoLoop /\ loop[q].at \in {"answer", "limit"}
        /\ \E reply \in Reply : Returns(q, "closeTask", reply)
    BY <1>6 DEF CompleteRun, LimitRun, At
  <2>2. /\ \A x \in Callers \ {q} : loop'[x] = loop[x]
        /\ loop'[q].at = "closeTask" /\ loop'[q].run = loop[q].run
    BY <1>1, <2>1, GoesOn
  <2>3. p = q BY <1>2, <2>2
  <2>4. loop[q].run = u BY <2>2, <2>3 DEF Answering
  <2>5. \E status \in {"COMPLETED", "STEP_LIMIT_REACHED"} :
          UpdateRun(q, status, loop[q].step, loop[q].results, NoRequest)
    BY <1>6 DEF CompleteRun, LimitRun
  <2>6. run'[u].status \in {"COMPLETED", "STEP_LIMIT_REACHED"}
    BY <1>1, <2>4, <2>5 DEF UpdateRun, Written, ARTypeOK, RunRow
  <2> QED BY <2>1, <2>2, <2>3, <2>4, <2>6 DEF Drives
<1>7. ASSUME NEW q \in Runs, Act(q) \/ CreateRun(q) \/ ActReturns(q) PROVE FALSE
  <2>1. q \in Callers BY DEF Callers
  <2>2. CASE Act(q)
    <3>1. loop' = [loop EXCEPT ![q] = [at |-> "create", run |-> q, step |-> 0,
                results |-> << >>, req |-> NoRequest, reply |-> "none"]]
      BY <2>2 DEF Act
    <3>2. (\A x \in Callers \ {q} : loop'[x] = loop[x]) /\ loop'[q].at = "create"
      BY <1>1, <2>1, <3>1 DEF ARTypeOK
    <3>3. p = q BY <1>2, <3>2
    <3> QED BY <3>2, <3>3 DEF Answering
  <2>3. CASE CreateRun(q)
    <3>1. loop[q] # NoLoop /\ Goes(q, "plan") BY <2>3 DEF CreateRun, At
    <3> QED BY <1>3, <2>1, <3>1
  <2>4. CASE ActReturns(q)
    <3>1. /\ loop[q] # NoLoop /\ loop[q].at = "returned"
          /\ \/ Quits(q)
             \/ Goes(q, "respond") /\ loop[q].reply \notin {"WAITING_FOR_HUMAN", "threw"}
      BY <2>4 DEF ActReturns, At
    <3> QED BY <1>3, <1>4, <2>1, <3>1 DEF Answering
  <2> QED BY <1>7, <2>2, <2>3, <2>4
<1>8. ASSUME NEW q \in Callers, RunLoop(q), ~CompleteRun(q), ~LimitRun(q) PROVE FALSE
  <2>1. CASE Plan(q) \/ RecordResult(q) \/ EnterLoop(q) \/ LoopThrows(q)
    <3>1. loop[q] # NoLoop BY <2>1 DEF Plan, RecordResult, EnterLoop, LoopThrows, At
    <3>2. /\ \A x \in Callers \ {q} : loop'[x] = loop[x]
          /\ loop'[q].at \in {"answer", "ask", "tool", "plan", "failed"}
      <4>1. loop[q] \in Loop BY <1>1, <3>1 DEF ARTypeOK
      <4>2. CASE Plan(q)
        <5>1. PICK l \in {"answer", "ask", "tool"}, r \in Requests \union {NoRequest} :
                loop' = [loop EXCEPT ![q].at = l, ![q].step = @ + 1, ![q].req = r]
          BY <4>2 DEF Plan
        <5> QED BY <1>1, <4>1, <5>1 DEF ARTypeOK, Loop
      <4>3. CASE RecordResult(q)
        <5> DEFINE results == Append(loop[q].results, loop[q].req)
        <5>1. loop' = [loop EXCEPT ![q].at = "plan", ![q].results = results]
          BY <4>3 DEF RecordResult
        <5> HIDE DEF results
        <5> QED BY <1>1, <4>1, <5>1 DEF ARTypeOK, Loop
      <4>4. CASE LoopThrows(q)
        <5>1. \/ Goes(q, "failed")
              \/ loop' = [loop EXCEPT ![q].at = "failed", ![q].results = Append(@, loop[q].req)]
          BY <4>4 DEF LoopThrows
        <5> QED BY <1>1, <4>1, <5>1 DEF Goes, ARTypeOK, Loop
      <4>5. CASE EnterLoop(q)
        <5> DEFINE row == run[loop[q].run]
        <5>1. loop' = [loop EXCEPT ![q].at = "plan", ![q].step = row.step, ![q].results = row.results]
          BY <4>5 DEF EnterLoop
        <5> HIDE DEF row
        <5> QED BY <1>1, <4>1, <5>1 DEF ARTypeOK, Loop
      <4> QED BY <2>1, <4>2, <4>3, <4>4, <4>5
    <3>3. p = q BY <1>2, <3>2
    <3> QED BY <3>2, <3>3 DEF Answering
  <2>2. CASE PauseTask(q) \/ FailTask(q)
    <3>1. /\ loop[q] # NoLoop
          /\ \/ Returns(q, "returned", "WAITING_FOR_HUMAN") \/ Returns(q, "returned", "threw")
             \/ Goes(q, "failed")
      BY <2>2 DEF PauseTask, FailTask, At, LoopKnows
    <3> QED BY <1>3, <1>5, <3>1
  <2>3. CASE CloseTask(q)
    <3>1. loop[q] # NoLoop /\ loop[q].at = "closeTask" /\ (Goes(q, "returned") \/ Goes(q, "failed"))
      BY <2>3 DEF CloseTask, At
    <3> QED BY <1>3, <3>1
  <2>4. CASE /\ ~Plan(q) /\ ~RecordResult(q) /\ ~EnterLoop(q) /\ ~LoopThrows(q)
             /\ ~PauseTask(q) /\ ~FailTask(q) /\ ~CloseTask(q)
    <3>1. loop[q] # NoLoop /\ \E l \in {"limit", "pause", "pauseTask", "finish", "failed", "record", "failTask"} : Goes(q, l)
      BY <1>8, <2>4 DEF RunLoop, PlanExhausted, AskHuman, PauseRun, RunTool, FinishTool, FailRun, At
    <3> QED BY <1>3, <3>1
  <2> QED BY <2>1, <2>2, <2>3, <2>4
<1>9. ASSUME NEW q \in Callers, AnswerTask(q) \/ Stop(q) PROVE FALSE
  <2>1. /\ loop[q] # NoLoop
        /\ \/ Quits(q)
           \/ Goes(q, "message") /\ loop[q].at = "respond"
           \/ Goes(q, "finishResponse")
    BY <1>9 DEF AnswerTask, RespondTask, PostResponse, FinishResponse, Stop, At, Done
  <2> QED BY <1>3, <1>4, <2>1 DEF Answering
<1>10. ASSUME NEW d \in Deciders, Resume(d) PROVE FALSE
  <2>0. d \in Callers BY DEF Callers
  <2>1. CASE FindWaiting(d)
    <3>1. PICK l \in {"settle", "claim"}, v \in Runs \union {NoRun} :
            loop' = [loop EXCEPT ![d] = [at |-> l, run |-> v, step |-> 0,
                       results |-> << >>, req |-> job[d].exec, reply |-> "none"]]
      BY <1>2, <2>1 DEF FindWaiting, WaitingOn
    <3>2. (\A q \in Callers \ {d} : loop'[q] = loop[q]) /\ loop'[d].at = l /\ loop'[d].reply = "none"
      BY <1>1, <2>0, <3>1 DEF ARTypeOK
    <3>3. p = d BY <1>2, <3>2
    <3> QED BY <3>2, <3>3 DEF Answering
  <2>2. CASE ClaimWaiting(d)
    <3>1. loop[d] # NoLoop /\ loop[d].run \in Runs /\ loop[d] \in Loop /\ loop[d].at = "claim"
      BY <1>1, <2>0, <2>2 DEF ClaimWaiting, At, LoopKnows, ARTypeOK
    <3>2. CASE ~Claimable(loop[d].run, loop[d].req)
      <4>1. Goes(d, "settle") BY <2>2, <3>2 DEF ClaimWaiting
      <4>2. (\A x \in Callers \ {d} : loop'[x] = loop[x])
            /\ loop'[d].at = "settle" /\ loop'[d].run = loop[d].run /\ loop'[d].reply = loop[d].reply
        BY <1>1, <2>0, <3>1, <4>1 DEF Goes, ARTypeOK, Loop
      <4>3. p = d BY <1>2, <4>2
      <4> QED BY <3>1, <4>2, <4>3 DEF Answering
    <3>3. CASE Claimable(loop[d].run, loop[d].req)
      <4>1. PICK l \in {"restart", "decline"} :
              loop' = [loop EXCEPT ![d] =
                [@ EXCEPT !.at = l, !.step = run[loop[d].run].step,
                          !.results = Append(run[loop[d].run].results, loop[d].req)]]
        BY <2>2, <3>3 DEF ClaimWaiting
      <4>2. (\A q \in Callers \ {d} : loop'[q] = loop[q]) /\ loop'[d].at = l
        BY <1>1, <2>0, <3>1, <4>1 DEF ARTypeOK, Loop
      <4>3. p = d BY <1>2, <4>2
      <4> QED BY <4>2, <4>3 DEF Answering
    <3> QED BY <3>2, <3>3
  <2>3. CASE DeclineRun(d)
    <3>1. loop[d] # NoLoop /\ Returns(d, "settle", "REJECTED") BY <2>3 DEF DeclineRun, At
    <3> QED BY <1>5, <2>0, <3>1
  <2>4. CASE RestartRun(d)
    <3>1. loop[d] # NoLoop /\ Goes(d, "enter") BY <2>4 DEF RestartRun, At
    <3> QED BY <1>3, <2>0, <3>1
  <2>5. CASE ResumeReturns(d)
    <3>1. /\ loop[d] # NoLoop /\ loop[d].at = "returned"
          /\ \/ Quits(d)
             \/ loop[d].reply # "threw" /\ Goes(d, "settle")
      BY <2>5 DEF ResumeReturns, At, Done
    <3> QED BY <1>3, <1>4, <2>0, <3>1
  <2>6. CASE SettleTask(d) \/ CompleteDelegated(d)
    <3>1. /\ loop[d] # NoLoop
          /\ \/ Quits(d)
             \/ Goes(d, "delegated") /\ loop[d].at = "settle" /\ loop[d].reply = "COMPLETED"
             \/ Goes(d, "respond") /\ loop[d].at = "delegated"
      BY <2>6 DEF SettleTask, CompleteDelegated, At, Done
    <3> QED BY <1>3, <1>4, <2>0, <3>1 DEF Answering
  <2>7. CASE SettleBare(d) BY <1>2, <2>7 DEF SettleBare
  <2> QED BY <1>10, <2>1, <2>2, <2>3, <2>4, <2>5, <2>6, <2>7 DEF Resume
<1>11. ~\E r \in Requests : DirectIssue(r) \/ PostRequestTask(r)
  BY <1>2 DEF DirectIssue, PostRequestTask
<1>12. ~\E d \in Deciders : DecideApproval(d)
  BY <1>2 DEF DecideApproval, arVars
<1>13. ARNext BY <1>2 DEF vars, arVars
<1> QED BY <1>6, <1>7, <1>8, <1>9, <1>10, <1>11, <1>12, <1>13 DEF ARNext

\* The row of a run that ended keeps an end that was answered.
LEMMA EndsStay ==
  ASSUME KnownInv, [ARNext]_vars, NEW u \in Runs, run[u].status \in Ends, ~Unfinished(u)
  PROVE  run'[u].status \in Ends
<1>1. \A p \in Callers : ~Drives(p, u) BY DEF Unfinished
<1>2. run[u].status # "WAITING_FOR_HUMAN" BY DEF Ends
<1>3. run'[u] # run[u] => run'[u].status = "FAILED" BY <1>1, <1>2, RowWriter DEF KnownInv
<1> QED BY <1>3 DEF Ends

\* One caller ends a run, and the others never come to answer for it.
LEMMA EndedOnceStep ==
  ASSUME KnownInv, [ARNext]_vars, NEW u \in Runs, EndedOnce(u)
  PROVE  EndedOnce(u)'
<1> SUFFICES ASSUME NEW p \in Callers, Answering(p, u)'
             PROVE  /\ ~Unfinished(u)'
                    /\ run'[u].status \in Ends
                    /\ \A q \in Callers : Answering(q, u)' => p = q
  BY DEF EndedOnce
<1>1. CASE Answering(p, u)
  <2>1. ~Unfinished(u)' BY <1>1, FinishedStays DEF EndedOnce
  <2>2. run'[u].status \in Ends BY <1>1, EndsStay DEF EndedOnce
  <2>3. \A q \in Callers : Answering(q, u)' => Answering(q, u)
    BY <1>1, AnsweringStarts DEF EndedOnce, Unfinished
  <2> QED BY <1>1, <2>1, <2>2, <2>3 DEF EndedOnce
<1>2. CASE ~Answering(p, u)
  <2>1. /\ Drives(p, u) /\ loop[p].at # "create" /\ ~Drives(p, u)'
        /\ run'[u].status \in {"COMPLETED", "STEP_LIMIT_REACHED"}
    BY <1>2, AnsweringStarts
  <2>2. \A q \in Callers : Drives(q, u) => p = q
    BY <2>1 DEF KnownInv, ARInv, DrivesAlone
  <2>3. run[u].status \notin {"none", "WAITING_FOR_HUMAN"}
    BY <2>1 DEF KnownInv, ARInv, DrivesAlone, LoopKnows, Drives
  <2>4. \A q \in Callers : ~Drives(q, u)'
    BY <2>1, <2>2, <2>3, DriverArrives DEF KnownInv
  <2>5. \A q \in Callers : ~Answering(q, u) BY <2>1 DEF EndedOnce, Unfinished
  <2>6. \A q \in Callers : Answering(q, u)' => p = q BY <2>2, <2>5, AnsweringStarts
  <2> QED BY <2>1, <2>4, <2>6 DEF Unfinished, Ends
<1> QED BY <1>1, <1>2

\* What is settled stays settled.
LEMMA SettledStays ==
  ASSUME KnownInv, [ARNext]_vars, NEW t \in Tasks
  PROVE  Settled(t) \subseteq Settled(t)'
<1> SUFFICES ASSUME NEW u \in Settled(t) PROVE u \in Settled(t)'
  OBVIOUS
<1>1. /\ u \in Runs /\ TaskOf[u] = t /\ run[u].status \in Ends
      /\ ~Unfinished(u) /\ \A p \in Callers : ~Answering(p, u)
  BY DEF Settled, EndedRuns
<1>2. ~Unfinished(u)' /\ run'[u].status \in Ends BY <1>1, FinishedStays, EndsStay
<1>3. \A p \in Callers : ~Answering(p, u)' BY <1>1, AnsweringStarts DEF Unfinished
<1> QED BY <1>1, <1>2, <1>3 DEF Settled, EndedRuns

\* The runs of a delegated task that have settled can be counted.
LEMMA SettledCount ==
  ASSUME NEW t \in Delegated
  PROVE  /\ IsFiniteSet(EndedRuns(t)) /\ IsFiniteSet(Settled(t))
         /\ Cardinality(Settled(t)) \in Nat /\ Cardinality(EndedRuns(t)) \in Nat
         /\ Cardinality(Settled(t)) <= Cardinality(EndedRuns(t))
<1> DEFINE all == {u \in Runs : TaskOf[u] = t}
<1>1. IsFiniteSet(all) BY FiniteRunsAssumption
<1>2. EndedRuns(t) \in SUBSET all /\ Settled(t) \in SUBSET EndedRuns(t)
  BY DEF Settled, EndedRuns
<1>3. IsFiniteSet(EndedRuns(t)) BY <1>1, <1>2, FS_Subset
<1> QED BY <1>2, <1>3, FS_Subset, FS_CardinalityType

\* The task a caller answers for is that of its run.
LEMMA HandsTask ==
  ASSUME KnownInv, NEW p \in Callers, loop[p] # NoLoop, loop[p].at # "settle"
  PROVE  loop[p].run \in Runs /\ TaskInHand(p) = TaskOf[loop[p].run]
<1>1. loop[p].run \in Runs /\ CallerKnows(p) BY RunKnown DEF KnownInv, EndInv
<1>2. CASE p \in Runs BY <1>1, <1>2 DEF CallerKnows, TaskInHand
<1>3. CASE p \notin Runs
  <2>1. p \in Deciders /\ issuer[job[p].app] = loop[p].run
    BY <1>1, <1>3 DEF Callers, CallerKnows
  <2>2. pc[p] = "resume" BY <2>1 DEF KnownInv, ARInv, LoopKnows
  <2>3. job[p].app \in Requests BY <2>1, <2>2 DEF KnownInv, IInv, TypeOK, JobInv
  <2>4. loop[p].run # NoRun BY <1>1, RunsAssumption
  <2>5. job[p].app \notin Direct BY <2>1, <2>3, <2>4 DEF KnownInv, LedgerInv, UnissuedOf
  <2> QED BY <1>1, <1>3, <2>1, <2>4, <2>5 DEF TaskInHand, SubjectOf
<1> QED BY <1>2, <1>3

\* With the answer of a caller the run it answers for is settled.
LEMMA AnswerSettles ==
  ASSUME KnownInv, \A u \in Runs : EndedOnce(u), [ARNext]_vars,
         NEW t \in Delegated, responses'[t] # responses[t]
  PROVE  responses'[t] = responses[t] + 1 /\ \E u \in Settled(t)' : u \notin Settled(t)
<1>1. ARTypeOK /\ t \in Tasks BY RunsAssumption DEF KnownInv, ARInv
<1>2. PICK p \in Callers : PostResponse(p)
  <2>1. ARNext BY DEF vars, arVars
  <2>2. ASSUME NEW p \in Callers, RunLoop(p) PROVE FALSE
    BY <2>2 DEF RunLoop, EnterLoop, Plan, PlanExhausted, CompleteRun, LimitRun, CloseTask, AskHuman,
       PauseRun, PauseTask, RunTool, FinishTool, RecordResult, LoopThrows, FailRun, FailTask
  <2>3. ASSUME NEW d \in Deciders, Resume(d) \/ DecideApproval(d) PROVE FALSE
    BY <2>3 DEF Resume, FindWaiting, ClaimWaiting, DeclineRun, RestartRun, ResumeReturns,
       SettleTask, CompleteDelegated, SettleBare, DecideApproval, arVars
  <2>4. ASSUME NEW u \in Runs, Act(u) \/ CreateRun(u) \/ ActReturns(u) PROVE FALSE
    BY <2>4 DEF Act, CreateRun, ActReturns
  <2>5. ASSUME NEW p \in Callers, AnswerTask(p) \/ Stop(p) PROVE PostResponse(p)
    BY <2>5 DEF AnswerTask, RespondTask, FinishResponse, Stop
  <2> QED BY <2>1, <2>2, <2>3, <2>4, <2>5 DEF ARNext, DirectIssue, PostRequestTask
<1>3. /\ loop[p] # NoLoop /\ loop[p].at = "message" /\ Goes(p, "finishResponse")
      /\ responses' = [responses EXCEPT ![TaskInHand(p)] = @ + 1]
  BY <1>2 DEF PostResponse, At
<1>4. t = TaskInHand(p) /\ responses'[t] = responses[t] + 1 BY <1>1, <1>3 DEF ARTypeOK
<1>5. PICK u \in Runs : u = loop[p].run /\ TaskOf[u] = t BY <1>3, <1>4, HandsTask
<1>6. Answering(p, u) BY <1>3, <1>5 DEF Answering
<1>7. ~Unfinished(u) /\ ~Unfinished(u)' /\ run'[u].status \in Ends
  BY <1>6, FinishedStays, EndsStay DEF EndedOnce
<1>8. loop'[p].at = "finishResponse" BY <1>1, <1>3, GoesOn
<1>9. ASSUME NEW q \in Callers PROVE ~Answering(q, u)'
  <2>1. CASE q = p BY <1>8, <2>1 DEF Answering
  <2>2. CASE q # p
    BY <1>6, <1>7, <2>2, AnsweringStarts DEF EndedOnce, Unfinished
  <2> QED BY <2>1, <2>2
<1>10. u \in Settled(t)' /\ u \notin Settled(t)
  BY <1>5, <1>6, <1>7, <1>9 DEF Settled, EndedRuns
<1> QED BY <1>4, <1>10

\* The runs that have settled, through a step that settles one more.
LEMMA SettledGrows ==
  ASSUME KnownInv, [ARNext]_vars, NEW t \in Delegated
  PROVE  /\ Cardinality(Settled(t)) \in Nat /\ Cardinality(Settled(t)') \in Nat
         /\ Cardinality(Settled(t)) <= Cardinality(Settled(t)')
         /\ (\E u \in Settled(t)' : u \notin Settled(t)) =>
              Cardinality(Settled(t)) + 1 <= Cardinality(Settled(t)')
<1>1. t \in Tasks BY RunsAssumption
<1>2. Settled(t) \in SUBSET Settled(t)' BY <1>1, SettledStays
<1>3. IsFiniteSet(Settled(t)')
  <2>1. EndedRuns(t)' \in SUBSET {u \in Runs : TaskOf[u] = t} BY DEF EndedRuns
  <2>2. Settled(t)' \in SUBSET {u \in Runs : TaskOf[u] = t} BY <2>1 DEF Settled
  <2> QED BY <2>2, FiniteRunsAssumption, FS_Subset
<1>4. /\ Cardinality(Settled(t)) <= Cardinality(Settled(t)')
      /\ Cardinality(Settled(t)) = Cardinality(Settled(t)') => Settled(t)' = Settled(t)
  BY <1>2, <1>3, FS_Subset
<1>5. Cardinality(Settled(t)) \in Nat /\ Cardinality(Settled(t)') \in Nat
  BY <1>3, SettledCount, FS_CardinalityType
<1> QED BY <1>4, <1>5

\* The answers by hand can be counted.
LEMMA HandCount ==
  ASSUME NEW t
  PROVE  IsFiniteSet(StoredByHand(t)) /\ Cardinality(StoredByHand(t)) \in Nat
<1>1. StoredByHand(t) \in SUBSET Respondents BY DEF StoredByHand
<1> QED BY <1>1, RespondentsAssumption, FS_Subset, FS_CardinalityType

\* The account of answers through a step of the callers, and of the worker.
LEMMA CallersCount ==
  ASSUME KnownInv, CountInv, DInv, [ARNext]_vars, UNCHANGED <<delivery, answering>>
  PROVE  CountInv'
<1>1. \A u \in Runs : EndedOnce(u)' BY EndedOnceStep DEF CountInv
<1>2. ASSUME NEW t \in Delegated PROVE AnswerCount(t)'
  <2> DEFINE settled == Cardinality(Settled(t))
             least == WorkerAtLeast(t)
             most == WorkerAtMost(t)
             hand == Cardinality(StoredByHand(t))
  <2>1. /\ responses[t] \in Nat /\ responses[t] - hand \in least..(most + settled)
        /\ delivery[t] \in {"failTask", "failMessage", "lost"} => MayFail
    BY RunsAssumption DEF CountInv, AnswerCount, Automatic, DInv, ARInv, ARTypeOK
  <2>2. least' = least /\ most' = most /\ least \in Nat /\ most \in Nat
    BY DEF WorkerAtLeast, WorkerAtMost
  <2>3. settled \in Nat /\ settled' \in Nat
    BY SettledGrows
  <2>4. responses'[t] \in {responses[t], responses[t] + 1}
        /\ settled + (responses'[t] - responses[t]) <= settled'
    <3>1. settled <= settled' BY SettledGrows
    <3>2. CASE responses'[t] = responses[t] BY <2>1, <2>3, <3>1, <3>2
    <3>3. CASE responses'[t] # responses[t]
      <4>1. responses'[t] = responses[t] + 1 /\ \E u \in Settled(t)' : u \notin Settled(t)
        BY <3>3, AnswerSettles DEF CountInv
      <4>2. settled + 1 <= settled' BY <4>1, SettledGrows
      <4> QED BY <2>1, <2>3, <4>1, <4>2
    <3> QED BY <3>2, <3>3
  <2>5. hand' = hand /\ hand \in Nat BY HandCount DEF StoredByHand
  <2> HIDE DEF settled, least, most, hand
  <2>6. responses'[t] - hand' \in least'..(most' + settled')
    BY <2>1, <2>2, <2>3, <2>4, <2>5
  <2> QED BY <2>1, <2>6 DEF AnswerCount, Automatic, settled, least, most, hand
<1> QED BY <1>1, <1>2 DEF CountInv

\* A step beside the callers settles and unsettles no run.
LEMMA BesideCount ==
  ASSUME CountInv, UNCHANGED <<run, loop>>
  PROVE  /\ \A u \in Runs : EndedOnce(u)'
         /\ \A x \in Delegated : Settled(x)' = Settled(x)
<1>1. /\ \A u \in Runs : Unfinished(u)' <=> Unfinished(u)
      /\ \A u \in Runs, p \in Callers : Answering(p, u)' <=> Answering(p, u)
  BY DEF Unfinished, Answering, Drives
<1>2. \A u \in Runs : EndedOnce(u)' BY <1>1 DEF CountInv, EndedOnce
<1>3. ASSUME NEW x \in Delegated PROVE Settled(x)' = Settled(x)
  BY <1>1 DEF Settled, EndedRuns
<1> QED BY <1>2, <1>3

LEMMA WorkerCounts ==
  ASSUME DInv, CountInv, NEW t \in Delegated, WorkerStep(t) \/ WorkerStops(t)
  PROVE  CountInv'
<1>1. UNCHANGED <<run, loop, answering>> BY WorkerWrites
<1>3. \A u \in Runs : EndedOnce(u)' BY <1>1, BesideCount
<1>4. \A x \in Delegated : Settled(x)' = Settled(x) BY <1>1, BesideCount
<1>2. \A x \in Delegated : StoredByHand(x)' = StoredByHand(x) BY <1>1 DEF StoredByHand
<1>5. delivery \in [Delegated -> Delivery] /\ t \in Tasks /\ responses \in [Tasks -> Nat]
  BY RunsAssumption DEF DInv, DTypeOK, ARInv, ARTypeOK
<1>6. ASSUME NEW x \in Delegated, x # t PROVE AnswerCount(x)'
  <2>0. x \in Tasks BY RunsAssumption
  <2>1. delivery'[x] = delivery[x] /\ responses'[x] = responses[x]
    BY <1>5, <2>0, <1>6 DEF WorkerStep, StartWork, Chat, StoreAnswer, PublishAnswer, CloseWork, WorkerThrows,
       FailWork, AnswerFailure, Acknowledge, WorkerStops, Moves, Answers
  <2>2. AnswerCount(x) BY DEF CountInv
  <2> QED BY <1>2, <1>4, <2>1, <2>2 DEF AnswerCount, Automatic, WorkerAtMost, WorkerAtLeast
<1>7. AnswerCount(t)'
  <2> DEFINE settled == Cardinality(Settled(t))
             hand == Cardinality(StoredByHand(t))
  <2>1. /\ settled \in Nat /\ settled' = settled /\ responses[t] \in Nat
        /\ hand \in Nat /\ hand' = hand
        /\ responses[t] - hand \in WorkerAtLeast(t)..(WorkerAtMost(t) + settled)
        /\ delivery[t] \in {"failTask", "failMessage", "lost"} => MayFail
    BY <1>2, <1>4, <1>5, SettledCount, HandCount DEF CountInv, AnswerCount, Automatic
  <2>2. ASSUME /\ responses'[t] - hand \in WorkerAtLeast(t)'..(WorkerAtMost(t)' + settled)
               /\ delivery'[t] \in {"failTask", "failMessage", "lost"} => MayFail
        PROVE  AnswerCount(t)'
    BY <2>1, <2>2 DEF AnswerCount, Automatic
  <2> HIDE DEF settled, hand
  <2>4. CASE StoreAnswer(t)
    <3>1. /\ delivery[t] = "message" /\ delivery'[t] = "publish"
          /\ responses'[t] = responses[t] + 1
      BY <1>5, <2>4 DEF StoreAnswer, Moves, Answers
    <3> QED BY <2>1, <2>2, <3>1 DEF WorkerAtMost, WorkerAtLeast
  <2>5. CASE AnswerFailure(t)
    <3>1. /\ delivery[t] = "failMessage" /\ delivery'[t] = "ack"
          /\ responses'[t] \in {responses[t], responses[t] + 1}
      BY <1>5, <2>5 DEF AnswerFailure, Moves, Answers
    <3> QED BY <2>1, <2>2, <3>1 DEF WorkerAtMost, WorkerAtLeast
  <2>6. CASE ~StoreAnswer(t) /\ ~AnswerFailure(t)
    <3>1. UNCHANGED responses
      BY <2>6 DEF WorkerStep, StartWork, Chat, PublishAnswer, CloseWork, WorkerThrows,
         FailWork, Acknowledge, WorkerStops
    <3>2. \/ delivery[t] = "queued" /\ delivery'[t] = "chat"
          \/ delivery[t] = "chat" /\ delivery'[t] = "message"
          \/ delivery[t] = "publish" /\ delivery'[t] = "close"
          \/ delivery[t] = "close" /\ delivery'[t] = "ack"
          \/ delivery[t] = "ack" /\ delivery'[t] = "done"
          \/ delivery[t] = "failTask" /\ delivery'[t] = "failMessage"
          \/ MayFail /\ delivery[t] \in WorkerTry /\ delivery'[t] = "failTask"
          \/ MayFail /\ delivery[t] # "elsewhere" /\ delivery'[t] = "lost"
      BY <1>5, <2>6 DEF WorkerStep, StartWork, Chat, PublishAnswer, CloseWork, WorkerThrows,
         FailWork, Acknowledge, WorkerStops, Moves
    <3> QED BY <2>1, <2>2, <3>1, <3>2 DEF WorkerAtMost, WorkerAtLeast, WorkerTry
  <2> QED BY <2>4, <2>5, <2>6
<1> QED BY <1>3, <1>6, <1>7 DEF CountInv

\* An answer by hand counts as such, and as nothing else.
LEMMA HandCounts ==
  ASSUME DInv, CountInv, NEW h \in Respondents, HandStep(h)
  PROVE  CountInv'
<1>1. UNCHANGED <<run, loop, delivery>> BY HandWrites
<1>2. \A u \in Runs : EndedOnce(u)' BY <1>1, BesideCount
<1>3. /\ answering \in [Respondents -> HandLabel] /\ RespondsTo[h] \in Tasks
      /\ responses \in [Tasks -> Nat]
  BY RunsAssumption, RespondentsAssumption DEF DInv, DTypeOK, ARInv, ARTypeOK
<1>4. ASSUME NEW t \in Delegated PROVE AnswerCount(t)'
  <2>1. Settled(t)' = Settled(t) BY <1>1, BesideCount
  <2>2. t \in Tasks BY RunsAssumption
  <2>3. CASE StoreByHand(h) /\ RespondsTo[h] = t
    <3>1. /\ answering[h] = "message" /\ answering' = [answering EXCEPT ![h] = "finish"]
          /\ responses'[t] = responses[t] + 1
      BY <1>3, <2>2, <2>3 DEF StoreByHand, Handles, Answers
    <3>2. /\ StoredByHand(t)' = StoredByHand(t) \union {h}
          /\ h \notin StoredByHand(t)
      BY <1>3, <2>3, <3>1 DEF StoredByHand
    <3>3. Cardinality(StoredByHand(t)') = Cardinality(StoredByHand(t)) + 1
      BY <3>2, HandCount, FS_AddElement
    <3>4. responses[t] \in Nat /\ Cardinality(StoredByHand(t)) \in Nat BY <1>3, <2>2, HandCount
    <3>5. Automatic(t)' = Automatic(t) BY <3>1, <3>3, <3>4 DEF Automatic
    <3> QED BY <1>1, <2>1, <3>5 DEF CountInv, AnswerCount, WorkerAtMost, WorkerAtLeast
  <2>4. CASE ~(StoreByHand(h) /\ RespondsTo[h] = t)
    <3>1. responses'[t] = responses[t]
      BY <1>3, <2>2, <2>4 DEF HandStep, AcceptByHand, StoreByHand, FinishByHand, HandThrows, Answers
    <3>2. \/ RespondsTo[h] # t
          \/ answering[h] = "none" /\ answering'[h] = "message"
          \/ answering[h] = "message" /\ answering'[h] = "none"
          \/ answering[h] = "finish" /\ answering'[h] = "done"
      BY <1>3, <2>4 DEF HandStep, AcceptByHand, StoreByHand, FinishByHand, HandThrows, Handles
    <3>3. \A x \in Respondents \ {h} : answering'[x] = answering[x]
      BY <1>3 DEF HandStep, AcceptByHand, StoreByHand, FinishByHand, HandThrows, Handles
    <3>4. StoredByHand(t)' = StoredByHand(t) BY <3>2, <3>3 DEF StoredByHand
    <3> QED BY <1>1, <2>1, <3>1, <3>4 DEF CountInv, AnswerCount, Automatic, WorkerAtMost, WorkerAtLeast
  <2> QED BY <2>3, <2>4
<1> QED BY <1>2, <1>4 DEF CountInv

\* The account of the answers of every delegated task, for its runs, of the
\* worker and by hand, holds through every interleaving of them.
THEOREM AnswersCounted == DSpec => []CountInv
<1>1. DInit => CountInv
  <2> SUFFICES ASSUME DInit PROVE CountInv
    OBVIOUS
  <2>1. \A p \in Callers, u \in Runs : ~Answering(p, u) BY DEF DInit, ARInit, Answering
  <2>2. ASSUME NEW t \in Delegated PROVE AnswerCount(t)
    <3>1. t \in Tasks /\ responses[t] = 0 BY RunsAssumption DEF DInit, ARInit
    <3>2. delivery[t] \in {"queued", "elsewhere"} BY DEF DInit
    <3>3. Cardinality(Settled(t)) \in Nat BY SettledCount
    <3>4. StoredByHand(t) = {} BY DEF DInit, StoredByHand
    <3>5. Automatic(t) = 0 BY <3>1, <3>4, FS_EmptySet DEF Automatic
    <3> QED BY <3>2, <3>3, <3>5 DEF AnswerCount, WorkerAtMost, WorkerAtLeast
  <2> QED BY <2>1, <2>2 DEF CountInv, EndedOnce
<1>2. DInv /\ KnownInv /\ CountInv /\ [DNext]_dVars => CountInv'
  <2> SUFFICES ASSUME DInv, KnownInv, CountInv, [DNext]_dVars PROVE CountInv'
    OBVIOUS
  <2>1. CASE (ARNext \/ UNCHANGED vars) /\ UNCHANGED <<delivery, answering>>
    BY <2>1, CallersCount
  <2>2. CASE \E t \in Delegated : WorkerStep(t) \/ WorkerStops(t) BY <2>2, WorkerCounts
  <2>3. CASE \E h \in Respondents : HandStep(h) BY <2>3, HandCounts
  <2> QED BY <2>1, <2>2, <2>3 DEF DNext, dVars
<1> QED BY <1>1, <1>2, DelegationInductive, DelegationKnows, PTL DEF DSpec

\* Beyond the answers of the worker and those given by hand a delegated task has
\* at most one for each run on it that has ended, from whoever brought it to its
\* end; for any number of runs, handlers, answers by hand and tasks, and whatever
\* throws or stops in between.
THEOREM OneAnswerPerRun == DSpec => []RunAnswersOnce
<1>1. DInv /\ CountInv => RunAnswersOnce
  <2> SUFFICES ASSUME DInv, CountInv, NEW t \in Delegated
               PROVE  Automatic(t) \in WorkerAtLeast(t)..(WorkerAtMost(t) + Cardinality(EndedRuns(t)))
    BY DEF RunAnswersOnce
  <2> DEFINE settled == Cardinality(Settled(t))
             ended == Cardinality(EndedRuns(t))
  <2>1. settled \in Nat /\ ended \in Nat /\ settled <= ended BY SettledCount
  <2>2. Automatic(t) \in WorkerAtLeast(t)..(WorkerAtMost(t) + settled)
    BY DEF CountInv, AnswerCount
  <2>3. WorkerAtLeast(t) \in Nat /\ WorkerAtMost(t) \in Nat
    BY DEF WorkerAtLeast, WorkerAtMost
  <2> HIDE DEF settled, ended
  <2>4. Automatic(t) \in WorkerAtLeast(t)..(WorkerAtMost(t) + ended)
    BY <2>1, <2>2, <2>3
  <2> QED BY <2>4 DEF ended
<1> QED BY <1>1, DelegationInductive, AnswersCounted, PTL

===============================================================================
