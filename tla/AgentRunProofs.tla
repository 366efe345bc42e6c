---------------------------- MODULE AgentRunProofs ----------------------------
(***************************************************************************)
(* Proofs about AgentRun, for every number of runs, tasks, requests,       *)
(* employees and handlers: its types, that it implements ToolApproval,     *)
(* that no two callers drive one run, what a run's results say of its      *)
(* tools, what a resumption starts from, and how runs and tasks end.       *)
(***************************************************************************)
EXTENDS AgentRun, ToolApprovalProofs, FiniteSetTheorems

-------------------------------------------------------------------------------
(* Every step is a step of ToolApproval, or none *)

\* A caller that is done: a decision handler answers its request.
LEMMA DoneResponds ==
  ASSUME NEW p \in Callers, loop[p] # NoLoop, LoopKnows(p), Done(p)
  PROVE  [Next]_taVars
<1>1. CASE p \in Deciders
  <2>1. Respond(p) BY <1>1 DEF Done, LoopKnows, Respond
  <2> QED BY <1>1, <2>1 DEF Next
<1>2. CASE p \notin Deciders BY <1>2 DEF Done, dbVars, taVars
<1> QED BY <1>1, <1>2

LEMMA RunLoopKeeps ==
  ASSUME NEW p \in Callers, LoopKnows(p), RunLoop(p)
  PROVE  [Next]_taVars
<1>1. CASE Plan(p)
  <2>1. UNCHANGED taVars \/ \E r \in Requests : CreateHeld(r) \/ CreateRunnable(r)
    BY <1>1 DEF Plan
  <2> QED BY <2>1 DEF Next, Issue
<1>2. CASE AskHuman(p) \/ RunTool(p) \/ FinishTool(p)
  <2>1. loop[p].req \in Requests
    BY <1>2 DEF AskHuman, RunTool, FinishTool, At, LoopKnows, Holding
  <2>2. Issue(loop[p].req) BY <1>2 DEF AskHuman, RunTool, FinishTool, Issue
  <2> QED BY <2>1, <2>2 DEF Next
<1>3. CASE LoopThrows(p)
  <2>1. CASE UNCHANGED taVars BY <2>1
  <2>2. CASE ~UNCHANGED taVars
    <3>1. loop[p].req \in Requests /\ AskerThrows(loop[p].req)
      BY <1>3, <2>2 DEF LoopThrows, LoopKnows, Holding
    <3> QED BY <3>1 DEF Next, Issue
  <2> QED BY <2>1, <2>2
<1>4. CASE \/ EnterLoop(p) \/ PlanExhausted(p) \/ CompleteRun(p) \/ LimitRun(p)
           \/ CloseTask(p) \/ PauseRun(p) \/ PauseTask(p) \/ RecordResult(p)
           \/ FailRun(p) \/ FailTask(p)
  BY <1>4 DEF EnterLoop, PlanExhausted, CompleteRun, LimitRun, CloseTask, PauseRun,
     PauseTask, RecordResult, FailRun, FailTask
<1> QED BY <1>1, <1>2, <1>3, <1>4 DEF RunLoop

LEMMA ResumeKeeps ==
  ASSUME NEW d \in Deciders, LoopKnows(d), Resume(d)
  PROVE  [Next]_taVars
<1>0. d \in Callers BY DEF Callers
<1>1. CASE FindWaiting(d)
  <2>1. UNCHANGED taVars \/ Respond(d) BY <1>1 DEF FindWaiting, Respond
  <2> QED BY <2>1 DEF Next
<1>2. CASE SettleBare(d)
  <2>1. Respond(d) BY <1>2 DEF SettleBare, Respond
  <2> QED BY <2>1 DEF Next
<1>3. CASE ResumeReturns(d) \/ SettleTask(d) \/ CompleteDelegated(d)
  <2>1. loop[d] # NoLoop /\ (UNCHANGED taVars \/ Done(d))
    BY <1>3 DEF ResumeReturns, SettleTask, CompleteDelegated, At
  <2> QED BY <1>0, <2>1, DoneResponds
<1>4. CASE ClaimWaiting(d) \/ DeclineRun(d) \/ RestartRun(d)
  BY <1>4 DEF ClaimWaiting, DeclineRun, RestartRun
<1> QED BY <1>1, <1>2, <1>3, <1>4 DEF Resume

LEMMA StepKeeps ==
  ASSUME \A p \in Callers : LoopKnows(p), [ARNext]_vars
  PROVE  [Next]_taVars
<1>1. ASSUME NEW u \in Runs, Act(u) \/ CreateRun(u) \/ ActReturns(u)
      PROVE  [Next]_taVars
  BY <1>1 DEF Act, CreateRun, ActReturns
<1>2. ASSUME NEW p \in Callers,
             RunLoop(p) \/ AnswerTask(p) \/ Stop(p)
      PROVE  [Next]_taVars
  <2>1. CASE RunLoop(p) BY <2>1, RunLoopKeeps
  <2>2. CASE AnswerTask(p)
    <3>1. loop[p] # NoLoop /\ (UNCHANGED taVars \/ Done(p))
      BY <2>2 DEF AnswerTask, RespondTask, PostResponse, FinishResponse, At
    <3> QED BY <3>1, DoneResponds
  <2>3. CASE Stop(p)
    <3>1. loop[p] # NoLoop /\ Done(p) BY <2>3 DEF Stop, Done
    <3> QED BY <3>1, DoneResponds
  <2> QED BY <1>2, <2>1, <2>2, <2>3
<1>3. ASSUME NEW d \in Deciders, Resume(d) \/ DecideApproval(d)
      PROVE  [Next]_taVars
  <2>1. CASE Resume(d) BY <2>1, ResumeKeeps DEF Callers
  <2>2. CASE DecideApproval(d) BY <2>2 DEF DecideApproval, Next
  <2> QED BY <1>3, <2>1, <2>2
<1>4. ASSUME NEW r \in Requests, DirectIssue(r) \/ PostRequestTask(r)
      PROVE  [Next]_taVars
  BY <1>4 DEF DirectIssue, PostRequestTask, Next
<1>5. CASE UNCHANGED vars BY <1>5 DEF vars
<1> QED BY <1>1, <1>2, <1>3, <1>4, <1>5 DEF ARNext

-------------------------------------------------------------------------------
(* Types *)

USE DEF RunStatus, TaskStatus, Reply, TryLabel, LoopLabel, Route, Job

LEMMA ARTypeInit == ARInit => ARTypeOK
<1> SUFFICES ASSUME ARInit PROVE ARTypeOK
  OBVIOUS
<1>1. TypeOK BY TypeInit DEF ARInit
<1>2. 0 \in 0..(MaxSteps + 1) /\ << >> \in Seq(Requests)
  BY MaxStepsAssumption
<1> QED BY <1>1, <1>2 DEF ARInit, ARTypeOK, RunRow

\* A caller that goes to a label, perhaps with a reply, keeps the rest of what
\* it has in memory, and so does every other caller.
LEMMA GoesOn ==
  ASSUME ARTypeOK, NEW p \in Callers, loop[p] # NoLoop,
         NEW l \in LoopLabel, NEW reply \in Reply,
         Goes(p, l) \/ Returns(p, l, reply)
  PROVE  /\ loop' \in [Callers -> Loop \union {NoLoop}]
         /\ \A q \in Callers \ {p} : loop'[q] = loop[q]
         /\ loop'[p].at = l
         /\ loop'[p].run = loop[p].run
         /\ loop'[p].step = loop[p].step
         /\ loop'[p].req = loop[p].req
         /\ loop'[p].results = loop[p].results
<1>1. loop[p] \in Loop /\ loop \in [Callers -> Loop \union {NoLoop}]
  BY DEF ARTypeOK
<1>2. CASE Goes(p, l)
  <2>1. loop' = [loop EXCEPT ![p] = [loop[p] EXCEPT !.at = l]]
    BY <1>2 DEF Goes
  <2>2. [loop[p] EXCEPT !.at = l] \in Loop BY <1>1 DEF Loop
  <2> QED BY <1>1, <2>1, <2>2 DEF Loop
<1>3. CASE Returns(p, l, reply)
  <2>1. loop' = [loop EXCEPT ![p] = [loop[p] EXCEPT !.at = l, !.reply = reply]]
    BY <1>3 DEF Returns
  <2>2. [loop[p] EXCEPT !.at = l, !.reply = reply] \in Loop BY <1>1 DEF Loop
  <2> QED BY <1>1, <2>1, <2>2 DEF Loop
<1> QED BY <1>2, <1>3

LEMMA QuitsOn ==
  ASSUME ARTypeOK, NEW p \in Callers, Quits(p)
  PROVE  /\ loop' \in [Callers -> Loop \union {NoLoop}]
         /\ \A q \in Callers \ {p} : loop'[q] = loop[q]
         /\ loop'[p] = NoLoop
  BY DEF ARTypeOK, Quits

LEMMA UpdateRunType ==
  ASSUME ARTypeOK, NEW p, NEW status \in RunStatus, NEW step \in 0..(MaxSteps + 1),
         NEW results \in Seq(Requests), NEW waiting \in Requests \union {NoRequest},
         UpdateRun(p, status, step, results, waiting)
  PROVE  /\ run' \in [Runs -> RunRow]
         /\ \A u \in Runs : run'[u].status = IF u = loop[p].run THEN status ELSE run[u].status
<1>1. ASSUME NEW row \in RunRow
      PROVE  /\ Written(row, status, step, results, waiting) \in RunRow
             /\ Written(row, status, step, results, waiting).status = status
  BY DEF RunRow, Written
<1> QED BY <1>1 DEF ARTypeOK, UpdateRun

LEMMA MarkFailedType ==
  ASSUME ARTypeOK, NEW p \in Callers, loop[p] # NoLoop, MarkFailed(p)
  PROVE  /\ run' \in [Runs -> RunRow]
         /\ \A u \in Runs : run'[u].status = IF u = loop[p].run THEN "FAILED" ELSE run[u].status
<1> DEFINE u    == loop[p].run
           row  == Written(run[u], "FAILED", loop[p].step, loop[p].results, NoRequest)
<1>1. CASE u \in Runs
  <2>1. loop[p] \in Loop BY DEF ARTypeOK
  <2>2. run[u] \in RunRow BY <1>1 DEF ARTypeOK
  <2>3. row \in RunRow /\ row.status = "FAILED" BY <2>1, <2>2 DEF Loop, RunRow, Written
  <2>4. run' = [run EXCEPT ![u] = [row EXCEPT !.lost = LostBy(p), !.rewound = RewoundBy(p)]]
    BY DEF MarkFailed
  <2>5. LostBy(p) \in SUBSET Requests /\ RewoundBy(p) \in BOOLEAN
    BY <2>2 DEF RunRow, LostBy, RewoundBy, Untold, IssuedBy
  <2> HIDE DEF row
  <2>6. /\ [row EXCEPT !.lost = LostBy(p), !.rewound = RewoundBy(p)] \in RunRow
        /\ [row EXCEPT !.lost = LostBy(p), !.rewound = RewoundBy(p)].status = "FAILED"
    BY <2>3, <2>5 DEF RunRow
  <2> QED BY <1>1, <2>4, <2>6 DEF ARTypeOK
<1>2. CASE u \notin Runs
  <2>1. run' = run BY <1>2 DEF MarkFailed, ARTypeOK
  <2> QED BY <1>2, <2>1 DEF ARTypeOK
<1> QED BY <1>1, <1>2

LEMMA SetTaskType ==
  ASSUME ARTypeOK, NEW t, NEW status \in TaskStatus, SetTask(t, status)
  PROVE  task' \in [Tasks -> TaskStatus]
  BY DEF ARTypeOK, SetTask

LEMMA SetFinalTaskType ==
  ASSUME ARTypeOK, NEW u, NEW status \in TaskStatus, SetFinalTask(u, status)
  PROVE  task' \in [Tasks -> TaskStatus]
  BY SetTaskType DEF ARTypeOK, SetFinalTask

-------------------------------------------------------------------------------
(* One caller moves *)

Solo == /\ \A p \in Callers : LoopKnows(p)
        /\ \A u \in Runs : DrivesAlone(u)

\* What p may do to the rows: nothing, or write the one it works on; and it lets
\* go of the run in the step that makes the run wait.
WritesOwn(p) ==
  \A u \in Runs :
    \/ run'[u].status = run[u].status
    \/ /\ u = loop[p].run
       /\ run'[u].status # "none"
       /\ run'[u].status = "WAITING_FOR_HUMAN" => Drives(p, u) /\ ~Drives(p, u)'

\* A caller that moves without taking up a run keeps Solo.
LEMMA CallerMoves ==
  ASSUME Solo, NEW p \in Callers, loop[p] # NoLoop,
         \A q \in Callers \ {p} : loop'[q] = loop[q],
         \A q \in Deciders \ {p} : pc'[q] = pc[q],
         LoopKnows(p)', WritesOwn(p),
         \A u \in Runs : Drives(p, u)' => Drives(p, u)
  PROVE  Solo'
<1>1. ASSUME NEW q \in Callers \ {p} PROVE LoopKnows(q)'
  <2>1. LoopKnows(q) /\ LoopKnows(p) /\ loop'[q] = loop[q] BY DEF Solo
  <2>2. q \in Deciders => pc'[q] = pc[q] OBVIOUS
  <2>3. ASSUME loop[q] # NoLoop, loop[q].run \in Runs
        PROVE  loop[q].at = "create" <=> run'[loop[q].run].status = "none"
    BY <2>1, <2>3 DEF WritesOwn, LoopKnows
  <2> QED BY <2>1, <2>2, <2>3 DEF LoopKnows
<1>2. ASSUME NEW u \in Runs PROVE DrivesAlone(u)'
  <2> SUFFICES ASSUME NEW a \in Callers, Drives(a, u)'
               PROVE  /\ run'[u].status # "WAITING_FOR_HUMAN"
                      /\ \A b \in Callers : Drives(b, u)' => a = b
    BY DEF DrivesAlone
  <2>1. ASSUME NEW b \in Callers, Drives(b, u)' PROVE Drives(b, u)
    BY <2>1 DEF Drives
  <2>2. DrivesAlone(u) BY DEF Solo
  <2>3. Drives(a, u) BY <2>1
  <2> QED BY <2>1, <2>2, <2>3 DEF DrivesAlone, WritesOwn
<1> QED BY <1>1, <1>2 DEF Solo

\* A caller that returns drives nothing any more.
LEMMA QuitterMoves ==
  ASSUME ARTypeOK, Solo, NEW p \in Callers, loop[p] # NoLoop, Quits(p), UNCHANGED run,
         \A q \in Deciders \ {p} : pc'[q] = pc[q]
  PROVE  loop' \in [Callers -> Loop \union {NoLoop}] /\ Solo'
<1>1. /\ loop' \in [Callers -> Loop \union {NoLoop}]
      /\ \A q \in Callers \ {p} : loop'[q] = loop[q]
      /\ loop'[p] = NoLoop
  BY QuitsOn
<1>2. LoopKnows(p)' BY <1>1 DEF LoopKnows
<1>3. \A u \in Runs : ~Drives(p, u)' BY <1>1 DEF Drives
<1>4. WritesOwn(p) BY DEF WritesOwn
<1> QED BY <1>1, <1>2, <1>3, <1>4, CallerMoves

\* The types of everything but the rows of ToolApproval.
RunTypes == /\ run       \in [Runs -> RunRow]
            /\ loop      \in [Callers -> Loop \union {NoLoop}]
            /\ issuer    \in [Requests -> Runs \union {NoRun}]
            /\ posting   \subseteq Direct
            /\ task      \in [Tasks -> TaskStatus]
            /\ responses \in [Tasks -> Nat]

\* A caller that goes from one label to another keeps Solo: it may write its
\* row on the way, and drives its run only if it did before.
LEMMA GoerMoves ==
  ASSUME ARTypeOK, Solo, NEW p \in Callers, loop[p] # NoLoop, UNCHANGED pc,
         NEW l \in LoopLabel, NEW reply \in Reply,
         Goes(p, l) \/ Returns(p, l, reply),
         l # "create" /\ l # "claim" /\ l # "restart" /\ l # "enter",
         loop[p].at # "create",
         l \in Holding => loop[p].at \in Holding,
         l \in {"ask", "pause"} => loop[p].at \in {"ask", "pause"},
         l \in {"plan", "answer", "limit", "ask", "pause", "tool", "finish",
                "record", "decline", "restart"} =>
           Drives(p, loop[p].run),
         WritesOwn(p)
  PROVE  Solo'
<1>1. /\ \A q \in Callers \ {p} : loop'[q] = loop[q]
      /\ loop'[p].at = l
      /\ loop'[p].run = loop[p].run
      /\ loop'[p].step = loop[p].step
      /\ loop'[p].req = loop[p].req
  BY GoesOn
<1>2. LoopKnows(p) BY DEF Solo
<1>3. loop[p].run \in Runs => run'[loop[p].run].status # "none"
  BY <1>2 DEF LoopKnows, WritesOwn
<1>4. LoopKnows(p)' BY <1>1, <1>2, <1>3 DEF LoopKnows, Holding
<1>5. \A u \in Runs : Drives(p, u)' => Drives(p, u) BY <1>1 DEF Drives
<1> QED BY <1>1, <1>4, <1>5, CallerMoves

LEMMA RunLoopInv ==
  ASSUME ARTypeOK, Solo, NEW p \in Callers, RunLoop(p)
  PROVE  RunTypes' /\ Solo'
<1> USE MaxStepsAssumption DEF RunTypes
<1>0. /\ loop[p] # NoLoop /\ loop[p] \in Loop /\ LoopKnows(p)
      /\ loop[p].step \in 0..(MaxSteps + 1) /\ loop[p].results \in Seq(Requests)
      /\ loop[p].req \in Requests \union {NoRequest}
  <2>1. loop[p] # NoLoop
    BY DEF RunLoop, EnterLoop, Plan, PlanExhausted, CompleteRun, LimitRun, CloseTask, AskHuman,
       PauseRun, PauseTask, RunTool, FinishTool, RecordResult, LoopThrows,
       FailRun, FailTask, At
  <2> QED BY <2>1 DEF ARTypeOK, Solo, Loop
<1>1. CASE Plan(p)
  <2>1. /\ loop[p].at = "plan" /\ loop[p].step < MaxSteps
        /\ UNCHANGED <<pc, run, posting, task, responses>>
    BY <1>1 DEF Plan, At, StepsLeft, CreateHeld, CreateRunnable, taVars
  <2>2. PICK l \in {"answer", "ask", "tool"}, r \in Requests \union {NoRequest} :
          /\ loop' = [loop EXCEPT ![p].at = l, ![p].step = @ + 1, ![p].req = r]
          /\ l # "answer" => r \in Requests
    BY <1>1 DEF Plan
  <2>3. issuer' \in [Requests -> Runs \union {NoRun}]
    <3>1. CASE UNCHANGED issuer BY <3>1 DEF ARTypeOK
    <3>2. CASE ~UNCHANGED issuer
      <4>1. PICK x \in Requests : issuer' = [issuer EXCEPT ![x] = loop[p].run]
        BY <1>1, <3>2 DEF Plan
      <4>2. loop[p].run \in Runs \union {NoRun} BY <1>0 DEF Loop
      <4> QED BY <4>1, <4>2 DEF ARTypeOK
    <3> QED BY <3>1, <3>2
  <2>4. [loop[p] EXCEPT !.at = l, !.step = @ + 1, !.req = r] \in Loop
    <3>1. loop[p].step + 1 \in 0..(MaxSteps + 1) BY <1>0, <2>1
    <3> QED BY <1>0, <2>2, <3>1 DEF Loop
  <2>5. loop' = [loop EXCEPT ![p] = [loop[p] EXCEPT !.at = l, !.step = @ + 1, !.req = r]]
    BY <2>2
  <2>6. /\ loop' \in [Callers -> Loop \union {NoLoop}]
        /\ \A q \in Callers \ {p} : loop'[q] = loop[q]
        /\ loop'[p].at = l /\ loop'[p].run = loop[p].run
        /\ loop'[p].step = loop[p].step + 1 /\ loop'[p].req = r
    BY <1>0, <2>4, <2>5 DEF ARTypeOK, Loop
  <2>7. LoopKnows(p)' BY <1>0, <2>1, <2>2, <2>6 DEF LoopKnows, Holding
  <2>8. \A u \in Runs : Drives(p, u)' => Drives(p, u)
    BY <1>0, <2>1, <2>6 DEF Drives
  <2>9. WritesOwn(p) BY <2>1 DEF WritesOwn
  <2> QED BY <1>0, <2>1, <2>3, <2>6, <2>7, <2>8, <2>9, CallerMoves DEF ARTypeOK
<1>2. CASE PlanExhausted(p)
  <2>1. loop[p].at = "plan" /\ Goes(p, "limit") /\ UNCHANGED <<pc, run, issuer, posting, task, responses>>
    BY <1>2 DEF PlanExhausted, At, taVars
  <2>2. WritesOwn(p) /\ Drives(p, loop[p].run) BY <1>0, <2>1 DEF WritesOwn, Drives
  <2> QED BY <1>0, <2>1, <2>2, GoesOn, GoerMoves DEF ARTypeOK, Holding
<1>3. CASE CompleteRun(p)
  <2>1. /\ loop[p].at = "answer" /\ UNCHANGED <<pc, issuer, posting, task, responses>>
        /\ UpdateRun(p, "COMPLETED", loop[p].step, loop[p].results, NoRequest)
    BY <1>3 DEF CompleteRun, At, taVars
  <2>2. PICK reply \in Reply : Returns(p, "closeTask", reply)
    BY <1>3 DEF CompleteRun
  <2>3. /\ run' \in [Runs -> RunRow]
        /\ \A u \in Runs : run'[u].status = IF u = loop[p].run THEN "COMPLETED" ELSE run[u].status
    BY <1>0, <2>1, UpdateRunType
  <2>4. WritesOwn(p) BY <2>3 DEF WritesOwn
  <2> QED BY <1>0, <2>1, <2>2, <2>3, <2>4, GoesOn, GoerMoves DEF ARTypeOK, Holding
<1>4. CASE LimitRun(p)
  <2>1. /\ loop[p].at = "limit" /\ UNCHANGED <<pc, issuer, posting, task, responses>>
        /\ UpdateRun(p, "STEP_LIMIT_REACHED", loop[p].step, loop[p].results, NoRequest)
        /\ Returns(p, "closeTask", "STEP_LIMIT_REACHED")
    BY <1>4 DEF LimitRun, At, taVars
  <2>2. /\ run' \in [Runs -> RunRow]
        /\ \A u \in Runs : run'[u].status = IF u = loop[p].run THEN "STEP_LIMIT_REACHED" ELSE run[u].status
    BY <1>0, <2>1, UpdateRunType
  <2>3. WritesOwn(p) BY <2>2 DEF WritesOwn
  <2> QED BY <1>0, <2>1, <2>2, <2>3, GoesOn, GoerMoves DEF ARTypeOK, Holding
<1>5. CASE CloseTask(p)
  <2>1. /\ loop[p].at = "closeTask" /\ (Goes(p, "returned") \/ Goes(p, "failed"))
        /\ UNCHANGED <<pc, run, issuer, posting, responses>>
    BY <1>5 DEF CloseTask, At, taVars
  <2>2. task' \in [Tasks -> TaskStatus]
    BY <1>5, SetFinalTaskType DEF CloseTask
  <2>3. WritesOwn(p) BY <2>1 DEF WritesOwn
  <2> QED BY <1>0, <2>1, <2>2, <2>3, GoesOn, GoerMoves DEF ARTypeOK, Holding
<1>6. CASE AskHuman(p)
  <2>1. /\ loop[p].at = "ask" /\ Goes(p, "pause")
        /\ UNCHANGED <<pc, run, issuer, posting, task, responses>>
    BY <1>6 DEF AskHuman, At, Ask, InsertApproval
  <2>2. WritesOwn(p) /\ Drives(p, loop[p].run) BY <1>0, <2>1 DEF WritesOwn, Drives
  <2> QED BY <1>0, <2>1, <2>2, GoesOn, GoerMoves DEF ARTypeOK, Holding
<1>7. CASE PauseRun(p)
  <2>1. /\ loop[p].at = "pause" /\ Goes(p, "pauseTask")
        /\ UNCHANGED <<pc, issuer, posting, task, responses>>
        /\ UpdateRun(p, "WAITING_FOR_HUMAN", loop[p].step + 1, loop[p].results, loop[p].req)
    BY <1>7 DEF PauseRun, At, taVars
  <2>2. loop[p].step + 1 \in 0..(MaxSteps + 1) BY <1>0, <2>1 DEF LoopKnows
  <2>3. /\ run' \in [Runs -> RunRow]
        /\ \A u \in Runs : run'[u].status = IF u = loop[p].run THEN "WAITING_FOR_HUMAN" ELSE run[u].status
    BY <1>0, <2>1, <2>2, UpdateRunType
  <2>4. Drives(p, loop[p].run) BY <1>0, <2>1 DEF Drives
  <2>5. loop'[p].at = "pauseTask"
    <3>1. "pauseTask" \in LoopLabel /\ "none" \in Reply BY DEF LoopLabel, TryLabel, Reply
    <3> QED BY <1>0, <2>1, <3>1, GoesOn
  <2>6. \A u \in Runs : ~Drives(p, u)' BY <2>5 DEF Drives
  <2>7. WritesOwn(p) BY <2>3, <2>4, <2>6 DEF WritesOwn
  <2> QED BY <1>0, <2>1, <2>3, <2>7, GoesOn, GoerMoves DEF ARTypeOK, Holding
<1>8. CASE PauseTask(p)
  <2>1. /\ loop[p].at = "pauseTask"
        /\ Returns(p, "returned", "WAITING_FOR_HUMAN") \/ Goes(p, "failed")
        /\ UNCHANGED <<pc, run, issuer, posting, responses>>
    BY <1>8 DEF PauseTask, At, taVars
  <2>2. task' \in [Tasks -> TaskStatus]
    BY <1>8, SetTaskType DEF PauseTask
  <2>3. WritesOwn(p) BY <2>1 DEF WritesOwn
  <2> QED BY <1>0, <2>1, <2>2, <2>3, GoesOn, GoerMoves DEF ARTypeOK, Holding
<1>9. CASE RunTool(p)
  <2>1. /\ loop[p].at = "tool"
        /\ Goes(p, "finish") \/ Goes(p, "failed")
        /\ UNCHANGED <<pc, run, issuer, posting, task, responses>>
    BY <1>9 DEF RunTool, At, CallTool
  <2>2. WritesOwn(p) /\ Drives(p, loop[p].run) BY <1>0, <2>1 DEF WritesOwn, Drives
  <2> QED BY <1>0, <2>1, <2>2, GoesOn, GoerMoves DEF ARTypeOK, Holding
<1>10. CASE FinishTool(p)
  <2>1. /\ loop[p].at = "finish" /\ Goes(p, "record")
        /\ UNCHANGED <<pc, run, issuer, posting, task, responses>>
    BY <1>10 DEF FinishTool, At, FinishCall
  <2>2. WritesOwn(p) /\ Drives(p, loop[p].run) BY <1>0, <2>1 DEF WritesOwn, Drives
  <2> QED BY <1>0, <2>1, <2>2, GoesOn, GoerMoves DEF ARTypeOK, Holding
<1>11. CASE RecordResult(p)
  <2> DEFINE results == Append(loop[p].results, loop[p].req)
  <2>1. /\ loop[p].at = "record" /\ UNCHANGED <<pc, issuer, posting, task, responses>>
        /\ UpdateRun(p, "RUNNING", loop[p].step, results, NoRequest)
        /\ loop' = [loop EXCEPT ![p].at = "plan", ![p].results = results]
    BY <1>11 DEF RecordResult, At, taVars
  <2>2. loop[p].req \in Requests BY <1>0, <2>1 DEF LoopKnows, Holding
  <2>3. results \in Seq(Requests) BY <1>0, <2>2
  <2>4. /\ run' \in [Runs -> RunRow]
        /\ \A u \in Runs : run'[u].status = IF u = loop[p].run THEN "RUNNING" ELSE run[u].status
    BY <1>0, <2>1, <2>3, UpdateRunType
  <2> HIDE DEF results
  <2>5. [loop[p] EXCEPT !.at = "plan", !.results = results] \in Loop
    BY <1>0, <2>3 DEF Loop
  <2>6. loop' = [loop EXCEPT ![p] = [loop[p] EXCEPT !.at = "plan", !.results = results]]
    BY <2>1
  <2>7. /\ loop' \in [Callers -> Loop \union {NoLoop}]
        /\ \A q \in Callers \ {p} : loop'[q] = loop[q]
        /\ loop'[p].at = "plan" /\ loop'[p].run = loop[p].run
    BY <1>0, <2>5, <2>6 DEF ARTypeOK, Loop
  <2>8. LoopKnows(p)' BY <1>0, <2>1, <2>4, <2>7 DEF LoopKnows, Holding
  <2>9. \A u \in Runs : Drives(p, u)' => Drives(p, u)
    BY <1>0, <2>1, <2>7 DEF Drives
  <2>10. WritesOwn(p) BY <2>4 DEF WritesOwn
  <2> QED BY <1>0, <2>1, <2>4, <2>7, <2>8, <2>9, <2>10, CallerMoves DEF ARTypeOK
<1>12. CASE LoopThrows(p)
  <2>1. loop[p].at \in TryLabel /\ UNCHANGED <<pc, run, issuer, posting, task, responses>>
    BY <1>12 DEF LoopThrows, AskerThrows, taVars
  <2>2. WritesOwn(p) BY <2>1 DEF WritesOwn
  <2>3. CASE Goes(p, "failed")
    BY <1>0, <2>1, <2>2, <2>3, GoesOn, GoerMoves DEF ARTypeOK, Holding
  <2>4. CASE /\ loop[p].at = "record"
             /\ loop' = [loop EXCEPT ![p].at = "failed", ![p].results = Append(@, loop[p].req)]
    <3> DEFINE results == Append(loop[p].results, loop[p].req)
    <3>1. results \in Seq(Requests)
      BY <1>0, <2>4 DEF LoopKnows, Holding
    <3>2. loop' = [loop EXCEPT ![p] = [loop[p] EXCEPT !.at = "failed", !.results = results]]
      BY <2>4
    <3> HIDE DEF results
    <3>3. [loop[p] EXCEPT !.at = "failed", !.results = results] \in Loop
      BY <1>0, <3>1 DEF Loop
    <3>4. /\ loop' \in [Callers -> Loop \union {NoLoop}]
          /\ \A q \in Callers \ {p} : loop'[q] = loop[q]
          /\ loop'[p].at = "failed" /\ loop'[p].run = loop[p].run
      BY <1>0, <3>2, <3>3 DEF ARTypeOK, Loop
    <3>5. LoopKnows(p)' BY <1>0, <2>1, <2>4, <3>4 DEF LoopKnows, Holding
    <3>6. \A u \in Runs : Drives(p, u)' => Drives(p, u) BY <3>4 DEF Drives
    <3> QED BY <1>0, <2>1, <2>2, <3>4, <3>5, <3>6, CallerMoves DEF ARTypeOK
  <2> QED BY <1>12, <2>3, <2>4 DEF LoopThrows
<1>13. CASE FailRun(p)
  <2>1. /\ loop[p].at = "failed" /\ Goes(p, "failTask")
        /\ UNCHANGED <<pc, issuer, posting, task, responses>>
        /\ MarkFailed(p) \/ UNCHANGED run
    BY <1>13 DEF FailRun, At, taVars
  <2>2. run' \in [Runs -> RunRow] /\ WritesOwn(p)
    <3>1. CASE UNCHANGED run BY <3>1 DEF ARTypeOK, WritesOwn
    <3>2. CASE MarkFailed(p)
      <4>1. /\ run' \in [Runs -> RunRow]
            /\ \A u \in Runs : run'[u].status = IF u = loop[p].run THEN "FAILED" ELSE run[u].status
        BY <1>0, <3>2, MarkFailedType
      <4> QED BY <4>1 DEF WritesOwn
    <3> QED BY <2>1, <3>1, <3>2
  <2> QED BY <1>0, <2>1, <2>2, GoesOn, GoerMoves DEF ARTypeOK, Holding
<1>14. CASE FailTask(p)
  <2>1. /\ loop[p].at = "failTask" /\ Returns(p, "returned", "threw")
        /\ UNCHANGED <<pc, run, issuer, posting, responses>>
    BY <1>14 DEF FailTask, At, taVars
  <2>2. task' \in [Tasks -> TaskStatus]
    BY <1>14, SetFinalTaskType DEF FailTask, ARTypeOK
  <2>3. WritesOwn(p) BY <2>1 DEF WritesOwn
  <2> QED BY <1>0, <2>1, <2>2, <2>3, GoesOn, GoerMoves DEF ARTypeOK, Holding
<1>15. CASE EnterLoop(p)
  <2> DEFINE row == run[loop[p].run]
  <2>1. /\ loop[p].at = "enter" /\ loop[p].run \in Runs
        /\ UNCHANGED <<pc, run, issuer, posting, task, responses>>
        /\ loop' = [loop EXCEPT ![p] = [loop[p] EXCEPT !.at = "plan", !.step = row.step,
                                                      !.results = row.results]]
    BY <1>0, <1>15 DEF EnterLoop, At, LoopKnows, taVars
  <2>2. row \in RunRow BY <2>1 DEF ARTypeOK
  <2>3. [loop[p] EXCEPT !.at = "plan", !.step = row.step, !.results = row.results] \in Loop
    BY <1>0, <2>2 DEF Loop, RunRow
  <2>4. /\ loop' \in [Callers -> Loop \union {NoLoop}]
        /\ \A q \in Callers \ {p} : loop'[q] = loop[q]
        /\ loop'[p].at = "plan" /\ loop'[p].run = loop[p].run
    BY <1>0, <2>1, <2>3 DEF ARTypeOK, Loop
  <2>5. LoopKnows(p)' BY <1>0, <2>1, <2>4 DEF LoopKnows, Holding
  <2>6. \A u \in Runs : Drives(p, u)' => Drives(p, u)
    BY <1>0, <2>1, <2>4 DEF Drives
  <2>7. WritesOwn(p) BY <2>1 DEF WritesOwn
  <2> QED BY <1>0, <2>1, <2>4, <2>5, <2>6, <2>7, CallerMoves DEF ARTypeOK
<1> QED BY <1>1, <1>2, <1>3, <1>4, <1>5, <1>6, <1>7, <1>8, <1>9, <1>10, <1>11,
           <1>12, <1>13, <1>14, <1>15 DEF RunLoop

\* Nobody in the loop moves.
LEMMA NobodyMoves ==
  ASSUME Solo, UNCHANGED <<run, loop>>,
         \A q \in Deciders : loop[q] # NoLoop => pc'[q] = pc[q]
  PROVE  Solo'
<1>1. ASSUME NEW p \in Callers PROVE LoopKnows(p)'
  BY DEF Solo, LoopKnows
<1>2. ASSUME NEW u \in Runs PROVE DrivesAlone(u)'
  BY DEF Solo, DrivesAlone, Drives
<1> QED BY <1>1, <1>2 DEF Solo

LEMMA CallerInv ==
  ASSUME ARTypeOK, Solo, NEW u \in Runs, Act(u) \/ CreateRun(u) \/ ActReturns(u)
  PROVE  RunTypes' /\ Solo'
<1> USE MaxStepsAssumption DEF RunTypes
<1>0. u \in Callers /\ LoopKnows(u) /\ UNCHANGED pc
  BY DEF Callers, Solo, Act, CreateRun, ActReturns, taVars
<1>1. CASE Act(u)
  <2> DEFINE new == [at |-> "create", run |-> u, step |-> 0, results |-> << >>,
                     req |-> NoRequest, reply |-> "none"]
  <2>1. /\ run[u].status = "none" /\ loop[u] = NoLoop
        /\ UNCHANGED <<run, issuer, posting, responses>>
        /\ task' \in [Tasks -> TaskStatus]
        /\ loop' = [loop EXCEPT ![u] = new]
    BY <1>1, SetTaskType DEF Act
  <2>2. new \in Loop BY DEF Loop
  <2>3. /\ loop' \in [Callers -> Loop \union {NoLoop}]
        /\ \A q \in Callers \ {u} : loop'[q] = loop[q]
        /\ loop'[u] = new
    BY <1>0, <2>1, <2>2 DEF ARTypeOK
  <2>4. ASSUME NEW q \in Callers \ {u} PROVE ~Drives(q, u)
    \* A caller of a run without a row is about to create its own.
    BY <2>1 DEF Solo, LoopKnows, Drives
  <2>5. ASSUME NEW q \in Callers PROVE LoopKnows(q)'
    <3>1. CASE q = u BY <1>0, <2>1, <2>3, <3>1, RunsAssumption DEF LoopKnows, Holding
    <3>2. CASE q # u BY <1>0, <2>1, <2>3, <3>2 DEF Solo, LoopKnows
    <3> QED BY <3>1, <3>2
  <2>6. ASSUME NEW v \in Runs PROVE DrivesAlone(v)'
    <3>1. CASE v = u
      BY <2>1, <2>3, <2>4, <3>1 DEF DrivesAlone, Drives
    <3>2. CASE v # u
      BY <2>1, <2>3, <3>2 DEF Solo, DrivesAlone, Drives
    <3> QED BY <3>1, <3>2
  <2> QED BY <2>1, <2>3, <2>5, <2>6 DEF Solo, ARTypeOK
<1>2. CASE CreateRun(u)
  <2>1. /\ At(u, "create") /\ Goes(u, "plan")
        /\ UNCHANGED <<issuer, posting, task, responses>>
        /\ UpdateRun(u, "RUNNING", 0, << >>, NoRequest)
    BY <1>2 DEF CreateRun
  <2>2. /\ loop[u] # NoLoop /\ loop[u].at = "create" /\ loop[u].run = u
        /\ << >> \in Seq(Requests) /\ 0 \in 0..(MaxSteps + 1)
    BY <1>0, <2>1 DEF At, LoopKnows
  <2>3. /\ run' \in [Runs -> RunRow]
        /\ \A v \in Runs : run'[v].status = IF v = u THEN "RUNNING" ELSE run[v].status
    <3>1. NoRequest \in Requests \union {NoRequest} OBVIOUS
    <3>2. /\ run' \in [Runs -> RunRow]
          /\ \A v \in Runs : run'[v].status = IF v = loop[u].run THEN "RUNNING" ELSE run[v].status
      BY <2>1, <2>2, <3>1, UpdateRunType
    <3> QED BY <2>2, <3>2
  <2>4. /\ loop' \in [Callers -> Loop \union {NoLoop}]
        /\ \A q \in Callers \ {u} : loop'[q] = loop[q]
        /\ loop'[u].at = "plan" /\ loop'[u].run = u
    BY <1>0, <2>1, <2>2, GoesOn
  <2>5. LoopKnows(u)' BY <1>0, <2>2, <2>3, <2>4 DEF LoopKnows, Holding
  <2>6. \A v \in Runs : Drives(u, v)' => Drives(u, v)
    BY <2>2, <2>4 DEF Drives
  <2>7. WritesOwn(u) BY <2>2, <2>3 DEF WritesOwn
  <2> QED BY <1>0, <2>1, <2>2, <2>3, <2>4, <2>5, <2>6, <2>7, CallerMoves DEF ARTypeOK
<1>3. CASE ActReturns(u)
  <2>1. /\ loop[u] # NoLoop /\ loop[u].at = "returned"
        /\ UNCHANGED <<run, issuer, posting, task, responses>>
        /\ Quits(u) \/ Goes(u, "respond")
    BY <1>3 DEF ActReturns, At
  <2>2. WritesOwn(u) BY <2>1 DEF WritesOwn
  <2>3. CASE Quits(u) BY <1>0, <2>1, <2>3, QuitterMoves DEF ARTypeOK
  <2>4. CASE Goes(u, "respond")
    BY <1>0, <2>1, <2>2, <2>4, GoesOn, GoerMoves DEF ARTypeOK, Holding
  <2> QED BY <2>1, <2>3, <2>4
<1> QED BY <1>1, <1>2, <1>3

\* Answering for a task, and losing a caller.
LEMMA AnswerInv ==
  ASSUME ARTypeOK, Solo, NEW p \in Callers,
         AnswerTask(p) \/ Stop(p)
  PROVE  RunTypes' /\ Solo'
<1> USE DEF RunTypes
<1>1. UNCHANGED <<run, issuer, posting>>
  BY DEF AnswerTask, RespondTask, PostResponse, FinishResponse, Stop
<1>2. responses' \in [Tasks -> Nat]
  BY DEF AnswerTask, RespondTask, PostResponse, FinishResponse, Stop, ARTypeOK
<1>3. task' \in [Tasks -> TaskStatus]
  BY SetTaskType DEF AnswerTask, RespondTask, PostResponse, FinishResponse, Stop, ARTypeOK
<1>4. WritesOwn(p) BY <1>1 DEF WritesOwn
<1>5. CASE Quits(p)
  <2>1. loop[p] # NoLoop /\ \A q \in Deciders \ {p} : pc'[q] = pc[q]
    BY <1>5 DEF AnswerTask, RespondTask, PostResponse, FinishResponse, Stop, At, Done, Leave, taVars,
       ARTypeOK, TypeOK
  <2> QED BY <1>1, <1>2, <1>3, <1>5, <2>1, QuitterMoves DEF ARTypeOK
<1>6. CASE ~Quits(p)
  <2>1. /\ loop[p] # NoLoop /\ loop[p].at \in {"respond", "message"}
        /\ Goes(p, "message") \/ Goes(p, "finishResponse")
        /\ UNCHANGED pc
    BY <1>6 DEF AnswerTask, RespondTask, PostResponse, FinishResponse, Stop, At, Done, taVars
  <2> QED BY <1>1, <1>2, <1>3, <1>4, <2>1, GoesOn, GoerMoves DEF ARTypeOK, Holding
<1> QED BY <1>5, <1>6

LEMMA ResumeInv ==
  ASSUME ARTypeOK, Solo, NEW d \in Deciders, Resume(d)
  PROVE  RunTypes' /\ Solo'
<1> USE MaxStepsAssumption DEF RunTypes
<1>0. d \in Callers /\ LoopKnows(d) /\ TypeOK BY DEF Callers, Solo, ARTypeOK
<1>1. CASE FindWaiting(d)
  <2>1. /\ pc[d] = "resume" /\ loop[d] = NoLoop
        /\ UNCHANGED <<run, issuer, posting, task, responses>>
    BY <1>1 DEF FindWaiting
  <2>2. CASE UNCHANGED loop
    <3>1. \A q \in Deciders : loop[q] # NoLoop => pc'[q] = pc[q]
      BY <1>0, <1>1, <2>1 DEF FindWaiting, Leave, taVars, TypeOK
    <3> QED BY <2>1, <2>2, <3>1, NobodyMoves DEF ARTypeOK
  <2>3. CASE ~UNCHANGED loop
    <3>1. PICK l \in {"settle", "claim"}, u \in Runs \union {NoRun} :
            /\ l = "claim" => u \in WaitingOn(job[d].exec)
            /\ l = "settle" => u = NoRun
            /\ loop' = [loop EXCEPT ![d] = [at |-> l, run |-> u, step |-> 0,
                          results |-> << >>, req |-> job[d].exec, reply |-> "none"]]
            /\ UNCHANGED pc
      BY <1>1, <2>3 DEF FindWaiting, WaitingOn, taVars
    <3>2. job[d].exec \in Requests BY <1>0, <2>1 DEF TypeOK
    <3>3. [at |-> l, run |-> u, step |-> 0, results |-> << >>,
           req |-> job[d].exec, reply |-> "none"] \in Loop
      BY <3>2 DEF Loop
    <3>4. /\ loop' \in [Callers -> Loop \union {NoLoop}]
          /\ \A q \in Callers \ {d} : loop'[q] = loop[q]
          /\ loop'[d].at = l /\ loop'[d].run = u /\ loop'[d].req = job[d].exec
      BY <1>0, <3>1, <3>3 DEF ARTypeOK
    <3>5. ASSUME NEW q \in Callers PROVE LoopKnows(q)'
      <4>1. CASE q # d BY <2>1, <3>1, <3>4, <4>1 DEF Solo, LoopKnows
      <4>2. CASE q = d /\ l = "claim"
        BY <2>1, <3>1, <3>2, <3>4, <4>2 DEF LoopKnows, Holding, WaitingOn
      <4>3. CASE q = d /\ l = "settle"
        <5>1. u \notin Runs BY <3>1, <4>3, RunsAssumption
        <5> QED BY <2>1, <3>1, <3>4, <4>3, <5>1 DEF LoopKnows, Holding
      <4> QED BY <3>1, <4>1, <4>2, <4>3
    <3>6. ASSUME NEW v \in Runs PROVE DrivesAlone(v)'
      <4>1. \A q \in Callers : Drives(q, v)' => Drives(q, v)
        BY <3>1, <3>4 DEF Drives
      <4> QED BY <2>1, <4>1 DEF Solo, DrivesAlone
    <3> QED BY <2>1, <3>4, <3>5, <3>6 DEF Solo, ARTypeOK
  <2> QED BY <2>2, <2>3
<1>2. CASE ClaimWaiting(d)
  <2> DEFINE u == loop[d].run
  <2>1. /\ loop[d] # NoLoop /\ loop[d].at = "claim" /\ u \in Runs
        /\ loop[d] \in Loop /\ loop[d].req \in Requests
        /\ UNCHANGED <<pc, issuer, posting, task, responses>>
    BY <1>0, <1>2 DEF ClaimWaiting, At, LoopKnows, Holding, ARTypeOK, taVars
  <2>2. CASE ~Claimable(u, loop[d].req)
    <3>1. Goes(d, "settle") /\ UNCHANGED run BY <1>2, <2>2 DEF ClaimWaiting
    <3>2. WritesOwn(d) BY <3>1 DEF WritesOwn
    <3> QED BY <1>0, <2>1, <3>1, <3>2, GoesOn, GoerMoves DEF ARTypeOK, Holding
  <2>3. CASE Claimable(u, loop[d].req)
    <3>1. run[u].status = "WAITING_FOR_HUMAN" /\ run[u] \in RunRow
      BY <2>1, <2>3 DEF Claimable, WaitingOn, ARTypeOK
    <3>2. run' = [run EXCEPT ![u] = [run[u] EXCEPT !.status = "RUNNING", !.waiting = NoRequest]]
      BY <1>2, <2>3 DEF ClaimWaiting
    <3>3. PICK l \in {"restart", "decline"} :
            loop' = [loop EXCEPT ![d] =
               [@ EXCEPT !.at = l, !.step = run[u].step,
                         !.results = Append(run[u].results, loop[d].req)]]
      BY <1>2, <2>3 DEF ClaimWaiting
    <3>4. [run[u] EXCEPT !.status = "RUNNING", !.waiting = NoRequest] \in RunRow
      BY <3>1 DEF RunRow
    <3>5. /\ run' \in [Runs -> RunRow]
          /\ \A v \in Runs : run'[v].status = IF v = u THEN "RUNNING" ELSE run[v].status
      BY <2>1, <3>1, <3>2, <3>4 DEF ARTypeOK, RunRow
    <3>6. /\ run[u].step \in 0..(MaxSteps + 1)
          /\ Append(run[u].results, loop[d].req) \in Seq(Requests)
      BY <2>1, <3>1 DEF RunRow
    <3>7. [loop[d] EXCEPT !.at = l, !.step = run[u].step,
                          !.results = Append(run[u].results, loop[d].req)] \in Loop
      BY <2>1, <3>6 DEF Loop
    <3>8. /\ loop' \in [Callers -> Loop \union {NoLoop}]
          /\ \A q \in Callers \ {d} : loop'[q] = loop[q]
          /\ loop'[d].at = l /\ loop'[d].run = u
      BY <1>0, <2>1, <3>3, <3>7 DEF ARTypeOK, Loop
    <3>9. \A q \in Callers : ~Drives(q, u)
      BY <2>1, <3>1 DEF Solo, DrivesAlone
    <3>10. ASSUME NEW q \in Callers PROVE LoopKnows(q)'
      <4>1. CASE q = d BY <1>0, <2>1, <3>5, <3>8, <4>1 DEF LoopKnows, Holding
      <4>2. CASE q # d BY <2>1, <3>1, <3>5, <3>8, <4>2 DEF Solo, LoopKnows
      <4> QED BY <4>1, <4>2
    <3>11. ASSUME NEW v \in Runs PROVE DrivesAlone(v)'
      <4>1. CASE v = u BY <3>5, <3>8, <3>9, <4>1 DEF DrivesAlone, Drives
      <4>2. CASE v # u BY <3>5, <3>8, <4>2 DEF Solo, DrivesAlone, Drives
      <4> QED BY <4>1, <4>2
    <3> QED BY <2>1, <3>5, <3>8, <3>10, <3>11 DEF Solo, ARTypeOK
  <2> QED BY <2>2, <2>3
<1>3. CASE DeclineRun(d) \/ RestartRun(d)
  <2>1. /\ loop[d] # NoLoop /\ loop[d].at \in {"decline", "restart"}
        /\ UNCHANGED <<pc, issuer, posting, task, responses>>
        /\ loop[d] \in Loop
    BY <1>0, <1>3 DEF DeclineRun, RestartRun, At, ARTypeOK, taVars
  <2>2. PICK st \in {"REJECTED", "RUNNING"}, n \in 0..(MaxSteps + 1) :
          UpdateRun(d, st, n, loop[d].results, NoRequest)
    <3>1. CASE DeclineRun(d)
      <4>1. loop[d].step \in 0..(MaxSteps + 1) BY <2>1 DEF Loop
      <4> QED BY <3>1, <4>1 DEF DeclineRun
    <3>2. CASE RestartRun(d)
      <4>1. loop[d].run \in Runs BY <1>0, <2>1, <3>2 DEF RestartRun, At, LoopKnows
      <4>2. run[loop[d].run].step \in 0..(MaxSteps + 1) BY <4>1 DEF ARTypeOK, RunRow
      <4> QED BY <3>2, <4>2 DEF RestartRun
    <3> QED BY <1>3, <3>1, <3>2
  <2>3. /\ run' \in [Runs -> RunRow]
        /\ \A v \in Runs : run'[v].status = IF v = loop[d].run THEN st ELSE run[v].status
    BY <2>1, <2>2, UpdateRunType DEF Loop
  <2>4. WritesOwn(d) /\ Drives(d, loop[d].run) BY <2>1, <2>3 DEF WritesOwn, Drives
  <2>5. CASE DeclineRun(d)
    <3>1. Returns(d, "settle", "REJECTED") BY <2>5 DEF DeclineRun
    <3> QED BY <1>0, <2>1, <2>3, <2>4, <3>1, GoesOn, GoerMoves DEF ARTypeOK, Holding
  <2>6. CASE RestartRun(d)
    <3>1. Goes(d, "enter") /\ loop[d].at = "restart" BY <2>6 DEF RestartRun, At
    <3>2. /\ loop' \in [Callers -> Loop \union {NoLoop}]
          /\ \A q \in Callers \ {d} : loop'[q] = loop[q]
          /\ loop'[d].at = "enter" /\ loop'[d].run = loop[d].run
      <4>1. "enter" \in LoopLabel /\ "none" \in Reply OBVIOUS
      <4> QED BY <1>0, <2>1, <3>1, <4>1, GoesOn
    <3>3. LoopKnows(d)'
      <4>1. loop[d].run \in Runs /\ run[loop[d].run].status # "none"
        BY <1>0, <2>1, <3>1 DEF LoopKnows
      <4>2. run'[loop[d].run].status # "none" BY <2>3, <4>1
      <4> QED BY <1>0, <2>1, <3>2, <4>1, <4>2 DEF LoopKnows, Holding
    <3>4. \A v \in Runs : Drives(d, v)' => Drives(d, v) BY <2>1, <3>2 DEF Drives
    <3> QED BY <1>0, <2>1, <2>3, <2>4, <3>2, <3>3, <3>4, CallerMoves DEF ARTypeOK
  <2> QED BY <1>3, <2>5, <2>6
<1>4. CASE ResumeReturns(d) \/ SettleTask(d) \/ CompleteDelegated(d)
  <2>1. /\ loop[d] # NoLoop /\ loop[d].at \in {"returned", "settle", "delegated"}
        /\ UNCHANGED <<run, issuer, posting, responses>>
    BY <1>4 DEF ResumeReturns, SettleTask, CompleteDelegated, At
  <2>2. task' \in [Tasks -> TaskStatus]
    <3>1. SettledStatus(d) \in TaskStatus
      <4>1. job[d].route \in Route BY <1>0, <2>1 DEF TypeOK, LoopKnows
      <4> QED BY <4>1 DEF SettledStatus
    <3> QED BY <1>4, <3>1, SetTaskType DEF ResumeReturns, SettleTask, CompleteDelegated, ARTypeOK
  <2>3. WritesOwn(d) BY <2>1 DEF WritesOwn
  <2>4. CASE Done(d)
    <3>1. Quits(d) /\ \A q \in Deciders \ {d} : pc'[q] = pc[q]
      BY <1>0, <2>4 DEF Done, Leave, TypeOK
    <3> QED BY <1>0, <2>1, <2>2, <3>1, QuitterMoves DEF ARTypeOK
  <2>5. CASE ~Done(d)
    <3>1. UNCHANGED pc /\ (Goes(d, "settle") \/ Goes(d, "respond") \/ Goes(d, "delegated"))
      BY <1>4, <2>5 DEF ResumeReturns, SettleTask, CompleteDelegated, taVars
    <3> QED BY <1>0, <2>1, <2>2, <2>3, <3>1, GoesOn, GoerMoves DEF ARTypeOK, Holding
  <2> QED BY <2>4, <2>5
<1>5. CASE SettleBare(d)
  <2>1. UNCHANGED <<run, loop, issuer, posting, responses>> /\ pc[d] = "settle"
    BY <1>5 DEF SettleBare
  <2>2. task' \in [Tasks -> TaskStatus] BY <1>5, SetTaskType DEF SettleBare
  <2>3. \A q \in Deciders : loop[q] # NoLoop => pc'[q] = pc[q]
    BY <1>0, <1>5, <2>1 DEF SettleBare, Leave, TypeOK, Solo, LoopKnows, Callers
  <2> QED BY <2>1, <2>2, <2>3, NobodyMoves DEF ARTypeOK
<1> QED BY <1>1, <1>2, <1>3, <1>4, <1>5 DEF Resume

\* Up to the stored outcome a handler is outside the loop.
LEMMA DecideStepInv ==
  ASSUME ARTypeOK, Solo, NEW d \in Deciders, DecideApproval(d)
  PROVE  RunTypes' /\ Solo'
<1>1. TypeOK /\ loop[d] = NoLoop /\ UNCHANGED arVars
  BY DEF ARTypeOK, DecideApproval
<1>2. \A q \in Deciders \ {d} : pc'[q] = pc[q]
  BY <1>1 DEF DecideApproval, DecideStep, Throw, StartPatch, StartTools, Enter,
     GetExecution, CheckApproval, Revalidate, SelectPending, Read, Decide,
     Execute, Complete, Goto, Leave, TypeOK
<1> QED BY <1>1, <1>2, NobodyMoves DEF arVars, RunTypes, ARTypeOK

LEMMA DirectInv ==
  ASSUME ARTypeOK, Solo, NEW r \in Requests, DirectIssue(r) \/ PostRequestTask(r)
  PROVE  RunTypes' /\ Solo'
<1>1. UNCHANGED <<run, loop, issuer, responses>> /\ posting' \subseteq Direct
  BY DEF DirectIssue, PostRequestTask, ARTypeOK
<1>2. UNCHANGED pc
  BY DEF DirectIssue, PostRequestTask, Issue, CreateHeld, CreateRunnable, Ask,
     File, InsertApproval, CallTool, FinishCall, AskerThrows, taVars
<1>3. task' \in [Tasks -> TaskStatus]
  BY SetTaskType DEF DirectIssue, PostRequestTask, ARTypeOK
<1> QED BY <1>1, <1>2, <1>3, NobodyMoves DEF RunTypes, ARTypeOK

LEMMA ARInvInit == ARInit => ARInv
<1> SUFFICES ASSUME ARInit PROVE ARInv
  OBVIOUS
<1>1. ARTypeOK BY ARTypeInit
<1>2. \A p \in Callers : loop[p] = NoLoop BY DEF ARInit
<1> QED BY <1>1, <1>2 DEF ARInv, LoopKnows, DrivesAlone, Drives

LEMMA ARInvStep == ARInv /\ [ARNext]_vars => ARInv'
<1> SUFFICES ASSUME ARInv, [ARNext]_vars PROVE ARInv'
  OBVIOUS
<1>1. ARTypeOK /\ Solo BY DEF ARInv, Solo
<1>2. TypeOK'
  <2>1. [Next]_taVars BY StepKeeps DEF ARInv
  <2> QED BY <1>1, <2>1, TypeStep DEF ARTypeOK
<1>3. RunTypes' /\ Solo'
  <2>1. CASE UNCHANGED vars
    BY <1>1, <2>1, NobodyMoves DEF vars, arVars, taVars, RunTypes, ARTypeOK
  <2>2. CASE ARNext
    BY <1>1, <2>2, CallerInv, RunLoopInv, AnswerInv, ResumeInv, DecideStepInv, DirectInv
       DEF ARNext
  <2> QED BY <2>1, <2>2
<1> QED BY <1>2, <1>3 DEF ARInv, ARTypeOK, RunTypes, Solo

THEOREM RunInductive == ARSpec => []ARInv
  BY ARInvInit, ARInvStep, PTL DEF ARSpec

\* Every row, every caller's memory and every counter keeps its type; the step
\* a pause stores is at most one past the limit.
THEOREM RunTypeCorrect == ARSpec => []ARTypeOK
  BY RunInductive, PTL DEF ARInv

\* At most one caller drives a run: a paused loop has let go of it before a
\* decision can claim it, and the conditional UPDATE hands it to one decision.
THEOREM SoleDriver == ARSpec => []OneLoopPerRun
<1>1. ARInv => OneLoopPerRun
  BY DEF ARInv, DrivesAlone, OneLoopPerRun
<1> QED BY RunInductive, <1>1, PTL

\* The composition with runs, tasks and resumptions implements ToolApproval.
THEOREM ImplementsToolApproval == ARSpec => KeepsToolApproval
<1>1. ARInit => Init BY DEF ARInit
<1>2. ARInv /\ [ARNext]_vars => [Next]_taVars BY StepKeeps DEF ARInv
<1>3. ARSpec => Spec BY RunInductive, <1>1, <1>2, PTL DEF ARSpec, Spec
<1> QED BY <1>3 DEF KeepsToolApproval

\* So what was proved of the approvals alone holds with the runs around them:
\* no run, however resumed, uses a guarded tool without approval or twice.
THEOREM RunsUseApprovedTools == ARSpec => [](RunsOnlyApproved /\ OutcomeMatchesDecision)
  BY ImplementsToolApproval, OnlyApprovedRun, OutcomesMatch, PTL DEF KeepsToolApproval

-------------------------------------------------------------------------------
(* The account of a run's tools: lists of results *)

LEMMA ListedEmpty == ASSUME NEW r PROVE ~Listed(<< >>, r)
  BY DEF Listed

LEMMA ListedAppend ==
  ASSUME NEW results \in Seq(Requests), NEW x \in Requests, NEW r
  PROVE  Listed(Append(results, x), r) <=> Listed(results, r) \/ r = x
<1>1. /\ DOMAIN results = 1..Len(results) /\ Len(results) \in Nat
      /\ DOMAIN Append(results, x) = 1..(Len(results) + 1)
      /\ \A i \in 1..Len(results) : Append(results, x)[i] = results[i]
      /\ Append(results, x)[Len(results) + 1] = x
  OBVIOUS
<1> QED BY <1>1 DEF Listed

\* NoRequest is never a result.
LEMMA ListedRequests ==
  ASSUME NEW results \in Seq(Requests), NEW r, Listed(results, r)
  PROVE  r \in Requests
  BY DEF Listed

\* A request in hand that gets its result is in hand no more.
LEMMA AccountsAppend ==
  ASSUME NEW asked, NEW results \in Seq(Requests), NEW x \in Requests, Accounts(asked, results, x)
  PROVE  Accounts(asked, Append(results, x), NoRequest)
<1>1. /\ DOMAIN results = 1..Len(results) /\ Len(results) \in Nat
      /\ DOMAIN Append(results, x) = 1..(Len(results) + 1)
      /\ \A i \in 1..Len(results) : Append(results, x)[i] = results[i]
      /\ Append(results, x)[Len(results) + 1] = x
  OBVIOUS
<1>2. \A i \in 1..Len(results) : results[i] # x
  BY <1>1 DEF Accounts, Listed
<1>3. \A i, j \in DOMAIN Append(results, x) :
        Append(results, x)[i] = Append(results, x)[j] => i = j
  BY <1>1, <1>2 DEF Accounts
<1>4. NoRequest \notin Requests BY RunsAssumption
<1>5. ~Listed(Append(results, x), NoRequest)
  BY <1>4, ListedAppend, ListedRequests
<1>6. \A r \in Requests : r \in asked <=> r = NoRequest \/ Listed(Append(results, x), r)
  BY <1>4, ListedAppend DEF Accounts
<1> QED BY <1>3, <1>5, <1>6 DEF Accounts

\* A request taken in hand is asked for.
LEMMA AccountsOpen ==
  ASSUME NEW asked, NEW results \in Seq(Requests), NEW x \in Requests \ asked,
         Accounts(asked, results, NoRequest)
  PROVE  Accounts(asked \union {x}, results, x)
<1>1. NoRequest \notin Requests BY RunsAssumption
<1> QED BY <1>1 DEF Accounts

\* One request more is at most one step more.
LEMMA OneMore ==
  ASSUME NEW asked, IsFiniteSet(asked), NEW x, NEW n \in Nat, Cardinality(asked) <= n
  PROVE  /\ IsFiniteSet(asked \union {x})
         /\ Cardinality(asked \union {x}) <= n + 1
<1>1. Cardinality(asked) \in Nat BY FS_CardinalityType
<1> QED BY <1>1, FS_AddElement

-------------------------------------------------------------------------------
(* The account of a run's tools: its steps *)

LEMMA AccountsOwn ==
  ASSUME NEW u \in Runs, NEW results \in Seq(Requests), NEW open,
         Accounts(Remembered(u), results, open)
  PROVE  OwnResults(u, results)
<1> SUFFICES ASSUME NEW i \in DOMAIN results PROVE results[i] \in IssuedBy(u)
  BY DEF OwnResults, Accounts
<1>1. results[i] \in Requests /\ Listed(results, results[i]) BY DEF Listed
<1> QED BY <1>1 DEF Accounts, Remembered

\* What a run has asked for it goes on having asked for.
LEMMA OwnResultsGrow ==
  ASSUME NEW u \in Runs, IssuedBy(u) \subseteq IssuedBy(u)', NEW results, OwnResults(u, results),
         NEW p \in Callers, loop'[p].results = results
  PROVE  OwnResults(u, loop[p].results)'
  BY DEF OwnResults

\* A run whose row, requests and driver stay as they are keeps its account.
LEMMA LedgerKept ==
  ASSUME NEW u \in Runs, LedgerOf(u), run'[u] = run[u], IssuedBy(u)' = IssuedBy(u),
         \A p \in Callers : Drives(p, u)' =>
           /\ Drives(p, u)
           /\ loop'[p].at = "enter" <=> loop[p].at = "enter"
           /\ loop'[p].at = "restart" => loop[p].at = "restart"
           /\ loop'[p].results = loop[p].results
           /\ loop'[p].step = loop[p].step
           /\ InHand(p)' = InHand(p),
         \A p \in Callers : Writes(p, u)' => Writes(p, u) /\ loop'[p].results = loop[p].results
  PROVE  LedgerOf(u)'
<1>1. Remembered(u)' = Remembered(u) /\ Asked(u)' = Asked(u) BY DEF Remembered, Asked
<1>2. ASSUME NEW p \in Callers, Drives(p, u)'
      PROVE  /\ run[u].status \in {"none", "RUNNING", "FAILED"}
             /\ Accounts(Remembered(u)', ResultsOf(p)', InHand(p)')
  <2>1. Drives(p, u) /\ loop[p].run = u /\ loop'[p].run = u BY <1>2 DEF Drives
  <2>2. ResultsOf(p)' = ResultsOf(p) BY <1>2, <2>1 DEF ResultsOf
  <2> QED BY <1>1, <1>2, <2>1, <2>2 DEF LedgerOf, AccountOf
<1>3. ASSUME NEW p \in Callers, Writes(p, u)' PROVE OwnResults(u, loop[p].results)'
  <2>1. OwnResults(u, loop[p].results) BY <1>3 DEF LedgerOf, AccountOf
  <2> QED BY <1>3, <2>1, OwnResultsGrow
<1>4. AccountOf(u)' BY <1>1, <1>2, <1>3 DEF LedgerOf, AccountOf
<1>5. ASSUME NEW p \in Callers, Resuming(p, u)' PROVE Resuming(p, u) /\ loop'[p].step = loop[p].step
  <2>1. Drives(p, u)' BY <1>5 DEF Resuming, At, Drives
  <2> QED BY <1>5, <2>1 DEF Resuming, At, Drives
<1>6. StepsOf(u)' BY <1>1, <1>5 DEF LedgerOf, StepsOf
<1> QED BY <1>4, <1>6 DEF LedgerOf

\* A caller leaves alone the accounts of the runs it does not work on.
LEMMA LedgerElsewhere ==
  ASSUME NEW p \in Callers, \A q \in Callers \ {p} : loop'[q] = loop[q],
         NEW u \in Runs, LedgerOf(u), run'[u] = run[u], IssuedBy(u)' = IssuedBy(u),
         ~Drives(p, u)',
         Writes(p, u)' => Writes(p, u) /\ loop'[p].results = loop[p].results
  PROVE  LedgerOf(u)'
<1>1. ASSUME NEW q \in Callers, Drives(q, u)'
      PROVE  Drives(q, u) /\ loop'[q] = loop[q]
  BY <1>1 DEF Drives
<1>2. ASSUME NEW q \in Callers, Drives(q, u)'
      PROVE  InHand(q)' = InHand(q)
  BY <1>1, <1>2 DEF InHand
<1>3. ASSUME NEW q \in Callers, Writes(q, u)'
      PROVE  Writes(q, u) /\ loop'[q].results = loop[q].results
  BY <1>3 DEF Writes
<1> QED BY <1>1, <1>2, <1>3, LedgerKept

\* What its driver does to the account of a run.
LEMMA LedgerDriven ==
  ASSUME Solo, NEW p \in Callers, NEW u \in Runs, Drives(p, u), LedgerOf(u),
         \A q \in Callers \ {p} : loop'[q] = loop[q],
         IsFiniteSet(IssuedBy(u)'), IssuedBy(u) \subseteq IssuedBy(u)',
         run'[u].lost = run[u].lost, run'[u].rewound = run[u].rewound,
         run'[u].status # "none",
         run'[u].status = "WAITING_FOR_HUMAN" =>
           /\ run'[u].waiting \in Requests
           /\ Accounts(Remembered(u)', run'[u].results, run'[u].waiting),
         run'[u].status = "COMPLETED" => Accounts(Remembered(u)', run'[u].results, NoRequest),
         Drives(p, u)' =>
           /\ run'[u].status \in {"RUNNING", "FAILED"}
           /\ Accounts(Remembered(u)', ResultsOf(p)', InHand(p)'),
         Writes(p, u)' => OwnResults(u, loop[p].results)',
         run[u].rewound \/
           /\ Asked(u)' <= MaxSteps
           /\ run'[u].status = "WAITING_FOR_HUMAN" => Asked(u)' + 1 <= run'[u].step
           /\ Drives(p, u)' /\ loop'[p].at # "enter" => Asked(u)' <= loop'[p].step
           /\ Resuming(p, u)' => Asked(u)' + 1 <= loop'[p].step /\ Asked(u)' <= run'[u].step
  PROVE  LedgerOf(u)'
<1>1. ASSUME NEW q \in Callers, Drives(q, u)' PROVE q = p
  <2>1. q # p => Drives(q, u) BY <1>1 DEF Drives
  <2> QED BY <2>1 DEF Solo, DrivesAlone
<1>2. ASSUME NEW q \in Callers, Resuming(q, u)' PROVE q = p
  <2>1. Drives(q, u)' BY <1>2 DEF Resuming, At, Drives
  <2> QED BY <1>1, <2>1
<1>3. ASSUME NEW q \in Callers, Writes(q, u)' PROVE OwnResults(u, loop[q].results)'
  <2>1. CASE q = p BY <1>3, <2>1
  <2>2. CASE q # p
    <3>1. loop'[q] = loop[q] /\ Writes(q, u) BY <1>3, <2>2 DEF Writes
    <3>2. OwnResults(u, loop[q].results) BY <3>1 DEF LedgerOf, AccountOf
    <3> QED BY <3>1, <3>2, OwnResultsGrow
  <2> QED BY <2>1, <2>2
<1>4. run'[u].lost \subseteq IssuedBy(u)' BY DEF LedgerOf, AccountOf
<1>5. AccountOf(u)' BY <1>1, <1>3, <1>4 DEF AccountOf
<1>6. StepsOf(u)' BY <1>1, <1>2 DEF StepsOf
<1> QED BY <1>5, <1>6 DEF LedgerOf

\* A caller that goes from label to label without asking for a tool or writing
\* its row: it may let go of the run.
LEMMA LedgerGoer ==
  ASSUME ARTypeOK, Solo, NEW p \in Callers, loop[p] # NoLoop,
         NEW l \in LoopLabel, NEW reply \in Reply, Goes(p, l) \/ Returns(p, l, reply),
         UNCHANGED <<run, issuer>>,
         \A u \in Runs : LedgerOf(u), l \notin {"enter", "restart"},
         l \in TryLabel \union {"failed"} => loop[p].at \in TryLabel,
         Drives(p, loop[p].run)' =>
           Drives(p, loop[p].run) /\ InHand(p)' = InHand(p) /\ loop[p].at # "enter"
  PROVE  \A u \in Runs : LedgerOf(u)'
<1>1. /\ \A q \in Callers \ {p} : loop'[q] = loop[q]
      /\ loop'[p].at = l
      /\ loop'[p].run = loop[p].run
      /\ loop'[p].step = loop[p].step
      /\ loop'[p].results = loop[p].results
  BY GoesOn
<1> SUFFICES ASSUME NEW u \in Runs PROVE LedgerOf(u)'
  OBVIOUS
<1>2. run'[u] = run[u] /\ IssuedBy(u)' = IssuedBy(u) BY DEF IssuedBy
<1>3. ASSUME NEW q \in Callers, Drives(q, u)'
      PROVE  /\ Drives(q, u)
             /\ loop'[q].at = "enter" <=> loop[q].at = "enter"
             /\ loop'[q].at = "restart" => loop[q].at = "restart"
             /\ loop'[q].results = loop[q].results
             /\ loop'[q].step = loop[q].step
             /\ InHand(q)' = InHand(q)
  <2>1. CASE q = p
    <3>1. u = loop[p].run BY <1>1, <1>3, <2>1 DEF Drives
    <3> QED BY <1>1, <1>3, <2>1, <3>1 DEF Drives
  <2>2. CASE q # p BY <1>1, <1>3, <2>2 DEF Drives, InHand
  <2> QED BY <2>1, <2>2
<1>4. ASSUME NEW q \in Callers, Writes(q, u)'
      PROVE  Writes(q, u) /\ loop'[q].results = loop[q].results
  BY <1>1, <1>4 DEF Writes
<1> QED BY <1>2, <1>3, <1>4, LedgerKept

\* What the driver of a run knows of its account.
LEMMA LedgerHeld ==
  ASSUME ARTypeOK, NEW p \in Callers, NEW u \in Runs, Drives(p, u), LedgerOf(u)
  PROVE  /\ IsFiniteSet(IssuedBy(u)) /\ Asked(u) \in Nat
         /\ Accounts(Remembered(u), ResultsOf(p), InHand(p))
         /\ loop[p].at # "enter" => ResultsOf(p) = loop[p].results
         /\ loop[p].at = "enter" => ResultsOf(p) = run[u].results
         /\ run[u].rewound \/ (loop[p].at # "enter" => Asked(u) <= loop[p].step)
         /\ run[u].rewound \/ Asked(u) <= MaxSteps
         /\ loop[p].step \in Nat
         /\ loop[p].results \in Seq(Requests)
         /\ run[u].status \in {"none", "RUNNING", "FAILED"}
<1>1. loop[p] \in Loop /\ loop[p].run = u BY DEF Drives, ARTypeOK
<1>2. IsFiniteSet(IssuedBy(u)) BY DEF LedgerOf, StepsOf
<1>3. Asked(u) \in Nat BY <1>2, FS_CardinalityType DEF Asked
<1>4. loop[p].step \in Nat /\ loop[p].results \in Seq(Requests)
  BY <1>1, MaxStepsAssumption DEF Loop
<1>5. /\ Accounts(Remembered(u), ResultsOf(p), InHand(p))
      /\ run[u].status \in {"none", "RUNNING", "FAILED"}
  BY DEF LedgerOf, AccountOf
<1>6. /\ loop[p].at # "enter" => ResultsOf(p) = loop[p].results
      /\ loop[p].at = "enter" => ResultsOf(p) = run[u].results
  BY <1>1 DEF ResultsOf
<1>7. /\ run[u].rewound \/ (loop[p].at # "enter" => Asked(u) <= loop[p].step)
      /\ run[u].rewound \/ Asked(u) <= MaxSteps
  BY DEF LedgerOf, StepsOf
<1> QED BY <1>2, <1>3, <1>4, <1>5, <1>6, <1>7

\* The turn in which the planner asks for a tool, or answers.
LEMMA LedgerPlan ==
  ASSUME ARInv, LedgerInv, NEW p \in Callers, Plan(p)
  PROVE  \A u \in Runs : LedgerOf(u)'
<1>1. /\ loop[p] # NoLoop /\ loop[p].at = "plan" /\ loop[p] \in Loop
      /\ loop[p].step < MaxSteps /\ UNCHANGED run
      /\ Solo /\ loop[p].run \in Runs \union {NoRun}
  BY DEF Plan, At, StepsLeft, ARInv, ARTypeOK, Solo, Loop
<1>2. PICK l \in {"answer", "ask", "tool"}, r \in Requests \union {NoRequest} :
        /\ loop' = [loop EXCEPT ![p].at = l, ![p].step = @ + 1, ![p].req = r]
        /\ l = "answer" => UNCHANGED issuer
        /\ l # "answer" => r \in Requests /\ Fresh(loop[p].run, r) /\ issuer' = [issuer EXCEPT ![r] = loop[p].run]
  BY DEF Plan
<1>3. /\ \A q \in Callers \ {p} : loop'[q] = loop[q]
      /\ loop'[p].at = l /\ loop'[p].run = loop[p].run /\ loop'[p].req = r
      /\ loop'[p].step = loop[p].step + 1
      /\ loop'[p].results = loop[p].results
  BY <1>1, <1>2 DEF ARInv, ARTypeOK, Loop
<1>4. issuer \in [Requests -> Runs \union {NoRun}] BY DEF ARInv, ARTypeOK
<1>5. ASSUME NEW u \in Runs, u # loop[p].run PROVE LedgerOf(u)'
  <2>1. IssuedBy(u)' = IssuedBy(u)
    <3>1. l # "answer" => issuer[r] = NoRun BY <1>2 DEF Fresh, LedgerInv, UnissuedOf
    <3>2. u # NoRun BY RunsAssumption
    <3> QED BY <1>2, <1>4, <1>5, <3>1, <3>2 DEF IssuedBy
  <2>2. ~Drives(p, u)' /\ ~Writes(p, u)' BY <1>3, <1>5 DEF Drives, Writes
  <2>3. run'[u] = run[u] /\ LedgerOf(u) BY <1>1 DEF LedgerInv
  <2> QED BY <1>3, <2>1, <2>2, <2>3, LedgerElsewhere
<1>6. ASSUME NEW v \in Runs, v = loop[p].run PROVE LedgerOf(v)'
  <2>1. Drives(p, v) /\ Writes(p, v) BY <1>1, <1>6 DEF Drives, Writes, TryLabel
  <2>2. LedgerOf(v) /\ ARTypeOK BY <1>6 DEF LedgerInv, ARInv
  <2>3. run[v].status # "none" BY <1>1, <1>6 DEF ARInv, LoopKnows
  <2>4. /\ IsFiniteSet(IssuedBy(v))
        /\ run[v].status \in {"RUNNING", "FAILED"}
        /\ Accounts(Remembered(v), loop[p].results, NoRequest)
        /\ run[v].rewound \/ Asked(v) <= loop[p].step
        /\ OwnResults(v, loop[p].results)
    <3>1. InHand(p) = NoRequest BY <1>1 DEF InHand
    <3>2. OwnResults(v, loop[p].results) BY <2>1, <2>2 DEF LedgerOf, AccountOf
    <3> QED BY <1>1, <2>1, <2>2, <2>3, <3>1, <3>2, LedgerHeld
  <2>5. /\ loop[p].step \in Nat /\ MaxSteps \in Nat /\ loop[p].results \in Seq(Requests)
        /\ Asked(v) \in Nat
    BY <1>1, <2>4, MaxStepsAssumption, FS_CardinalityType DEF Loop, Asked
  <2>6. ~Resuming(p, v)' /\ loop'[p].at # "enter" BY <1>3 DEF Resuming, At
  <2>7. ResultsOf(p)' = loop[p].results BY <1>3 DEF ResultsOf
  <2>8. CASE l = "answer"
    <3>1. IssuedBy(v)' = IssuedBy(v) BY <1>2, <2>8 DEF IssuedBy
    <3>2. Asked(v)' = Asked(v) /\ Remembered(v)' = Remembered(v)
      BY <1>1, <3>1 DEF Asked, Remembered
    <3>3. InHand(p)' = NoRequest BY <1>3, <2>8 DEF InHand
    <3>4. run[v].rewound \/ (Asked(v)' <= loop'[p].step /\ Asked(v)' <= MaxSteps)
      BY <1>1, <1>3, <2>4, <2>5, <3>2
    <3>5. OwnResults(v, loop[p].results)' BY <1>3, <2>4, <3>1, OwnResultsGrow
    <3> QED BY <1>1, <1>3, <1>6, <2>1, <2>2, <2>4, <2>6, <2>7, <3>1, <3>2, <3>3, <3>4, <3>5, LedgerDriven
  <2>9. CASE l # "answer"
    <3>1. r \in Requests /\ issuer[r] = NoRun BY <1>2, <2>9 DEF Fresh, LedgerInv, UnissuedOf
    <3>2. r \notin IssuedBy(v) BY <1>6, <3>1, RunsAssumption DEF IssuedBy
    <3>3. IssuedBy(v)' = IssuedBy(v) \union {r}
      BY <1>2, <1>4, <1>6, <2>9, <3>1 DEF IssuedBy
    <3>4. IsFiniteSet(IssuedBy(v)') BY <2>4, <3>3, FS_AddElement
    <3>5. Asked(v)' \in Nat BY <3>4, FS_CardinalityType DEF Asked
    <3>6. run[v].rewound \/ (Asked(v)' <= loop'[p].step /\ Asked(v)' <= MaxSteps)
      <4>1. Asked(v) <= loop[p].step => Asked(v)' <= loop[p].step + 1
        BY <2>4, <2>5, <3>3, OneMore DEF Asked
      <4> QED BY <1>1, <1>3, <2>4, <2>5, <3>5, <4>1
    <3>7. InHand(p)' = r BY <1>2, <1>3, <2>9 DEF InHand
    <3>8. Accounts(Remembered(v)', loop[p].results, r)
      <4>1. run[v].lost \subseteq IssuedBy(v) BY <2>2 DEF LedgerOf, AccountOf
      <4>2. r \notin Remembered(v) /\ Remembered(v)' = Remembered(v) \union {r}
        BY <1>1, <3>2, <3>3, <4>1 DEF Remembered
      <4> QED BY <2>4, <2>5, <3>1, <4>2, AccountsOpen
    <3>9. OwnResults(v, loop[p].results)' BY <1>3, <2>4, <3>3, OwnResultsGrow
    <3> QED BY <1>1, <1>3, <1>6, <2>1, <2>2, <2>4, <2>6, <2>7, <3>3, <3>4, <3>6, <3>7, <3>8, <3>9,
               LedgerDriven
  <2> QED BY <2>8, <2>9
<1> QED BY <1>1, <1>5, <1>6

\* A caller that drives nothing afterwards, and leaves the rows alone.
LEMMA LedgerLeft ==
  ASSUME NEW p \in Callers, \A q \in Callers \ {p} : loop'[q] = loop[q],
         UNCHANGED <<run, issuer>>, \A u \in Runs : LedgerOf(u),
         \A u \in Runs : ~Drives(p, u)',
         \A u \in Runs : Writes(p, u)' => Writes(p, u) /\ loop'[p].results = loop[p].results
  PROVE  \A u \in Runs : LedgerOf(u)'
<1> SUFFICES ASSUME NEW u \in Runs PROVE LedgerOf(u)'
  OBVIOUS
<1>1. run'[u] = run[u] /\ IssuedBy(u)' = IssuedBy(u) BY DEF IssuedBy
<1> QED BY <1>1, LedgerElsewhere

\* The driver writes its row.
LEMMA LedgerWrites ==
  ASSUME ARTypeOK, Solo, NEW p \in Callers, NEW u \in Runs, u = loop[p].run, Drives(p, u),
         \A v \in Runs : LedgerOf(v), UNCHANGED issuer,
         \A q \in Callers \ {p} : loop'[q] = loop[q],
         loop'[p].run = u, loop'[p].step = loop[p].step, loop[p].at # "enter",
         NEW status \in RunStatus \ {"none"}, NEW step \in Nat,
         NEW results, NEW waiting, UpdateRun(p, status, step, results, waiting),
         status = "WAITING_FOR_HUMAN" =>
           /\ waiting \in Requests
           /\ Accounts(Remembered(u), results, waiting)
           /\ loop[p].step + 1 <= step,
         status = "COMPLETED" => Accounts(Remembered(u), results, NoRequest),
         Drives(p, u)' =>
           /\ status = "RUNNING"
           /\ loop'[p].at \notin {"enter", "restart"}
           /\ Accounts(Remembered(u), loop'[p].results, InHand(p)'),
         Writes(p, u)' => OwnResults(u, loop'[p].results)
  PROVE  \A v \in Runs : LedgerOf(v)'
<1>1. /\ run'[u].status = status /\ run'[u].step = step
      /\ run'[u].results = results /\ run'[u].waiting = waiting
      /\ run'[u].lost = run[u].lost /\ run'[u].rewound = run[u].rewound
      /\ \A v \in Runs \ {u} : run'[v] = run[v]
  BY DEF UpdateRun, Written, ARTypeOK, RunRow
<1>2. \A v \in Runs : IssuedBy(v)' = IssuedBy(v) BY DEF IssuedBy
<1>3. Asked(u)' = Asked(u) /\ Remembered(u)' = Remembered(u)
  BY <1>1, <1>2 DEF Asked, Remembered
<1>4. LedgerOf(u)'
  <2>1. /\ IsFiniteSet(IssuedBy(u))
        /\ run[u].rewound \/ (Asked(u) <= loop[p].step /\ Asked(u) <= MaxSteps)
        /\ Asked(u) \in Nat /\ loop[p].step \in Nat
    BY LedgerHeld
  <2>2. ~Resuming(p, u)'
    BY DEF Resuming, At, Drives
  <2>3. run[u].rewound \/
          /\ Asked(u)' <= MaxSteps
          /\ status = "WAITING_FOR_HUMAN" => Asked(u)' + 1 <= run'[u].step
          /\ Asked(u)' <= loop'[p].step
    BY <1>1, <1>3, <2>1
  <2>4. Drives(p, u)' => ResultsOf(p)' = loop'[p].results BY DEF ResultsOf
  <2>5. Writes(p, u)' => OwnResults(u, loop[p].results)'
    BY <1>2, OwnResultsGrow
  <2> QED BY <1>1, <1>2, <1>3, <2>1, <2>2, <2>3, <2>4, <2>5, LedgerDriven
<1>5. ASSUME NEW v \in Runs \ {u} PROVE LedgerOf(v)'
  <2>1. ~Drives(p, v)' /\ ~Writes(p, v)' BY DEF Drives, Writes
  <2> QED BY <1>1, <1>2, <2>1, LedgerElsewhere
<1> QED BY <1>4, <1>5

\* The row of a loop that threw is marked FAILED, whoever drives the run now.
\* A handler that has yet to read the row will go on from the results of the
\* loop that threw; the requests these leave out are lost from then on.
LEMMA LedgerFails ==
  ASSUME ARTypeOK, Solo, NEW p \in Callers, \A v \in Runs : LedgerOf(v), UNCHANGED issuer,
         loop[p] # NoLoop, loop[p].at = "failed", Goes(p, "failTask"), MarkFailed(p)
  PROVE  \A v \in Runs : LedgerOf(v)'
<1> SUFFICES ASSUME NEW v \in Runs PROVE LedgerOf(v)'
  OBVIOUS
<1>1. (\A q \in Callers \ {p} : loop'[q] = loop[q]) /\ loop'[p].at = "failTask"
  BY GoesOn
<1>2. ~Drives(p, v)' /\ ~Writes(p, v)' BY <1>1 DEF Drives, Writes, TryLabel
<1>3. IssuedBy(v)' = IssuedBy(v) /\ Asked(v)' = Asked(v) BY DEF IssuedBy, Asked
<1>4. ASSUME NEW q \in Callers, Drives(q, v)'
      PROVE  Drives(q, v) /\ loop'[q] = loop[q] /\ InHand(q)' = InHand(q) /\ loop[q].run = v
  BY <1>1, <1>2, <1>4 DEF Drives, InHand
<1>5. CASE v # loop[p].run
  <2>1. run'[v] = run[v] BY <1>5 DEF MarkFailed, ARTypeOK
  <2> QED BY <1>1, <1>2, <1>3, <2>1, LedgerElsewhere
<1>6. CASE v = loop[p].run
  <2> DEFINE res == loop[p].results
             s   == loop[p].step
             row == Written(run[v], "FAILED", s, res, NoRequest)
  <2>1. loop[p] \in Loop /\ run[v] \in RunRow /\ s \in Nat /\ res \in Seq(Requests)
    BY MaxStepsAssumption DEF ARTypeOK, Loop
  <2>2. /\ run'[v].status = "FAILED" /\ run'[v].step = s /\ run'[v].results = res
        /\ run'[v].lost = LostBy(p) /\ run'[v].rewound = RewoundBy(p)
    <3>1. row \in RunRow /\ row.status = "FAILED" /\ row.step = s /\ row.results = res
      BY <2>1 DEF RunRow, Written, Loop
    <3>2. run' = [run EXCEPT ![v] = [row EXCEPT !.lost = LostBy(p), !.rewound = RewoundBy(p)]]
      BY <1>6 DEF MarkFailed
    <3> HIDE DEF row, res, s
    <3> QED BY <3>1, <3>2 DEF RunRow, ARTypeOK
  <2>3. Writes(p, v) /\ OwnResults(v, res)
    BY <1>6 DEF Writes, LedgerOf, AccountOf
  <2>4. ASSUME \E q \in Callers : At(q, "enter") /\ loop[q].run = v
        PROVE  /\ run'[v].lost \subseteq IssuedBy(v)'
               /\ \A q \in Callers :
                    Drives(q, v)' => Accounts(Remembered(v)', ResultsOf(q)', InHand(q)')
    <3>1. PICK d \in Callers : At(d, "enter") /\ loop[d].run = v BY <2>4
    <3>2. LostBy(p) = Untold(v, res) BY <1>6, <3>1 DEF LostBy
    <3>3. Remembered(v)' = {r \in IssuedBy(v) : Listed(res, r)}
      BY <1>3, <2>2, <3>2 DEF Remembered, Untold
    <3>4. Accounts(Remembered(v)', res, NoRequest)
      <4>1. NoRequest \notin Requests BY RunsAssumption
      <4>2. \A r \in Requests : Listed(res, r) => r \in IssuedBy(v)
        BY <2>3 DEF OwnResults, Listed
      <4>3. ~Listed(res, NoRequest) BY <2>1, <4>1, ListedRequests
      <4>4. \A r \in Requests : r \in Remembered(v)' <=> r = NoRequest \/ Listed(res, r)
        BY <3>3, <4>1, <4>2
      <4> QED BY <2>3, <4>3, <4>4 DEF Accounts, OwnResults
    <3>5. ASSUME NEW q \in Callers, Drives(q, v)'
          PROVE  Accounts(Remembered(v)', ResultsOf(q)', InHand(q)')
      <4>1. Drives(d, v) BY <3>1 DEF At, Drives
      <4>2. q = d BY <1>4, <3>5, <4>1 DEF Solo, DrivesAlone
      <4>3. loop'[q].at = "enter" /\ loop'[q].run = v BY <1>4, <3>1, <3>5, <4>2 DEF At
      <4>4. ResultsOf(q)' = res /\ InHand(q)' = NoRequest BY <2>2, <4>3 DEF ResultsOf, InHand
      <4> QED BY <3>4, <4>4
    <3>6. run'[v].lost \subseteq IssuedBy(v)' BY <1>3, <2>2, <3>2 DEF Untold
    <3> QED BY <3>5, <3>6
  <2>5. ASSUME ~\E q \in Callers : At(q, "enter") /\ loop[q].run = v
        PROVE  /\ run'[v].lost \subseteq IssuedBy(v)'
               /\ \A q \in Callers :
                    Drives(q, v)' => Accounts(Remembered(v)', ResultsOf(q)', InHand(q)')
    <3>1. LostBy(p) = run[v].lost BY <1>6, <2>5 DEF LostBy
    <3>2. Remembered(v)' = Remembered(v) BY <1>3, <2>2, <3>1 DEF Remembered
    <3>3. ASSUME NEW q \in Callers, Drives(q, v)'
          PROVE  Accounts(Remembered(v)', ResultsOf(q)', InHand(q)')
      <4>1. Drives(q, v) /\ loop'[q] = loop[q] /\ loop[q].at # "enter"
        BY <1>4, <2>5, <3>3 DEF Drives, At
      <4>2. ResultsOf(q)' = ResultsOf(q) BY <4>1 DEF ResultsOf
      <4> QED BY <1>4, <3>2, <3>3, <4>1, <4>2 DEF LedgerOf, AccountOf
    <3>4. run'[v].lost \subseteq IssuedBy(v)' BY <1>3, <2>2, <3>1 DEF LedgerOf, AccountOf
    <3> QED BY <3>3, <3>4
  <2>6. /\ run'[v].lost \subseteq IssuedBy(v)'
        /\ \A q \in Callers : Drives(q, v)' => Accounts(Remembered(v)', ResultsOf(q)', InHand(q)')
    BY <2>4, <2>5
  <2>7. ASSUME NEW q \in Callers, Writes(q, v)' PROVE OwnResults(v, loop[q].results)'
    <3>1. loop'[q] = loop[q] /\ Writes(q, v) BY <1>1, <1>2, <2>7 DEF Writes
    <3>2. OwnResults(v, loop[q].results) BY <3>1 DEF LedgerOf, AccountOf
    <3> QED BY <1>3, <3>1, <3>2, OwnResultsGrow
  <2>8. AccountOf(v)' BY <2>2, <2>6, <2>7 DEF AccountOf
  <2>9. StepsOf(v)'
    <3>1. IsFiniteSet(IssuedBy(v)') BY <1>3 DEF LedgerOf, StepsOf
    <3>2. CASE run'[v].rewound BY <3>1, <3>2 DEF StepsOf
    <3>3. CASE ~run'[v].rewound
      <4>1. /\ ~run[v].rewound
            /\ \A q \in Callers : Resuming(q, v) => ~(s + 1 < loop[q].step)
        BY <1>6, <2>2, <3>3 DEF RewoundBy
      <4>2. ASSUME NEW q \in Callers, Drives(q, v)', loop'[q].at # "enter"
            PROVE  Asked(v)' <= loop'[q].step
        BY <1>3, <1>4, <4>1, <4>2 DEF LedgerOf, StepsOf
      <4>3. ASSUME NEW q \in Callers, Resuming(q, v)'
            PROVE  Asked(v)' + 1 <= loop'[q].step /\ Asked(v)' <= run'[v].step
        <5>1. Drives(q, v)' BY <4>3 DEF Resuming, At, Drives
        <5>2. loop'[q] = loop[q] /\ Resuming(q, v) BY <1>4, <4>3, <5>1 DEF Resuming, At
        <5>3. Asked(v) + 1 <= loop[q].step BY <4>1, <5>2 DEF LedgerOf, StepsOf
        <5>4. loop[q] \in Loop BY <5>2 DEF Resuming, At, ARTypeOK
        <5>5. loop[q].step \in Nat BY <5>4, MaxStepsAssumption DEF Loop
        <5>6. Asked(v) \in Nat BY <1>3, <3>1, FS_CardinalityType DEF Asked
        <5> QED BY <1>3, <2>1, <2>2, <4>1, <5>2, <5>3, <5>5, <5>6
      <4>4. Asked(v)' <= MaxSteps BY <1>3, <4>1 DEF LedgerOf, StepsOf
      <4> QED BY <2>2, <3>1, <4>2, <4>3, <4>4 DEF StepsOf
    <3> QED BY <3>2, <3>3
  <2> QED BY <2>8, <2>9 DEF LedgerOf
<1> QED BY <1>5, <1>6

\* The resumed loop takes its step and its results from the row.
LEMMA LedgerEnters ==
  ASSUME ARInv, LedgerInv, NEW p \in Callers, EnterLoop(p)
  PROVE  \A u \in Runs : LedgerOf(u)'
<1>1. /\ ARTypeOK /\ Solo /\ loop[p] # NoLoop /\ loop[p].at = "enter" /\ loop[p] \in Loop
      /\ UNCHANGED <<run, issuer>> /\ \A u \in Runs : LedgerOf(u)
  BY DEF EnterLoop, At, ARInv, ARTypeOK, Solo, LedgerInv
<1>2. PICK u \in Runs : u = loop[p].run BY <1>1 DEF Solo, LoopKnows
<1>3. /\ \A q \in Callers \ {p} : loop'[q] = loop[q]
      /\ loop'[p].at = "plan" /\ loop'[p].run = u
      /\ loop'[p].step = run[u].step /\ loop'[p].results = run[u].results
  BY <1>1, <1>2 DEF EnterLoop, ARTypeOK, Loop
<1>4. \A v \in Runs : IssuedBy(v)' = IssuedBy(v) BY <1>1 DEF IssuedBy
<1>5. Drives(p, u) /\ Resuming(p, u) BY <1>1, <1>2 DEF Drives, Resuming, At
<1>6. LedgerOf(u)'
  <2>1. LedgerOf(u) /\ run[u].results \in Seq(Requests) BY <1>1 DEF ARTypeOK, RunRow
  <2>2. /\ IsFiniteSet(IssuedBy(u)) /\ run[u].status # "none"
        /\ run[u].status \in {"RUNNING", "FAILED"}
        /\ Accounts(Remembered(u), run[u].results, NoRequest)
        /\ run[u].rewound \/ Asked(u) <= MaxSteps
    <3>1. InHand(p) = NoRequest BY <1>1 DEF InHand
    <3>2. run[u].status # "none" BY <1>1, <1>2 DEF Solo, LoopKnows
    <3> QED BY <1>1, <1>5, <2>1, <3>1, <3>2, LedgerHeld
  <2>3. OwnResults(u, run[u].results) BY <2>1, <2>2, AccountsOwn
  <2>4. OwnResults(u, loop[p].results)' BY <1>3, <1>4, <2>3, OwnResultsGrow
  <2>5. Remembered(u)' = Remembered(u) /\ Asked(u)' = Asked(u)
    BY <1>1, <1>4 DEF Remembered, Asked
  <2>6. ResultsOf(p)' = run[u].results /\ InHand(p)' = NoRequest BY <1>3 DEF ResultsOf, InHand
  <2>7. ~Resuming(p, u)' BY <1>3 DEF Resuming, At
  <2>8. run[u].rewound \/ Asked(u) <= run[u].step BY <1>5, <2>1 DEF LedgerOf, StepsOf
  <2> QED BY <1>1, <1>3, <1>4, <1>5, <2>1, <2>2, <2>4, <2>5, <2>6, <2>7, <2>8, LedgerDriven
<1>7. ASSUME NEW v \in Runs \ {u} PROVE LedgerOf(v)'
  <2>1. ~Drives(p, v)' /\ ~Writes(p, v)' BY <1>3 DEF Drives, Writes
  <2> QED BY <1>1, <1>3, <1>4, <2>1, LedgerElsewhere
<1> QED BY <1>6, <1>7

LEMMA LedgerLoop ==
  ASSUME ARInv, LedgerInv, NEW p \in Callers, RunLoop(p)
  PROVE  \A u \in Runs : LedgerOf(u)'
<1>1. /\ ARTypeOK /\ Solo /\ \A u \in Runs : LedgerOf(u)
      /\ \A u \in Runs : DrivesAlone(u)
  BY DEF ARInv, Solo, LedgerInv
<1>2. /\ loop[p] # NoLoop /\ loop[p] \in Loop /\ LoopKnows(p)
      /\ loop[p].step \in Nat /\ loop[p].results \in Seq(Requests)
  <2>1. loop[p] # NoLoop
    BY DEF RunLoop, EnterLoop, Plan, PlanExhausted, CompleteRun, LimitRun, CloseTask, AskHuman,
       PauseRun, PauseTask, RunTool, FinishTool, RecordResult, LoopThrows,
       FailRun, FailTask, At
  <2> QED BY <1>1, <2>1, MaxStepsAssumption DEF ARTypeOK, Solo, Loop
<1>3. CASE Plan(p) BY <1>3, LedgerPlan
<1>4. CASE \/ PlanExhausted(p) \/ CloseTask(p) \/ AskHuman(p) \/ PauseTask(p)
           \/ RunTool(p) \/ FinishTool(p) \/ FailTask(p)
  <2>1. UNCHANGED <<run, issuer>>
    BY <1>4 DEF PlanExhausted, CloseTask, AskHuman, PauseTask, RunTool, FinishTool, FailTask
  <2>2. PICK l \in LoopLabel, reply \in Reply :
          /\ Goes(p, l) \/ Returns(p, l, reply)
          /\ \/ l = "returned"
             \/ l = "failTask"
             \/ l = "failed" /\ loop[p].at \in {"closeTask", "pauseTask", "tool"}
             \/ l = "limit" /\ loop[p].at = "plan"
             \/ l = "pause" /\ loop[p].at = "ask"
             \/ l = "finish" /\ loop[p].at = "tool"
             \/ l = "record" /\ loop[p].at = "finish"
    BY <1>4 DEF PlanExhausted, CloseTask, AskHuman, PauseTask, RunTool, FinishTool, FailTask, At
  <2>3. loop'[p].at = l /\ loop'[p].run = loop[p].run /\ loop'[p].req = loop[p].req
    BY <1>1, <1>2, <2>2, GoesOn
  <2>4. Drives(p, loop[p].run)' =>
          Drives(p, loop[p].run) /\ InHand(p)' = InHand(p) /\ loop[p].at # "enter"
    BY <1>2, <2>2, <2>3 DEF Drives, InHand
  <2>5. /\ l \notin {"enter", "restart"}
        /\ l \in TryLabel \union {"failed"} => loop[p].at \in TryLabel
    BY <2>2 DEF TryLabel
  <2> QED BY <1>1, <1>2, <2>1, <2>2, <2>4, <2>5, LedgerGoer
<1>5. CASE CompleteRun(p) \/ LimitRun(p) \/ PauseRun(p)
  <2>1. /\ UNCHANGED issuer
        /\ loop[p].at \in {"answer", "limit", "pause"}
        /\ \/ /\ loop[p].at = "answer"
              /\ UpdateRun(p, "COMPLETED", loop[p].step, loop[p].results, NoRequest)
           \/ /\ loop[p].at = "limit"
              /\ UpdateRun(p, "STEP_LIMIT_REACHED", loop[p].step, loop[p].results, NoRequest)
           \/ /\ loop[p].at = "pause"
              /\ UpdateRun(p, "WAITING_FOR_HUMAN", loop[p].step + 1, loop[p].results, loop[p].req)
    BY <1>5 DEF CompleteRun, LimitRun, PauseRun, At
  <2>2. PICK l \in {"closeTask", "pauseTask"}, reply \in Reply :
          Goes(p, l) \/ Returns(p, l, reply)
    BY <1>5 DEF CompleteRun, LimitRun, PauseRun
  <2>3. /\ \A q \in Callers \ {p} : loop'[q] = loop[q]
        /\ loop'[p].at = l /\ loop'[p].run = loop[p].run
        /\ loop'[p].step = loop[p].step /\ loop'[p].results = loop[p].results
    BY <1>1, <1>2, <2>2, GoesOn
  <2>4. \A u \in Runs : ~Drives(p, u)' BY <2>3 DEF Drives
  <2>5. CASE loop[p].run \notin Runs
    <3>1. UNCHANGED run BY <1>1, <2>1, <2>5 DEF UpdateRun, ARTypeOK
    <3>2. \A u \in Runs : ~Writes(p, u)' BY <2>3, <2>5 DEF Writes
    <3> QED BY <1>1, <2>1, <2>3, <2>4, <3>1, <3>2, LedgerLeft
  <2>6. CASE loop[p].run \in Runs
    <3>1. PICK u \in Runs : u = loop[p].run BY <2>6
    <3>2. Drives(p, u) /\ loop[p].at # "enter" BY <1>2, <2>1, <3>1 DEF Drives
    <3>3. /\ loop[p].at = "answer" => Accounts(Remembered(u), loop[p].results, NoRequest)
          /\ loop[p].at = "pause" =>
               loop[p].req \in Requests /\ Accounts(Remembered(u), loop[p].results, loop[p].req)
      BY <1>1, <1>2, <3>2, LedgerHeld DEF InHand, LoopKnows, Holding
    <3>4. loop[p].step + 1 <= loop[p].step + 1 /\ loop[p].step + 1 \in Nat BY <1>2
    <3>5. ~Drives(p, u)' /\ loop'[p].run = u BY <2>3, <2>4, <3>1
    <3>6. OwnResults(u, loop'[p].results)
      <4>1. Writes(p, u) BY <1>2, <2>1, <3>1 DEF Writes, TryLabel
      <4> QED BY <1>1, <2>3, <4>1 DEF LedgerOf, AccountOf
    <3>7. CASE loop[p].at = "answer"
      <4>1. UpdateRun(p, "COMPLETED", loop[p].step, loop[p].results, NoRequest) BY <2>1, <3>7
      <4> QED BY <1>1, <1>2, <2>1, <2>3, <3>1, <3>2, <3>3, <3>5, <3>6, <3>7, <4>1, LedgerWrites
    <3>8. CASE loop[p].at = "limit"
      <4>1. UpdateRun(p, "STEP_LIMIT_REACHED", loop[p].step, loop[p].results, NoRequest) BY <2>1, <3>8
      <4> QED BY <1>1, <1>2, <2>1, <2>3, <3>1, <3>2, <3>5, <3>6, <3>8, <4>1, LedgerWrites
    <3>9. CASE loop[p].at = "pause"
      <4>1. UpdateRun(p, "WAITING_FOR_HUMAN", loop[p].step + 1, loop[p].results, loop[p].req) BY <2>1, <3>9
      <4> QED BY <1>1, <1>2, <2>1, <2>3, <3>1, <3>2, <3>3, <3>4, <3>5, <3>6, <3>9, <4>1, LedgerWrites
    <3> QED BY <2>1, <3>7, <3>8, <3>9
  <2> QED BY <2>5, <2>6
<1>6. CASE RecordResult(p)
  <2> DEFINE results == Append(loop[p].results, loop[p].req)
  <2>1. /\ loop[p].at = "record" /\ UNCHANGED issuer
        /\ UpdateRun(p, "RUNNING", loop[p].step, results, NoRequest)
        /\ loop' = [loop EXCEPT ![p].at = "plan", ![p].results = results]
    BY <1>6 DEF RecordResult, At
  <2>2. loop[p].req \in Requests BY <1>2, <2>1 DEF LoopKnows, Holding
  <2>3. /\ \A q \in Callers \ {p} : loop'[q] = loop[q]
        /\ loop'[p].at = "plan" /\ loop'[p].run = loop[p].run
        /\ loop'[p].step = loop[p].step /\ loop'[p].results = results
    <3> HIDE DEF results
    <3> QED BY <1>1, <1>2, <2>1 DEF ARTypeOK, Loop
  <2>4. InHand(p)' = NoRequest /\ InHand(p) = loop[p].req BY <2>1, <2>3 DEF InHand
  <2>5. CASE loop[p].run \notin Runs
    <3>1. UNCHANGED run BY <1>1, <2>1, <2>5 DEF UpdateRun, ARTypeOK
    <3>2. \A u \in Runs : ~Drives(p, u)' /\ ~Writes(p, u)' BY <2>3, <2>5 DEF Drives, Writes
    <3> QED BY <1>1, <2>1, <2>3, <3>1, <3>2, LedgerLeft
  <2>6. CASE loop[p].run \in Runs
    <3>1. PICK u \in Runs : u = loop[p].run BY <2>6
    <3>2. Drives(p, u) BY <1>2, <2>1, <3>1 DEF Drives
    <3>3. Accounts(Remembered(u), results, NoRequest)
      BY <1>1, <1>2, <2>1, <2>2, <2>4, <3>2, LedgerHeld, AccountsAppend
    <3>4. results \in Seq(Requests) BY <1>2, <2>2
    <3> HIDE DEF results
    <3>5. OwnResults(u, results) BY <3>3, <3>4, AccountsOwn
    <3> QED BY <1>1, <1>2, <2>1, <2>3, <2>4, <3>1, <3>2, <3>3, <3>5, LedgerWrites
  <2> QED BY <2>5, <2>6
<1>7. CASE LoopThrows(p)
  <2>1. /\ UNCHANGED <<run, issuer>> /\ loop[p].at \in TryLabel
        /\ \/ Goes(p, "failed")
           \/ /\ loop[p].at = "record"
              /\ loop' = [loop EXCEPT ![p].at = "failed", ![p].results = Append(@, loop[p].req)]
    BY <1>7 DEF LoopThrows
  <2>2. CASE Goes(p, "failed")
    <3>1. loop'[p].at = "failed" BY <1>1, <1>2, <2>2, GoesOn
    <3>2. ~Drives(p, loop[p].run)' BY <3>1 DEF Drives
    <3>3. "failed" \in LoopLabel /\ "failed" \notin {"enter", "restart"} /\ "none" \in Reply
      BY DEF LoopLabel, Reply
    <3> QED BY <1>1, <1>2, <2>1, <2>2, <3>2, <3>3, LedgerGoer
  <2>3. CASE ~Goes(p, "failed")
    <3> DEFINE results == Append(loop[p].results, loop[p].req)
    <3>1. loop[p].at = "record" /\ loop' = [loop EXCEPT ![p].at = "failed", ![p].results = results]
      BY <2>1, <2>3
    <3>2. loop[p].req \in Requests BY <1>2, <3>1 DEF LoopKnows, Holding
    <3>3. results \in Seq(Requests) BY <1>2, <3>2
    <3>4. InHand(p) = loop[p].req BY <3>1 DEF InHand
    <3>5. ASSUME NEW u \in Runs, u = loop[p].run PROVE OwnResults(u, results)
      <4>1. Drives(p, u) BY <1>2, <3>1, <3>5 DEF Drives
      <4>2. Accounts(Remembered(u), results, NoRequest)
        BY <1>1, <1>2, <3>1, <3>2, <3>4, <4>1, LedgerHeld, AccountsAppend
      <4> HIDE DEF results
      <4> QED BY <3>3, <4>2, AccountsOwn
    <3> HIDE DEF results
    <3>6. /\ \A q \in Callers \ {p} : loop'[q] = loop[q]
          /\ loop'[p].at = "failed" /\ loop'[p].run = loop[p].run /\ loop'[p].results = results
      BY <1>1, <1>2, <3>1 DEF ARTypeOK, Loop
    <3>7. \A u \in Runs : ~Drives(p, u)' BY <3>6 DEF Drives
    <3>8. ASSUME NEW u \in Runs PROVE LedgerOf(u)'
      <4>1. run'[u] = run[u] /\ IssuedBy(u)' = IssuedBy(u) BY <2>1 DEF IssuedBy
      <4>2. CASE u # loop[p].run
        <5>1. ~Writes(p, u)' BY <3>6, <4>2 DEF Writes
        <5> QED BY <1>1, <3>6, <3>7, <4>1, <5>1, LedgerElsewhere
      <4>3. CASE u = loop[p].run
        <5>1. Drives(p, u) BY <1>2, <3>1, <4>3 DEF Drives
        <5>2. IsFiniteSet(IssuedBy(u)) /\ run[u].status \in {"none", "RUNNING", "FAILED"}
              /\ (run[u].rewound \/ Asked(u) <= MaxSteps)
          BY <1>1, <5>1, LedgerHeld
        <5>3. run[u].status # "none" BY <1>2, <3>1, <4>3 DEF LoopKnows
        <5>4. OwnResults(u, loop[p].results)' BY <3>5, <3>6, <4>1, <4>3, OwnResultsGrow
        <5>5. Asked(u)' = Asked(u) BY <4>1 DEF Asked
        <5>6. ~Resuming(p, u)' BY <3>6 DEF Resuming, At
        <5> QED BY <1>1, <3>6, <3>7, <4>1, <5>1, <5>2, <5>3, <5>4, <5>5, <5>6, LedgerDriven
      <4> QED BY <4>2, <4>3
    <3> QED BY <3>8
  <2> QED BY <2>2, <2>3
<1>8. CASE FailRun(p)
  <2>1. /\ UNCHANGED issuer /\ Goes(p, "failTask") /\ loop[p].at = "failed"
        /\ UNCHANGED run \/ MarkFailed(p)
    BY <1>8 DEF FailRun, At
  <2>2. CASE UNCHANGED run
    <3>1. (\A q \in Callers \ {p} : loop'[q] = loop[q]) /\ loop'[p].at = "failTask"
      BY <1>1, <1>2, <2>1, GoesOn
    <3>2. \A u \in Runs : ~Drives(p, u)' /\ ~Writes(p, u)' BY <3>1 DEF Drives, Writes, TryLabel
    <3> QED BY <1>1, <2>1, <2>2, <3>1, <3>2, LedgerLeft
  <2>3. CASE ~UNCHANGED run BY <1>1, <1>2, <2>1, <2>3, LedgerFails
  <2> QED BY <2>2, <2>3
<1>9. CASE EnterLoop(p) BY <1>9, LedgerEnters
<1> QED BY <1>3, <1>4, <1>5, <1>6, <1>7, <1>8, <1>9 DEF RunLoop


LEMMA LedgerCaller ==
  ASSUME ARInv, LedgerInv, NEW p \in Runs, Act(p) \/ CreateRun(p) \/ ActReturns(p)
  PROVE  \A u \in Runs : LedgerOf(u)'
<1>1. /\ ARTypeOK /\ Solo /\ \A u \in Runs : LedgerOf(u)
      /\ p \in Callers /\ UNCHANGED issuer
  BY DEF ARInv, Solo, LedgerInv, Callers, Act, CreateRun, ActReturns
<1>2. CASE Act(p)
  <2> DEFINE new == [at |-> "create", run |-> p, step |-> 0, results |-> << >>,
                     req |-> NoRequest, reply |-> "none"]
  <2>1. run[p].status = "none" /\ UNCHANGED run /\ loop' = [loop EXCEPT ![p] = new]
    BY <1>2 DEF Act
  <2>2. (\A q \in Callers \ {p} : loop'[q] = loop[q]) /\ loop'[p] = new
    BY <1>1, <2>1 DEF ARTypeOK
  <2>3. IssuedBy(p) = {} /\ AccountOf(p) BY <1>1, <2>1 DEF LedgerOf, AccountOf
  <2>4. Asked(p) = 0 /\ Remembered(p) = {} BY <2>3, FS_EmptySet DEF Asked, Remembered
  <2>5. \A u \in Runs : /\ IssuedBy(u)' = IssuedBy(u) /\ Asked(u)' = Asked(u)
                        /\ Remembered(u)' = Remembered(u)
    BY <1>1, <2>1 DEF IssuedBy, Asked, Remembered
  <2>6. Accounts(Remembered(p), << >>, NoRequest)
    <3>1. NoRequest \notin Requests BY RunsAssumption
    <3> QED BY <2>4, <3>1, ListedEmpty DEF Accounts
  <2>7. \A u \in Runs : ~Writes(p, u)' BY <2>2 DEF Writes, TryLabel
  <2>8. LedgerOf(p)'
    <3>1. ASSUME NEW q \in Callers, Drives(q, p)' PROVE q = p
      BY <1>1, <2>1, <2>2, <3>1 DEF Solo, LoopKnows, Drives
    <3>2. InHand(p)' = NoRequest /\ ResultsOf(p)' = << >> BY <2>2 DEF InHand, ResultsOf
    <3>3. loop'[p].step = 0 /\ ~Resuming(p, p)' BY <2>2 DEF Resuming, At
    <3>4. ASSUME NEW q \in Callers, Writes(q, p)' PROVE FALSE
      BY <1>1, <2>1, <2>2, <2>7, <3>4 DEF Solo, LoopKnows, Writes, TryLabel, Drives, LedgerOf, AccountOf, OwnResults
    <3>5. AccountOf(p)'
      BY <2>1, <2>3, <2>5, <2>6, <3>1, <3>2, <3>4 DEF AccountOf
    <3>6. ASSUME NEW q \in Callers, Resuming(q, p)' PROVE FALSE
      <4>1. Drives(q, p)' BY <3>6 DEF Resuming, At, Drives
      <4> QED BY <3>1, <3>3, <3>6, <4>1
    <3>7. StepsOf(p)'
      <4>1. IsFiniteSet(IssuedBy(p)') BY <2>3, <2>5, FS_EmptySet
      <4>2. 0 <= 0 /\ 0 <= MaxSteps BY MaxStepsAssumption
      <4> QED BY <2>1, <2>4, <2>5, <3>1, <3>3, <3>6, <4>1, <4>2 DEF StepsOf
    <3> QED BY <3>5, <3>7 DEF LedgerOf
  <2>9. ASSUME NEW u \in Runs, u # p PROVE LedgerOf(u)'
    <3>1. ~Drives(p, u)' BY <2>2, <2>9 DEF Drives
    <3> QED BY <1>1, <2>1, <2>2, <2>5, <2>7, <3>1, LedgerElsewhere
  <2> QED BY <2>8, <2>9
<1>3. CASE CreateRun(p)
  <2>1. /\ loop[p] # NoLoop /\ loop[p].at = "create" /\ loop[p].run = p
        /\ UpdateRun(p, "RUNNING", 0, << >>, NoRequest) /\ Goes(p, "plan")
    BY <1>1, <1>3 DEF CreateRun, At, Solo, LoopKnows
  <2>2. run[p].status = "none" BY <1>1, <2>1 DEF Solo, LoopKnows
  <2>3. /\ \A q \in Callers \ {p} : loop'[q] = loop[q]
        /\ loop'[p].at = "plan" /\ loop'[p].run = p
        /\ loop'[p].step = loop[p].step /\ loop'[p].results = loop[p].results
    BY <1>1, <2>1, GoesOn
  <2>4. Drives(p, p) BY <2>1 DEF Drives
  <2>5. InHand(p) = NoRequest /\ InHand(p)' = NoRequest BY <2>1, <2>3 DEF InHand
  <2>6. /\ Accounts(Remembered(p), loop[p].results, NoRequest)
        /\ loop[p].results \in Seq(Requests)
    BY <1>1, <2>1, <2>4, <2>5, LedgerHeld
  <2>7. 0 \in Nat OBVIOUS
  <2>8. OwnResults(p, loop'[p].results) BY <2>3, <2>6, AccountsOwn
  <2> QED BY <1>1, <2>1, <2>3, <2>4, <2>5, <2>6, <2>7, <2>8, LedgerWrites
<1>4. CASE ActReturns(p)
  <2>1. loop[p] # NoLoop /\ UNCHANGED run /\ (Quits(p) \/ Goes(p, "respond"))
    BY <1>4 DEF ActReturns, At
  <2>2. /\ \A q \in Callers \ {p} : loop'[q] = loop[q]
        /\ loop'[p] = NoLoop \/ loop'[p].at = "respond"
    BY <1>1, <2>1, GoesOn, QuitsOn
  <2>3. \A u \in Runs : ~Drives(p, u)' /\ ~Writes(p, u)' BY <2>2 DEF Drives, Writes, TryLabel
  <2> QED BY <1>1, <2>1, <2>2, <2>3, LedgerLeft
<1> QED BY <1>2, <1>3, <1>4

LEMMA LedgerAnswer ==
  ASSUME ARInv, LedgerInv, NEW p \in Callers, AnswerTask(p) \/ Stop(p)
  PROVE  \A u \in Runs : LedgerOf(u)'
<1>1. ARTypeOK /\ \A u \in Runs : LedgerOf(u) BY DEF ARInv, LedgerInv
<1>2. /\ loop[p] # NoLoop /\ UNCHANGED <<run, issuer>>
      /\ Quits(p) \/ Goes(p, "message") \/ Goes(p, "finishResponse")
  BY DEF AnswerTask, RespondTask, PostResponse, FinishResponse, Stop, At, Done
<1>3. /\ \A q \in Callers \ {p} : loop'[q] = loop[q]
      /\ loop'[p] = NoLoop \/ loop'[p].at \in {"message", "finishResponse"}
  BY <1>1, <1>2, GoesOn, QuitsOn
<1>4. \A u \in Runs : ~Drives(p, u)' /\ ~Writes(p, u)' BY <1>3 DEF Drives, Writes, TryLabel
<1> QED BY <1>1, <1>2, <1>3, <1>4, LedgerLeft

\* The decision handler that claims a paused run takes over its account, with
\* the outcome of the request the run waited for.
LEMMA LedgerClaim ==
  ASSUME ARInv, LedgerInv, NEW d \in Deciders, ClaimWaiting(d)
  PROVE  \A u \in Runs : LedgerOf(u)'
<1>1. /\ ARTypeOK /\ Solo /\ d \in Callers /\ UNCHANGED issuer
      /\ \A u \in Runs : LedgerOf(u)
  BY DEF ARInv, Solo, LedgerInv, Callers, ClaimWaiting
<1>2. /\ loop[d] # NoLoop /\ loop[d].at = "claim" /\ loop[d].run \in Runs
      /\ loop[d] \in Loop /\ loop[d].req \in Requests
  BY <1>1 DEF ClaimWaiting, At, Solo, LoopKnows, Holding, ARTypeOK
<1>3. CASE ~Claimable(loop[d].run, loop[d].req)
  <2>1. Goes(d, "settle") /\ UNCHANGED run BY <1>3 DEF ClaimWaiting
  <2>2. (\A q \in Callers \ {d} : loop'[q] = loop[q]) /\ loop'[d].at = "settle"
    BY <1>1, <1>2, <2>1, GoesOn
  <2>3. \A u \in Runs : ~Drives(d, u)' /\ ~Writes(d, u)' BY <2>2 DEF Drives, Writes, TryLabel
  <2> QED BY <1>1, <2>1, <2>2, <2>3, LedgerLeft
<1>4. CASE Claimable(loop[d].run, loop[d].req)
  <2>1. PICK u \in Runs : u = loop[d].run BY <1>2
  <2>2. /\ run[u].status = "WAITING_FOR_HUMAN" /\ run[u].waiting = loop[d].req
        /\ run[u] \in RunRow /\ run[u].results \in Seq(Requests)
    BY <1>1, <1>4, <2>1 DEF Claimable, WaitingOn, ARTypeOK, RunRow
  <2> DEFINE results == Append(run[u].results, loop[d].req)
  <2>3. PICK l \in {"restart", "decline"} :
          /\ run' = [run EXCEPT ![u].status = "RUNNING", ![u].waiting = NoRequest]
          /\ loop' = [loop EXCEPT ![d] =
               [@ EXCEPT !.at = l, !.step = run[u].step, !.results = results]]
    BY <1>4, <2>1 DEF ClaimWaiting
  <2>4. /\ run'[u].status = "RUNNING" /\ run'[u].step = run[u].step
        /\ run'[u].lost = run[u].lost /\ run'[u].rewound = run[u].rewound
        /\ \A v \in Runs \ {u} : run'[v] = run[v]
    BY <1>1, <2>2, <2>3 DEF ARTypeOK, RunRow
  <2>5. Accounts(Remembered(u), results, NoRequest)
    BY <1>1, <1>2, <2>2, AccountsAppend DEF LedgerOf, AccountOf
  <2> HIDE DEF results
  <2>6. /\ \A q \in Callers \ {d} : loop'[q] = loop[q]
        /\ loop'[d].at = l /\ loop'[d].run = u
        /\ loop'[d].step = run[u].step /\ loop'[d].results = results
    BY <1>1, <1>2, <2>1, <2>3 DEF ARTypeOK, Loop
  <2>7. \A v \in Runs : IssuedBy(v)' = IssuedBy(v) /\ Asked(v)' = Asked(v)
    BY <1>1 DEF IssuedBy, Asked
  <2>8. \A v \in Runs : ~Writes(d, v)' BY <2>6 DEF Writes, TryLabel
  <2>9. LedgerOf(u)'
    <3>1. ASSUME NEW q \in Callers, Drives(q, u)' PROVE q = d
      <4>1. ~Drives(q, u) BY <1>1, <2>2 DEF Solo, DrivesAlone
      <4> QED BY <2>6, <3>1, <4>1 DEF Drives
    <3>2. InHand(d)' = NoRequest /\ ResultsOf(d)' = results BY <2>6 DEF InHand, ResultsOf
    <3>3. AccountOf(u) /\ StepsOf(u) BY <1>1 DEF LedgerOf
    <3>4. Remembered(u)' = Remembered(u) BY <2>4, <2>7 DEF Remembered
    <3>5. ASSUME NEW q \in Callers, Writes(q, u)' PROVE OwnResults(u, loop[q].results)'
      <4>1. loop'[q] = loop[q] /\ Writes(q, u) BY <2>6, <2>8, <3>5 DEF Writes
      <4>2. OwnResults(u, loop[q].results) BY <3>3, <4>1 DEF AccountOf
      <4> QED BY <2>7, <4>1, <4>2, OwnResultsGrow
    <3>6. AccountOf(u)' BY <2>4, <2>5, <2>7, <3>1, <3>2, <3>3, <3>4, <3>5 DEF AccountOf
    <3>7. run[u].rewound \/ (Asked(u) + 1 <= run[u].step /\ Asked(u) <= run[u].step)
      <4>1. Asked(u) \in Nat BY <3>3, FS_CardinalityType DEF StepsOf, Asked
      <4>2. run[u].step \in Nat BY <2>2, MaxStepsAssumption DEF RunRow
      <4>3. run[u].rewound \/ Asked(u) + 1 <= run[u].step BY <2>2, <3>3 DEF StepsOf
      <4> QED BY <4>1, <4>2, <4>3
    <3>8. ASSUME NEW q \in Callers, Resuming(q, u)' PROVE q = d
      <4>1. Drives(q, u)' BY <3>8 DEF Resuming, At, Drives
      <4> QED BY <3>1, <4>1
    <3>9. StepsOf(u)' BY <2>4, <2>6, <2>7, <3>1, <3>3, <3>7, <3>8 DEF StepsOf
    <3> QED BY <3>6, <3>9 DEF LedgerOf
  <2>10. ASSUME NEW v \in Runs, v # u PROVE LedgerOf(v)'
    <3>1. ~Drives(d, v)' BY <2>6, <2>10 DEF Drives
    <3> QED BY <1>1, <2>4, <2>6, <2>7, <2>8, <2>10, <3>1, LedgerElsewhere
  <2> QED BY <2>9, <2>10
<1> QED BY <1>3, <1>4

\* The update before the resumed loop: the row gets the results, keeps its step.
LEMMA LedgerRestart ==
  ASSUME ARInv, LedgerInv, NEW d \in Deciders, RestartRun(d)
  PROVE  \A u \in Runs : LedgerOf(u)'
<1>1. /\ ARTypeOK /\ Solo /\ d \in Callers /\ UNCHANGED issuer
      /\ \A u \in Runs : LedgerOf(u)
      /\ loop[d] # NoLoop /\ loop[d].at = "restart" /\ loop[d] \in Loop
  BY DEF ARInv, Solo, LedgerInv, Callers, RestartRun, At, ARTypeOK
<1>2. PICK u \in Runs : u = loop[d].run BY <1>1 DEF Solo, LoopKnows
<1>3. /\ \A q \in Callers \ {d} : loop'[q] = loop[q]
      /\ loop'[d].at = "enter" /\ loop'[d].run = u
      /\ loop'[d].step = loop[d].step /\ loop'[d].results = loop[d].results
  <2>1. Goes(d, "enter") /\ "enter" \in LoopLabel /\ "none" \in Reply
    BY DEF RestartRun, LoopLabel, Reply
  <2> QED BY <1>1, <1>2, <2>1, GoesOn
<1>4. /\ run'[u].status = "RUNNING" /\ run'[u].step = run[u].step
      /\ run'[u].results = loop[d].results
      /\ run'[u].lost = run[u].lost /\ run'[u].rewound = run[u].rewound
      /\ \A v \in Runs \ {u} : run'[v] = run[v]
  BY <1>1, <1>2 DEF RestartRun, UpdateRun, Written, ARTypeOK, RunRow
<1>5. /\ \A v \in Runs : IssuedBy(v)' = IssuedBy(v)
      /\ Asked(u)' = Asked(u) /\ Remembered(u)' = Remembered(u)
  BY <1>1, <1>4 DEF IssuedBy, Asked, Remembered
<1>6. Drives(d, u) /\ Resuming(d, u) BY <1>1, <1>2 DEF Drives, Resuming, At
<1>7. \A v \in Runs : ~Writes(d, v)' BY <1>3 DEF Writes, TryLabel
<1>8. LedgerOf(u)'
  <2>1. /\ IsFiniteSet(IssuedBy(u)) /\ Accounts(Remembered(u), loop[d].results, NoRequest)
        /\ run[u].rewound \/ Asked(u) <= MaxSteps
    <3>1. InHand(d) = NoRequest BY <1>1 DEF InHand
    <3> QED BY <1>1, <1>6, <3>1, LedgerHeld
  <2>2. ResultsOf(d)' = loop[d].results /\ InHand(d)' = NoRequest
    BY <1>3, <1>4 DEF ResultsOf, InHand
  <2>3. run[u].rewound \/ (Asked(u) + 1 <= loop[d].step /\ Asked(u) <= run[u].step)
    BY <1>1, <1>6 DEF LedgerOf, StepsOf
  <2> QED BY <1>1, <1>3, <1>4, <1>5, <1>6, <1>7, <2>1, <2>2, <2>3, LedgerDriven
<1>9. ASSUME NEW v \in Runs \ {u} PROVE LedgerOf(v)'
  <2>1. ~Drives(d, v)' BY <1>3 DEF Drives
  <2> QED BY <1>1, <1>3, <1>4, <1>5, <1>7, <2>1, LedgerElsewhere
<1> QED BY <1>8, <1>9

LEMMA LedgerResume ==
  ASSUME ARInv, LedgerInv, NEW d \in Deciders, Resume(d)
  PROVE  \A u \in Runs : LedgerOf(u)'
<1>1. /\ ARTypeOK /\ Solo /\ d \in Callers /\ UNCHANGED issuer
      /\ \A u \in Runs : LedgerOf(u)
  BY DEF ARInv, Solo, LedgerInv, Callers, Resume, FindWaiting, ClaimWaiting, DeclineRun,
     RestartRun, ResumeReturns, SettleTask, CompleteDelegated, SettleBare
<1>2. CASE ClaimWaiting(d) BY <1>2, LedgerClaim
<1>3. CASE RestartRun(d) BY <1>3, LedgerRestart
<1>4. CASE DeclineRun(d)
  <2>1. /\ loop[d] # NoLoop /\ loop[d].at = "decline"
        /\ Returns(d, "settle", "REJECTED")
        /\ UpdateRun(d, "REJECTED", loop[d].step, loop[d].results, NoRequest)
    BY <1>4 DEF DeclineRun, At
  <2>2. loop[d] \in Loop /\ loop[d].step \in Nat
    BY <1>1, <2>1, MaxStepsAssumption DEF ARTypeOK, Loop
  <2>3. /\ \A q \in Callers \ {d} : loop'[q] = loop[q]
        /\ loop'[d].run = loop[d].run /\ loop'[d].at = "settle"
        /\ loop'[d].step = loop[d].step /\ loop'[d].results = loop[d].results
    BY <1>1, <2>1, GoesOn
  <2>4. \A u \in Runs : ~Drives(d, u)' /\ ~Writes(d, u)'
    BY <2>3 DEF Drives, Writes, TryLabel
  <2>5. CASE loop[d].run \notin Runs
    <3>1. UNCHANGED run BY <1>1, <2>1, <2>5 DEF UpdateRun, ARTypeOK
    <3> QED BY <1>1, <2>3, <2>4, <3>1, LedgerLeft
  <2>6. CASE loop[d].run \in Runs
    <3>1. PICK u \in Runs : u = loop[d].run BY <2>6
    <3>2. Drives(d, u) BY <2>1, <3>1 DEF Drives
    <3> QED BY <1>1, <2>1, <2>2, <2>3, <2>4, <3>1, <3>2, LedgerWrites
  <2> QED BY <2>5, <2>6
<1>5. CASE FindWaiting(d) \/ ResumeReturns(d) \/ SettleTask(d) \/ CompleteDelegated(d) \/ SettleBare(d)
  <2>1. UNCHANGED run
    BY <1>5 DEF FindWaiting, ResumeReturns, SettleTask, CompleteDelegated, SettleBare
  <2>2. CASE UNCHANGED loop
    <3>1. \A u \in Runs : IssuedBy(u)' = IssuedBy(u) BY <1>1 DEF IssuedBy
    <3>2. \A q \in Callers : InHand(q)' = InHand(q) BY <2>2 DEF InHand
    <3>3. \A q \in Callers, u \in Runs : /\ Drives(q, u)' => Drives(q, u)
                                         /\ Writes(q, u)' => Writes(q, u)
      BY <2>2 DEF Drives, Writes
    <3> QED BY <1>1, <2>1, <2>2, <3>1, <3>2, <3>3, LedgerKept
  <2>3. CASE FindWaiting(d) /\ ~UNCHANGED loop
    <3>1. PICK l \in {"settle", "claim"}, u \in Runs \union {NoRun} :
            loop' = [loop EXCEPT ![d] = [at |-> l, run |-> u, step |-> 0,
                       results |-> << >>, req |-> job[d].exec, reply |-> "none"]]
      BY <2>3 DEF FindWaiting, WaitingOn
    <3>2. (\A q \in Callers \ {d} : loop'[q] = loop[q]) /\ loop'[d].at = l
      BY <1>1, <3>1 DEF ARTypeOK
    <3>3. \A v \in Runs : ~Drives(d, v)' /\ ~Writes(d, v)' BY <3>2 DEF Drives, Writes, TryLabel
    <3> QED BY <1>1, <2>1, <3>2, <3>3, LedgerLeft
  <2>4. CASE ResumeReturns(d) \/ SettleTask(d) \/ CompleteDelegated(d)
    <3>1. /\ loop[d] # NoLoop
          /\ Quits(d) \/ Goes(d, "settle") \/ Goes(d, "delegated") \/ Goes(d, "respond")
      BY <2>4 DEF ResumeReturns, SettleTask, CompleteDelegated, At, Done
    <3>2. /\ \A q \in Callers \ {d} : loop'[q] = loop[q]
          /\ loop'[d] = NoLoop \/ loop'[d].at \in {"settle", "delegated", "respond"}
      BY <1>1, <3>1, GoesOn, QuitsOn
    <3>3. \A v \in Runs : ~Drives(d, v)' /\ ~Writes(d, v)' BY <3>2 DEF Drives, Writes, TryLabel
    <3> QED BY <1>1, <2>1, <3>2, <3>3, LedgerLeft
  <2>5. CASE SettleBare(d) BY <2>2, <2>5 DEF SettleBare
  <2> QED BY <1>5, <2>2, <2>3, <2>4, <2>5
<1> QED BY <1>2, <1>3, <1>4, <1>5 DEF Resume

\* Only the planner of a run makes it the issuer of a request.
LEMMA IssuerChanges ==
  ASSUME ARInv, [ARNext]_vars, NEW r \in Requests, issuer'[r] # issuer[r]
  PROVE  \E p \in Callers : Fresh(loop[p].run, r) /\ (CreateHeld(r) \/ CreateRunnable(r))
<1>1. ARTypeOK BY DEF ARInv
<1>2. PICK p \in Callers : Plan(p)
  <2>1. ARNext BY DEF vars, arVars
  <2>2. ASSUME NEW u \in Runs, Act(u) \/ CreateRun(u) \/ ActReturns(u) PROVE UNCHANGED issuer
    BY <2>2 DEF Act, CreateRun, ActReturns
  <2>3. ASSUME NEW p \in Callers, RunLoop(p) \/ AnswerTask(p) \/ Stop(p), ~Plan(p)
        PROVE  UNCHANGED issuer
    BY <2>3 DEF RunLoop, EnterLoop, PlanExhausted, CompleteRun, LimitRun, CloseTask, AskHuman,
       PauseRun, PauseTask, RunTool, FinishTool, RecordResult, LoopThrows, FailRun,
       FailTask, AnswerTask, RespondTask, PostResponse, FinishResponse, Stop
  <2>4. ASSUME NEW d \in Deciders, Resume(d) \/ DecideApproval(d) PROVE UNCHANGED issuer
    BY <2>4 DEF Resume, FindWaiting, ClaimWaiting, DeclineRun, RestartRun, ResumeReturns,
       SettleTask, CompleteDelegated, SettleBare, DecideApproval, arVars
  <2>5. ASSUME NEW x \in Requests, DirectIssue(x) \/ PostRequestTask(x) PROVE UNCHANGED issuer
    BY <2>5 DEF DirectIssue, PostRequestTask
  <2> QED BY <2>1, <2>2, <2>3, <2>4, <2>5 DEF ARNext
<1>3. PICK x \in Requests :
        /\ Fresh(loop[p].run, x)
        /\ issuer' = [issuer EXCEPT ![x] = loop[p].run]
        /\ CreateHeld(x) \/ CreateRunnable(x)
  BY <1>2 DEF Plan
<1>4. r = x BY <1>1, <1>3 DEF ARTypeOK
<1> QED BY <1>3, <1>4

\* A request that has an asker keeps one.
LEMMA UnissuedStep ==
  ASSUME ARInv, LedgerInv, [ARNext]_vars, NEW r \in Requests
  PROVE  UnissuedOf(r)'
<1>1. UnissuedOf(r) /\ TypeOK /\ ARTypeOK BY DEF LedgerInv, ARInv, ARTypeOK
<1>2. asker'[r] = "absent" => asker[r] = "absent"
  <2>1. [Next]_taVars BY StepKeeps DEF ARInv
  <2>2. ASSUME NEW x \in Requests, Issue(x) PROVE asker'[r] = "absent" => asker[r] = "absent"
    BY <1>1, <2>2 DEF Issue, CreateHeld, CreateRunnable, Ask, File, InsertApproval, CallTool,
       FinishCall, AskerThrows, AskerMoves, TypeOK
  <2>3. ASSUME NEW d \in Deciders, DecideStep(d) \/ Respond(d) \/ Throw(d) PROVE UNCHANGED asker
    BY <2>3 DEF DecideStep, Respond, Throw, StartPatch, StartTools, Enter, GetExecution,
       CheckApproval, Revalidate, SelectPending, Read, Decide, Execute, Complete
  <2>4. CASE UNCHANGED taVars BY <2>4 DEF taVars
  <2>5. CASE Next BY <2>2, <2>3, <2>5 DEF Next
  <2> QED BY <2>1, <2>4, <2>5
<1>3. CASE issuer'[r] = issuer[r] BY <1>1, <1>2, <1>3 DEF UnissuedOf
<1>4. CASE issuer'[r] # issuer[r]
  <2>1. PICK p \in Callers : Fresh(loop[p].run, r) /\ (CreateHeld(r) \/ CreateRunnable(r))
    BY <1>4, IssuerChanges DEF LedgerInv
  <2>2. r \notin Direct /\ asker'[r] # "absent"
    BY <1>1, <2>1 DEF Fresh, CreateHeld, CreateRunnable, AskerMoves, TypeOK
  <2> QED BY <2>2 DEF UnissuedOf
<1> QED BY <1>3, <1>4

LEMMA LedgerInit == ARInit => LedgerInv
<1> SUFFICES ASSUME ARInit PROVE LedgerInv
  OBVIOUS
<1>1. ASSUME NEW u \in Runs PROVE LedgerOf(u)
  <2>1. IssuedBy(u) = {} BY RunsAssumption DEF ARInit, IssuedBy
  <2>2. IsFiniteSet(IssuedBy(u)) /\ Asked(u) = 0 BY <2>1, FS_EmptySet DEF Asked
  <2>3. Asked(u) <= MaxSteps BY <2>2, MaxStepsAssumption
  <2>4. /\ run[u].status = "none" /\ run[u].lost = {}
        /\ \A p \in Callers : loop[p] = NoLoop
    BY DEF ARInit
  <2> QED BY <2>1, <2>2, <2>3, <2>4
       DEF LedgerOf, AccountOf, StepsOf, Drives, Writes, Resuming, At
<1>2. \A r \in Requests : UnissuedOf(r) BY DEF ARInit, UnissuedOf
<1> QED BY <1>1, <1>2 DEF LedgerInv

LEMMA LedgerStep == ARInv /\ LedgerInv /\ [ARNext]_vars => LedgerInv'
<1> SUFFICES ASSUME ARInv, LedgerInv, [ARNext]_vars PROVE LedgerInv'
  OBVIOUS
<1>1. \A r \in Requests : UnissuedOf(r)' BY UnissuedStep
<1>2. \A u \in Runs : LedgerOf(u)'
  <2>1. CASE UNCHANGED <<run, loop, issuer>>
    <3>1. \A u \in Runs : LedgerOf(u) BY DEF LedgerInv
    <3>2. \A u \in Runs : IssuedBy(u)' = IssuedBy(u) BY <2>1 DEF IssuedBy
    <3>3. \A q \in Callers : InHand(q)' = InHand(q) BY <2>1 DEF InHand
    <3>4. \A q \in Callers, u \in Runs : /\ Drives(q, u)' => Drives(q, u)
                                         /\ Writes(q, u)' => Writes(q, u)
      BY <2>1 DEF Drives, Writes
    <3> QED BY <2>1, <3>1, <3>2, <3>3, <3>4, LedgerKept
  <2>2. CASE ~UNCHANGED <<run, loop, issuer>>
    <3>1. ASSUME NEW d \in Deciders, DecideApproval(d) PROVE UNCHANGED <<run, loop, issuer>>
      BY <3>1 DEF DecideApproval, arVars
    <3>2. ASSUME NEW r \in Requests, DirectIssue(r) \/ PostRequestTask(r)
          PROVE  UNCHANGED <<run, loop, issuer>>
      BY <3>2 DEF DirectIssue, PostRequestTask
    <3>3. ARNext BY <2>2 DEF vars, arVars
    <3> QED BY <2>2, <3>1, <3>2, <3>3, LedgerCaller, LedgerLoop, LedgerAnswer, LedgerResume
         DEF ARNext
  <2> QED BY <2>1, <2>2
<1> QED BY <1>1, <1>2 DEF LedgerInv

\* Row and driver hand the account of a run's tools to each other.
THEOREM LedgerKeeps == ARSpec => []LedgerInv
  BY LedgerInit, LedgerStep, RunInductive, PTL DEF ARSpec

\* A run asks for no more tools than max_steps, however often it is paused and
\* resumed: a pause stores the step, a resumption goes on from it, and a catch
\* block that comes in between sets it back by no more than the pause had to
\* spare, unless its caller is two pauses late.
THEOREM StepsBoundTools == ARSpec => []ToolBudget
<1>1. LedgerInv => ToolBudget BY DEF LedgerInv, LedgerOf, StepsOf, Asked, ToolBudget
<1> QED BY <1>1, LedgerKeeps, PTL

\* A list without repetition counts each result once.
LEMMA CountedOnce ==
  ASSUME NEW results \in Seq(Requests), NEW r,
         \A i, j \in DOMAIN results : results[i] = results[j] => i = j
  PROVE  /\ Listed(results, r) => TimesIn(results, r) = 1
         /\ ~Listed(results, r) => TimesIn(results, r) = 0
<1> DEFINE where == {i \in DOMAIN results : results[i] = r}
<1>1. CASE Listed(results, r)
  <2>1. PICK i \in DOMAIN results : results[i] = r BY <1>1 DEF Listed
  <2>2. where = {i} BY <2>1
  <2> QED BY <1>1, <2>2, FS_Singleton DEF TimesIn
<1>2. CASE ~Listed(results, r)
  <2>1. where = {} BY <1>2 DEF Listed
  <2> QED BY <1>2, <2>1, FS_EmptySet DEF TimesIn
<1> QED BY <1>1, <1>2

LEMMA LedgerAccounts == ARTypeOK /\ LedgerInv => CompletedRunAccountsForTools
<1> SUFFICES ASSUME ARTypeOK, LedgerInv, NEW u \in Runs, run[u].status = "COMPLETED"
             PROVE  /\ \A r \in IssuedBy(u) \ run[u].lost : TimesIn(run[u].results, r) = 1
                    /\ \A r \in Requests : TimesIn(run[u].results, r) > 0 =>
                         issuer[r] = u /\ TimesIn(run[u].results, r) = 1
  BY DEF CompletedRunAccountsForTools
<1>1. run[u].results \in Seq(Requests) BY DEF ARTypeOK, RunRow
<1>2. Accounts(Remembered(u), run[u].results, NoRequest) BY DEF LedgerInv, LedgerOf, AccountOf
<1>3. NoRequest \notin Requests BY RunsAssumption
<1>4. ASSUME NEW r \in Requests
      PROVE  TimesIn(run[u].results, r) = IF r \in Remembered(u) THEN 1 ELSE 0
  BY <1>1, <1>2, <1>3, CountedOnce DEF Accounts
<1>5. /\ Remembered(u) = IssuedBy(u) \ run[u].lost
      /\ \A r \in Requests : r \in IssuedBy(u) <=> issuer[r] = u
  BY DEF IssuedBy, Remembered
<1> QED BY <1>4, <1>5 DEF IssuedBy

\* A COMPLETED run lists every tool it asked for, once each, and no tool of
\* another, through every pause, resumption and throw; but for what a late catch
\* block took out of its row before the resumed loop had read it.
THEOREM ToolsAccountedFor == ARSpec => []CompletedRunAccountsForTools
  BY LedgerAccounts, LedgerKeeps, RunTypeCorrect, PTL

-------------------------------------------------------------------------------
(* How runs and tasks end *)

\* What is known before a step.
KnownInv == ARInv /\ LedgerInv /\ IInv /\ EndInv

LEMMA MarkFailedDone ==
  ASSUME ARTypeOK, NEW p \in Callers, MarkFailed(p), NEW u \in Runs, u = loop[p].run
  PROVE  run'[u].done = run[u].done
<1> DEFINE row == Written(run[u], "FAILED", loop[p].step, loop[p].results, NoRequest)
<1>1. run[u] \in RunRow BY DEF ARTypeOK
<1>2. row.done = run[u].done BY <1>1 DEF Written, RunRow
<1>3. DOMAIN row = DOMAIN run[u] BY <1>1 DEF Written, RunRow
<1>4. run' = [run EXCEPT ![u] = [row EXCEPT !.lost = LostBy(p), !.rewound = RewoundBy(p)]]
  BY DEF MarkFailed
<1> HIDE DEF row
<1> QED BY <1>1, <1>2, <1>3, <1>4 DEF ARTypeOK, RunRow

\* A row is written by the caller that drives its run, by one whose loop threw,
\* or by the handler whose conditional UPDATE claims it.
LEMMA RowWriter ==
  ASSUME ARInv, [ARNext]_vars, NEW u \in Runs, run'[u] # run[u]
  PROVE  \E p \in Callers :
           /\ loop[p] # NoLoop /\ loop[p].run = u
           /\ \/ Drives(p, u)
              \/ loop[p].at = "failed" /\ run'[u].status = "FAILED" /\ run'[u].done = run[u].done
              \/ /\ p \in Deciders /\ ClaimWaiting(p)
                 /\ run[u].status = "WAITING_FOR_HUMAN" /\ Claimable(u, loop[p].req)
<1>1. ARTypeOK /\ \A p \in Callers : LoopKnows(p) BY DEF ARInv
<1>2. ASSUME NEW p \in Callers, loop[p] # NoLoop,
             loop[p].at \in {"create", "answer", "limit", "pause", "record", "decline", "restart"},
             NEW status, NEW step, NEW results, NEW waiting,
             UpdateRun(p, status, step, results, waiting)
      PROVE  loop[p].run = u /\ Drives(p, u)
  <2>1. loop[p].run = u BY <1>1, <1>2 DEF UpdateRun, ARTypeOK
  <2> QED BY <1>2, <2>1 DEF Drives
<1>3. ASSUME NEW p \in Runs, Act(p) \/ CreateRun(p) \/ ActReturns(p)
      PROVE  loop[p] # NoLoop /\ loop[p].run = u /\ Drives(p, u)
  <2>1. CreateRun(p) /\ p \in Callers BY <1>3 DEF Act, ActReturns, Callers
  <2> QED BY <1>2, <2>1 DEF CreateRun, At
<1>4. ASSUME NEW p \in Callers, RunLoop(p) \/ AnswerTask(p) \/ Stop(p)
      PROVE  /\ loop[p] # NoLoop /\ loop[p].run = u
             /\ \/ Drives(p, u)
                \/ loop[p].at = "failed" /\ run'[u].status = "FAILED" /\ run'[u].done = run[u].done
  <2>1. \/ CompleteRun(p) \/ LimitRun(p) \/ PauseRun(p) \/ RecordResult(p) \/ FailRun(p)
    BY <1>4 DEF RunLoop, EnterLoop, Plan, PlanExhausted, CloseTask, AskHuman, PauseTask, RunTool,
       FinishTool, LoopThrows, FailTask, AnswerTask, RespondTask, PostResponse,
       FinishResponse, Stop
  <2>2. CASE CompleteRun(p) BY <1>2, <2>2 DEF CompleteRun, At
  <2>3. CASE LimitRun(p) BY <1>2, <2>3 DEF LimitRun, At
  <2>4. CASE PauseRun(p) BY <1>2, <2>4 DEF PauseRun, At
  <2>5. CASE RecordResult(p) BY <1>2, <2>5 DEF RecordResult, At
  <2>6. CASE FailRun(p)
    <3>1. loop[p] # NoLoop /\ loop[p].at = "failed" /\ MarkFailed(p)
      BY <2>6 DEF FailRun, At
    <3>2. loop[p].run = u BY <1>1, <3>1 DEF MarkFailed, ARTypeOK
    <3>3. run'[u].status = "FAILED" BY <1>1, <3>1, <3>2, MarkFailedType
    <3>4. run'[u].done = run[u].done BY <1>1, <3>1, <3>2, MarkFailedDone
    <3> QED BY <3>1, <3>2, <3>3, <3>4
  <2> QED BY <2>1, <2>2, <2>3, <2>4, <2>5, <2>6
<1>5. ASSUME NEW d \in Deciders, Resume(d) \/ DecideApproval(d)
      PROVE  /\ loop[d] # NoLoop /\ loop[d].run = u
             /\ \/ Drives(d, u)
                \/ /\ ClaimWaiting(d)
                   /\ run[u].status = "WAITING_FOR_HUMAN" /\ Claimable(u, loop[d].req)
  <2>1. ClaimWaiting(d) \/ DeclineRun(d) \/ RestartRun(d)
    BY <1>5 DEF Resume, FindWaiting, ResumeReturns, SettleTask, CompleteDelegated, SettleBare,
       DecideApproval, arVars
  <2>2. d \in Callers BY DEF Callers
  <2>3. CASE DeclineRun(d) BY <1>2, <2>2, <2>3 DEF DeclineRun, At
  <2>4. CASE RestartRun(d) BY <1>2, <2>2, <2>4 DEF RestartRun, At
  <2>5. CASE ClaimWaiting(d)
    <3>1. loop[d] # NoLoop /\ loop[d].run \in Runs
      BY <1>1, <2>2, <2>5 DEF ClaimWaiting, At, LoopKnows
    <3>2. /\ Claimable(loop[d].run, loop[d].req)
          /\ run' = [run EXCEPT ![loop[d].run].status = "RUNNING", ![loop[d].run].waiting = NoRequest]
      BY <2>5 DEF ClaimWaiting
    <3>3. loop[d].run = u BY <1>1, <3>1, <3>2 DEF ARTypeOK
    <3> QED BY <2>5, <3>1, <3>2, <3>3 DEF Claimable, WaitingOn
  <2> QED BY <2>1, <2>3, <2>4, <2>5
<1>6. ~\E r \in Requests : DirectIssue(r) \/ PostRequestTask(r)
  BY DEF DirectIssue, PostRequestTask
<1>7. ARNext BY DEF vars, arVars
<1> QED BY <1>3, <1>4, <1>5, <1>6, <1>7 DEF ARNext, Callers

\* A run is taken up when it starts and when it is claimed from its pause.
LEMMA DriverArrives ==
  ASSUME ARInv, [ARNext]_vars, NEW p \in Callers, NEW u \in Runs, Drives(p, u)', ~Drives(p, u)
  PROVE  run[u].status \in {"none", "WAITING_FOR_HUMAN"}
<1>1. ARTypeOK /\ \A q \in Callers : LoopKnows(q) BY DEF ARInv
<1>2. loop'[p] # loop[p] BY DEF Drives
<1>3. ASSUME NEW q \in Callers, loop[q] # NoLoop, NEW l \in LoopLabel, NEW reply \in Reply,
             Goes(q, l) \/ Returns(q, l, reply),
             Drives(q, loop[q].run) \/ l \in {"closeTask", "pauseTask", "returned", "failed", "failTask",
               "claim", "settle", "delegated", "respond", "message", "finishResponse"}
      PROVE  FALSE
  <2>1. /\ \A x \in Callers \ {q} : loop'[x] = loop[x]
        /\ loop'[q].at = l /\ loop'[q].run = loop[q].run
    BY <1>1, <1>3, GoesOn
  <2>2. p = q BY <1>2, <2>1
  <2> QED BY <1>3, <2>1, <2>2 DEF Drives
<1>4. ASSUME NEW q \in Callers, Quits(q) PROVE FALSE
  <2>1. (\A x \in Callers \ {q} : loop'[x] = loop[x]) /\ loop'[q] = NoLoop
    BY <1>1, <1>4, QuitsOn
  <2> QED BY <1>2, <2>1 DEF Drives
<1>5. ASSUME NEW q \in Runs, Act(q) \/ CreateRun(q) \/ ActReturns(q)
      PROVE  run[u].status = "none"
  <2>1. q \in Callers BY DEF Callers
  <2>2. CASE Act(q)
    <3>1. /\ run[q].status = "none"
          /\ loop' = [loop EXCEPT ![q] = [at |-> "create", run |-> q, step |-> 0,
                results |-> << >>, req |-> NoRequest, reply |-> "none"]]
      BY <2>2 DEF Act
    <3>2. (\A x \in Callers \ {q} : loop'[x] = loop[x]) /\ loop'[q].run = q
      BY <1>1, <2>1, <3>1 DEF ARTypeOK
    <3>3. p = q BY <1>2, <3>2
    <3> QED BY <3>1, <3>2, <3>3 DEF Drives
  <2>3. CASE CreateRun(q)
    <3>1. loop[q] # NoLoop /\ Drives(q, loop[q].run) /\ Goes(q, "plan")
      BY <2>3 DEF CreateRun, At, Drives
    <3> QED BY <1>3, <2>1, <3>1
  <2>4. CASE ActReturns(q)
    <3>1. loop[q] # NoLoop /\ (Quits(q) \/ Goes(q, "respond")) BY <2>4 DEF ActReturns, At
    <3> QED BY <1>3, <1>4, <2>1, <3>1
  <2> QED BY <1>5, <2>2, <2>3, <2>4
<1>6. ASSUME NEW q \in Callers, RunLoop(q) PROVE FALSE
  <2>1. CASE Plan(q) \/ RecordResult(q) \/ EnterLoop(q)
    <3>1. loop[q] # NoLoop /\ loop[q].at \in {"plan", "record", "enter"}
      BY <2>1 DEF Plan, RecordResult, EnterLoop, At
    <3>2. (\A x \in Callers \ {q} : loop'[x] = loop[x]) /\ loop'[q].run = loop[q].run
      <4>1. loop[q] \in Loop BY <1>1, <3>1 DEF ARTypeOK
      <4>2. CASE Plan(q)
        <5>1. PICK l, r : loop' = [loop EXCEPT ![q].at = l, ![q].step = @ + 1, ![q].req = r]
          BY <4>2 DEF Plan
        <5> QED BY <1>1, <4>1, <5>1 DEF ARTypeOK, Loop
      <4>3. CASE RecordResult(q)
        <5> DEFINE results == Append(loop[q].results, loop[q].req)
        <5>1. loop' = [loop EXCEPT ![q].at = "plan", ![q].results = results]
          BY <4>3 DEF RecordResult
        <5> HIDE DEF results
        <5> QED BY <1>1, <4>1, <5>1 DEF ARTypeOK, Loop
      <4>4. CASE EnterLoop(q)
        <5> DEFINE row == run[loop[q].run]
        <5>1. loop' = [loop EXCEPT ![q].at = "plan", ![q].step = row.step, ![q].results = row.results]
          BY <4>4 DEF EnterLoop
        <5> HIDE DEF row
        <5> QED BY <1>1, <4>1, <5>1 DEF ARTypeOK, Loop
      <4> QED BY <2>1, <4>2, <4>3, <4>4
    <3>3. p = q BY <1>2, <3>2
    <3> QED BY <3>1, <3>2, <3>3 DEF Drives
  <2>2. CASE LoopThrows(q)
    <3>1. /\ loop[q] # NoLoop
          /\ \/ Goes(q, "failed")
             \/ loop' = [loop EXCEPT ![q].at = "failed", ![q].results = Append(@, loop[q].req)]
      BY <2>2 DEF LoopThrows
    <3>2. (\A x \in Callers \ {q} : loop'[x] = loop[x]) /\ loop'[q].at = "failed"
      BY <1>1, <3>1 DEF Goes, ARTypeOK, Loop
    <3> QED BY <1>2, <3>2 DEF Drives
  <2>3. CASE ~Plan(q) /\ ~RecordResult(q) /\ ~EnterLoop(q) /\ ~LoopThrows(q)
    <3>1. loop[q] # NoLoop /\ \E l \in LoopLabel, reply \in Reply :
            /\ Goes(q, l) \/ Returns(q, l, reply)
            /\ \/ l \in {"closeTask", "pauseTask", "returned", "failed", "failTask"}
               \/ loop[q].at \in {"plan", "ask", "tool", "finish"}
      BY <1>6, <2>3 DEF RunLoop, PlanExhausted, CompleteRun, LimitRun, CloseTask, AskHuman,
         PauseRun, PauseTask, RunTool, FinishTool, FailRun, FailTask, At
    <3>2. loop[q].at \in {"plan", "ask", "tool", "finish"} => Drives(q, loop[q].run)
      BY <3>1 DEF Drives
    <3> QED BY <1>3, <3>1, <3>2
  <2> QED BY <2>1, <2>2, <2>3
<1>7. ASSUME NEW q \in Callers, AnswerTask(q) \/ Stop(q) PROVE FALSE
  <2>1. /\ loop[q] # NoLoop
        /\ Quits(q) \/ Goes(q, "message") \/ Goes(q, "finishResponse")
    BY <1>7 DEF AnswerTask, RespondTask, PostResponse, FinishResponse, Stop, At, Done
  <2> QED BY <1>3, <1>4, <2>1
<1>8. ASSUME NEW d \in Deciders, Resume(d) PROVE run[u].status = "WAITING_FOR_HUMAN"
  <2>0. d \in Callers BY DEF Callers
  <2>1. CASE FindWaiting(d)
    <3>1. PICK l \in {"settle", "claim"}, v \in Runs \union {NoRun} :
            loop' = [loop EXCEPT ![d] = [at |-> l, run |-> v, step |-> 0,
                       results |-> << >>, req |-> job[d].exec, reply |-> "none"]]
      BY <1>2, <2>1 DEF FindWaiting, WaitingOn
    <3>2. (\A q \in Callers \ {d} : loop'[q] = loop[q]) /\ loop'[d].at = l
      BY <1>1, <2>0, <3>1 DEF ARTypeOK
    <3> QED BY <1>2, <3>2 DEF Drives
  <2>2. CASE ClaimWaiting(d)
    <3>1. loop[d] # NoLoop /\ loop[d].run \in Runs /\ loop[d] \in Loop
      BY <1>1, <2>0, <2>2 DEF ClaimWaiting, At, LoopKnows, ARTypeOK
    <3>2. CASE ~Claimable(loop[d].run, loop[d].req)
      <4>1. Goes(d, "settle") BY <2>2, <3>2 DEF ClaimWaiting
      <4> QED BY <1>3, <2>0, <3>1, <4>1
    <3>3. CASE Claimable(loop[d].run, loop[d].req)
      <4>1. PICK l \in {"restart", "decline"} :
              loop' = [loop EXCEPT ![d] =
                [@ EXCEPT !.at = l, !.step = run[loop[d].run].step,
                          !.results = Append(run[loop[d].run].results, loop[d].req)]]
        BY <2>2, <3>3 DEF ClaimWaiting
      <4>2. (\A q \in Callers \ {d} : loop'[q] = loop[q]) /\ loop'[d].run = loop[d].run
        BY <1>1, <2>0, <3>1, <4>1 DEF ARTypeOK, Loop
      <4>3. u = loop[d].run BY <1>2, <4>2 DEF Drives
      <4> QED BY <3>3, <4>3 DEF Claimable, WaitingOn
    <3> QED BY <3>2, <3>3
  <2>3. CASE DeclineRun(d) \/ RestartRun(d)
    <3>1. /\ loop[d] # NoLoop /\ Drives(d, loop[d].run)
          /\ Returns(d, "settle", "REJECTED") \/ Goes(d, "enter")
      BY <2>3 DEF DeclineRun, RestartRun, At, Drives
    <3> QED BY <1>3, <2>0, <3>1
  <2>4. CASE ResumeReturns(d) \/ SettleTask(d) \/ CompleteDelegated(d)
    <3>1. /\ loop[d] # NoLoop
          /\ Quits(d) \/ Goes(d, "settle") \/ Goes(d, "delegated") \/ Goes(d, "respond")
      BY <2>4 DEF ResumeReturns, SettleTask, CompleteDelegated, At, Done
    <3> QED BY <1>3, <1>4, <2>0, <3>1
  <2>5. CASE SettleBare(d) BY <1>2, <2>5 DEF SettleBare
  <2> QED BY <1>8, <2>1, <2>2, <2>3, <2>4, <2>5 DEF Resume
<1>9. ~\E r \in Requests : DirectIssue(r) \/ PostRequestTask(r)
  BY <1>2 DEF DirectIssue, PostRequestTask
<1>10. ~\E d \in Deciders : DecideApproval(d)
  BY <1>2 DEF DecideApproval, arVars
<1>11. ARNext BY <1>2 DEF vars, arVars
<1> QED BY <1>5, <1>6, <1>7, <1>8, <1>9, <1>10, <1>11 DEF ARNext

\* A run that is over stays over: no caller takes it up, and none but one whose
\* loop threw writes its row.
LEMMA OverStays ==
  ASSUME KnownInv, [ARNext]_vars, NEW u \in Runs, Over(u)
  PROVE  Over(u)'
<1>0. ARInv /\ EndInv /\ MayFail \in BOOLEAN BY MayFailAssumption DEF KnownInv
<1>1. \A p \in Callers : ~Drives(p, u)' BY <1>0, DriverArrives DEF Over
<1>2. CASE run'[u] = run[u] BY <1>1, <1>2 DEF Over
<1>3. CASE run'[u] # run[u]
  <2>1. PICK p \in Callers :
          /\ loop[p] # NoLoop /\ loop[p].at = "failed"
          /\ run'[u].status = "FAILED" /\ run'[u].done = run[u].done
    BY <1>0, <1>3, RowWriter DEF Over
  <2>2. MayFail BY <1>0, <2>1 DEF EndInv, CallerKnows
  <2> QED BY <1>1, <2>1, <2>2 DEF Over
<1> QED BY <1>2, <1>3


\* A request keeps the run that issued it.
LEMMA IssuerStays ==
  ASSUME KnownInv, [ARNext]_vars, NEW r \in Requests, issuer[r] # NoRun
  PROVE  issuer'[r] = issuer[r]
<1>1. ARInv /\ UnissuedOf(r) BY DEF KnownInv, LedgerInv
<1> QED BY <1>1, IssuerChanges DEF Fresh, UnissuedOf

\* A handler gets to resume a run by storing the outcome of its execution, and
\* keeps its job while it does.
LEMMA ResumeSteady ==
  ASSUME IInv, [Next]_taVars, NEW d \in Deciders, pc'[d] = "resume"
  PROVE  /\ job'[d] = job[d] /\ pc[d] # "idle"
         /\ pc[d] = "resume" \/ execution'[job[d].exec] \in {"COMPLETED", "REJECTED"}
<1>1. TypeOK /\ JobInv(d) BY DEF IInv
<1>2. ASSUME NEW r \in Requests, Issue(r) PROVE UNCHANGED <<pc, job>>
  BY <1>2 DEF Issue, CreateHeld, CreateRunnable, Ask, File, InsertApproval, CallTool,
     FinishCall, AskerThrows
<1>3. ASSUME NEW e \in Deciders, Respond(e) \/ Throw(e) PROVE pc[d] = "resume" /\ job'[d] = job[d]
  BY <1>1, <1>3 DEF Respond, Throw, Leave, TypeOK
<1>4. ASSUME NEW e \in Deciders, DecideStep(e), ~Complete(e)
      PROVE pc[d] = "resume" /\ job'[d] = job[d]
  BY <1>1, <1>4 DEF DecideStep, StartPatch, StartTools, Enter, GetExecution, CheckApproval,
     Revalidate, SelectPending, Read, Decide, AfterDecision, Execute, Goto, Leave, TypeOK
<1>5. ASSUME NEW e \in Deciders, Complete(e)
      PROVE  /\ job'[d] = job[d] /\ pc[d] # "idle"
             /\ pc[d] = "resume" \/ execution'[job[d].exec] \in {"COMPLETED", "REJECTED"}
  <2>1. CASE e # d BY <1>1, <1>5, <2>1 DEF Complete, Goto, Leave, TypeOK
  <2>2. CASE e = d
    <3>1. pc[d] = "complete" /\ job[d] \in Job BY <1>1, <1>5, <2>2 DEF Complete, TypeOK
    <3>2. Open(job[d].exec) /\ job'[d] = job[d]
      BY <1>1, <1>5, <2>2 DEF Complete, Goto, Leave, TypeOK
    <3>3. job[d].exec \in Requests BY <3>1
    <3> QED BY <1>1, <1>5, <2>2, <3>1, <3>2, <3>3 DEF Complete, Finalise, TypeOK
  <2> QED BY <2>1, <2>2
<1>6. CASE UNCHANGED taVars BY <1>6 DEF taVars
<1>7. CASE \E r \in Requests : Issue(r) BY <1>2, <1>7
<1> QED BY <1>3, <1>4, <1>5, <1>6, <1>7 DEF Next

LEMMA OutcomeStep ==
  ASSUME KnownInv, [ARNext]_vars, NEW d \in Deciders
  PROVE  OutcomeStored(d)'
<1> SUFFICES ASSUME pc'[d] = "resume"
             PROVE  execution'[job'[d].exec] \in {"COMPLETED", "REJECTED"}
  BY DEF OutcomeStored
<1>1. IInv /\ [Next]_taVars BY StepKeeps DEF KnownInv, ARInv
<1>2. /\ job'[d] = job[d] /\ pc[d] # "idle"
      /\ pc[d] = "resume" \/ execution'[job[d].exec] \in {"COMPLETED", "REJECTED"}
  BY <1>1, ResumeSteady
<1>3. CASE pc[d] = "resume"
  <2>1. job[d].exec \in Requests BY <1>1, <1>2 DEF IInv, TypeOK
  <2>2. execution[job[d].exec] \in {"COMPLETED", "REJECTED"}
    BY <1>3 DEF KnownInv, EndInv, OutcomeStored
  <2>3. Kept BY <1>1, KeptStep
  <2> QED BY <1>2, <2>1, <2>2, <2>3 DEF Kept
<1> QED BY <1>2, <1>3

\* What a caller in a call knows is kept by the steps of others, and of its job
\* it keeps everything.
LEMMA CallersJob ==
  ASSUME KnownInv, [ARNext]_vars, NEW p \in Callers, loop[p] # NoLoop, loop'[p] # NoLoop
  PROVE  /\ p \in Deciders => job'[p] = job[p] /\ job[p].app = job[p].exec /\ job[p].exec \in Requests
         /\ p \in Deciders /\ loop[p].run \in Runs => issuer'[job[p].app] = issuer[job[p].app]
         /\ loop[p].run \in Runs => TaskInHand(p)' = TaskInHand(p)
<1>1. ARInv /\ IInv /\ [Next]_taVars /\ CallerKnows(p)
  BY StepKeeps DEF KnownInv, ARInv, EndInv
<1>2. CASE p \in Deciders
  <2>1. LoopKnows(p) /\ LoopKnows(p)' BY <1>1, ARInvStep DEF ARInv
  <2>2. pc[p] = "resume" /\ pc'[p] = "resume" BY <1>2, <2>1 DEF LoopKnows
  <2>3. job'[p] = job[p] BY <1>1, <1>2, <2>2, ResumeSteady
  <2>4. job[p].app = job[p].exec /\ job[p].exec \in Requests
    BY <1>1, <1>2, <2>2 DEF IInv, TypeOK, JobInv
  <2>5. loop[p].run \in Runs => issuer'[job[p].app] = issuer[job[p].app]
    <3>1. NoRun \notin Runs BY RunsAssumption
    <3> QED BY <1>1, <1>2, <2>4, <3>1, IssuerStays DEF CallerKnows
  <2>6. p \notin Runs BY <1>2, RunsAssumption
  <2>7. loop[p].run \in Runs => TaskInHand(p)' = TaskInHand(p)
    BY <1>2, <2>3, <2>4, <2>5, <2>6 DEF TaskInHand, SubjectOf
  <2> QED BY <2>3, <2>4, <2>5, <2>7
<1>3. CASE p \notin Deciders
  <2>1. p \in Runs BY <1>3 DEF Callers
  <2> QED BY <1>3, <2>1 DEF TaskInHand
<1> QED BY <1>2, <1>3

\* A caller that moves on within its call.
LEMMA KnowsMoving ==
  ASSUME KnownInv, [ARNext]_vars, NEW p \in Callers, loop[p] # NoLoop, loop'[p] # NoLoop,
         loop'[p].run = loop[p].run,
         loop[p].run \notin Runs => loop'[p].at = "settle" /\ loop'[p].reply = loop[p].reply,
         loop'[p].at = "claim" => loop[p].at = "claim" /\ loop'[p].req = loop[p].req,
         loop'[p].at \in {"failed", "failTask"} => MayFail,
         loop'[p].at \in {"respond", "message", "finishResponse"} => TaskInHand(p) \in Delegated,
         SaysDone(p)' => SaysDone(p) \/ Over(loop[p].run)'
  PROVE  CallerKnows(p)'
<1>1. CallerKnows(p) BY DEF KnownInv, EndInv
<1>2. CASE loop[p].run \notin Runs
  <2>1. loop'[p].at = "settle" /\ loop'[p].reply = "none"
    BY <1>1, <1>2 DEF CallerKnows
  <2> QED BY <1>1, <1>2, <2>1 DEF CallerKnows, SaysDone
<1>3. CASE loop[p].run \in Runs
  <2>1. PICK u \in Runs : u = loop[p].run BY <1>3
  <2>2. SaysDone(p) => Over(u)' BY <1>1, <1>3, <2>1, OverStays DEF CallerKnows
  <2>3. loop'[p].run = u BY <2>1
  <2>4. SaysDone(p)' => Over(loop[p].run)' BY <2>2, <2>3
  <2> QED BY <1>1, <1>3, <2>4, CallersJob DEF CallerKnows
<1> QED BY <1>2, <1>3


LEMMA RunKnown ==
  ASSUME KnownInv, NEW p \in Callers, loop[p] # NoLoop, loop[p].at # "settle"
  PROVE  loop[p].run \in Runs
  BY DEF KnownInv, EndInv, CallerKnows

LEMMA KnowsStaying ==
  ASSUME KnownInv, [ARNext]_vars, NEW q \in Callers, loop'[q] = loop[q]
  PROVE  CallerKnows(q)'
<1>1. CallerKnows(q) BY DEF KnownInv, EndInv
<1>2. CASE loop[q] = NoLoop BY <1>2 DEF CallerKnows
<1>3. CASE loop[q] # NoLoop
  BY <1>1, <1>3, KnowsMoving DEF CallerKnows, SaysDone
<1> QED BY <1>2, <1>3

\* A caller that goes to a label, and every other caller.
LEMMA KnowsGoing ==
  ASSUME KnownInv, [ARNext]_vars, NEW p \in Callers, loop[p] # NoLoop,
         NEW l \in LoopLabel, NEW reply \in Reply, Goes(p, l) \/ Returns(p, l, reply),
         loop[p].at # "settle" \/ loop[p].reply = "COMPLETED",
         l # "claim",
         l \in {"failed", "failTask"} => MayFail,
         l \in {"respond", "message", "finishResponse"} => TaskInHand(p) \in Delegated,
         \/ Goes(p, l) /\ l # "closeTask"
         \/ Returns(p, l, reply) /\ reply # "COMPLETED" /\ l # "closeTask"
         \/ Returns(p, l, reply) /\ reply = "STEP_LIMIT_REACHED"
         \/ Over(loop[p].run)'
  PROVE  \A q \in Callers : CallerKnows(q)'
<1>1. ARTypeOK BY DEF KnownInv, ARInv
<1>2. /\ \A q \in Callers \ {p} : loop'[q] = loop[q]
      /\ loop'[p].at = l /\ loop'[p].run = loop[p].run
      /\ loop' \in [Callers -> Loop \union {NoLoop}]
  BY <1>1, GoesOn
<1>3. loop[p] \in Loop BY <1>1 DEF ARTypeOK
<1>4. loop[p].run \in Runs BY DEF KnownInv, EndInv, CallerKnows
<1>5. /\ Goes(p, l) => loop'[p].reply = loop[p].reply
      /\ Returns(p, l, reply) => loop'[p].reply = reply
  BY <1>1, <1>3 DEF Goes, Returns, ARTypeOK, Loop
<1>6. CASE loop'[p] = NoLoop
  BY <1>2, <1>6, KnowsStaying DEF CallerKnows
<1>7. CASE loop'[p] # NoLoop
  <2>1. SaysDone(p)' => SaysDone(p) \/ Over(loop[p].run)'
    BY <1>2, <1>5 DEF SaysDone
  <2>2. CallerKnows(p)' BY <1>2, <1>4, <1>7, <2>1, KnowsMoving
  <2> QED BY <1>2, <2>2, KnowsStaying
<1> QED BY <1>6, <1>7

LEMMA KnowsQuitting ==
  ASSUME KnownInv, [ARNext]_vars, NEW p \in Callers, Quits(p)
  PROVE  \A q \in Callers : CallerKnows(q)'
<1>1. ARTypeOK BY DEF KnownInv, ARInv
<1>2. (\A q \in Callers \ {p} : loop'[q] = loop[q]) /\ loop'[p] = NoLoop
  BY <1>1, QuitsOn
<1>3. CallerKnows(p)' BY <1>2 DEF CallerKnows
<1> QED BY <1>2, <1>3, KnowsStaying

LEMMA KnowsLoop ==
  ASSUME KnownInv, [ARNext]_vars, NEW p \in Callers, RunLoop(p)
  PROVE  \A q \in Callers : CallerKnows(q)'
<1>1. /\ ARTypeOK /\ Solo /\ LoopKnows(p) /\ CallerKnows(p)
  BY DEF KnownInv, ARInv, EndInv, Solo
<1>2. loop[p] # NoLoop /\ loop[p] \in Loop
  <2>1. loop[p] # NoLoop
    BY DEF RunLoop, EnterLoop, Plan, PlanExhausted, CompleteRun, LimitRun, CloseTask, AskHuman,
       PauseRun, PauseTask, RunTool, FinishTool, RecordResult, LoopThrows,
       FailRun, FailTask, At
  <2> QED BY <1>1, <2>1 DEF ARTypeOK
<1>3. CASE Plan(p) \/ RecordResult(p)
  <2>1. loop[p].at \in {"plan", "record"} BY <1>3 DEF Plan, RecordResult, At
  <2>2. /\ \A q \in Callers \ {p} : loop'[q] = loop[q]
        /\ loop'[p].run = loop[p].run /\ loop'[p].reply = loop[p].reply
        /\ loop'[p].at \in {"answer", "ask", "tool", "plan"}
    <3>1. CASE Plan(p)
      <4>1. PICK l \in {"answer", "ask", "tool"}, r \in Requests \union {NoRequest} :
              loop' = [loop EXCEPT ![p].at = l, ![p].step = @ + 1, ![p].req = r]
        BY <3>1 DEF Plan
      <4> QED BY <1>1, <1>2, <4>1 DEF ARTypeOK, Loop
    <3>2. CASE RecordResult(p)
      <4> DEFINE results == Append(loop[p].results, loop[p].req)
      <4>1. loop' = [loop EXCEPT ![p].at = "plan", ![p].results = results]
        BY <3>2 DEF RecordResult
      <4> HIDE DEF results
      <4> QED BY <1>1, <1>2, <4>1 DEF ARTypeOK, Loop
    <3> QED BY <1>3, <3>1, <3>2
  <2>3. CASE loop'[p] = NoLoop BY <2>2, <2>3, KnowsStaying DEF CallerKnows
  <2>4. CASE loop'[p] # NoLoop
    <3>1. SaysDone(p)' => SaysDone(p) BY <2>2 DEF SaysDone
    <3>2. CallerKnows(p)' BY <1>2, <2>1, <2>2, <2>4, <3>1, RunKnown, KnowsMoving
    <3> QED BY <2>2, <3>2, KnowsStaying
  <2> QED BY <2>3, <2>4
<1>4. CASE CompleteRun(p)
  <2>1. /\ loop[p].at = "answer"
        /\ UpdateRun(p, "COMPLETED", loop[p].step, loop[p].results, NoRequest)
    BY <1>4 DEF CompleteRun, At
  <2>2. PICK reply \in Reply : Returns(p, "closeTask", reply) BY <1>4 DEF CompleteRun
  <2>3. loop[p].run \in Runs BY <1>1, <1>2, <2>1 DEF CallerKnows
  <2>4. PICK u \in Runs : u = loop[p].run BY <2>3
  <2>5. Drives(p, u) BY <1>2, <2>1, <2>4 DEF Drives
  <2>6. (\A q \in Callers \ {p} : loop'[q] = loop[q]) /\ loop'[p].at = "closeTask"
        /\ loop'[p].run = u
    BY <1>1, <1>2, <2>2, <2>4, GoesOn
  <2>7. \A q \in Callers : ~Drives(q, u)'
    BY <1>1, <2>5, <2>6 DEF Solo, DrivesAlone, Drives
  <2>8. run'[u].status = "COMPLETED" /\ run'[u].done
    BY <1>1, <2>1, <2>4 DEF UpdateRun, Written, ARTypeOK, RunRow
  <2>9. Over(loop[p].run)' BY <2>6, <2>7, <2>8 DEF Over
  <2> QED BY <1>2, <2>1, <2>2, <2>9, KnowsGoing
<1>5. CASE LoopThrows(p)
  <2>1. MayFail /\ loop[p].at \in TryLabel BY <1>5 DEF LoopThrows
  <2>2. CASE Goes(p, "failed") BY <1>2, <2>1, <2>2, KnowsGoing
  <2>3. CASE loop' = [loop EXCEPT ![p].at = "failed", ![p].results = Append(@, loop[p].req)]
    <3>1. /\ \A q \in Callers \ {p} : loop'[q] = loop[q]
          /\ loop'[p].run = loop[p].run /\ loop'[p].reply = loop[p].reply
          /\ loop'[p].at = "failed"
      BY <1>1, <1>2, <2>3 DEF ARTypeOK, Loop
    <3>2. CASE loop'[p] = NoLoop BY <3>1, <3>2, KnowsStaying DEF CallerKnows
    <3>3. CASE loop'[p] # NoLoop
      <4>1. SaysDone(p)' => SaysDone(p) BY <3>1 DEF SaysDone
      <4>2. CallerKnows(p)' BY <1>2, <2>1, <3>1, <3>3, <4>1, RunKnown, KnowsMoving
      <4> QED BY <3>1, <4>2, KnowsStaying
    <3> QED BY <3>2, <3>3
  <2> QED BY <1>5, <2>2, <2>3 DEF LoopThrows
<1>6. CASE RunTool(p)
  <2>1. loop[p].at = "tool" /\ loop[p].req \in Requests
    BY <1>1, <1>2, <1>6 DEF RunTool, At, LoopKnows, Holding
  <2>2. asker'[loop[p].req] # "called" => MayFail
    BY <1>1, <1>6, <2>1 DEF RunTool, CallTool, AskerMoves, ARTypeOK, TypeOK
  <2>3. CASE Goes(p, "finish") BY <1>2, <2>1, <2>3, KnowsGoing
  <2>4. CASE Goes(p, "failed") /\ MayFail BY <1>2, <2>1, <2>4, KnowsGoing
  <2> QED BY <1>6, <2>2, <2>3, <2>4 DEF RunTool
<1>7. CASE LimitRun(p)
  <2>1. loop[p].at = "limit" /\ Returns(p, "closeTask", "STEP_LIMIT_REACHED")
    BY <1>7 DEF LimitRun, At
  <2> QED BY <1>2, <2>1, KnowsGoing
<1>8. CASE PauseTask(p) \/ FailTask(p)
  <2>1. /\ loop[p].at \in {"pauseTask", "failTask"}
        /\ \/ Returns(p, "returned", "WAITING_FOR_HUMAN")
           \/ Returns(p, "returned", "threw")
           \/ MayFail /\ Goes(p, "failed")
    BY <1>8 DEF PauseTask, FailTask, At
  <2> QED BY <1>2, <2>1, KnowsGoing
<1>9. CASE FailRun(p)
  <2>1. loop[p].at = "failed" /\ Goes(p, "failTask") BY <1>9 DEF FailRun, At
  <2>2. MayFail BY <1>1, <1>2, <2>1 DEF CallerKnows
  <2> QED BY <1>2, <2>1, <2>2, KnowsGoing
<1>10. CASE PlanExhausted(p) \/ CloseTask(p) \/ AskHuman(p) \/ PauseRun(p) \/ FinishTool(p)
  <2>1. /\ loop[p].at # "settle"
        /\ \/ Goes(p, "limit") \/ Goes(p, "returned") \/ Goes(p, "pause")
           \/ Goes(p, "pauseTask") \/ Goes(p, "record") \/ (MayFail /\ Goes(p, "failed"))
    BY <1>10 DEF PlanExhausted, CloseTask, AskHuman, PauseRun, FinishTool, At
  <2> QED BY <1>2, <2>1, KnowsGoing
<1>11. CASE EnterLoop(p)
  <2> DEFINE row == run[loop[p].run]
  <2>1. /\ loop[p].at = "enter"
        /\ loop' = [loop EXCEPT ![p].at = "plan", ![p].step = row.step, ![p].results = row.results]
    BY <1>11 DEF EnterLoop, At
  <2> HIDE DEF row
  <2>2. /\ \A q \in Callers \ {p} : loop'[q] = loop[q]
        /\ loop'[p].run = loop[p].run /\ loop'[p].reply = loop[p].reply
        /\ loop'[p].at = "plan"
    BY <1>1, <1>2, <2>1 DEF ARTypeOK, Loop
  <2>3. CASE loop'[p] = NoLoop BY <2>2, <2>3, KnowsStaying DEF CallerKnows
  <2>4. CASE loop'[p] # NoLoop
    <3>1. SaysDone(p)' => SaysDone(p) BY <2>2 DEF SaysDone
    <3>2. CallerKnows(p)' BY <1>2, <2>1, <2>2, <2>4, <3>1, RunKnown, KnowsMoving
    <3> QED BY <2>2, <3>2, KnowsStaying
  <2> QED BY <2>3, <2>4
<1> QED BY <1>3, <1>4, <1>5, <1>6, <1>7, <1>8, <1>9, <1>10, <1>11 DEF RunLoop

LEMMA KnowsCalling ==
  ASSUME KnownInv, [ARNext]_vars, NEW p \in Runs, Act(p) \/ CreateRun(p) \/ ActReturns(p)
  PROVE  \A q \in Callers : CallerKnows(q)'
<1>1. ARTypeOK /\ p \in Callers /\ p \notin Deciders
  BY RunsAssumption DEF KnownInv, ARInv, Callers
<1>2. CASE Act(p)
  <2> DEFINE new == [at |-> "create", run |-> p, step |-> 0, results |-> << >>,
                     req |-> NoRequest, reply |-> "none"]
  <2>1. loop' = [loop EXCEPT ![p] = new] BY <1>2 DEF Act
  <2>2. (\A q \in Callers \ {p} : loop'[q] = loop[q]) /\ loop'[p] = new
    BY <1>1, <2>1 DEF ARTypeOK
  <2>3. CallerKnows(p)' BY <1>1, <2>2 DEF CallerKnows, SaysDone
  <2> QED BY <2>2, <2>3, KnowsStaying
<1>3. CASE CreateRun(p)
  <2>1. loop[p] # NoLoop /\ loop[p].at = "create" /\ Goes(p, "plan")
    BY <1>3 DEF CreateRun, At
  <2> QED BY <1>1, <2>1, KnowsGoing
<1>4. CASE ActReturns(p)
  <2>1. CASE Quits(p) BY <1>1, <2>1, KnowsQuitting
  <2>2. CASE ~Quits(p)
    <3>1. loop[p] # NoLoop /\ loop[p].at = "returned" /\ Goes(p, "respond") /\ p \notin Finalizes
      BY <1>4, <2>2 DEF ActReturns, At
    <3>2. TaskInHand(p) \in Delegated BY <3>1, RunsAssumption DEF TaskInHand
    <3> QED BY <1>1, <3>1, <3>2, KnowsGoing
  <2> QED BY <2>1, <2>2
<1> QED BY <1>2, <1>3, <1>4

LEMMA KnowsAnswering ==
  ASSUME KnownInv, [ARNext]_vars, NEW p \in Callers, AnswerTask(p) \/ Stop(p)
  PROVE  \A q \in Callers : CallerKnows(q)'
<1>1. CallerKnows(p) BY DEF KnownInv, EndInv
<1>2. CASE Quits(p) BY <1>2, KnowsQuitting
<1>3. CASE ~Quits(p)
  <2>1. /\ loop[p] # NoLoop /\ loop[p].at \in {"respond", "message"}
        /\ Goes(p, "message") \/ Goes(p, "finishResponse")
    BY <1>3 DEF AnswerTask, RespondTask, PostResponse, FinishResponse, Stop, At, Done
  <2>2. TaskInHand(p) \in Delegated BY <1>1, <2>1 DEF CallerKnows
  <2> QED BY <2>1, <2>2, KnowsGoing
<1> QED BY <1>2, <1>3

LEMMA KnowsResuming ==
  ASSUME KnownInv, [ARNext]_vars, NEW d \in Deciders, Resume(d)
  PROVE  \A q \in Callers : CallerKnows(q)'
<1>1. ARTypeOK /\ d \in Callers /\ d \notin Runs /\ CallerKnows(d) /\ IInv
  BY RunsAssumption DEF KnownInv, ARInv, EndInv, Callers
<1>2. CASE FindWaiting(d)
  <2>1. CASE UNCHANGED loop BY <2>1, KnowsStaying
  <2>2. CASE ~UNCHANGED loop
    <3> DEFINE new(l, u) == [at |-> l, run |-> u, step |-> 0, results |-> << >>,
                             req |-> job[d].exec, reply |-> "none"]
    <3>1. PICK l \in {"settle", "claim"}, u \in Runs \union {NoRun} :
            /\ l = "settle" => u = NoRun
            /\ l = "claim" => u \in WaitingOn(job[d].exec)
            /\ loop' = [loop EXCEPT ![d] = new(l, u)]
            /\ UNCHANGED taVars /\ UNCHANGED issuer
            /\ pc[d] = "resume"
      BY <1>2, <2>2 DEF FindWaiting, WaitingOn
    <3>2. (\A q \in Callers \ {d} : loop'[q] = loop[q]) /\ loop'[d] = new(l, u)
      BY <1>1, <3>1 DEF ARTypeOK
    <3>3. job'[d] = job[d] /\ job[d].exec \in Requests /\ job[d].app = job[d].exec
      BY <1>1, <3>1 DEF IInv, TypeOK, JobInv, taVars
    <3>4. u \in Runs => issuer[job[d].app] = u
      <4>1. ASSUME u \in Runs PROVE issuer[job[d].app] = u
        <5>1. /\ u \in Runs /\ run[u].status = "WAITING_FOR_HUMAN"
              /\ run[u].waiting = job[d].exec
          BY <3>1, <4>1, RunsAssumption DEF WaitingOn
        <5>2. Accounts(Remembered(u), run[u].results, run[u].waiting)
          BY <5>1 DEF KnownInv, LedgerInv, LedgerOf, AccountOf
        <5> QED BY <3>3, <5>1, <5>2 DEF Accounts, Remembered, IssuedBy
      <4> QED BY <4>1
    <3>5. CallerKnows(d)' BY <1>1, <3>1, <3>2, <3>3, <3>4 DEF CallerKnows, SaysDone, WaitingOn
    <3> QED BY <3>2, <3>5, KnowsStaying
  <2> QED BY <2>1, <2>2
<1>3. CASE ClaimWaiting(d)
  <2>1. loop[d] # NoLoop /\ loop[d].at = "claim" /\ loop[d] \in Loop
    BY <1>1, <1>3 DEF ClaimWaiting, At, ARTypeOK
  <2>2. CASE Goes(d, "settle") BY <1>1, <2>1, <2>2, KnowsGoing
  <2>3. CASE ~Goes(d, "settle")
    <3>1. PICK l \in {"restart", "decline"} :
            loop' = [loop EXCEPT ![d] =
              [@ EXCEPT !.at = l, !.step = run[loop[d].run].step,
                        !.results = Append(run[loop[d].run].results, loop[d].req)]]
      BY <1>3, <2>3 DEF ClaimWaiting
    <3>2. /\ \A q \in Callers \ {d} : loop'[q] = loop[q]
          /\ loop'[d].run = loop[d].run /\ loop'[d].reply = loop[d].reply /\ loop'[d].at = l
      BY <1>1, <2>1, <3>1 DEF ARTypeOK, Loop
    <3>3. CASE loop'[d] = NoLoop BY <3>2, <3>3, KnowsStaying DEF CallerKnows
    <3>4. CASE loop'[d] # NoLoop
      <4>1. SaysDone(d)' => SaysDone(d) BY <3>2 DEF SaysDone
      <4>2. CallerKnows(d)' BY <1>1, <2>1, <3>2, <3>4, <4>1, RunKnown, KnowsMoving
      <4> QED BY <3>2, <4>2, KnowsStaying
    <3> QED BY <3>3, <3>4
  <2> QED BY <2>2, <2>3
<1>4. CASE DeclineRun(d)
  <2>1. loop[d] # NoLoop /\ loop[d].at = "decline" /\ Returns(d, "settle", "REJECTED")
    BY <1>4 DEF DeclineRun, At
  <2> QED BY <1>1, <2>1, KnowsGoing
<1>5. CASE RestartRun(d)
  <2>1. loop[d] # NoLoop /\ loop[d].at = "restart" /\ Goes(d, "enter")
    BY <1>5 DEF RestartRun, At
  <2> QED BY <1>1, <2>1, KnowsGoing
<1>6. CASE ResumeReturns(d) \/ SettleTask(d) \/ CompleteDelegated(d)
  <2>1. CASE Quits(d) BY <1>1, <2>1, KnowsQuitting
  <2>2. CASE ~Quits(d)
    <3>1. /\ loop[d] # NoLoop
          /\ \/ loop[d].at = "returned" /\ Goes(d, "settle")
             \/ loop[d].at = "settle" /\ loop[d].reply = "COMPLETED" /\ Goes(d, "delegated")
             \/ loop[d].at = "delegated" /\ Goes(d, "respond") /\ TaskInHand(d) \in Delegated
      BY <1>6, <2>2 DEF ResumeReturns, SettleTask, CompleteDelegated, At, Done
    <3> QED BY <1>1, <3>1, KnowsGoing
  <2> QED BY <2>1, <2>2
<1>7. CASE SettleBare(d) BY <1>7, KnowsStaying DEF SettleBare
<1> QED BY <1>2, <1>3, <1>4, <1>5, <1>6, <1>7 DEF Resume

LEMMA CallersKnow ==
  ASSUME KnownInv, [ARNext]_vars
  PROVE  \A p \in Callers : CallerKnows(p)'
<1>1. CASE UNCHANGED loop BY <1>1, KnowsStaying
<1>2. CASE ~UNCHANGED loop
  <2>1. ARNext BY <1>2 DEF vars, arVars
  <2>2. ~\E d \in Deciders : DecideApproval(d) BY <1>2 DEF DecideApproval, arVars
  <2>3. ~\E r \in Requests : DirectIssue(r) \/ PostRequestTask(r)
    BY <1>2 DEF DirectIssue, PostRequestTask
  <2> QED BY <2>1, <2>2, <2>3, KnowsCalling, KnowsLoop, KnowsAnswering, KnowsResuming DEF ARNext
<1> QED BY <1>1, <1>2


\* Who declares a task COMPLETED that nobody delegated.
LEMMA TaskDeclared ==
  ASSUME KnownInv, [ARNext]_vars, NEW t \in Tasks \ Delegated,
         task'[t] = "COMPLETED", task[t] # "COMPLETED"
  PROVE  \E p \in Callers : /\ loop[p] # NoLoop /\ SaysDone(p)
                            /\ loop[p].run \in Runs /\ TaskOf[loop[p].run] = t
<1>1. ARTypeOK /\ IInv /\ ARNext /\ task' # task
  BY DEF KnownInv, ARInv, vars, arVars
<1>2. ASSUME NEW x, NEW status, SetTask(x, status)
      PROVE  x = t /\ status = "COMPLETED"
  BY <1>1, <1>2 DEF SetTask, ARTypeOK
<1>3. ASSUME NEW u \in Runs, Act(u) \/ CreateRun(u) \/ ActReturns(u) PROVE FALSE
  BY <1>1, <1>2, <1>3 DEF Act, CreateRun, ActReturns
<1>4. ASSUME NEW p \in Callers, RunLoop(p)
      PROVE  /\ loop[p] # NoLoop /\ SaysDone(p)
             /\ loop[p].run \in Runs /\ TaskOf[loop[p].run] = t
  <2>1. CloseTask(p) \/ PauseTask(p) \/ FailTask(p)
    BY <1>1, <1>4 DEF RunLoop, EnterLoop, Plan, PlanExhausted, CompleteRun, LimitRun, AskHuman,
       PauseRun, RunTool, FinishTool, RecordResult, LoopThrows, FailRun
  <2>2. ~PauseTask(p) BY <1>2 DEF PauseTask
  <2>3. ~FailTask(p) BY <1>1, <1>2 DEF FailTask, SetFinalTask
  <2>4. loop[p] # NoLoop /\ loop[p].at = "closeTask" BY <2>1, <2>2, <2>3 DEF CloseTask, At
  <2>5. /\ loop[p].run \in Finalizes /\ TaskOf[loop[p].run] = t
        /\ loop[p].reply # "STEP_LIMIT_REACHED"
    BY <1>1, <1>2, <2>1, <2>2, <2>3 DEF CloseTask, SetFinalTask
  <2> QED BY <2>4, <2>5, RunsAssumption DEF SaysDone
<1>5. ASSUME NEW p \in Callers, AnswerTask(p) \/ Stop(p) PROVE FALSE
  <2>1. loop[p] # NoLoop /\ loop[p].at = "finishResponse" /\ SetTask(TaskInHand(p), "COMPLETED")
    BY <1>1, <1>5 DEF AnswerTask, RespondTask, PostResponse, FinishResponse, Stop, At
  <2>2. TaskInHand(p) \in Delegated BY <2>1 DEF KnownInv, EndInv, CallerKnows
  <2> QED BY <1>2, <2>1, <2>2
<1>6. ASSUME NEW d \in Deciders, Resume(d)
      PROVE  /\ loop[d] # NoLoop /\ SaysDone(d)
             /\ loop[d].run \in Runs /\ TaskOf[loop[d].run] = t
  <2>1. SettleTask(d) \/ SettleBare(d)
    BY <1>1, <1>6 DEF Resume, FindWaiting, ClaimWaiting, DeclineRun, RestartRun,
       ResumeReturns, CompleteDelegated
  <2>2. ~SettleBare(d) BY <1>2 DEF SettleBare
  <2>3. loop[d] # NoLoop /\ loop[d].at = "settle" /\ SetTask(SubjectOf(job[d].app), SettledStatus(d))
    BY <1>1, <2>1, <2>2 DEF SettleTask, At
  <2>4. SubjectOf(job[d].app) = t /\ SettledStatus(d) = "COMPLETED" BY <1>2, <2>3
  <2>5. d \in Callers BY DEF Callers
  <2>6. pc[d] = "resume" BY <2>3, <2>5 DEF KnownInv, ARInv, LoopKnows
  <2>7. job[d] \in Job /\ job[d].app = job[d].exec BY <1>1, <2>6 DEF IInv, TypeOK, JobInv
  <2>8. loop[d].reply = "COMPLETED" BY <2>4, <2>7 DEF SettledStatus
  <2>9. loop[d].run \in Runs /\ issuer[job[d].app] = loop[d].run
    BY <2>3, <2>5, <2>8 DEF KnownInv, EndInv, CallerKnows
  <2>10. job[d].app \notin Direct
    <3>1. job[d].app \in Requests BY <2>7
    <3>2. loop[d].run # NoRun BY <2>9, RunsAssumption
    <3> QED BY <2>9, <3>1, <3>2 DEF KnownInv, LedgerInv, UnissuedOf
  <2>11. loop[d].run # NoRun BY <2>9, RunsAssumption
  <2> QED BY <2>3, <2>4, <2>8, <2>9, <2>10, <2>11 DEF SubjectOf, SaysDone
<1>7. ASSUME NEW d \in Deciders, DecideApproval(d) PROVE FALSE
  BY <1>1, <1>7 DEF DecideApproval, arVars
<1>8. ASSUME NEW r \in Requests, DirectIssue(r) \/ PostRequestTask(r) PROVE FALSE
  BY <1>1, <1>2, <1>8 DEF DirectIssue, PostRequestTask
<1> QED BY <1>1, <1>3, <1>4, <1>5, <1>6, <1>7, <1>8 DEF ARNext, Callers

LEMMA TasksKnow ==
  ASSUME KnownInv, [ARNext]_vars, NEW t \in Tasks
  PROVE  TaskKnows(t)'
<1> SUFFICES ASSUME task'[t] = "COMPLETED", t \notin Delegated
             PROVE  \E u \in Runs : TaskOf[u] = t /\ Over(u)'
  BY DEF TaskKnows
<1>1. \E u \in Runs : TaskOf[u] = t /\ Over(u)
  <2>1. CASE task[t] = "COMPLETED" BY <2>1 DEF KnownInv, EndInv, TaskKnows
  <2>2. CASE task[t] # "COMPLETED"
    BY <2>2, TaskDeclared DEF KnownInv, EndInv, CallerKnows
  <2> QED BY <2>1, <2>2
<1> QED BY <1>1, OverStays

LEMMA EndInit == ARInit => EndInv
<1> SUFFICES ASSUME ARInit PROVE EndInv
  OBVIOUS
<1>1. \A p \in Callers : loop[p] = NoLoop BY DEF ARInit
<1>2. \A d \in Deciders : pc[d] = "idle" BY DEF ARInit, Init
<1>3. \A t \in Tasks : task[t] # "COMPLETED" BY DEF ARInit
<1> QED BY <1>1, <1>2, <1>3 DEF EndInv, CallerKnows, OutcomeStored, TaskKnows

LEMMA EndStep == KnownInv /\ [ARNext]_vars => EndInv'
  BY CallersKnow, OutcomeStep, TasksKnow DEF EndInv

\* What is known stays known when only a task is written, and not COMPLETED.
LEMMA TaskOnlyKnows ==
  ASSUME KnownInv, ARInv', UNCHANGED <<taVars, run, loop, issuer, posting>>,
         \A x \in Tasks \ Delegated : task'[x] = "COMPLETED" => task[x] = "COMPLETED"
  PROVE  KnownInv'
<1>1. \A p \in Callers, u \in Runs : Drives(p, u)' <=> Drives(p, u)
  BY DEF Drives
<1>2. LedgerInv'
  <2>1. \A u \in Runs : IssuedBy(u)' = IssuedBy(u) BY DEF IssuedBy
  <2>2. \A q \in Callers : InHand(q)' = InHand(q) BY DEF InHand
  <2>3. \A q \in Callers, u \in Runs : Writes(q, u)' => Writes(q, u) BY DEF Writes
  <2>4. \A u \in Runs : LedgerOf(u)'
    BY <1>1, <2>1, <2>2, <2>3, LedgerKept DEF KnownInv, LedgerInv
  <2>5. \A r \in Requests : UnissuedOf(r)'
    BY DEF KnownInv, LedgerInv, UnissuedOf, taVars
  <2> QED BY <2>4, <2>5 DEF LedgerInv
<1>3. IInv'
  <2>1. IInv /\ [Next]_taVars BY DEF KnownInv
  <2> QED BY <2>1, InductiveStep
<1>4. EndInv'
  <2>1. \A u \in Runs : Over(u) => Over(u)' BY <1>1 DEF Over
  <2>2. ASSUME NEW p \in Callers PROVE CallerKnows(p)'
    <3>1. CallerKnows(p) BY DEF KnownInv, EndInv
    <3>2. loop[p] # NoLoop => TaskInHand(p)' = TaskInHand(p) /\ (SaysDone(p)' <=> SaysDone(p))
      BY DEF TaskInHand, SubjectOf, SaysDone, taVars
    <3>3. CASE loop[p] = NoLoop BY <3>3 DEF CallerKnows
    <3>4. CASE loop[p] # NoLoop /\ loop[p].run \notin Runs
      BY <3>1, <3>2, <3>4 DEF CallerKnows, SaysDone
    <3>5. CASE loop[p] # NoLoop /\ loop[p].run \in Runs
      <4>1. PICK u \in Runs : u = loop[p].run BY <3>5
      <4>2. loop'[p] = loop[p] /\ loop'[p].run = u BY <4>1
      <4>3. SaysDone(p)' => Over(loop[p].run)' BY <2>1, <3>1, <3>2, <3>5, <4>1, <4>2 DEF CallerKnows
      <4> QED BY <3>1, <3>2, <3>5, <4>2, <4>3 DEF CallerKnows, taVars
    <3> QED BY <3>3, <3>4, <3>5
  <2>3. \A d \in Deciders : OutcomeStored(d)'
    BY DEF KnownInv, EndInv, OutcomeStored, taVars
  <2>4. \A x \in Tasks : TaskKnows(x)'
    <3>1. \A x \in Tasks : TaskKnows(x) BY DEF KnownInv, EndInv
    <3> QED BY <2>1, <3>1 DEF TaskKnows
  <2> QED BY <2>2, <2>3, <2>4 DEF EndInv
<1> QED BY <1>2, <1>3, <1>4 DEF KnownInv

LEMMA KnownStep == KnownInv /\ [ARNext]_vars => KnownInv'
<1> SUFFICES ASSUME KnownInv, [ARNext]_vars PROVE KnownInv'
  OBVIOUS
<1>1. ARInv /\ LedgerInv /\ IInv /\ [Next]_taVars BY StepKeeps DEF KnownInv, ARInv
<1> QED BY <1>1, ARInvStep, LedgerStep, InductiveStep, EndStep DEF KnownInv

\* What callers, handlers and tasks know of the runs they depend on is true.
THEOREM KnownInductive == ARSpec => []KnownInv
<1>1. ARInit => KnownInv
  BY ARInvInit, LedgerInit, InductiveInit, EndInit DEF ARInit, KnownInv
<1> QED BY <1>1, KnownStep, PTL DEF ARSpec

\* No caller and no decision declares a task COMPLETED that its runs finalise
\* unless one of those runs has been COMPLETED, and if that run is not so any
\* more, an await may fail and it has been marked FAILED.
THEOREM CompletedTasksFinished == ARSpec => []CompletedTaskHasCompletedRun
<1>1. KnownInv => CompletedTaskHasCompletedRun
  BY DEF KnownInv, EndInv, TaskKnows, Over, CompletedTaskHasCompletedRun
<1> QED BY <1>1, KnownInductive, PTL

\* What ResumedWithOutcome says of one step.
ResumesRightly ==
  \A u \in Runs :
    run[u].status = "WAITING_FOR_HUMAN" /\ run'[u].status = "RUNNING" =>
      LET x == run[u].waiting IN
      /\ execution[x] \in {"COMPLETED", "REJECTED"}
      /\ approval[x] # "PENDING"
      /\ \E d \in Deciders :
           loop'[d] # NoLoop /\ loop'[d].run = u /\ loop'[d].results = Append(run[u].results, x)

LEMMA ResumeStep == KnownInv /\ [ARNext]_vars => ResumesRightly
<1> SUFFICES ASSUME KnownInv, [ARNext]_vars, NEW u \in Runs,
                    run[u].status = "WAITING_FOR_HUMAN", run'[u].status = "RUNNING"
             PROVE  LET x == run[u].waiting IN
                    /\ execution[x] \in {"COMPLETED", "REJECTED"}
                    /\ approval[x] # "PENDING"
                    /\ \E d \in Deciders :
                         /\ loop'[d] # NoLoop /\ loop'[d].run = u
                         /\ loop'[d].results = Append(run[u].results, x)
  BY DEF ResumesRightly
<1>1. ARInv /\ ARTypeOK /\ IInv BY DEF KnownInv, ARInv
<1>2. \A p \in Callers : ~Drives(p, u) BY <1>1 DEF ARInv, DrivesAlone
<1>3. PICK d \in Deciders : ClaimWaiting(d) /\ Claimable(u, loop[d].req) /\ loop[d].run = u
                            /\ loop[d] # NoLoop
  BY <1>1, <1>2, RowWriter
<1>4. d \in Callers /\ loop[d].at = "claim" /\ loop[d] \in Loop /\ run[u].waiting = loop[d].req
  BY <1>1, <1>3 DEF Callers, ClaimWaiting, At, ARTypeOK, Claimable, WaitingOn
<1>5. loop[d].req = job[d].exec BY <1>3, <1>4 DEF KnownInv, EndInv, CallerKnows
<1>6. pc[d] = "resume" BY <1>1, <1>3, <1>4 DEF ARInv, LoopKnows
<1>7. execution[job[d].exec] \in {"COMPLETED", "REJECTED"}
  BY <1>6 DEF KnownInv, EndInv, OutcomeStored
<1>8. approval[job[d].exec] # "PENDING"
  <2>1. job[d].exec \in Requests /\ asker[job[d].exec] = "held"
    BY <1>1, <1>6 DEF IInv, TypeOK, JobInv
  <2> QED BY <1>1, <1>7, <2>1 DEF IInv, DecidedRows
<1>9. PICK l \in {"restart", "decline"} :
        loop' = [loop EXCEPT ![d] =
          [@ EXCEPT !.at = l, !.step = run[u].step,
                    !.results = Append(run[u].results, loop[d].req)]]
  BY <1>3 DEF ClaimWaiting
<1>10. /\ loop'[d].run = u /\ loop'[d].results = Append(run[u].results, loop[d].req)
       /\ loop'[d].at = l
  BY <1>1, <1>3, <1>4, <1>9 DEF ARTypeOK, Loop
<1>11. loop'[d] # NoLoop
  <2>1. /\ run[u].step \in 0..(MaxSteps + 1)
        /\ Append(run[u].results, loop[d].req) \in Seq(Requests)
    BY <1>1, <1>4, <1>5, <1>6 DEF ARTypeOK, RunRow, IInv, TypeOK
  <2>2. [loop[d] EXCEPT !.at = l, !.step = run[u].step,
                        !.results = Append(run[u].results, loop[d].req)] \in Loop
    BY <1>4, <2>1 DEF Loop
  <2> QED BY <1>1, <1>4, <1>9, <2>2, NoLoopAssumption DEF ARTypeOK
<1> QED BY <1>4, <1>5, <1>7, <1>8, <1>10, <1>11


\* Only the conditional UPDATE of a decision handler takes a run out of its
\* pause, after the outcome it waits for is stored and with that outcome.
THEOREM ResumptionsTakeOutcomes == ARSpec => ResumedWithOutcome
<1>1. KnownInv /\ [ARNext]_vars => [ResumesRightly]_vars BY ResumeStep
<1>2. ARSpec => [][ResumesRightly]_vars BY KnownInductive, <1>1, PTL DEF ARSpec
<1> QED BY <1>2 DEF ResumedWithOutcome, ResumesRightly

\* What EndedRunsStayEnded says of one step.
EndsKept ==
  \A u \in Runs :
    /\ run[u].status \in {"COMPLETED", "REJECTED", "STEP_LIMIT_REACHED"} =>
         \/ run'[u] = run[u]
         \/ MayFail /\ run'[u].status = "FAILED" /\ \E p \in Callers : Catches(p, u)
    /\ run[u].status = "FAILED" /\ (\A p \in Callers : ~Drives(p, u)) =>
         run'[u].status = "FAILED"

\* Nobody drives a run that ended, so that of those who may write its row only
\* a caller in its catch block is left.
LEMMA EndsStep == KnownInv /\ [ARNext]_vars => EndsKept
<1> SUFFICES ASSUME KnownInv, [ARNext]_vars, NEW u \in Runs, run'[u] # run[u],
                    \/ run[u].status \in {"COMPLETED", "REJECTED", "STEP_LIMIT_REACHED"}
                    \/ run[u].status = "FAILED" /\ \A p \in Callers : ~Drives(p, u)
             PROVE  MayFail /\ run'[u].status = "FAILED" /\ \E p \in Callers : Catches(p, u)
  BY DEF EndsKept
<1>1. \A p \in Callers : ~Drives(p, u) BY DEF KnownInv, LedgerInv, LedgerOf, AccountOf
<1>2. PICK p \in Callers :
        loop[p] # NoLoop /\ loop[p].run = u /\ loop[p].at = "failed" /\ run'[u].status = "FAILED"
  BY <1>1, RowWriter DEF KnownInv
<1>3. MayFail BY <1>2 DEF KnownInv, EndInv, CallerKnows
<1> QED BY <1>2, <1>3 DEF Catches, At

\* Whatever throws or stops, no late caller or decision revives a run that
\* ended, and only one that held the run and threw marks it FAILED.
THEOREM EndsAreFinal == ARSpec => EndedRunsStayEnded
<1>1. KnownInv /\ [ARNext]_vars => [EndsKept]_vars BY EndsStep
<1>2. ARSpec => [][EndsKept]_vars BY KnownInductive, <1>1, PTL DEF ARSpec
<1> QED BY <1>2 DEF EndedRunsStayEnded, EndsKept

===============================================================================
