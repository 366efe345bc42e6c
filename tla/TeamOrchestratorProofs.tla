------------------------ MODULE TeamOrchestratorProofs -------------------------
(***************************************************************************)
(* Why the stages of a team request never overlap.  A run can be worked on *)
(* outside its own call to act only after it has paused: the first part    *)
(* shows of AgentRun that a run becomes resumable in no other way and that *)
(* act tells its caller.  The second part shows that the orchestrator      *)
(* starts nothing once it has been told.                                   *)
(*                                                                         *)
(* The rest is why a request reported COMPLETED is done: no tool of a call *)
(* that answers COMPLETED was ever put before a human, so no decision will *)
(* touch its run or its task again.                                        *)
(***************************************************************************)
EXTENDS TeamOrchestrator, AgentRunProofs

\* Decisions may work on the run: it waits for one, or one is driving it.
Resumable(u) ==
  \/ run[u].status = "WAITING_FOR_HUMAN"
  \/ \E d \in Deciders : Drives(d, u)

ActReply == {"COMPLETED", "WAITING_FOR_HUMAN", "STEP_LIMIT_REACHED", "threw"}

Telling == {"closeTask", "returned"}

\* What a call to act knows: its own run; and it answers COMPLETED only of a
\* run that no decision will work on.
ActTells(u) ==
  loop[u] # NoLoop =>
    /\ loop[u].run = u
    /\ loop[u].at \in Telling => loop[u].reply \in ActReply
    /\ loop[u].at \in Telling /\ loop[u].reply = "COMPLETED" => ~Resumable(u)

-------------------------------------------------------------------------------
(* Steps of AgentRun *)

\* What a step of caller p inside runLoop may do.
Advances(p) ==
  /\ \A q \in Callers \ {p} : loop'[q] = loop[q]
  /\ loop[p] # NoLoop
  /\ loop'[p].run = loop[p].run
  /\ \A u \in Runs : Drives(p, u)' => Drives(p, u)
  /\ \A u \in Runs : run'[u].status = "WAITING_FOR_HUMAN" =>
       run[u].status = "WAITING_FOR_HUMAN" \/ Drives(p, u)

\* How it comes to tell its caller how the run ended.
Tells(p) ==
  loop'[p].at \in Telling =>
    \/ loop'[p].reply \in ActReply \ {"COMPLETED"}
    \/ /\ loop[p].at \in Telling /\ loop'[p].reply = loop[p].reply
       /\ UNCHANGED run
    \/ /\ Drives(p, loop[p].run) /\ loop'[p].reply \in ActReply
       /\ loop[p].run \in Runs => run'[loop[p].run].status # "WAITING_FOR_HUMAN"

LEMMA GoerAdvances ==
  ASSUME ARTypeOK, NEW p \in Callers, loop[p] # NoLoop,
         NEW l \in LoopLabel \ {"create"}, NEW reply \in Reply,
         Goes(p, l) \/ Returns(p, l, reply),
         l \in {"enter", "plan", "answer", "limit", "ask", "pause", "tool", "finish",
                "record", "decline", "restart"} => Drives(p, loop[p].run),
         \A u \in Runs : run'[u].status = "WAITING_FOR_HUMAN" =>
           run[u].status = "WAITING_FOR_HUMAN" \/ Drives(p, u)
  PROVE  Advances(p) /\ loop'[p].at = l
<1>1. /\ \A q \in Callers \ {p} : loop'[q] = loop[q]
      /\ loop'[p].at = l /\ loop'[p].run = loop[p].run
  BY GoesOn
<1> QED BY <1>1 DEF Advances, Drives

LEMMA WritesRun ==
  ASSUME ARTypeOK, NEW p, NEW status, NEW step, NEW results, NEW waiting,
         UpdateRun(p, status, step, results, waiting)
  PROVE  \A u \in Runs : run'[u].status = IF u = loop[p].run THEN status ELSE run[u].status
  BY DEF ARTypeOK, UpdateRun, Written, RunRow

LEMMA MarksRun ==
  ASSUME ARTypeOK, NEW p, MarkFailed(p)
  PROVE  \A u \in Runs : run'[u].status = IF u = loop[p].run THEN "FAILED" ELSE run[u].status
<1> DEFINE lost == LostBy(p)
           rewound == RewoundBy(p)
<1>1. run' = [run EXCEPT ![loop[p].run] =
        [Written(@, "FAILED", loop[p].step, loop[p].results, NoRequest) EXCEPT
           !.lost = lost, !.rewound = rewound]]
  BY DEF MarkFailed
<1> HIDE DEF lost, rewound
<1> QED BY <1>1 DEF ARTypeOK, Written, RunRow

\* runLoop: only a driver makes the run wait; the reply is chosen by the step
\* that ends or fails the run.
LEMMA RunLoopAdvances ==
  ASSUME ARTypeOK, NEW p \in Callers, RunLoop(p)
  PROVE  Advances(p) /\ Tells(p)
<1>0. loop[p] # NoLoop /\ loop[p] \in Loop
  <2>1. loop[p] # NoLoop
    BY DEF RunLoop, EnterLoop, Plan, PlanExhausted, CompleteRun, LimitRun, CloseTask, AskHuman,
       PauseRun, PauseTask, RunTool, FinishTool, RecordResult, LoopThrows,
       FailRun, FailTask, At
  <2> QED BY <2>1 DEF ARTypeOK
<1>1. CASE Plan(p)
  <2>1. loop[p].at = "plan" /\ UNCHANGED run BY <1>1 DEF Plan, At
  <2>2. PICK l \in {"answer", "ask", "tool"}, r \in Requests \union {NoRequest} :
          loop' = [loop EXCEPT ![p].at = l, ![p].step = @ + 1, ![p].req = r]
    BY <1>1 DEF Plan
  <2>3. /\ \A q \in Callers \ {p} : loop'[q] = loop[q]
        /\ loop'[p].at = l /\ loop'[p].run = loop[p].run
    BY <1>0, <2>2 DEF ARTypeOK, Loop
  <2> QED BY <1>0, <2>1, <2>3 DEF Advances, Tells, Drives, Telling
<1>2. CASE PlanExhausted(p) \/ AskHuman(p) \/ RunTool(p) \/ FinishTool(p)
  <2>1. PICK l \in {"limit", "pause", "finish", "failed", "record"} : Goes(p, l)
    BY <1>2 DEF PlanExhausted, AskHuman, RunTool, FinishTool
  <2>2. UNCHANGED run /\ Drives(p, loop[p].run)
    BY <1>0, <1>2 DEF PlanExhausted, AskHuman, RunTool, FinishTool, At, Drives
  <2>3. l \in LoopLabel \ {"create"} /\ "none" \in Reply BY DEF LoopLabel, TryLabel, Reply
  <2>4. Advances(p) /\ loop'[p].at = l BY <1>0, <2>1, <2>2, <2>3, GoerAdvances
  <2> QED BY <2>4 DEF Tells, Telling
<1>3. CASE CompleteRun(p)
  <2>1. /\ UpdateRun(p, "COMPLETED", loop[p].step, loop[p].results, NoRequest)
        /\ Drives(p, loop[p].run)
    BY <1>0, <1>3 DEF CompleteRun, At, Drives
  <2>2. PICK reply \in {"COMPLETED", "WAITING_FOR_HUMAN"} : Returns(p, "closeTask", reply)
    BY <1>3 DEF CompleteRun
  <2>3. \A u \in Runs : run'[u].status = IF u = loop[p].run THEN "COMPLETED" ELSE run[u].status
    BY <2>1, WritesRun
  <2>4. Advances(p)
    BY <1>0, <2>1, <2>2, <2>3, GoerAdvances DEF LoopLabel, TryLabel, Reply
  <2>5. loop'[p].reply = reply BY <1>0, <2>2 DEF Returns, ARTypeOK, Loop
  <2>6. loop[p].run \in Runs => run'[loop[p].run].status # "WAITING_FOR_HUMAN"
    BY <2>3
  <2> QED BY <2>1, <2>4, <2>5, <2>6 DEF Tells, ActReply
<1>4. CASE LimitRun(p) \/ (PauseTask(p) /\ ~Goes(p, "failed")) \/ FailTask(p)
  <2>1. PICK l \in Telling, reply \in ActReply \ {"COMPLETED"} : Returns(p, l, reply)
    BY <1>4 DEF LimitRun, PauseTask, FailTask, Telling, ActReply
  <2>2. \A u \in Runs : run'[u].status = "WAITING_FOR_HUMAN" =>
          run[u].status = "WAITING_FOR_HUMAN"
    BY <1>4, WritesRun DEF LimitRun, PauseTask, FailTask
  <2>3. Advances(p)
    BY <1>0, <2>1, <2>2, GoerAdvances DEF LoopLabel, TryLabel, Reply, Telling, ActReply
  <2>4. loop'[p].reply = reply BY <1>0, <2>1 DEF Returns, ARTypeOK, Loop
  <2> QED BY <2>3, <2>4 DEF Tells
<1>10. CASE (CloseTask(p) \/ PauseTask(p)) /\ Goes(p, "failed")
  <2>1. UNCHANGED run BY <1>10 DEF CloseTask, PauseTask
  <2>2. Advances(p) /\ loop'[p].at = "failed"
    BY <1>0, <1>10, <2>1, GoerAdvances DEF LoopLabel, TryLabel, Reply
  <2> QED BY <2>2 DEF Tells, Telling
<1>11. CASE EnterLoop(p)
  <2> DEFINE row == run[loop[p].run]
  <2>1. /\ loop[p].at = "enter" /\ UNCHANGED run
        /\ loop' = [loop EXCEPT ![p].at = "plan", ![p].step = row.step, ![p].results = row.results]
    BY <1>11 DEF EnterLoop, At
  <2> HIDE DEF row
  <2>2. /\ \A q \in Callers \ {p} : loop'[q] = loop[q]
        /\ loop'[p].at = "plan" /\ loop'[p].run = loop[p].run
    BY <1>0, <2>1 DEF ARTypeOK, Loop
  <2> QED BY <1>0, <2>1, <2>2 DEF Advances, Tells, Drives, Telling
<1>5. CASE CloseTask(p) /\ ~Goes(p, "failed")
  <2>1. loop[p].at = "closeTask" /\ Goes(p, "returned") /\ UNCHANGED run
    BY <1>5 DEF CloseTask, At
  <2>2. Advances(p)
    BY <1>0, <2>1, GoerAdvances DEF LoopLabel, TryLabel, Reply
  <2>3. loop'[p].reply = loop[p].reply BY <1>0, <2>1 DEF Goes, ARTypeOK, Loop
  <2> QED BY <2>1, <2>2, <2>3 DEF Tells, Telling
<1>6. CASE PauseRun(p)
  <2>1. /\ UpdateRun(p, "WAITING_FOR_HUMAN", loop[p].step + 1, loop[p].results, loop[p].req)
        /\ Goes(p, "pauseTask") /\ Drives(p, loop[p].run)
    BY <1>0, <1>6 DEF PauseRun, At, Drives
  <2>2. Advances(p) /\ loop'[p].at = "pauseTask"
    BY <1>0, <2>1, WritesRun, GoerAdvances DEF LoopLabel, TryLabel, Reply
  <2> QED BY <2>2 DEF Tells, Telling
<1>7. CASE RecordResult(p)
  <2>1. /\ UpdateRun(p, "RUNNING", loop[p].step, Append(loop[p].results, loop[p].req), NoRequest)
        /\ loop[p].at = "record"
        /\ loop' = [loop EXCEPT ![p].at = "plan", ![p].results = Append(loop[p].results, loop[p].req)]
    BY <1>7 DEF RecordResult, At
  <2>2. /\ \A q \in Callers \ {p} : loop'[q] = loop[q]
        /\ loop'[p].at = "plan" /\ loop'[p].run = loop[p].run
    BY <1>0, <2>1 DEF ARTypeOK, Loop
  <2>3. \A u \in Runs : run'[u].status = IF u = loop[p].run THEN "RUNNING" ELSE run[u].status
    BY <2>1, WritesRun
  <2> QED BY <1>0, <2>1, <2>2, <2>3 DEF Advances, Tells, Drives, Telling
<1>8. CASE LoopThrows(p)
  <2>1. UNCHANGED run BY <1>8 DEF LoopThrows
  <2>2. /\ \A q \in Callers \ {p} : loop'[q] = loop[q]
        /\ loop'[p].at = "failed" /\ loop'[p].run = loop[p].run
    BY <1>0, <1>8 DEF LoopThrows, Goes, ARTypeOK, Loop
  <2> QED BY <1>0, <2>1, <2>2 DEF Advances, Tells, Drives, Telling
<1>9. CASE FailRun(p)
  <2>1. Goes(p, "failTask") BY <1>9 DEF FailRun
  <2>2. \A u \in Runs : run'[u].status = "WAITING_FOR_HUMAN" =>
          run[u].status = "WAITING_FOR_HUMAN"
    BY <1>9, MarksRun DEF FailRun
  <2>3. Advances(p) /\ loop'[p].at = "failTask"
    BY <1>0, <2>1, <2>2, GoerAdvances DEF LoopLabel, TryLabel, Reply
  <2> QED BY <2>3 DEF Tells, Telling
<1> QED BY <1>1, <1>2, <1>3, <1>4, <1>5, <1>6, <1>7, <1>8, <1>9, <1>10, <1>11 DEF RunLoop

\* What is left of a caller's way, with or without its run: a decision handler
\* comes to drive a run only by claiming one that waits.
Follows(p) ==
  /\ \A q \in Callers \ {p} : loop'[q] = loop[q]
  /\ \A u \in Runs : Drives(p, u)' =>
       Drives(p, u) \/ run[u].status = "WAITING_FOR_HUMAN" \/ p \in Runs
  /\ \A u \in Runs : run'[u].status = "WAITING_FOR_HUMAN" =>
       run[u].status = "WAITING_FOR_HUMAN" \/ Drives(p, u)

LEMMA QuitterFollows ==
  ASSUME ARTypeOK, NEW p \in Callers, Quits(p), UNCHANGED run
  PROVE  Follows(p) /\ loop'[p] = NoLoop
  BY QuitsOn DEF Follows, Drives

LEMMA AnswerFollows ==
  ASSUME ARTypeOK, NEW p \in Callers, AnswerTask(p) \/ Stop(p)
  PROVE  Follows(p) /\ (loop'[p] # NoLoop => loop'[p].run = loop[p].run /\ loop'[p].at \notin Telling)
<1>1. UNCHANGED run /\ loop[p] # NoLoop
  BY DEF AnswerTask, RespondTask, PostResponse, FinishResponse, Stop, At
<1>2. CASE Quits(p) BY <1>1, <1>2, QuitterFollows
<1>3. CASE Goes(p, "message") \/ Goes(p, "finishResponse")
  <2>1. PICK l \in {"message", "finishResponse"} : Goes(p, l) BY <1>3
  <2>2. Advances(p) /\ loop'[p].at = l
    BY <1>1, <2>1, GoerAdvances DEF LoopLabel, TryLabel, Reply
  <2> QED BY <2>2 DEF Advances, Follows, Telling
<1> QED BY <1>2, <1>3 DEF AnswerTask, RespondTask, PostResponse, FinishResponse, Stop, Done

LEMMA ResumeFollows ==
  ASSUME ARTypeOK, NEW d \in Deciders, Resume(d)
  PROVE  Follows(d)
<1>0. d \in Callers BY DEF Callers
<1>1. CASE FindWaiting(d)
  <2>1. UNCHANGED run /\ \A q \in Callers \ {d} : loop'[q] = loop[q]
    BY <1>0, <1>1 DEF FindWaiting, ARTypeOK
  <2>2. \/ loop'[d] = loop[d]
        \/ loop'[d].at \in {"settle", "claim"}
    BY <1>0, <1>1 DEF FindWaiting, ARTypeOK
  <2> QED BY <1>0, <2>1, <2>2 DEF Follows, Drives
<1>2. CASE ClaimWaiting(d)
  <2> DEFINE u == loop[d].run
  <2>1. CASE Claimable(u, loop[d].req)
    <3>1. /\ \A v \in Runs : run'[v].status = IF v = u THEN "RUNNING" ELSE run[v].status
          /\ u \in Runs /\ run[u].status = "WAITING_FOR_HUMAN"
      BY <1>2, <2>1 DEF ClaimWaiting, Claimable, WaitingOn, ARTypeOK, RunRow
    <3>2. loop[d] \in Loop /\ loop \in [Callers -> Loop \union {NoLoop}]
      BY <1>0, <1>2 DEF ClaimWaiting, At, ARTypeOK
    <3>3. PICK l \in {"restart", "decline"} :
            loop' = [loop EXCEPT ![d] =
               [@ EXCEPT !.at = l, !.step = run[u].step,
                         !.results = Append(run[u].results, loop[d].req)]]
      BY <1>2, <2>1 DEF ClaimWaiting
    <3>4. /\ \A q \in Callers \ {d} : loop'[q] = loop[q]
          /\ loop'[d].run = u
      BY <1>0, <3>2, <3>3 DEF Loop
    <3> QED BY <3>1, <3>4 DEF Follows, Drives
  <2>2. CASE ~Claimable(u, loop[d].req)
    <3>1. Goes(d, "settle") /\ UNCHANGED run /\ loop[d] # NoLoop
      BY <1>2, <2>2 DEF ClaimWaiting, At
    <3>2. Advances(d)
      BY <1>0, <3>1, GoerAdvances DEF LoopLabel, TryLabel, Reply
    <3> QED BY <3>2 DEF Advances, Follows
  <2> QED BY <2>1, <2>2
<1>3. CASE DeclineRun(d) \/ RestartRun(d)
  <2>1. PICK l \in {"settle", "enter"}, reply \in {"none", "REJECTED"} :
          Goes(d, l) \/ Returns(d, l, reply)
    BY <1>3 DEF DeclineRun, RestartRun
  <2>2. loop[d] # NoLoop /\ Drives(d, loop[d].run)
    BY <1>3 DEF DeclineRun, RestartRun, At, Drives
  <2>3. \A u \in Runs : run'[u].status = "WAITING_FOR_HUMAN" => run[u].status = "WAITING_FOR_HUMAN"
    BY <1>3, WritesRun DEF DeclineRun, RestartRun
  <2>4. Advances(d)
    BY <1>0, <2>1, <2>2, <2>3, GoerAdvances DEF LoopLabel, TryLabel, Reply
  <2> QED BY <2>4 DEF Advances, Follows
<1>4. CASE ResumeReturns(d) \/ SettleTask(d) \/ CompleteDelegated(d)
  <2>1. UNCHANGED run /\ loop[d] # NoLoop
    BY <1>4 DEF ResumeReturns, SettleTask, CompleteDelegated, At
  <2>2. CASE Quits(d) BY <1>0, <2>1, <2>2, QuitterFollows
  <2>3. CASE ~Quits(d)
    <3>1. PICK l \in {"settle", "delegated", "respond"} : Goes(d, l)
      BY <1>4, <2>3 DEF ResumeReturns, SettleTask, CompleteDelegated, Done
    <3>2. Advances(d)
      BY <1>0, <2>1, <3>1, GoerAdvances DEF LoopLabel, TryLabel, Reply
    <3> QED BY <3>2 DEF Advances, Follows
  <2> QED BY <2>2, <2>3
<1>5. CASE SettleBare(d)
  BY <1>5 DEF SettleBare, Follows, Drives
<1> QED BY <1>1, <1>2, <1>3, <1>4, <1>5 DEF Resume

\* How the memory of a call to act comes about.
StepTells(u) ==
  loop'[u] # NoLoop =>
    \/ loop'[u].run = u /\ loop'[u].at \notin Telling
    \/ loop[u] # NoLoop /\ loop'[u].run = loop[u].run /\ Tells(u)

LEMMA CallerFollows ==
  ASSUME ARInv, NEW u \in Runs, ActTells(u), Act(u) \/ CreateRun(u) \/ ActReturns(u)
  PROVE  Follows(u) /\ StepTells(u)
<1>0. u \in Callers /\ ARTypeOK BY DEF Callers, ARInv
<1>1. CASE Act(u)
  <2>1. /\ UNCHANGED run /\ \A q \in Callers \ {u} : loop'[q] = loop[q]
        /\ loop'[u].run = u /\ loop'[u].at = "create"
    BY <1>0, <1>1 DEF Act, ARTypeOK
  <2> QED BY <2>1 DEF Follows, StepTells, Telling
<1>2. CASE CreateRun(u)
  <2>1. /\ UpdateRun(u, "RUNNING", 0, << >>, NoRequest) /\ Goes(u, "plan")
        /\ loop[u] # NoLoop /\ Drives(u, u) /\ loop[u].run = u
    BY <1>2 DEF CreateRun, At, Drives, ActTells
  <2>2. Advances(u) /\ loop'[u].at = "plan"
    BY <1>0, <2>1, WritesRun, GoerAdvances DEF LoopLabel, TryLabel, Reply
  <2> QED BY <2>1, <2>2 DEF Advances, Follows, StepTells, Telling
<1>3. CASE ActReturns(u)
  <2>1. UNCHANGED run /\ loop[u] # NoLoop BY <1>3 DEF ActReturns, At
  <2>2. CASE Quits(u)
    BY <1>0, <2>1, <2>2, QuitterFollows DEF StepTells
  <2>3. CASE Goes(u, "respond")
    <3>1. Advances(u) /\ loop'[u].at = "respond"
      BY <1>0, <2>1, <2>3, GoerAdvances DEF LoopLabel, TryLabel, Reply
    <3> QED BY <2>1, <3>1 DEF Advances, Follows, StepTells, Telling, ActTells
  <2> QED BY <1>3, <2>2, <2>3 DEF ActReturns
<1> QED BY <1>1, <1>2, <1>3

LEMMA SomeoneFollows ==
  ASSUME ARInv, \A u \in Runs : ActTells(u), ARNext
  PROVE  \/ UNCHANGED <<run, loop>>
         \/ \E p \in Callers : Follows(p) /\ (p \in Runs => StepTells(p))
<1>0. ARTypeOK /\ Runs \subseteq Callers /\ Runs \intersect Deciders = {}
  BY RunsAssumption DEF ARInv, Callers
<1>1. ASSUME NEW u \in Runs, Act(u) \/ CreateRun(u) \/ ActReturns(u)
      PROVE  Follows(u) /\ StepTells(u)
  BY <1>1, CallerFollows
<1>2. ASSUME NEW p \in Callers, RunLoop(p)
      PROVE  Follows(p) /\ StepTells(p)
  <2>1. Advances(p) /\ Tells(p) BY <1>0, <1>2, RunLoopAdvances
  <2> QED BY <2>1 DEF Advances, Follows, StepTells
<1>3. ASSUME NEW p \in Callers, AnswerTask(p) \/ Stop(p)
      PROVE  Follows(p) /\ (p \in Runs => StepTells(p))
  <2>1. Follows(p) /\ (loop'[p] # NoLoop => loop'[p].run = loop[p].run /\ loop'[p].at \notin Telling)
    BY <1>0, <1>3, AnswerFollows
  <2>2. loop[p] # NoLoop
    BY <1>3 DEF AnswerTask, RespondTask, PostResponse, FinishResponse, Stop, At
  <2> QED BY <2>1, <2>2 DEF StepTells, ActTells
<1>4. ASSUME NEW d \in Deciders, Resume(d) PROVE Follows(d) /\ d \in Callers /\ d \notin Runs
  BY <1>0, <1>4, ResumeFollows DEF Callers
<1>5. ASSUME NEW d \in Deciders, DecideApproval(d) PROVE UNCHANGED <<run, loop>>
  BY <1>5 DEF DecideApproval, arVars
<1>6. ASSUME NEW r \in Requests, DirectIssue(r) \/ PostRequestTask(r)
      PROVE  UNCHANGED <<run, loop>>
  BY <1>6 DEF DirectIssue, PostRequestTask
<1> QED BY <1>0, <1>1, <1>2, <1>3, <1>4, <1>5, <1>6 DEF ARNext

\* A run becomes resumable only by its own call to act.
LEMMA BecomesResumable ==
  ASSUME ARInv, \A u \in Runs : ActTells(u), ARNext, NEW u \in Runs, Resumable(u)'
  PROVE  Resumable(u) \/ Drives(u, u)
<1>0. Deciders \subseteq Callers /\ Runs \intersect Deciders = {} BY RunsAssumption DEF Callers
<1>1. CASE UNCHANGED <<run, loop>> BY <1>1 DEF Resumable, Drives
<1>2. ASSUME NEW p \in Callers, Follows(p) PROVE Resumable(u) \/ Drives(u, u)
  <2>1. Drives(p, u) => Resumable(u) \/ Drives(u, u)
    BY DEF Callers, Resumable, ActTells, Drives
  <2>2. ASSUME NEW d \in Deciders, Drives(d, u)' PROVE Resumable(u)
    BY <1>0, <1>2, <2>2 DEF Follows, Resumable, Drives
  <2> QED BY <1>2, <2>1, <2>2 DEF Follows, Resumable
<1> QED BY <1>1, <1>2, SomeoneFollows

LEMMA ActTellsStep ==
  ASSUME ARInv, \A u \in Runs : ActTells(u), ARNext
  PROVE  \A u \in Runs : ActTells(u)'
<1> SUFFICES ASSUME NEW u \in Runs PROVE ActTells(u)'
  OBVIOUS
<1>0. /\ ActTells(u) /\ DrivesAlone(u) /\ u \in Callers
      /\ Deciders \subseteq Callers /\ u \notin Deciders
  BY RunsAssumption DEF ARInv, Callers
<1>1. CASE loop'[u] = loop[u]
  <2>1. loop[u] # NoLoop /\ loop[u].at \in Telling => ~Drives(u, u)
    BY DEF Drives, Telling
  <2> QED BY <1>0, <1>1, <2>1, BecomesResumable DEF ActTells
<1>2. CASE /\ StepTells(u) /\ Follows(u)
  <2>1. \A d \in Deciders : Drives(d, u)' <=> Drives(d, u)
    BY <1>0, <1>2 DEF Follows, Drives
  <2>2. ASSUME Drives(u, u), run'[u].status # "WAITING_FOR_HUMAN" PROVE ~Resumable(u)'
    BY <1>0, <2>1, <2>2 DEF DrivesAlone, Resumable
  <2>3. ASSUME UNCHANGED run PROVE Resumable(u)' <=> Resumable(u)
    BY <2>1, <2>3 DEF Resumable
  <2> QED BY <1>0, <1>2, <2>2, <2>3 DEF StepTells, Tells, ActTells, ActReply, Telling
<1> QED BY <1>0, <1>1, <1>2, SomeoneFollows DEF Follows

-------------------------------------------------------------------------------
(* What the orchestrator makes of it *)

\* The attempt whose call to act is running.
InTurn(a) == team.at = "acting" /\ a = team.attempt

\* Nothing more will be started for the request.
Held == team.blocked \/ team.at \in {"catch", "ended", "threw", "stopped"}

InStage == team.at \in {"create", "act", "acting", "catch"} => team.pos <= Len(team.plan)

NoneFailed == \A i \in DOMAIN team.stages : team.stages[i].status \in {"COMPLETED", "SKIPPED"}

\* A run of the request that can still be worked on is the one in turn, or it
\* holds the request up; there is at most one of these.
Ordered ==
  /\ \A a \in Attempt : loop[RunFor[a]] # NoLoop => InTurn(a)
  /\ \A a \in Attempt : Resumable(RunFor[a]) => Held \/ InTurn(a)
  /\ \A a, b \in Attempt : Resumable(RunFor[a]) /\ Resumable(RunFor[b]) => a = b
  /\ team.at \in {"create", "act", "acting"} => ~team.blocked
  /\ team.at \in {"idle", "next", "create", "act", "acting"} /\ ~team.blocked => NoneFailed

TInv ==
  /\ ARInv
  /\ \A u \in Runs : ActTells(u)
  /\ team \in Team /\ InStage
  /\ Ordered

LEMMA StagePlanType == StagePlans \subseteq {p \in Seq(Stage) : Len(p) \in 1..3}
  BY DEF StagePlans, Stage

LEMMA TInvInit == TeamInit => TInv
<1> SUFFICES ASSUME TeamInit PROVE TInv
  OBVIOUS
<1>1. ARInv BY ARInvInit DEF TeamInit
<1>2. \A p \in Callers : loop[p] = NoLoop BY DEF TeamInit, ARInit
<1>3. \A u \in Runs : run[u].status = "none" BY DEF TeamInit, ARInit
<1>4. \A u \in Runs : ~Resumable(u) /\ ActTells(u)
  BY <1>2, <1>3 DEF Resumable, ActTells, Drives, Callers
<1>5. team \in Team /\ InStage
  <2>1. << >> \in Seq(Entry) OBVIOUS
  <2> QED BY <2>1 DEF TeamInit, Team, TeamLabel, Attempt, Stage, InStage
<1>6. Ordered
  BY <1>2, <1>4, TeamAssumption DEF Ordered, NoneFailed, TeamInit, Callers
<1> QED BY <1>1, <1>4, <1>5, <1>6 DEF TInv

\* To AgentRun a step of the orchestrator is one of its own or a write of a task.
LEMMA TeamStepOfRuns ==
  ASSUME TInv, TeamNext
  PROVE  \/ ARNext
         \/ /\ UNCHANGED <<taVars, run, loop, issuer, posting, responses>>
            /\ task' \in [Tasks -> TaskStatus]
<1>0. /\ CurrentRun \in Runs /\ CurrentRun \in Callers
      /\ task \in [Tasks -> TaskStatus] /\ TaskOf[CurrentRun] \in Tasks
  BY TeamAssumption DEF TInv, ARInv, ARTypeOK, Team, CurrentRun, Callers
<1>1. CASE AgentsWork BY <1>1 DEF AgentsWork
<1>2. CASE BeginAct \/ ActAnswers
  BY <1>0, <1>2 DEF BeginAct, ActAnswers, ARNext
<1>3. CASE ActThrows \/ TeamStops
  <2>1. UNCHANGED vars \/ Stop(CurrentRun) BY <1>3 DEF ActThrows, TeamStops
  <2> QED BY <1>0, <2>1 DEF vars, arVars, ARNext
<1>4. CASE CreateTask \/ CreateThrows \/ CatchFailure
  <2>1. UNCHANGED <<taVars, run, loop, issuer, posting, responses>>
    BY <1>4 DEF CreateTask, CreateThrows, CatchFailure
  <2>2. \/ UNCHANGED task
        \/ SetTask(TaskOf[CurrentRun], "WAITING_FOR_AGENT")
        \/ SetTask(TaskOf[CurrentRun], "FAILED")
    BY <1>4 DEF CreateTask, CreateThrows, CatchFailure, NewTask
  <2>3. task' \in [Tasks -> TaskStatus]
    BY <1>0, <2>2 DEF SetTask, TaskStatus
  <2> QED BY <2>1, <2>3
<1>5. CASE TakeRequest \/ SkipStage \/ BlockStage \/ BeginStage \/ EndTeam
  BY <1>0, <1>5 DEF TakeRequest, SkipStage, BlockStage, BeginStage, EndTeam, vars, arVars
<1> QED BY <1>1, <1>2, <1>3, <1>4, <1>5 DEF TeamNext, TeamStep

LEMMA RunsKept ==
  ASSUME TInv, [TeamNext]_tVars
  PROVE  /\ ARInv'
         /\ \A u \in Runs : ActTells(u)'
         /\ \A u \in Runs : Resumable(u)' => Resumable(u) \/ Drives(u, u)
<1>1. CASE ARNext
  BY <1>1, ARInvStep, ActTellsStep, BecomesResumable DEF TInv
<1>2. CASE /\ UNCHANGED <<taVars, run, loop, issuer, posting, responses>>
           /\ task' \in [Tasks -> TaskStatus]
  <2>1. ARTypeOK'
    BY <1>2 DEF TInv, ARInv, ARTypeOK, TypeOK, taVars
  <2>2. \A p \in Callers : LoopKnows(p)' BY <1>2 DEF TInv, ARInv, LoopKnows, taVars
  <2>3. \A u \in Runs : DrivesAlone(u)' BY <1>2 DEF TInv, ARInv, DrivesAlone, Drives
  <2>4. \A u \in Runs : Resumable(u)' <=> Resumable(u) BY <1>2 DEF Resumable, Drives
  <2> QED BY <1>2, <2>1, <2>2, <2>3, <2>4 DEF TInv, ARInv, ActTells
<1>3. CASE UNCHANGED tVars
  <2>1. task \in [Tasks -> TaskStatus] BY DEF TInv, ARInv, ARTypeOK
  <2> QED BY <1>2, <1>3, <2>1 DEF tVars, vars, arVars
<1> QED BY <1>1, <1>2, <1>3, TeamStepOfRuns

LEMMA NextPos ==
  ASSUME team \in Team, team.pos <= Len(team.plan)
  PROVE  team.pos + 1 \in 1..4
<1>1. team.plan \in StagePlans \union {<< >>} /\ team.pos \in 1..4 BY DEF Team
<1>2. Len(team.plan) \in 0..3 BY <1>1, StagePlanType
<1>3. \A n \in 1..4, m \in 0..3 : n <= m => n + 1 \in 1..4 OBVIOUS
<1> QED BY <1>1, <1>2, <1>3

\* An entry, and what it says of the whole list.
LEMMA EnteredType ==
  ASSUME team \in Team, NEW a \in Attempt, NEW status \in StageStatus,
         NEW response \in Responses \union {{}}
  PROVE  /\ Entered(a, status, response) \in Seq(Entry)
         /\ NoneFailed /\ status \in {"COMPLETED", "SKIPPED"} =>
              \A i \in DOMAIN Entered(a, status, response) :
                Entered(a, status, response)[i].status \in {"COMPLETED", "SKIPPED"}
<1> DEFINE e == [of |-> a, status |-> status, response |-> response]
<1>1. e \in Entry /\ team.stages \in Seq(Entry) BY DEF Entry, Team
<1>2. Entered(a, status, response) = Append(team.stages, e) BY DEF Entered
<1>3. e.status = status OBVIOUS
<1> HIDE DEF e
<1> QED BY <1>1, <1>2, <1>3 DEF NoneFailed

LEMMA RecordsStep ==
  ASSUME team \in Team, team.pos <= Len(team.plan), NEW a \in Attempt,
         NEW status \in StageStatus, NEW response \in Responses \union {{}},
         NEW blocked \in BOOLEAN, Records(a, status, response, blocked)
  PROVE  /\ team' \in Team
         /\ team'.at = "next" /\ team'.blocked = blocked
         /\ NoneFailed /\ status \in {"COMPLETED", "SKIPPED"} => NoneFailed'
<1> DEFINE all == Entered(a, status, response)
<1>1. all \in Seq(Entry) /\ (NoneFailed /\ status \in {"COMPLETED", "SKIPPED"} =>
        \A i \in DOMAIN all : all[i].status \in {"COMPLETED", "SKIPPED"})
  BY EnteredType
<1>2. team' = [team EXCEPT !.stages = all, !.blocked = blocked, !.at = "next", !.pos = @ + 1]
  BY DEF Records
<1>3. team.pos + 1 \in 1..4 BY NextPos
<1> HIDE DEF all
<1>4. /\ team'.stages = all /\ team'.blocked = blocked /\ team'.at = "next"
  BY <1>2 DEF Team
<1>5. team' \in Team BY <1>1, <1>2, <1>3 DEF Team, TeamLabel
<1> QED BY <1>1, <1>4, <1>5 DEF NoneFailed

\* On to the next attempt at the same stage.
LEMMA EntersStep ==
  ASSUME team \in Team, NEW a \in Attempt, NEW next \in Attempt,
         NEW status \in StageStatus, NEW response \in Responses \union {{}},
         team' = [team EXCEPT !.stages = Entered(a, status, response),
                    !.attempt = next, !.at = "create"]
  PROVE  /\ team' \in Team
         /\ team'.at = "create" /\ team'.blocked = team.blocked
         /\ team'.pos = team.pos /\ team'.plan = team.plan
         /\ NoneFailed /\ status \in {"COMPLETED", "SKIPPED"} => NoneFailed'
<1> DEFINE all == Entered(a, status, response)
<1>1. all \in Seq(Entry) /\ (NoneFailed /\ status \in {"COMPLETED", "SKIPPED"} =>
        \A i \in DOMAIN all : all[i].status \in {"COMPLETED", "SKIPPED"})
  BY EnteredType
<1>2. team' = [team EXCEPT !.stages = all, !.attempt = next, !.at = "create"]
  OBVIOUS
<1> HIDE DEF all
<1>3. /\ team'.stages = all /\ team'.blocked = team.blocked /\ team'.at = "create"
      /\ team'.pos = team.pos /\ team'.plan = team.plan
  BY <1>2 DEF Team
<1>4. team' \in Team BY <1>1, <1>2 DEF Team, TeamLabel
<1> QED BY <1>1, <1>3, <1>4 DEF NoneFailed

\* What an answer makes of the request: only a completed run lets it go on.
LEMMA AnswerMoves ==
  ASSUME TInv, ActAnswers
  PROVE  /\ team' \in Team /\ InStage'
         /\ team'.at \in {"next", "create", "catch"}
         /\ team'.at = "create" => ~team'.blocked
         /\ \/ team'.at = "catch" \/ team'.blocked
            \/ loop[CurrentRun].reply = "COMPLETED" /\ NoneFailed'
<1> DEFINE reply == loop[CurrentRun].reply
<1>1. /\ team.at = "acting" /\ ActReturns(CurrentRun) /\ CurrentRun \in Runs
      /\ team \in Team /\ team.pos <= Len(team.plan) /\ ~team.blocked /\ NoneFailed
      /\ team.attempt \in Attempt
  BY TeamAssumption DEF ActAnswers, TInv, Ordered, InStage, Team, CurrentRun
<1>2. reply \in ActReply BY <1>1 DEF ActReturns, At, TInv, ActTells, Telling
<1>3. CASE reply = "threw"
  <2>1. team' = [team EXCEPT !.at = "catch"] BY <1>3 DEF ActAnswers
  <2> QED BY <1>1, <2>1 DEF Team, TeamLabel, InStage
<1>4. CASE reply # "threw"
  <2>1. PICK response \in Responses :
          \/ StageAnswers(reply, response)
          \/ RepairAnswers(reply, response)
          \/ RetestAnswers(reply, response)
    BY <1>4 DEF ActAnswers
  <2>2. reply \in StageStatus /\ reply \in {"COMPLETED", "WAITING_FOR_HUMAN", "STEP_LIMIT_REACHED"}
    BY <1>2, <1>4 DEF ActReply, StageStatus
  <2> HIDE DEF reply
  <2>3. ASSUME NEW a \in Attempt
        PROVE  Blocks(a, reply) \in BOOLEAN /\ (~Blocks(a, reply) => reply = "COMPLETED")
    <3>1. CASE a \in Stage BY <2>2, <3>1 DEF Blocks
    <3>2. CASE a \notin Stage BY <2>2, <3>2 DEF Blocks
    <3> QED BY <3>1, <3>2
  <2>4. /\ response \in Responses \union {{}} /\ {} \in Responses \union {{}}
        /\ "repair" \in Attempt /\ "retest" \in Attempt
    BY <2>1 DEF Attempt
  <2>5. CASE StageAnswers(reply, response)
    <3>1. CASE Records(team.attempt, reply, response, Blocks(team.attempt, reply))
      BY <1>1, <2>2, <2>3, <2>4, <3>1, RecordsStep DEF InStage, reply
    <3>2. CASE /\ ~Blocks(team.attempt, reply)
               /\ team' = [team EXCEPT !.stages = Entered(team.attempt, reply, response),
                             !.attempt = "repair", !.at = "create"]
      BY <1>1, <2>2, <2>3, <2>4, <3>2, EntersStep DEF InStage, reply
    <3>3. CASE team' = [team EXCEPT !.blocked = TRUE, !.at = "next", !.pos = @ + 1,
                          !.stages = Entered(team.attempt, reply, response) \o
                            <<[of |-> "repair", status |-> "BLOCKED", response |-> {}]>>]
      <4>1. [of |-> "repair", status |-> "BLOCKED", response |-> {}] \in Entry
        BY <2>4 DEF Entry, StageStatus
      <4>2. Entered(team.attempt, reply, response) \in Seq(Entry)
        BY <1>1, <2>2, <2>4, EnteredType
      <4>3. Entered(team.attempt, reply, response) \o
              <<[of |-> "repair", status |-> "BLOCKED", response |-> {}]>> \in Seq(Entry)
        BY <4>1, <4>2
      <4>4. team.pos + 1 \in 1..4 BY <1>1, NextPos
      <4> QED BY <1>1, <3>3, <4>3, <4>4 DEF Team, TeamLabel, InStage
    <3> QED BY <2>5, <3>1, <3>2, <3>3 DEF StageAnswers
  <2>6. CASE RepairAnswers(reply, response)
    <3>1. CASE Blocks("repair", reply) /\ Records("repair", reply, response, TRUE)
      BY <1>1, <2>2, <2>4, <3>1, RecordsStep DEF InStage
    <3>2. CASE /\ ~Blocks("repair", reply)
               /\ team' = [team EXCEPT !.stages = Entered("repair", reply, response),
                             !.attempt = "retest", !.at = "create"]
      BY <1>1, <2>2, <2>3, <2>4, <3>2, EntersStep DEF InStage, reply
    <3> QED BY <2>6, <3>1, <3>2 DEF RepairAnswers
  <2>7. CASE RetestAnswers(reply, response)
    <3> DEFINE verdict == IF reply = "COMPLETED" /\ ReportsFailure(response)
                          THEN "FAILED" ELSE reply
    <3>1. Records("retest", verdict, response, Blocks("retest", verdict))
      BY <2>7 DEF RetestAnswers
    <3>2. verdict \in StageStatus BY <2>2 DEF StageStatus
    <3>3. /\ Blocks("retest", verdict) \in BOOLEAN
          /\ ~Blocks("retest", verdict) => verdict = "COMPLETED" /\ reply = "COMPLETED"
      BY <2>2 DEF Blocks, Stage
    <3> HIDE DEF verdict
    <3> QED BY <1>1, <2>4, <3>1, <3>2, <3>3, RecordsStep DEF InStage, reply
  <2> QED BY <2>1, <2>5, <2>6, <2>7
<1> QED BY <1>3, <1>4

\* The handler has no call to act running but the one it waits for.
LEMMA CallsKept ==
  ASSUME TInv, [TeamNext]_tVars
  PROVE  \A a \in Attempt : loop'[RunFor[a]] # NoLoop => InTurn(a)'
<1> SUFFICES ASSUME NEW a \in Attempt, loop'[RunFor[a]] # NoLoop PROVE InTurn(a)'
  OBVIOUS
<1>0. /\ team \in Team /\ loop \in [Callers -> Loop \union {NoLoop}]
      /\ RunFor[a] \in Runs /\ RunFor[a] \in Callers /\ RunFor[a] \in TeamRuns
      /\ CurrentRun \in Callers /\ CurrentRun \in Finalizes
      /\ loop[RunFor[a]] # NoLoop => InTurn(a)
      /\ RunFor[a] = CurrentRun => a = team.attempt
  BY TeamAssumption DEF TInv, ARInv, ARTypeOK, Team, Ordered, CurrentRun, Callers, TeamRuns
<1>1. CASE AgentsWork \/ UNCHANGED tVars
  BY <1>0, <1>1 DEF AgentsWork, tVars, vars, arVars, InTurn
<1>2. CASE BeginAct
  <2>1. /\ team.at = "act" /\ team' = [team EXCEPT !.at = "acting"]
        /\ \A q \in Callers \ {CurrentRun} : loop'[q] = loop[q]
    BY <1>0, <1>2 DEF BeginAct, Act
  <2>2. a = team.attempt BY <1>0, <2>1 DEF InTurn
  <2> QED BY <1>0, <2>1, <2>2 DEF InTurn, Team
<1>3. CASE \/ UNCHANGED loop /\ team.at # "acting"
           \/ Quits(CurrentRun)
  <2>1. a = team.attempt \/ loop'[RunFor[a]] = loop[RunFor[a]]
    BY <1>0, <1>3 DEF Quits
  <2> QED BY <1>0, <1>3, <2>1 DEF InTurn, Quits, CurrentRun
<1>4. CASE TeamStep /\ ~BeginAct
  <2>1. CASE ActAnswers BY <1>0, <1>3, <2>1 DEF ActAnswers, ActReturns
  <2>2. CASE ActThrows BY <1>3, <2>2 DEF ActThrows, Stop, vars, arVars
  <2> QED BY <1>3, <1>4, <2>1, <2>2
       DEF TeamStep, SkipStage, BlockStage, BeginStage, EndTeam, CreateTask, CreateThrows,
           CatchFailure, Pending, vars, arVars
<1>5. CASE TakeRequest \/ TeamStops
  BY <1>3, <1>5 DEF TakeRequest, TeamStops, Stop, vars, arVars
<1> QED BY <1>1, <1>2, <1>4, <1>5 DEF TeamNext

LEMMA PendingStage ==
  ASSUME team \in Team, Pending
  PROVE  Current \in Stage /\ Current \in Attempt
<1>1. team.plan \in {p \in Seq(Stage) : Len(p) \in 1..3} /\ team.pos \in 1..Len(team.plan)
  BY StagePlanType DEF Pending, Team
<1> QED BY <1>1 DEF Current, Attempt

\* Where the handler is after a step, and what it has recorded: it stays with
\* the attempt unless it begins a stage, and nothing it has been told was held
\* up is forgotten.
LEMMA TeamMoves ==
  ASSUME TInv, TeamNext
  PROVE  /\ team' \in Team /\ InStage'
         /\ team'.at \in {"create", "act", "acting"} => ~team'.blocked
         /\ team'.at \in {"idle", "next", "create", "act", "acting"} /\ ~team'.blocked => NoneFailed'
         /\ Held => Held'
         /\ team.at = "acting" =>
              Held' \/ UNCHANGED team \/ (ActAnswers /\ loop[CurrentRun].reply = "COMPLETED")
<1>0. /\ team \in Team /\ InStage /\ Ordered
      /\ "testing" \in Attempt /\ "repair" \in Attempt /\ team.attempt \in Attempt
  BY DEF TInv, Attempt, Stage, Team
<1>1. CASE AgentsWork
  BY <1>0, <1>1 DEF AgentsWork, InStage, Ordered, NoneFailed, Held
<1>2. CASE TakeRequest
  <2>1. PICK plan \in StagePlans, roster \in Rosters :
          team' = [team EXCEPT !.plan = plan, !.roster = roster,
                     !.at = IF roster = << >> THEN "threw" ELSE "next"]
    BY <1>2 DEF TakeRequest
  <2>2. team.at = "idle" BY <1>2 DEF TakeRequest
  <2>3. team' \in Team BY <1>0, <2>1 DEF Team, TeamLabel
  <2>4. /\ team'.at \in {"threw", "next"} /\ team'.blocked = team.blocked
        /\ team'.stages = team.stages
    BY <1>0, <2>1 DEF Team
  <2> QED BY <1>0, <2>2, <2>3, <2>4 DEF InStage, Ordered, NoneFailed, Held
<1>3. CASE SkipStage \/ BlockStage
  <2>1. Pending /\ Current \in Attempt /\ {} \in Responses \union {{}}
    BY <1>0, <1>3, PendingStage DEF SkipStage, BlockStage
  <2>2. team.at = "next" /\ team.pos <= Len(team.plan) /\ team.blocked \in BOOLEAN
    BY <1>0, <2>1 DEF Pending, Team
  <2>3. PICK status \in {"SKIPPED", "BLOCKED"} :
          /\ Records(Current, status, {}, team.blocked)
          /\ status = "BLOCKED" => team.blocked
    BY <1>3 DEF SkipStage, BlockStage
  <2>4. /\ team' \in Team /\ team'.at = "next" /\ team'.blocked = team.blocked
        /\ NoneFailed /\ status = "SKIPPED" => NoneFailed'
    BY <1>0, <2>1, <2>2, <2>3, RecordsStep DEF StageStatus
  <2> QED BY <1>0, <2>2, <2>3, <2>4 DEF InStage, Ordered, Held
<1>4. CASE BeginStage
  BY <1>0, <1>4, PendingStage
     DEF BeginStage, Pending, Team, TeamLabel, InStage, Ordered, NoneFailed, Held
<1>5. CASE EndTeam \/ CreateTask \/ CreateThrows \/ BeginAct \/ ActThrows \/ TeamStops
  <2>1. \/ team.at = "create" /\ team' = [team EXCEPT !.at = "act"]
        \/ team.at = "act" /\ team' = [team EXCEPT !.at = "acting"]
        \/ team.at = "next" /\ team' = [team EXCEPT !.at = "ended"]
        \/ team.at = "create" /\ team' = [team EXCEPT !.at = "threw"]
        \/ team.at \in {"act", "acting"} /\ team' = [team EXCEPT !.at = "catch"]
        \/ team' = [team EXCEPT !.at = "stopped"]
        \/ /\ team.at = "create"
           /\ \E a \in Attempt : team' = [team EXCEPT !.at = "catch", !.attempt = a]
    <3>1. CASE CreateThrows
      <4>1. CASE team.attempt \in Stage
        <5>1. team.attempt # "repair" /\ team.attempt # "retest" BY <4>1 DEF Stage
        <5> QED BY <3>1, <4>1, <5>1 DEF CreateThrows
      <4>2. CASE team.attempt = "repair" BY <1>0, <3>1, <4>2 DEF CreateThrows, Stage
      <4>3. CASE team.attempt = "retest" BY <1>0, <3>1, <4>3 DEF CreateThrows, Stage
      <4> QED BY <1>0, <4>1, <4>2, <4>3 DEF Attempt
    <3>2. CASE EndTeam \/ CreateTask \/ BeginAct \/ ActThrows \/ TeamStops
      BY <3>2 DEF EndTeam, CreateTask, BeginAct, ActThrows, TeamStops
    <3> QED BY <1>5, <3>1, <3>2
  <2>2. /\ team' \in Team
        /\ team'.blocked = team.blocked /\ team'.stages = team.stages
        /\ team'.pos = team.pos /\ team'.plan = team.plan
        /\ \/ team'.at \in {"ended", "threw", "stopped"}
           \/ team'.at = "catch" /\ team.at \in {"create", "act", "acting"}
           \/ team.at \in {"create", "act"} /\ team'.at \in {"act", "acting"}
    BY <1>0, <2>1 DEF Team, TeamLabel
  <2> QED BY <1>0, <2>2 DEF InStage, Ordered, NoneFailed, Held
<1>6. CASE ActAnswers
  BY <1>0, <1>6, AnswerMoves DEF Held, Ordered, ActAnswers
<1>7. CASE CatchFailure
  <2>1. /\ team.at = "catch" /\ Records(team.attempt, "FAILED", {}, TRUE)
        /\ {} \in Responses \union {{}} /\ team.pos <= Len(team.plan)
    BY <1>0, <1>7 DEF CatchFailure, InStage
  <2>2. team' \in Team /\ team'.at = "next" /\ team'.blocked
    BY <1>0, <2>1, RecordsStep DEF StageStatus
  <2> QED BY <2>1, <2>2 DEF InStage, Held
<1> QED BY <1>1, <1>2, <1>3, <1>4, <1>5, <1>6, <1>7 DEF TeamNext, TeamStep

LEMMA TInvStep == TInv /\ [TeamNext]_tVars => TInv'
<1> SUFFICES ASSUME TInv, [TeamNext]_tVars PROVE TInv'
  OBVIOUS
<1>1. CASE UNCHANGED tVars
  <2>1. ARInv' /\ \A u \in Runs : ActTells(u)' BY RunsKept
  <2>2. UNCHANGED <<team, run, loop>> BY <1>1 DEF tVars, vars, arVars
  <2>3. \A u \in Runs : Resumable(u)' <=> Resumable(u) BY <2>2 DEF Resumable, Drives
  <2> QED BY <2>1, <2>2, <2>3, TeamAssumption
       DEF TInv, InStage, Ordered, InTurn, Held, NoneFailed
<1>2. CASE TeamNext
  <2>1. /\ ARInv' /\ \A u \in Runs : ActTells(u)'
        /\ \A u \in Runs : Resumable(u)' => Resumable(u) \/ Drives(u, u)
    BY RunsKept
  <2>2. \A a \in Attempt : loop'[RunFor[a]] # NoLoop => InTurn(a)'
    BY CallsKept
  <2>3. /\ Ordered /\ RunFor \in [Attempt -> Runs]
        /\ \A a \in Attempt : Drives(RunFor[a], RunFor[a]) => InTurn(a)
    BY TeamAssumption DEF TInv, Ordered, Drives
  <2>4. ASSUME NEW a \in Attempt, Resumable(RunFor[a])' PROVE Held' \/ InTurn(a)'
    <3>1. Held \/ InTurn(a) BY <2>1, <2>3, <2>4 DEF Ordered
    <3>2. CASE Held BY <1>2, <3>2, TeamMoves
    <3>3. CASE InTurn(a) /\ UNCHANGED team BY <3>3 DEF InTurn
    <3>4. CASE InTurn(a) /\ ActAnswers /\ loop[CurrentRun].reply = "COMPLETED"
      <4>1. RunFor[a] = CurrentRun /\ At(CurrentRun, "returned") /\ CurrentRun \in Runs
        BY <2>3, <3>4 DEF InTurn, CurrentRun, ActAnswers, ActReturns
      <4>2. ~Resumable(CurrentRun) /\ ~Drives(CurrentRun, CurrentRun)
        BY <3>4, <4>1 DEF TInv, ActTells, Telling, At, Drives
      <4> QED BY <2>1, <2>4, <4>1, <4>2
    <3> QED BY <1>2, <3>1, <3>2, <3>3, <3>4, TeamMoves DEF InTurn
  <2>5. ASSUME NEW a \in Attempt, NEW b \in Attempt,
               Resumable(RunFor[a])', Resumable(RunFor[b])'
        PROVE  a = b
    <3>1. /\ Resumable(RunFor[a]) \/ InTurn(a)
          /\ Resumable(RunFor[b]) \/ InTurn(b)
      BY <2>1, <2>3, <2>5
    <3>2. InTurn(a) \/ InTurn(b) => ~Held BY <2>3 DEF InTurn, Held, Ordered
    <3> QED BY <2>3, <3>1, <3>2 DEF Ordered, InTurn
  <2>6. Ordered' BY <1>2, <2>2, <2>4, <2>5, TeamMoves DEF Ordered
  <2> QED BY <1>2, <2>1, <2>6, TeamMoves DEF TInv
<1> QED BY <1>1, <1>2

THEOREM TeamInductive == TeamSpec => []TInv
  BY TInvInit, TInvStep, PTL DEF TeamSpec

\* The request keeps its types with the runs beneath it: every position has a
\* stage, every entry one of the statuses the response knows.
THEOREM TeamTypeCorrect == TeamSpec => []TeamTypeOK
<1>1. TInv => TeamTypeOK BY DEF TInv, ARInv, TeamTypeOK
<1> QED BY TeamInductive, <1>1, PTL

\* Two runs of a request are never worked on at once: whatever fails, the
\* handler starts nothing while a decision may still resume an earlier run.
THEOREM StagesNeverOverlap == TeamSpec => []OneStageAtATime
<1>1. TInv => OneStageAtATime
  <2> SUFFICES ASSUME TInv PROVE OneStageAtATime
    OBVIOUS
  <2>1. ASSUME NEW a \in Attempt, InWork(a)
        PROVE  Resumable(RunFor[a]) \/ InTurn(a)
    <3>1. PICK p \in Callers : Drives(p, RunFor[a]) BY <2>1 DEF InWork
    <3>2. CASE p \in Deciders BY <3>1, <3>2 DEF Resumable
    <3>3. CASE p \in Runs
      BY <3>1, <3>3 DEF TInv, ActTells, Drives, Ordered
    <3> QED BY <3>2, <3>3 DEF Callers
  <2>2. \A a \in Attempt : InTurn(a) => ~Held BY DEF TInv, Ordered, InTurn, Held
  <2> QED BY <2>1, <2>2 DEF OneStageAtATime, TInv, Ordered, InTurn
<1> QED BY TeamInductive, <1>1, PTL

\* A stage, a repair or a retest is begun only while every attempt before it
\* completed or had no agent.
THEOREM BegunAfterSuccess == TeamSpec => StartsOnlyAfterSuccess
<1> DEFINE A == team.at = "create" /\ team'.at # "create" =>
                  \A i \in DOMAIN team.stages : team.stages[i].status \in {"COMPLETED", "SKIPPED"}
<1>1. TInv /\ [TeamNext]_tVars => [A]_tVars
  BY DEF TInv, Ordered, NoneFailed
<1> QED BY TeamInductive, <1>1, PTL DEF TeamSpec, StartsOnlyAfterSuccess

\* The orchestrator opens no way around the approvals and gives no run a
\* second driver.
THEOREM TeamKeepsRuns ==
  TeamSpec => [](OneLoopPerRun /\ RunsOnlyApproved /\ OutcomeMatchesDecision)
<1>1. TInv => OneLoopPerRun BY DEF TInv, ARInv, DrivesAlone, OneLoopPerRun
<1>2. TeamInit => Init BY DEF TeamInit, ARInit
<1>3. TInv /\ [TeamNext]_tVars => [Next]_taVars
  <2> SUFFICES ASSUME TInv, [TeamNext]_tVars PROVE [Next]_taVars
    OBVIOUS
  <2>1. CASE ARNext BY <2>1, StepKeeps DEF TInv, ARInv
  <2>2. CASE ~ARNext BY <2>2, TeamStepOfRuns DEF tVars, vars
  <2> QED BY <2>1, <2>2
<1>4. TeamSpec => Spec BY TeamInductive, <1>2, <1>3, PTL DEF TeamSpec, Spec
<1> QED BY TeamInductive, <1>1, <1>4, OnlyApprovedRun, OutcomesMatch, PTL

USE DEF RunStatus, TaskStatus, Reply, TryLabel, LoopLabel, Route, Job

-------------------------------------------------------------------------------
(* Runs no decision is about *)

\* Nobody but its own call works on such a run.
LEMMA OnlyItsCall ==
  ASSUME KnownInv, NEW u \in Runs, Unasked(u),
         NEW p \in Callers, loop[p] # NoLoop, loop[p].run = u
  PROVE  p = u
<1>1. CallerKnows(p) /\ ARInv /\ IInv BY DEF KnownInv, EndInv
<1>2. CASE p \in Runs BY <1>1, <1>2 DEF CallerKnows
<1>3. CASE p \notin Runs
  <2>1. p \in Deciders /\ issuer[job[p].app] = u BY <1>1, <1>3 DEF Callers, CallerKnows
  <2>2. pc[p] = "resume" BY <1>1, <2>1 DEF ARInv, LoopKnows
  <2>3. job[p].app \in Requests /\ asker[job[p].app] \in {"held", "filed"}
    BY <1>1, <2>1, <2>2 DEF IInv, TypeOK, JobInv
  <2> QED BY <2>1, <2>3 DEF Unasked, IssuedBy
<1> QED BY <1>2, <1>3

\* Who puts a request before a human.
LEMMA HeldBy ==
  ASSUME ARInv, [ARNext]_vars, NEW r \in Requests,
         asker[r] \notin {"held", "filed"}, asker'[r] \in {"held", "filed"}
  PROVE  \/ r \in Direct
         \/ \E p \in Callers : AskHuman(p) /\ loop[p].req = r
<1>1. ARTypeOK /\ TypeOK BY DEF ARInv, ARTypeOK
<1>2. asker' # asker /\ ARNext BY DEF vars, arVars, taVars
<1>3. ASSUME NEW u \in Runs, Act(u) \/ CreateRun(u) \/ ActReturns(u) PROVE FALSE
  BY <1>2, <1>3 DEF Act, CreateRun, ActReturns, taVars
<1>4. ASSUME NEW p \in Callers, AnswerTask(p) \/ Stop(p) PROVE FALSE
  BY <1>2, <1>4 DEF AnswerTask, RespondTask, PostResponse, FinishResponse, Stop, Done, taVars
<1>5. ASSUME NEW d \in Deciders, Resume(d) \/ DecideApproval(d) PROVE FALSE
  <2>1. CASE Resume(d)
    BY <1>2, <2>1 DEF Resume, FindWaiting, ClaimWaiting, DeclineRun, RestartRun, ResumeReturns,
       SettleTask, CompleteDelegated, SettleBare, Done, Leave, taVars
  <2>2. CASE DecideApproval(d)
    BY <1>2, <2>2 DEF DecideApproval, DecideStep, Throw, StartPatch, StartTools, Enter,
       GetExecution, CheckApproval, Revalidate, SelectPending, Read, Decide, Execute, Complete
  <2> QED BY <1>5, <2>1, <2>2
<1>6. ASSUME NEW x \in Requests, DirectIssue(x) \/ PostRequestTask(x) PROVE r \in Direct
  <2>1. x \in Direct /\ Issue(x) BY <1>2, <1>6 DEF DirectIssue, PostRequestTask, taVars
  <2>2. x # r => asker'[r] = asker[r]
    BY <1>1, <2>1 DEF Issue, CreateHeld, CreateRunnable, Ask, File, InsertApproval, CallTool,
       FinishCall, AskerThrows, AskerMoves, TypeOK
  <2> QED BY <2>1, <2>2
<1>7. ASSUME NEW p \in Callers, RunLoop(p) PROVE AskHuman(p) /\ loop[p].req = r
  <2>1. CASE AskHuman(p)
    <3>1. AskerMoves(loop[p].req, "asking", "held") BY <2>1 DEF AskHuman, Ask, InsertApproval
    <3> QED BY <1>1, <2>1, <3>1 DEF AskerMoves, TypeOK
  <2>2. CASE ~AskHuman(p)
    <3>1. Plan(p) \/ RunTool(p) \/ FinishTool(p) \/ LoopThrows(p)
      BY <1>2, <1>7, <2>2 DEF RunLoop, EnterLoop, PlanExhausted, CompleteRun, LimitRun, CloseTask, PauseRun,
         PauseTask, RecordResult, FailRun, FailTask, taVars
    <3> DEFINE Moves(x) == \E to \in {"asking", "calling", "called", "returned", "threw"} :
                             asker' = [asker EXCEPT ![x] = to]
    <3>2. CASE Plan(p)
      <4>1. PICK x \in Requests : CreateHeld(x) \/ CreateRunnable(x)
        BY <1>2, <3>2 DEF Plan, taVars
      <4>2. Moves(x) BY <4>1 DEF CreateHeld, CreateRunnable, AskerMoves
      <4> QED BY <1>1, <4>2 DEF TypeOK
    <3>3. CASE RunTool(p) \/ FinishTool(p) \/ LoopThrows(p)
      <4>1. CallTool(loop[p].req) \/ FinishCall(loop[p].req) \/ AskerThrows(loop[p].req)
        BY <1>2, <3>3 DEF RunTool, FinishTool, LoopThrows, taVars
      <4>2. Moves(loop[p].req) BY <4>1 DEF CallTool, FinishCall, AskerThrows, AskerMoves
      <4> QED BY <1>1, <4>2 DEF TypeOK
    <3> QED BY <3>1, <3>2, <3>3
  <2> QED BY <2>1, <2>2
<1> QED BY <1>2, <1>3, <1>4, <1>5, <1>6, <1>7 DEF ARNext

\* Only its own call puts a tool of such a run before a human.
LEMMA UnaskedStep ==
  ASSUME KnownInv, [ARNext]_vars, NEW u \in Runs, Unasked(u)
  PROVE  Unasked(u)' \/ AskHuman(u)
<1> SUFFICES ASSUME NEW r \in Requests, issuer'[r] = u, asker'[r] \in {"held", "filed"}
             PROVE  AskHuman(u)
  BY DEF Unasked, IssuedBy
<1>1. ARInv /\ ARTypeOK /\ TypeOK /\ u # NoRun
  BY RunsAssumption DEF KnownInv, ARInv, ARTypeOK
<1>2. issuer[r] = u
  <2>1. CASE issuer'[r] # issuer[r]
    <3>1. CreateHeld(r) \/ CreateRunnable(r) BY <1>1, <2>1, IssuerChanges
    <3>2. asker'[r] \in {"asking", "calling"}
      BY <1>1, <3>1 DEF CreateHeld, CreateRunnable, AskerMoves, TypeOK
    <3> QED BY <3>2
  <2> QED BY <2>1
<1>3. asker[r] \notin {"held", "filed"} BY <1>2 DEF Unasked, IssuedBy
<1>4. r \notin Direct BY <1>1, <1>2 DEF KnownInv, LedgerInv, UnissuedOf
<1>5. PICK p \in Callers : AskHuman(p) /\ loop[p].req = r
  BY <1>1, <1>3, <1>4, HeldBy
<1>6. loop[p] # NoLoop /\ loop[p].at = "ask" BY <1>5 DEF AskHuman, At
<1>7. loop[p].run \in Runs BY <1>6, RunKnown DEF KnownInv, EndInv
<1>8. PICK v \in Runs : v = loop[p].run BY <1>7
<1>9. Drives(p, v) BY <1>6, <1>8 DEF Drives
<1>10. Accounts(Remembered(v), ResultsOf(p), InHand(p))
  BY <1>9 DEF KnownInv, LedgerInv, LedgerOf, AccountOf
<1>11. InHand(p) = r BY <1>5, <1>6 DEF InHand
<1>12. issuer[r] = v BY <1>10, <1>11 DEF Accounts, Remembered, IssuedBy
<1>13. p = u BY <1>2, <1>6, <1>8, <1>12, OnlyItsCall
<1> QED BY <1>5, <1>13

\* The row of such a run is its call's to write.
LEMMA RowSteady ==
  ASSUME KnownInv, [ARNext]_vars, NEW u \in Runs, Unasked(u), run'[u] # run[u]
  PROVE  loop[u] # NoLoop /\ loop[u].at \notin {"closeTask", "returned"}
<1>1. PICK p \in Callers :
        /\ loop[p] # NoLoop /\ loop[p].run = u
        /\ \/ Drives(p, u)
           \/ loop[p].at = "failed"
           \/ p \in Deciders
  BY RowWriter DEF KnownInv
<1>2. p = u BY <1>1, OnlyItsCall
<1> QED BY <1>1, <1>2, RunsAssumption DEF Drives

\* A task that is its run's own is left alone by the decisions, which concern
\* other runs, and by the other callers.
LEMMA TaskSteady ==
  ASSUME KnownInv, [ARNext]_vars, NEW u \in Runs, Unasked(u), OwnTask(u),
         TaskOf[u] \in Tasks \ Delegated,
         task'[TaskOf[u]] # task[TaskOf[u]]
  PROVE  Act(u) \/ CloseTask(u) \/ PauseTask(u) \/ FailTask(u)
<1> DEFINE t == TaskOf[u]
<1>1. ARInv /\ ARTypeOK /\ IInv /\ EndInv /\ t \in Tasks /\ t # NoTask
  BY RunsAssumption DEF KnownInv, ARInv
<1>2. ARNext /\ task' # task BY DEF vars, arVars
<1>3. ASSUME NEW x, NEW status, SetTask(x, status) PROVE x = t
  BY <1>1, <1>3 DEF SetTask, ARTypeOK
<1>4. ASSUME NEW v \in Runs, Act(v) \/ CreateRun(v) \/ ActReturns(v) PROVE Act(u)
  <2>1. Act(v) /\ SetTask(TaskOf[v], "IN_PROGRESS")
    BY <1>2, <1>4 DEF Act, CreateRun, ActReturns
  <2> QED BY <1>3, <2>1 DEF OwnTask
<1>5. ASSUME NEW p \in Callers, RunLoop(p) PROVE CloseTask(u) \/ PauseTask(u) \/ FailTask(u)
  <2>1. CloseTask(p) \/ PauseTask(p) \/ FailTask(p)
    BY <1>2, <1>5 DEF RunLoop, EnterLoop, Plan, PlanExhausted, CompleteRun, LimitRun, AskHuman,
       PauseRun, RunTool, FinishTool, RecordResult, LoopThrows, FailRun
  <2>2. loop[p] # NoLoop /\ loop[p].at # "settle" BY <2>1 DEF CloseTask, PauseTask, FailTask, At
  <2>3. PICK v \in Runs : v = loop[p].run BY <2>2, RunKnown
  <2>4. TaskOf[v] = t
    BY <1>2, <1>3, <2>1, <2>3 DEF CloseTask, PauseTask, FailTask, SetFinalTask
  <2>5. v = u BY <2>4 DEF OwnTask
  <2>6. p = u BY <2>2, <2>3, <2>5, OnlyItsCall
  <2> QED BY <2>1, <2>6
<1>6. ASSUME NEW p \in Callers, AnswerTask(p) \/ Stop(p) PROVE FALSE
  <2>1. loop[p] # NoLoop /\ loop[p].at = "finishResponse" /\ SetTask(TaskInHand(p), "COMPLETED")
    BY <1>2, <1>6 DEF AnswerTask, RespondTask, PostResponse, FinishResponse, Stop, At
  <2>2. TaskInHand(p) \in Delegated BY <1>1, <2>1 DEF EndInv, CallerKnows
  <2> QED BY <1>3, <2>1, <2>2
<1>7. ASSUME NEW d \in Deciders, Resume(d) \/ DecideApproval(d) PROVE FALSE
  <2>1. SettleTask(d) \/ SettleBare(d)
    BY <1>2, <1>7 DEF Resume, FindWaiting, ClaimWaiting, DeclineRun, RestartRun,
       ResumeReturns, CompleteDelegated, DecideApproval, arVars
  <2>2. pc[d] # "idle"
    <3>1. CASE SettleBare(d) BY <3>1 DEF SettleBare
    <3>2. CASE SettleTask(d)
      <4>1. d \in Callers /\ loop[d] # NoLoop BY <3>2 DEF SettleTask, At, Callers
      <4> QED BY <1>1, <4>1 DEF ARInv, LoopKnows
    <3> QED BY <2>1, <3>1, <3>2
  <2>3. job[d].app \in Requests /\ asker[job[d].app] \in {"held", "filed"}
    BY <1>1, <2>2 DEF IInv, TypeOK, JobInv
  <2>4. SubjectOf(job[d].app) = t
    <3>1. \E status : SetTask(SubjectOf(job[d].app), status)
      BY <1>2, <2>1 DEF SettleTask, SettleBare
    <3> QED BY <1>3, <3>1
  <2>5. job[d].app \notin Direct BY <2>4 DEF SubjectOf, OwnTask
  <2>6. issuer[job[d].app] \in Runs /\ TaskOf[issuer[job[d].app]] = t
    BY <1>1, <2>3, <2>4, <2>5 DEF SubjectOf, ARTypeOK
  <2>7. issuer[job[d].app] = u BY <2>6 DEF OwnTask
  <2> QED BY <2>3, <2>7 DEF Unasked, IssuedBy
<1>8. ASSUME NEW r \in Requests, DirectIssue(r) \/ PostRequestTask(r) PROVE FALSE
  <2>1. /\ r \in posting
        /\ SetTask(DirectTask[r], IF asker[r] = "held" THEN "WAITING_FOR_HUMAN" ELSE "IN_PROGRESS")
    BY <1>2, <1>8 DEF DirectIssue, PostRequestTask
  <2>2. r \in Direct BY <1>1, <2>1 DEF ARTypeOK
  <2> QED BY <1>3, <2>1, <2>2 DEF OwnTask
<1> QED BY <1>2, <1>4, <1>5, <1>6, <1>7, <1>8 DEF ARNext

\* What is done stays done while its call is not begun again.
LEMMA FinishedStays ==
  ASSUME KnownInv, [ARNext]_vars, NEW u \in Runs, Unasked(u),
         TaskOf[u] \in Tasks \ Delegated, loop[u] = NoLoop, loop'[u] = NoLoop
  PROVE  Unasked(u)' /\ run'[u] = run[u] /\ (OwnTask(u) => task'[TaskOf[u]] = task[TaskOf[u]])
<1>1. ~AskHuman(u) /\ ~CloseTask(u) /\ ~PauseTask(u) /\ ~FailTask(u)
  BY DEF AskHuman, CloseTask, PauseTask, FailTask, At
<1>2. ~Act(u)
  <2>1. ASSUME Act(u) PROVE FALSE
    <3>1. ARInv' /\ u \in Callers BY KnownStep DEF KnownInv, Callers
    <3>2. loop' = [loop EXCEPT ![u] = [at |-> "create", run |-> u, step |-> 0,
                results |-> << >>, req |-> NoRequest, reply |-> "none"]]
      BY <2>1 DEF Act
    <3>3. loop'[u].at = "create" /\ loop'[u] \in Loop
      <4>1. << >> \in Seq(Requests) /\ 0 \in 0..(MaxSteps + 1)
        BY MaxStepsAssumption
      <4> QED BY <3>1, <3>2, <4>1 DEF KnownInv, ARInv, ARTypeOK, Loop
    <3> QED BY <3>3, NoLoopAssumption
  <2> QED BY <2>1
<1> QED BY <1>1, <1>2, UnaskedStep, RowSteady, TaskSteady

\* Of a call that starts, goes on or ends only its own steps are seen.
LEMMA OwnSteps ==
  ASSUME KnownInv, [ARNext]_vars, NEW u \in Runs, loop'[u] # loop[u]
  PROVE  \/ Act(u) \/ CreateRun(u) \/ ActReturns(u)
         \/ RunLoop(u) \/ AnswerTask(u) \/ Stop(u)
<1>1. ARTypeOK /\ u \in Callers /\ u \notin Deciders
  BY RunsAssumption DEF KnownInv, ARInv, Callers
<1>2. ARNext BY DEF vars, arVars
<1>3. ASSUME NEW v \in Runs, v # u, Act(v) \/ CreateRun(v) \/ ActReturns(v) PROVE FALSE
  BY <1>1, <1>3 DEF Act, CreateRun, ActReturns, Goes, Quits, ARTypeOK
<1>4. ASSUME NEW p \in Callers, p # u, RunLoop(p) PROVE FALSE
  BY <1>1, <1>4, RunLoopAdvances DEF Advances
<1>5. ASSUME NEW p \in Callers, p # u, AnswerTask(p) \/ Stop(p) PROVE FALSE
  BY <1>1, <1>5, AnswerFollows DEF Follows
<1>6. ASSUME NEW d \in Deciders, Resume(d) PROVE FALSE
  BY <1>1, <1>6, ResumeFollows DEF Follows
<1>7. ~\E d \in Deciders : DecideApproval(d) BY DEF DecideApproval, arVars
<1>8. ~\E r \in Requests : DirectIssue(r) \/ PostRequestTask(r) BY DEF DirectIssue, PostRequestTask
<1> QED BY <1>2, <1>3, <1>4, <1>5, <1>6, <1>7, <1>8 DEF ARNext

\* Who is told COMPLETED inside runLoop.
LEMMA LoopSays ==
  ASSUME ARTypeOK, NEW p \in Callers, RunLoop(p), ~CompleteRun(p), ~CloseTask(p),
         loop'[p].at \in {"closeTask", "returned"}
  PROVE  loop'[p].reply # "COMPLETED"
<1>0. loop[p] # NoLoop /\ loop[p] \in Loop
  BY RunLoopAdvances DEF Advances, ARTypeOK
<1>1. CASE Plan(p)
  <2>1. PICK l \in {"answer", "ask", "tool"}, r \in Requests \union {NoRequest} :
          loop' = [loop EXCEPT ![p].at = l, ![p].step = @ + 1, ![p].req = r]
    BY <1>1 DEF Plan
  <2> QED BY <1>0, <2>1 DEF ARTypeOK, Loop
<1>2. CASE RecordResult(p)
  <2> DEFINE results == Append(loop[p].results, loop[p].req)
  <2>1. loop' = [loop EXCEPT ![p].at = "plan", ![p].results = results]
    BY <1>2 DEF RecordResult
  <2> HIDE DEF results
  <2> QED BY <1>0, <2>1 DEF ARTypeOK, Loop
<1>3. CASE LoopThrows(p)
  BY <1>0, <1>3 DEF LoopThrows, Goes, ARTypeOK, Loop
<1>6. CASE EnterLoop(p)
  <2> DEFINE row == run[loop[p].run]
  <2>1. loop' = [loop EXCEPT ![p].at = "plan", ![p].step = row.step, ![p].results = row.results]
    BY <1>6 DEF EnterLoop
  <2> HIDE DEF row
  <2> QED BY <1>0, <2>1 DEF ARTypeOK, Loop
<1>4. CASE LimitRun(p) \/ PauseTask(p) \/ FailTask(p)
  BY <1>0, <1>4 DEF LimitRun, PauseTask, FailTask, Goes, Returns, ARTypeOK, Loop
<1>5. CASE PlanExhausted(p) \/ AskHuman(p) \/ PauseRun(p) \/ RunTool(p) \/ FinishTool(p) \/ FailRun(p)
  <2>1. PICK l \in {"limit", "pause", "pauseTask", "finish", "failed", "record", "failTask"} : Goes(p, l)
    BY <1>5 DEF PlanExhausted, AskHuman, PauseRun, RunTool, FinishTool, FailRun
  <2> QED BY <1>0, <2>1 DEF Goes, ARTypeOK, Loop
<1> QED BY <1>1, <1>2, <1>3, <1>4, <1>5, <1>6 DEF RunLoop

\* What such a call says at its end it knows.
LEMMA CallKnowsLoop ==
  ASSUME KnownInv, [ARNext]_vars, NEW u \in Finalizes,
         TaskOf[u] \in Tasks \ Delegated, CallKnows(u), RunLoop(u)
  PROVE  CallKnows(u)'
<1>1. /\ ARTypeOK /\ u \in Runs /\ u \in Callers /\ CallerKnows(u)
      /\ Advances(u) /\ Tells(u)
  BY RunsAssumption, RunLoopAdvances DEF KnownInv, ARInv, EndInv, Callers
<1>2. loop[u] # NoLoop /\ loop[u].run = u /\ loop'[u].run = u
  BY <1>1 DEF Advances, CallerKnows
<1>3. CASE loop[u].at = "pause"
  <2>1. loop'[u].at \in {"pauseTask", "failed"}
    <3>1. loop[u] \in Loop BY <1>1, <1>2 DEF ARTypeOK
    <3>2. PauseRun(u) \/ LoopThrows(u)
      BY <1>3 DEF RunLoop, EnterLoop, Plan, PlanExhausted, CompleteRun, LimitRun, CloseTask, AskHuman,
         PauseTask, RunTool, FinishTool, RecordResult, FailRun, FailTask, At
    <3>3. CASE PauseRun(u) BY <1>1, <3>1, <3>3 DEF PauseRun, Goes, ARTypeOK, Loop
    <3>4. CASE LoopThrows(u) BY <1>1, <1>3, <3>1, <3>4 DEF LoopThrows, Goes, ARTypeOK, Loop
    <3> QED BY <3>2, <3>3, <3>4
  <2> QED BY <2>1 DEF CallKnows, Drives, SaysCompleted
<1>4. CASE AskHuman(u)
  <2>1. loop'[u].at = "pause" BY <1>1, <1>2, <1>4, GoesOn DEF AskHuman
  <2> QED BY <2>1 DEF CallKnows, SaysCompleted
<1>5. CASE loop[u].at # "pause" /\ ~AskHuman(u)
  <2>1. Drives(u, u) => Unasked(u)' BY <1>1, <1>5, UnaskedStep DEF CallKnows
  <2>2. Drives(u, u)' => Drives(u, u) BY <1>1 DEF Advances
  <2>3. ASSUME SaysCompleted(u)'
        PROVE  /\ Unasked(u)' /\ run'[u].status = "COMPLETED"
               /\ loop'[u].at = "returned" /\ OwnTask(u) => task'[TaskOf[u]] = "COMPLETED"
    <3>1. CASE CompleteRun(u)
      <4>1. UpdateRun(u, "COMPLETED", loop[u].step, loop[u].results, NoRequest) /\ Drives(u, u)
        BY <1>2, <3>1 DEF CompleteRun, At, Drives
      <4>2. run'[u].status = "COMPLETED" BY <1>1, <1>2, <4>1, WritesRun
      <4>3. loop'[u].at = "closeTask"
        <5>1. loop[u] \in Loop BY <1>1, <1>2 DEF ARTypeOK
        <5> QED BY <1>1, <3>1, <5>1 DEF CompleteRun, Returns, ARTypeOK, Loop
      <4> QED BY <2>1, <4>1, <4>2, <4>3
    <3>2. CASE CloseTask(u)
      <4>1. loop[u].at = "closeTask" /\ loop'[u].reply = loop[u].reply /\ UNCHANGED run
        <5>1. loop[u] \in Loop BY <1>1, <1>2 DEF ARTypeOK
        <5> QED BY <1>1, <3>2, <5>1 DEF CloseTask, At, Goes, ARTypeOK, Loop
      <4>2. SaysCompleted(u) BY <1>2, <2>3, <4>1 DEF SaysCompleted
      <4>3. Unasked(u)' BY <1>1, <1>5, <4>2, UnaskedStep DEF CallKnows
      <4>4. task'[TaskOf[u]] = "COMPLETED"
        <5>1. SetTask(TaskOf[u], "COMPLETED")
          BY <1>2, <3>2, <4>2 DEF CloseTask, SetFinalTask, SaysCompleted
        <5> QED BY <1>1, <5>1, RunsAssumption DEF SetTask, ARTypeOK
      <4> QED BY <4>1, <4>2, <4>3, <4>4 DEF CallKnows
    <3>3. CASE ~CompleteRun(u) /\ ~CloseTask(u)
      BY <1>1, <2>3, <3>3, LoopSays DEF SaysCompleted
    <3> QED BY <3>1, <3>2, <3>3
  <2> QED BY <2>1, <2>2, <2>3 DEF CallKnows
<1> QED BY <1>3, <1>4, <1>5

\* It knows it from the first step to the last.
LEMMA CallKnowsStep ==
  ASSUME KnownInv, [ARNext]_vars, NEW u \in Finalizes,
         TaskOf[u] \in Tasks \ Delegated, CallKnows(u)
  PROVE  CallKnows(u)'
<1>1. ARTypeOK /\ u \in Runs /\ u \in Callers /\ CallerKnows(u)
  BY RunsAssumption DEF KnownInv, ARInv, EndInv, Callers
<1>2. ASSUME loop'[u] = NoLoop PROVE CallKnows(u)'
  BY <1>2 DEF CallKnows, Drives, SaysCompleted
<1>3. CASE loop'[u] = loop[u]
  <2>1. ~AskHuman(u)
    <3>1. ASSUME AskHuman(u) PROVE FALSE
      <4>1. loop[u] # NoLoop /\ loop[u].at = "ask" /\ Goes(u, "pause") BY <3>1 DEF AskHuman, At
      <4>2. loop[u] \in Loop BY <1>1, <4>1 DEF ARTypeOK
      <4> QED BY <1>1, <1>3, <4>1, <4>2 DEF Goes, ARTypeOK, Loop
    <3> QED BY <3>1
  <2>2. Unasked(u) => Unasked(u)' BY <1>1, <2>1, UnaskedStep
  <2>3. ASSUME SaysCompleted(u) PROVE run'[u].status = "COMPLETED"
    BY <1>1, <2>3, RowSteady DEF CallKnows, SaysCompleted
  <2>4. ASSUME SaysCompleted(u), loop[u].at = "returned", OwnTask(u) PROVE task'[TaskOf[u]] = "COMPLETED"
    BY <1>1, <2>4, TaskSteady
       DEF CallKnows, SaysCompleted, Act, CloseTask, PauseTask, FailTask, At
  <2> QED BY <1>3, <2>2, <2>3, <2>4 DEF CallKnows, Drives, SaysCompleted
<1>4. CASE Act(u)
  <2>1. run[u].status = "none" /\ loop[u] = NoLoop BY <1>4 DEF Act
  <2>2. IssuedBy(u) = {} BY <1>1, <2>1 DEF KnownInv, LedgerInv, LedgerOf, AccountOf
  <2>3. Unasked(u) BY <2>2 DEF Unasked
  <2>4. Unasked(u)' BY <1>1, <2>1, <2>3, UnaskedStep DEF AskHuman, At
  <2>5. loop'[u].at = "create" BY <1>1, <1>4 DEF Act, ARTypeOK
  <2> QED BY <2>4, <2>5 DEF CallKnows, SaysCompleted
<1>5. CASE CreateRun(u)
  <2>1. loop[u] # NoLoop /\ loop[u].at = "create" /\ Goes(u, "plan") BY <1>5 DEF CreateRun, At
  <2>2. loop'[u].at = "plan" /\ Drives(u, u)
    <3>1. loop[u] \in Loop BY <1>1, <2>1 DEF ARTypeOK
    <3> QED BY <1>1, <2>1, <3>1 DEF Goes, ARTypeOK, Loop, CallerKnows, Drives
  <2>3. Unasked(u)' BY <1>1, <2>1, <2>2, UnaskedStep DEF CallKnows, AskHuman, At
  <2> QED BY <2>2, <2>3 DEF CallKnows, SaysCompleted
<1>6. CASE ActReturns(u)
  <2>1. Quits(u) BY <1>6 DEF ActReturns
  <2> QED BY <1>1, <1>2, <2>1, QuitsOn
<1>7. CASE AnswerTask(u) \/ Stop(u)
  <2>1. /\ loop[u] # NoLoop
        /\ Quits(u) \/ Goes(u, "message") \/ Goes(u, "finishResponse")
    BY <1>7 DEF AnswerTask, RespondTask, PostResponse, FinishResponse, Stop, At, Done
  <2>2. CASE Quits(u) BY <1>1, <1>2, <2>2, QuitsOn
  <2>3. CASE ~Quits(u)
    <3>1. loop[u] \in Loop BY <1>1, <2>1 DEF ARTypeOK
    <3>2. loop'[u].at \in {"message", "finishResponse"}
      BY <1>1, <2>1, <2>3, <3>1 DEF Goes, ARTypeOK, Loop
    <3> QED BY <3>2 DEF CallKnows, Drives, SaysCompleted
  <2> QED BY <2>2, <2>3
<1> QED BY <1>1, <1>3, <1>4, <1>5, <1>6, <1>7, OwnSteps, CallKnowsLoop

-------------------------------------------------------------------------------
(* What the request knows of the runs it began *)

\* Every attempt has a run and a task of its own.
LEMMA AttemptRun ==
  ASSUME NEW a \in Attempt
  PROVE  /\ RunFor[a] \in Runs /\ RunFor[a] \in Finalizes
         /\ TaskOf[RunFor[a]] \in Tasks \ Delegated
  BY TeamAssumption

\* What the orchestrator does to the runs' state by itself: it marks the task of
\* the attempt it creates or gives up, while no call to act is running.
LEMMA TeamWrites ==
  ASSUME TInv, [TeamNext]_tVars
  PROVE  \/ [ARNext]_vars
         \/ /\ UNCHANGED <<taVars, run, loop, issuer, posting>>
            /\ team.at \in {"create", "catch"}
            /\ \A x \in Tasks : x # TaskOf[CurrentRun] => task'[x] = task[x]
            /\ task'[TaskOf[CurrentRun]] = "COMPLETED" => task[TaskOf[CurrentRun]] = "COMPLETED"
<1>0. /\ CurrentRun \in Runs /\ CurrentRun \in Callers
      /\ task \in [Tasks -> TaskStatus] /\ TaskOf[CurrentRun] \in Tasks
  BY TeamAssumption DEF TInv, ARInv, ARTypeOK, Team, CurrentRun, Callers
<1>1. CASE CreateTask \/ CreateThrows \/ CatchFailure
  <2>1. UNCHANGED <<taVars, run, loop, issuer, posting>> /\ team.at \in {"create", "catch"}
    BY <1>1 DEF CreateTask, CreateThrows, CatchFailure
  <2>2. \/ UNCHANGED task
        \/ SetTask(TaskOf[CurrentRun], "WAITING_FOR_AGENT")
        \/ SetTask(TaskOf[CurrentRun], "FAILED")
    BY <1>1 DEF CreateTask, CreateThrows, CatchFailure, NewTask
  <2> QED BY <1>0, <2>1, <2>2 DEF SetTask
<1>2. CASE AgentsWork \/ BeginAct \/ ActAnswers
  BY <1>0, <1>2 DEF AgentsWork, BeginAct, ActAnswers, ARNext
<1>3. CASE ActThrows \/ TeamStops
  <2>1. UNCHANGED vars \/ Stop(CurrentRun) BY <1>3 DEF ActThrows, TeamStops
  <2> QED BY <1>0, <2>1 DEF ARNext
<1>4. CASE TakeRequest \/ SkipStage \/ BlockStage \/ BeginStage \/ EndTeam \/ UNCHANGED tVars
  BY <1>4 DEF TakeRequest, SkipStage, BlockStage, BeginStage, EndTeam, tVars
<1> QED BY <1>1, <1>2, <1>3, <1>4 DEF TeamNext, TeamStep

\* The orchestrator's writes to tasks contradict nothing known of the runs.
LEMMA TeamKnows ==
  ASSUME TInv, KnownInv, [TeamNext]_tVars
  PROVE  KnownInv'
<1>1. CASE [ARNext]_vars BY <1>1, KnownStep
<1>2. CASE /\ UNCHANGED <<taVars, run, loop, issuer, posting>>
           /\ \A x \in Tasks : x # TaskOf[CurrentRun] => task'[x] = task[x]
           /\ task'[TaskOf[CurrentRun]] = "COMPLETED" => task[TaskOf[CurrentRun]] = "COMPLETED"
  <2>1. ARInv' BY RunsKept
  <2>2. \A x \in Tasks \ Delegated : task'[x] = "COMPLETED" => task[x] = "COMPLETED"
    BY <1>2
  <2> QED BY <1>2, <2>1, <2>2, TaskOnlyKnows
<1> QED BY <1>1, <1>2, TeamWrites

\* What the calls of a request know, whatever the orchestrator does meanwhile.
LEMMA CallsKnow ==
  ASSUME TInv, KnownInv, [TeamNext]_tVars, NEW a \in Attempt, CallKnows(RunFor[a])
  PROVE  CallKnows(RunFor[a])'
<1>1. PICK u \in Finalizes : u = RunFor[a] BY AttemptRun
<1>2. TaskOf[u] \in Tasks \ Delegated /\ CallKnows(u) BY <1>1, AttemptRun
<1>3. CASE [ARNext]_vars BY <1>1, <1>2, <1>3, CallKnowsStep
<1>4. CASE UNCHANGED loop /\ team.at \in {"create", "catch"}
  <2>1. loop[u] = NoLoop BY <1>1, <1>4 DEF TInv, Ordered, InTurn
  <2> QED BY <1>1, <1>4, <2>1 DEF CallKnows, Drives, SaysCompleted
<1> QED BY <1>3, <1>4, TeamWrites

\* The orchestrator begins a call only to the attempt it has created.
LEMMA CallBegins ==
  ASSUME TInv, [TeamNext]_tVars, NEW a \in Attempt,
         loop[RunFor[a]] = NoLoop, loop'[RunFor[a]] # NoLoop
  PROVE  team.at = "act" /\ a = team.attempt
<1>1. team'.at = "acting" /\ a = team'.attempt BY CallsKept DEF InTurn
<1>2. ~AgentsWork /\ ~UNCHANGED tVars
  BY TeamAssumption DEF AgentsWork, TeamRuns, tVars, vars, arVars
<1>3. team \in Team BY DEF TInv
<1>4. BeginAct
  <2>1. CASE TakeRequest BY <1>1, <1>3, <2>1 DEF TakeRequest, Team
  <2>2. CASE SkipStage \/ BlockStage \/ CatchFailure
    BY <1>1, <1>3, <2>2 DEF SkipStage, BlockStage, CatchFailure, Records, Team
  <2>3. CASE BeginStage \/ EndTeam \/ CreateTask \/ ActThrows \/ TeamStops
    BY <1>1, <1>3, <2>3 DEF BeginStage, EndTeam, CreateTask, ActThrows, TeamStops, Team
  <2>4. CASE CreateThrows
    BY <1>1, <1>3, <2>4 DEF CreateThrows, Team, Attempt, Stage
  <2>5. CASE ActAnswers BY <1>1, <2>5, AnswerMoves
  <2> QED BY <1>2, <2>1, <2>2, <2>3, <2>4, <2>5 DEF TeamNext, TeamStep
<1> QED BY <1>1, <1>3, <1>4 DEF BeginAct, Team

\* What is done stays done while the orchestrator works on other attempts.
LEMMA FinishedKept ==
  ASSUME TInv, KnownInv, [TeamNext]_tVars, NEW a \in Attempt, Finished(a),
         a # team.attempt \/ team.at \notin {"create", "act", "catch"}
  PROVE  Finished(a)'
<1>1. PICK u \in Runs : u = RunFor[a] BY AttemptRun
<1>2. /\ TaskOf[u] \in Tasks \ Delegated
      /\ loop[u] = NoLoop /\ Unasked(u)
      /\ run[u].status = "COMPLETED" /\ (OwnTask(u) => task[TaskOf[u]] = "COMPLETED")
  BY <1>1, AttemptRun DEF Finished, Succeeded
<1>3. loop'[u] = NoLoop BY <1>1, <1>2, CallBegins
<1>4. Unasked(u)' /\ run'[u] = run[u] /\ (OwnTask(u) => task'[TaskOf[u]] = task[TaskOf[u]])
  <2>1. CASE [ARNext]_vars BY <1>2, <1>3, <2>1, FinishedStays
  <2>2. CASE /\ UNCHANGED <<taVars, run, loop, issuer, posting>>
             /\ team.at \in {"create", "catch"}
             /\ \A x \in Tasks : x # TaskOf[CurrentRun] => task'[x] = task[x]
    <3>1. TaskOf[u] # TaskOf[CurrentRun]
      BY <1>1, <2>2, TeamAssumption DEF CurrentRun, TInv, Team
    <3> QED BY <1>2, <2>2, <3>1 DEF Unasked, IssuedBy, taVars
  <2> QED BY <2>1, <2>2, TeamWrites
<1> QED BY <1>1, <1>2, <1>3, <1>4 DEF Finished, Succeeded

\* A run comes to be by its own call.
LEMMA RunBegins ==
  ASSUME TInv, KnownInv, [TeamNext]_tVars, NEW a \in Attempt,
         run[RunFor[a]].status = "none", run'[RunFor[a]].status # "none"
  PROVE  team.at = "acting" /\ team.attempt = a /\ UNCHANGED team
<1>1. PICK u \in Runs : u = RunFor[a] BY TeamAssumption
<1>2. [ARNext]_vars BY <1>1, TeamWrites
<1>3. PICK p \in Callers : loop[p] # NoLoop /\ loop[p].run = u
  BY <1>1, <1>2, RowWriter DEF KnownInv
<1>4. p = u BY <1>1, <1>3 DEF KnownInv, ARInv, LoopKnows
<1>5. team.at = "acting" /\ team.attempt = a BY <1>1, <1>3, <1>4 DEF TInv, Ordered, InTurn
<1>6. AgentsWork
  <2>1. run' # run BY <1>1
  <2>2. ~ActAnswers /\ ~ActThrows /\ ~TeamStops
    BY <2>1 DEF ActAnswers, ActReturns, ActThrows, TeamStops, Stop, vars, arVars
  <2> QED BY <1>5, <2>1, <2>2
       DEF TeamNext, TeamStep, TakeRequest, SkipStage, BlockStage, BeginStage, EndTeam, CreateTask,
           CreateThrows, BeginAct, CatchFailure, Pending, tVars, vars, arVars
<1> QED BY <1>5, <1>6 DEF AgentsWork

-------------------------------------------------------------------------------
(* A request all of whose entries say COMPLETED *)

\* No stage is asked for twice.
LEMMA PlanInjective ==
  ASSUME NEW plan \in StagePlans \union {<< >>}, NEW i \in DOMAIN plan, NEW j \in DOMAIN plan,
         plan[i] = plan[j]
  PROVE  i = j
<1>1. CASE plan = <<"coding", "testing", "documentation">> BY <1>1
<1>2. CASE plan = <<"testing", "documentation">> BY <1>2
<1>3. CASE plan \in {<<"testing">>, <<"documentation">>, << >>} BY <1>3
<1> QED BY <1>1, <1>2, <1>3 DEF StagePlans

\* An attempt at work has no entry.
LEMMA NoEntryYet ==
  ASSUME TInv, OnCourse, Ongoing
  PROVE  ~HasEntry(team.attempt)
<1>1. /\ team.plan \in StagePlans \union {<< >>} /\ team.attempt \in Attempt
      /\ team.pos \in 1..4 /\ team.pos <= Len(team.plan)
  BY DEF TInv, Team, InStage, Ongoing
<1>2. team.plan \in Seq(Stage) /\ team.pos \in DOMAIN team.plan
  BY <1>1, StagePlanType
<1>3. ~Passed(Current) BY <1>1, <1>2, PlanInjective DEF Passed, Current
<1> QED BY <1>1, <1>3 DEF OnCourse, Attempt, Stage

\* What is recorded as done is done after every step, too.
LEMMA EntriesKept ==
  ASSUME TInv, KnownInv, [TeamNext]_tVars, OnCourse, team.at # "catch",
         NEW a \in Attempt, HasEntry(a)
  PROVE  Finished(a)'
<1>1. Finished(a) BY DEF OnCourse
<1>2. Ongoing => a # team.attempt BY NoEntryYet
<1> QED BY <1>1, <1>2, FinishedKept DEF Ongoing

\* The list with one more entry.
LEMMA EntryAdded ==
  ASSUME team \in Team, NEW a \in Attempt, NEW status, NEW response,
         team'.stages = Entered(a, status, response)
  PROVE  /\ \A x \in Attempt : HasEntry(x)' <=> HasEntry(x) \/ x = a
         /\ AllCompleted' <=> AllCompleted /\ status = "COMPLETED"
         /\ RetestsPassed /\ (a = "retest" /\ status = "COMPLETED" => ~ReportsFailure(response))
              => RetestsPassed'
<1> DEFINE e == [of |-> a, status |-> status, response |-> response]
           n == Len(team.stages)
<1>1. team.stages \in Seq(Entry) /\ n \in Nat BY DEF Team
<1>2. e.of = a /\ e.status = status /\ e.response = response OBVIOUS
<1>3. team'.stages = Append(team.stages, e) BY DEF Entered
<1> HIDE DEF e
<1>4. /\ DOMAIN team.stages = 1..n /\ DOMAIN team'.stages = 1..(n + 1)
      /\ \A i \in 1..n : team'.stages[i] = team.stages[i]
      /\ team'.stages[n + 1] = e
  BY <1>1, <1>3
<1>5. \A i : i \in 1..(n + 1) <=> i \in 1..n \/ i = n + 1 BY <1>1
<1> HIDE DEF n
<1>6. \A x \in Attempt : HasEntry(x)' <=> HasEntry(x) \/ x = a
  BY <1>2, <1>4, <1>5 DEF HasEntry
<1>7. AllCompleted' <=> AllCompleted /\ status = "COMPLETED"
  BY <1>2, <1>4, <1>5 DEF AllCompleted
<1>8. RetestsPassed /\ (a = "retest" /\ status = "COMPLETED" => ~ReportsFailure(response))
        => RetestsPassed'
  BY <1>2, <1>4, <1>5 DEF RetestsPassed
<1> QED BY <1>6, <1>7, <1>8

\* The repair's run comes to be while the repair is in turn.
LEMMA RepairRuns ==
  ASSUME TInv, KnownInv, [TeamNext]_tVars, OnCourse, run'[RunFor["repair"]].status # "none"
  PROVE  \/ HasEntry("retest")
         \/ Ongoing /\ team.attempt \in {"repair", "retest"}
  BY RunBegins DEF OnCourse, Ongoing, Attempt

\* Steps that record nothing.
LEMMA CourseHeld ==
  ASSUME TInv, KnownInv, [TeamNext]_tVars, OnCourse, team.at # "catch",
         UNCHANGED <<team.stages, team.plan, team.pos>>,
         \/ Ongoing /\ Ongoing' /\ team'.attempt = team.attempt
         \/ ~Ongoing /\ (Ongoing' => team'.attempt = Current /\ Current \in Stage)
  PROVE  OnCourse'
<1>1. /\ \A a \in Attempt : HasEntry(a)' <=> HasEntry(a)
      /\ \A stage \in Stage : Passed(stage)' <=> Passed(stage)
      /\ Current' = Current
  BY DEF HasEntry, Passed, Current
<1>2. \A a \in Attempt : HasEntry(a)' => Finished(a)' BY <1>1, EntriesKept
<1>3. "testing" \in Attempt /\ "testing" \in Stage /\ "retest" \in Attempt
      /\ "repair" \notin Stage /\ "retest" \notin Stage
  BY DEF Attempt, Stage
<1>4. run'[RunFor["repair"]].status # "none" =>
        \/ HasEntry("retest")'
        \/ Ongoing' /\ team'.attempt \in {"repair", "retest"}
  BY <1>1, <1>3, RepairRuns
<1>5. ~Ongoing => \A a \in Attempt : HasEntry(a) => Passed(IF a \in Stage THEN a ELSE "testing")
  BY DEF OnCourse
<1>6. \A a \in Attempt : HasEntry(a)' =>
       \/ Passed(IF a \in Stage THEN a ELSE "testing")'
       \/ Ongoing' /\ a = "testing" /\ team'.attempt \in {"repair", "retest"}
       \/ Ongoing' /\ a = "repair" /\ team'.attempt = "retest"
  <2> SUFFICES ASSUME NEW a \in Attempt, HasEntry(a)
               PROVE  \/ Passed(IF a \in Stage THEN a ELSE "testing")'
                      \/ Ongoing' /\ a = "testing" /\ team'.attempt \in {"repair", "retest"}
                      \/ Ongoing' /\ a = "repair" /\ team'.attempt = "retest"
    BY <1>1
  <2>1. Passed(IF a \in Stage THEN a ELSE "testing")' <=> Passed(IF a \in Stage THEN a ELSE "testing")
    BY DEF Passed
  <2> QED BY <1>5, <2>1 DEF OnCourse
<1>7. Ongoing' => IF team'.attempt \in Stage THEN team'.attempt = Current'
                                             ELSE Current' = "testing" /\ HasEntry("testing")'
  BY <1>1, <1>3 DEF OnCourse
<1>8. \A stage \in Stage : Passed(stage)' => HasEntry(stage)'
  BY <1>1 DEF OnCourse, Attempt
<1> QED BY <1>2, <1>4, <1>6, <1>7, <1>8 DEF OnCourse

\* What the call that answers COMPLETED leaves behind.
LEMMA AnswerFinishes ==
  ASSUME TInv, ActReturns(CurrentRun), loop[CurrentRun].reply = "COMPLETED",
         NEW a \in Attempt, a = team.attempt, CallKnows(RunFor[a])
  PROVE  Finished(a)'
<1>1. PICK u \in Finalizes : u = RunFor[a] BY AttemptRun
<1>2. u \in Runs /\ u \in Callers /\ u = CurrentRun /\ ARTypeOK
  BY <1>1, AttemptRun DEF CurrentRun, TInv, ARInv, Callers
<1>3. SaysCompleted(u) /\ loop[u].at = "returned" BY <1>2 DEF ActReturns, At, SaysCompleted
<1>4. Unasked(u) /\ run[u].status = "COMPLETED" /\ (OwnTask(u) => task[TaskOf[u]] = "COMPLETED")
  BY <1>1, <1>3 DEF CallKnows
<1>5. loop'[u] = NoLoop /\ UNCHANGED <<taVars, run, issuer, task>>
  BY <1>2 DEF ActReturns, Quits, ARTypeOK
<1> QED BY <1>1, <1>4, <1>5 DEF Finished, Succeeded, Unasked, IssuedBy, taVars

\* Course of a request after an entry that says COMPLETED.
LEMMA CourseTaken ==
  ASSUME DoneInv, TInv, KnownInv, ActAnswers, OnCourse,
         loop[CurrentRun].reply = "COMPLETED", NEW response, NEW a \in Attempt,
         a = team.attempt, team'.stages = Entered(a, "COMPLETED", response),
         team'.plan = team.plan,
         \/ team'.at = "next" /\ team'.pos = team.pos + 1 /\ (a = "retest" \/ a \in Stage)
         \/ /\ a = "testing" /\ team'.at = "create" /\ team'.attempt = "repair"
            /\ team'.pos = team.pos
         \/ /\ a = "repair" /\ team'.at = "create" /\ team'.attempt = "retest"
            /\ team'.pos = team.pos
  PROVE  OnCourse'
<1>1. /\ team \in Team /\ team.at = "acting" /\ Ongoing /\ ActReturns(CurrentRun)
      /\ team.pos \in DOMAIN team.plan /\ team.pos \in Nat
      /\ team.plan \in Seq(Stage) /\ [TeamNext]_tVars
  <2>1. team \in Team /\ team.at = "acting" /\ team.pos \in 1..Len(team.plan)
    BY DEF TInv, InStage, ActAnswers, Team
  <2> QED BY <2>1, StagePlanType DEF ActAnswers, Ongoing, Team, TeamNext, TeamStep
<1>2. \A x \in Attempt : HasEntry(x)' <=> HasEntry(x) \/ x = a BY <1>1, EntryAdded
<1>3. Finished(a)' BY <1>1, AnswerFinishes DEF DoneInv
<1>4. \A x \in Attempt : HasEntry(x)' => Finished(x)' BY <1>1, <1>2, <1>3, EntriesKept
<1>5. run'[RunFor["repair"]].status # "none" =>
        HasEntry("retest") \/ a \in {"repair", "retest"}
  BY <1>1, RepairRuns
<1>6. /\ \A x \in Stage : x \in Attempt
      /\ {"testing", "repair", "retest"} \subseteq Attempt
      /\ "testing" \in Stage /\ "repair" \notin Stage /\ "retest" \notin Stage
  BY DEF Attempt, Stage
<1>7. CASE team'.at = "next" /\ team'.pos = team.pos + 1 /\ (a = "retest" \/ a \in Stage)
  <2>1. \A stage \in Stage : Passed(stage)' <=> Passed(stage) \/ stage = Current
    BY <1>1, <1>7 DEF Passed, Current
  <2>2. ~Ongoing' BY <1>7 DEF Ongoing
  <2>3. IF a \in Stage THEN a = Current ELSE Current = "testing" /\ HasEntry("testing")
    BY <1>1 DEF OnCourse
  <2>4. \A stage \in Stage : Passed(stage)' => HasEntry(stage)'
    BY <1>2, <1>6, <1>7, <2>1, <2>3 DEF OnCourse
  <2>5. ASSUME NEW x \in Attempt, HasEntry(x)' PROVE Passed(IF x \in Stage THEN x ELSE "testing")'
    <3> DEFINE s == IF x \in Stage THEN x ELSE "testing"
    <3>1. s \in Stage BY <1>6
    <3>2. Passed(s) \/ s = Current BY <1>2, <1>6, <1>7, <2>3, <2>5 DEF OnCourse
    <3>3. Passed(s)' BY <2>1, <3>1, <3>2
    <3> QED BY <3>3
  <2>6. run'[RunFor["repair"]].status # "none" => HasEntry("retest")'
    BY <1>2, <1>5, <1>6, <1>7
  <2> QED BY <1>4, <2>2, <2>4, <2>5, <2>6 DEF OnCourse
<1>8. CASE team'.pos = team.pos /\ team'.at = "create"
  <2>1. /\ Ongoing' /\ Current' = Current
        /\ \A stage \in Stage : Passed(stage)' <=> Passed(stage)
    BY <1>8 DEF Ongoing, Current, Passed
  <2>2. \/ a = "testing" /\ team'.attempt = "repair"
        \/ a = "repair" /\ team'.attempt = "retest"
    BY <1>8
  <2>3. \A stage \in Stage : Passed(stage)' => HasEntry(stage)'
    BY <1>2, <1>6, <2>1 DEF OnCourse
  <2>4. Current' = "testing" /\ HasEntry("testing")' /\ team'.attempt \notin Stage
    BY <1>1, <1>2, <1>6, <2>1, <2>2 DEF OnCourse
  <2>5. ASSUME NEW x \in Attempt, HasEntry(x)'
        PROVE  \/ Passed(IF x \in Stage THEN x ELSE "testing")'
               \/ Ongoing' /\ x = "testing" /\ team'.attempt \in {"repair", "retest"}
               \/ Ongoing' /\ x = "repair" /\ team'.attempt = "retest"
    <3> DEFINE s == IF x \in Stage THEN x ELSE "testing"
    <3>1. s \in Stage BY <1>6
    <3>2. Passed(s)' <=> Passed(s) BY <2>1, <3>1
    <3>3. HasEntry(x) \/ x = a BY <1>2, <2>5
    <3>4. HasEntry(x) => Passed(s) \/ x = "testing" BY <2>2 DEF OnCourse
    <3> QED BY <2>1, <2>2, <3>2, <3>3, <3>4
  <2> QED BY <1>4, <1>5, <2>1, <2>2, <2>3, <2>4, <2>5 DEF OnCourse
<1> QED BY <1>7, <1>8

\* What recording an attempt does to the rest of the request.
LEMMA RecordsFields ==
  ASSUME team \in Team, NEW a, NEW status, NEW response, NEW blocked,
         Records(a, status, response, blocked)
  PROVE  /\ team'.stages = Entered(a, status, response)
         /\ team'.at = "next" /\ team'.pos = team.pos + 1 /\ team'.plan = team.plan
<1> DEFINE all == Entered(a, status, response)
<1>1. team' = [team EXCEPT !.stages = all, !.blocked = blocked, !.at = "next", !.pos = @ + 1]
  BY DEF Records
<1> HIDE DEF all
<1>2. team.pos \in 1..4 BY DEF Team
<1>3. team'.stages = all /\ team'.at = "next" /\ team'.plan = team.plan BY <1>1 DEF Team
<1>4. team'.pos = team.pos + 1 BY <1>1, <1>2 DEF Team
<1> QED BY <1>3, <1>4 DEF all

\* An attempt that did not complete: the request will not be called COMPLETED.
LEMMA NotAllCompleted ==
  ASSUME team \in Team, RetestsPassed, NEW a \in Attempt, NEW status, NEW response,
         NEW blocked, Records(a, status, response, blocked), status # "COMPLETED"
  PROVE  RetestsPassed' /\ ~AllCompleted' /\ team'.at = "next"
  BY RecordsFields, EntryAdded

\* What every answer of act makes of a request that is on course.
LEMMA CourseAnswered ==
  ASSUME DoneInv, TInv, KnownInv, ActAnswers
  PROVE  /\ RetestsPassed' /\ team'.at \in {"next", "create", "catch"}
         /\ team'.at # "catch" /\ AllCompleted' => OnCourse'
<1> DEFINE reply == loop[CurrentRun].reply
           a == team.attempt
<1>1. /\ team \in Team /\ team.at = "acting" /\ a \in Attempt /\ RetestsPassed
      /\ AllCompleted => OnCourse
      /\ "repair" \in Attempt /\ "retest" \in Attempt
      /\ "repair" \notin Stage /\ "retest" \notin Stage
  BY DEF TInv, DoneInv, ActAnswers, Team, Attempt, Stage
<1>2. CASE reply = "threw"
  BY <1>1, <1>2 DEF ActAnswers, Team, RetestsPassed
<1>3. CASE reply # "threw"
  <2>1. PICK response \in Responses :
          \/ StageAnswers(reply, response)
          \/ RepairAnswers(reply, response)
          \/ RetestAnswers(reply, response)
    BY <1>3 DEF ActAnswers
  <2> HIDE DEF reply
  <2>2. ASSUME NEW b \in Attempt, b = a, NEW blocked, Records(b, reply, response, blocked),
               b = "retest" \/ b \in Stage,
               b = "retest" /\ reply = "COMPLETED" => ~ReportsFailure(response)
        PROVE  RetestsPassed' /\ team'.at = "next" /\ (AllCompleted' => OnCourse')
    <3>1. CASE reply = "COMPLETED"
      <4>1. /\ team'.stages = Entered(b, "COMPLETED", response) /\ team'.at = "next"
            /\ team'.pos = team.pos + 1 /\ team'.plan = team.plan
        BY <1>1, <2>2, <3>1, RecordsFields
      <4>2. RetestsPassed' /\ (AllCompleted' => AllCompleted)
        BY <1>1, <2>2, <3>1, <4>1, EntryAdded
      <4> QED BY <1>1, <2>2, <3>1, <4>1, <4>2, CourseTaken DEF reply
    <3>2. CASE reply # "COMPLETED" BY <1>1, <2>2, <3>2, NotAllCompleted
    <3> QED BY <3>1, <3>2
  <2>3. ASSUME NEW b \in Attempt, b = a, NEW next, b # "retest",
               \/ b = "testing" /\ next = "repair"
               \/ b = "repair" /\ next = "retest",
               reply = "COMPLETED",
               team' = [team EXCEPT !.stages = Entered(b, reply, response),
                          !.attempt = next, !.at = "create"]
        PROVE  RetestsPassed' /\ team'.at = "create" /\ (AllCompleted' => OnCourse')
    <3> DEFINE all == Entered(b, reply, response)
    <3>1. team' = [team EXCEPT !.stages = all, !.attempt = next, !.at = "create"] BY <2>3
    <3> HIDE DEF all
    <3>2. /\ team'.stages = all /\ team'.at = "create" /\ team'.attempt = next
          /\ team'.pos = team.pos /\ team'.plan = team.plan
      BY <1>1, <3>1 DEF Team
    <3>3. team'.stages = Entered(b, "COMPLETED", response) BY <2>3, <3>2 DEF all
    <3>4. RetestsPassed' /\ (AllCompleted' => AllCompleted)
      BY <1>1, <2>3, <3>3, EntryAdded
    <3> QED BY <1>1, <2>3, <3>2, <3>3, <3>4, CourseTaken DEF reply
  <2>4. reply \in {"COMPLETED", "WAITING_FOR_HUMAN", "STEP_LIMIT_REACHED"}
    <3>1. CurrentRun \in Runs /\ At(CurrentRun, "returned")
      BY <1>1, TeamAssumption DEF CurrentRun, ActAnswers, ActReturns
    <3>2. reply \in ActReply BY <3>1 DEF TInv, ActTells, At, Telling, reply
    <3> QED BY <1>3, <3>2 DEF ActReply
  <2>5. CASE StageAnswers(reply, response)
    <3>1. a \in Stage /\ a # "retest" BY <1>1, <2>5 DEF StageAnswers
    <3>2. ~Blocks(a, reply) => reply = "COMPLETED" BY <2>4, <3>1 DEF Blocks
    <3>3. CASE Records(a, reply, response, Blocks(a, reply)) BY <1>1, <2>2, <3>1, <3>3
    <3>4. CASE /\ a = "testing" /\ ~Blocks(a, reply)
               /\ team' = [team EXCEPT !.stages = Entered(a, reply, response),
                             !.attempt = "repair", !.at = "create"]
      BY <1>1, <2>3, <3>1, <3>2, <3>4
    <3>5. CASE team' = [team EXCEPT !.blocked = TRUE, !.at = "next", !.pos = @ + 1,
                          !.stages = Entered(a, reply, response) \o
                            <<[of |-> "repair", status |-> "BLOCKED", response |-> {}]>>]
      <4> DEFINE e == [of |-> "repair", status |-> "BLOCKED", response |-> {}]
                 all == Entered(a, reply, response) \o <<e>>
                 n == Len(team.stages)
      <4>1. team'.stages = all /\ team'.at = "next"
        <5> HIDE DEF all
        <5> QED BY <1>1, <3>5 DEF Team, all
      <4>2. e.status = "BLOCKED" /\ e.of = "repair" OBVIOUS
      <4>3. [of |-> a, status |-> reply, response |-> response].of = a OBVIOUS
      <4>4. PICK f : f.of = a /\ team'.stages = Append(team.stages, f) \o <<e>>
        BY <4>1, <4>3 DEF Entered
      <4> HIDE DEF e, all
      <4>5. team.stages \in Seq(Entry) /\ n \in Nat BY <1>1 DEF Team
      <4>6. /\ DOMAIN team.stages = 1..n /\ DOMAIN team'.stages = 1..(n + 2)
            /\ \A i \in 1..n : team'.stages[i] = team.stages[i]
            /\ team'.stages[n + 1] = f /\ team'.stages[n + 2] = e
        BY <4>4, <4>5
      <4>7. \A i : i \in 1..(n + 2) <=> i \in 1..n \/ i = n + 1 \/ i = n + 2 BY <4>5
      <4> HIDE DEF n
      <4>8. RetestsPassed'
        BY <1>1, <3>1, <4>2, <4>4, <4>6, <4>7 DEF RetestsPassed
      <4>9. ~AllCompleted' BY <4>2, <4>6, <4>7 DEF AllCompleted
      <4> QED BY <4>1, <4>8, <4>9
    <3> QED BY <2>5, <3>3, <3>4, <3>5 DEF StageAnswers
  <2>6. CASE RepairAnswers(reply, response)
    <3>1. a = "repair" BY <2>6 DEF RepairAnswers
    <3>2. CASE Blocks("repair", reply)
      <4>1. reply # "COMPLETED" BY <1>1, <3>2 DEF Blocks
      <4> QED BY <1>1, <2>6, <3>2, <4>1, NotAllCompleted DEF RepairAnswers
    <3>3. CASE ~Blocks("repair", reply)
      <4>1. reply = "COMPLETED" BY <1>1, <3>3 DEF Blocks
      <4> QED BY <1>1, <2>3, <2>6, <3>1, <3>3, <4>1 DEF RepairAnswers
    <3> QED BY <3>2, <3>3
  <2>7. CASE RetestAnswers(reply, response)
    <3> DEFINE verdict == IF reply = "COMPLETED" /\ ReportsFailure(response) THEN "FAILED" ELSE reply
    <3>1. a = "retest" /\ Records("retest", verdict, response, Blocks("retest", verdict))
      BY <2>7 DEF RetestAnswers
    <3>2. CASE verdict = reply
      <4>1. reply = "COMPLETED" => ~ReportsFailure(response) BY <3>2
      <4> QED BY <1>1, <2>2, <3>1, <3>2, <4>1
    <3>3. CASE verdict # reply
      <4>1. verdict # "COMPLETED" BY <3>3
      <4> HIDE DEF verdict
      <4> QED BY <1>1, <3>1, <4>1, NotAllCompleted
    <3> QED BY <3>2, <3>3
  <2> QED BY <2>1, <2>5, <2>6, <2>7
<1> QED BY <1>2, <1>3

\* A step of the request records a completed attempt, or records another and is
\* not called COMPLETED, or records nothing.
LEMMA DoneStep ==
  ASSUME DoneInv, TInv, KnownInv, [TeamNext]_tVars
  PROVE  DoneInv'
<1> DEFINE Under == team.at \in {"idle", "next", "create", "act", "acting", "ended"}
<1>1. \A a \in Attempt : CallKnows(RunFor[a])' BY CallsKnow DEF DoneInv
<1>2. /\ team \in Team /\ team.attempt \in Attempt /\ RetestsPassed
      /\ Under /\ AllCompleted => OnCourse
      /\ team.at = "idle" => team.pos = 1 /\ team.stages = << >>
      /\ team.at = "ended" => team.pos > Len(team.plan)
  BY DEF TInv, DoneInv, Team
\* Nothing is recorded: the course is kept as far as it goes on.
<1>3. ASSUME UNCHANGED <<team.stages, team.pos>>,
             team'.at = "idle" => team.at = "idle",
             team'.at = "ended" => team'.pos > Len(team'.plan),
             Under' => Under /\ (OnCourse => OnCourse')
      PROVE  DoneInv'
  <2>1. RetestsPassed' /\ (AllCompleted' => AllCompleted)
    BY <1>2, <1>3 DEF RetestsPassed, AllCompleted
  <2> QED BY <1>1, <1>2, <1>3, <2>1 DEF DoneInv
\* What did not complete is recorded.
<1>4. ASSUME NEW a \in Attempt, NEW status, NEW blocked, Records(a, status, {}, blocked),
             status # "COMPLETED"
      PROVE  DoneInv'
  <2>1. RetestsPassed' /\ ~AllCompleted' /\ team'.at = "next"
    BY <1>2, <1>4, NotAllCompleted
  <2> QED BY <1>1, <2>1 DEF DoneInv
<1>5. CASE AgentsWork \/ UNCHANGED tVars
  <2>1. UNCHANGED team BY <1>5 DEF AgentsWork, tVars
  <2>2. Ongoing' <=> Ongoing BY <2>1 DEF Ongoing
  <2>3. Under /\ OnCourse => OnCourse' BY <2>1, <2>2, CourseHeld
  <2> QED BY <1>2, <1>3, <2>1, <2>3
<1>6. CASE TakeRequest
  <2>1. PICK plan \in StagePlans, roster \in Rosters :
          team' = [team EXCEPT !.plan = plan, !.roster = roster,
                     !.at = IF roster = << >> THEN "threw" ELSE "next"]
    BY <1>6 DEF TakeRequest
  <2>2. /\ team.at = "idle" /\ team.pos = 1 /\ team.stages = << >>
        /\ UNCHANGED vars
    BY <1>2, <1>6 DEF TakeRequest
  <2>3. /\ UNCHANGED <<team.stages, team.pos>> /\ team'.at \in {"threw", "next"}
    BY <1>2, <2>1 DEF Team
  <2>4. OnCourse => OnCourse'
    <3>1. ~Ongoing /\ ~Ongoing' BY <2>2, <2>3 DEF Ongoing
    <3>2. \A a \in Attempt : ~HasEntry(a) /\ ~HasEntry(a)' BY <2>2, <2>3 DEF HasEntry
    <3>3. team'.plan \in Seq(Stage) BY <1>2, <2>1, StagePlanType DEF Team
    <3>4. \A stage \in Stage : ~Passed(stage)' BY <2>2, <2>3, <3>3 DEF Passed
    <3>5. "retest" \in Attempt BY DEF Attempt
    <3> QED BY <2>2, <3>1, <3>2, <3>4, <3>5 DEF OnCourse, vars, arVars
  <2> QED BY <1>3, <2>2, <2>3, <2>4
<1>7. CASE SkipStage \/ BlockStage
  <2>1. Current \in Attempt BY <1>2, <1>7, PendingStage DEF SkipStage, BlockStage
  <2> QED BY <1>4, <1>7, <2>1 DEF SkipStage, BlockStage
<1>8. CASE BeginStage
  <2>1. /\ team' = [team EXCEPT !.at = "create", !.attempt = Current]
        /\ Current \in Stage /\ team.at = "next"
    BY <1>2, <1>8, PendingStage DEF BeginStage, Pending
  <2>2. /\ UNCHANGED <<team.stages, team.plan, team.pos>>
        /\ team'.at = "create" /\ team'.attempt = Current
    BY <1>2, <2>1 DEF Team
  <2>3. ~Ongoing /\ Ongoing' BY <2>1, <2>2 DEF Ongoing
  <2>4. OnCourse => OnCourse' BY <2>1, <2>2, <2>3, CourseHeld
  <2> QED BY <1>3, <2>1, <2>2, <2>4
<1>9. CASE EndTeam \/ CreateTask \/ BeginAct
  <2>1. \/ team.at = "next" /\ team.pos > Len(team.plan) /\ team' = [team EXCEPT !.at = "ended"]
        \/ team.at = "create" /\ team' = [team EXCEPT !.at = "act"]
        \/ team.at = "act" /\ team' = [team EXCEPT !.at = "acting"]
    BY <1>9 DEF EndTeam, CreateTask, BeginAct
  <2>2. /\ UNCHANGED <<team.stages, team.plan, team.pos, team.attempt>>
        /\ \/ team.at = "next" /\ team.pos > Len(team.plan) /\ team'.at = "ended"
           \/ team.at = "create" /\ team'.at = "act"
           \/ team.at = "act" /\ team'.at = "acting"
    BY <1>2, <2>1 DEF Team
  <2>3. \/ Ongoing /\ Ongoing' /\ team'.attempt = team.attempt
        \/ ~Ongoing /\ ~Ongoing'
    <3>1. CASE team.at = "next" /\ team'.at = "ended" BY <3>1 DEF Ongoing
    <3>2. CASE team.at \in {"create", "act"} /\ team'.at \in {"act", "acting"}
      BY <2>2, <3>2 DEF Ongoing
    <3> QED BY <2>2, <3>1, <3>2
  <2>4. OnCourse => OnCourse' BY <2>2, <2>3, CourseHeld
  <2> QED BY <1>3, <2>2, <2>4
<1>10. CASE CreateThrows \/ ActThrows \/ TeamStops
  <2>1. \/ team' = [team EXCEPT !.at = "threw"]
        \/ team' = [team EXCEPT !.at = "catch"]
        \/ team' = [team EXCEPT !.at = "stopped"]
        \/ \E a \in Attempt : team' = [team EXCEPT !.at = "catch", !.attempt = a]
    <3>1. CASE CreateThrows
      <4>1. CASE team.attempt \in Stage
        <5>1. team.attempt # "repair" /\ team.attempt # "retest" BY <4>1 DEF Stage
        <5> QED BY <3>1, <4>1, <5>1 DEF CreateThrows
      <4>2. CASE team.attempt = "repair"
        BY <3>1, <4>2 DEF CreateThrows, Stage, Attempt
      <4>3. CASE team.attempt = "retest"
        BY <3>1, <4>3 DEF CreateThrows, Stage, Attempt
      <4> QED BY <1>2, <4>1, <4>2, <4>3 DEF Attempt
    <3>2. CASE ActThrows \/ TeamStops BY <3>2 DEF ActThrows, TeamStops
    <3> QED BY <1>10, <3>1, <3>2
  <2>2. UNCHANGED <<team.stages, team.pos>> /\ team'.at \in {"threw", "catch", "stopped"}
    BY <1>2, <2>1 DEF Team
  <2> QED BY <1>3, <2>2
<1>11. CASE ActAnswers
  <2>1. /\ RetestsPassed' /\ team'.at \in {"next", "create", "catch"}
        /\ team'.at # "catch" /\ AllCompleted' => OnCourse'
    BY <1>11, CourseAnswered
  <2> QED BY <1>1, <2>1 DEF DoneInv
<1>12. CASE CatchFailure
  BY <1>2, <1>4, <1>12 DEF CatchFailure
<1> QED BY <1>5, <1>6, <1>7, <1>8, <1>9, <1>10, <1>11, <1>12 DEF TeamNext, TeamStep

LEMMA TeamKnowsInit == TeamInit => KnownInv
  BY ARInvInit, LedgerInit, InductiveInit, EndInit DEF TeamInit, ARInit, KnownInv

LEMMA DoneInit == TeamInit => DoneInv
<1> SUFFICES ASSUME TeamInit PROVE DoneInv
  OBVIOUS
<1>1. \A u \in Runs : loop[u] = NoLoop /\ run[u].status = "none"
  BY DEF TeamInit, ARInit, Callers
<1>2. /\ team.at = "idle" /\ team.pos = 1 /\ team.stages = << >> /\ team.plan = << >>
  BY DEF TeamInit
<1>3. \A a \in Attempt : RunFor[a] \in Runs BY TeamAssumption
<1>4. \A a \in Attempt : CallKnows(RunFor[a]) BY <1>1, <1>3 DEF CallKnows, Drives, SaysCompleted
<1>5. OnCourse
  <2>1. "repair" \in Attempt BY DEF Attempt
  <2>2. ~Ongoing BY <1>2 DEF Ongoing
  <2>3. \A a \in Attempt : ~HasEntry(a) BY <1>2 DEF HasEntry
  <2>4. \A stage \in Stage : ~Passed(stage) BY <1>2 DEF Passed
  <2> QED BY <1>1, <1>3, <2>1, <2>2, <2>3, <2>4 DEF OnCourse
<1> QED BY <1>2, <1>4, <1>5 DEF DoneInv, RetestsPassed

\* Below a request, too, what callers, handlers and tasks know of the runs they
\* depend on is true: the orchestrator's writes to tasks contradict none of it.
THEOREM TeamRunsKnown == TeamSpec => []KnownInv
<1>1. TInv /\ KnownInv /\ [TeamNext]_tVars => KnownInv' BY TeamKnows
<1> QED BY TeamKnowsInit, <1>1, TeamInductive, PTL DEF TeamSpec

\* What AgentRun promises of its runs holds below a request: a COMPLETED run's
\* results are the tools that ran for it, once each, its tools are bounded by the
\* step limit, and no task is COMPLETED without a run that is.
THEOREM TeamRunsHonest ==
  TeamSpec => [](ToolBudget /\ CompletedRunAccountsForTools /\ CompletedTaskHasCompletedRun)
<1>1. KnownInv => ToolBudget BY DEF KnownInv, LedgerInv, LedgerOf, StepsOf, Asked, ToolBudget
<1>2. KnownInv => CompletedRunAccountsForTools BY LedgerAccounts DEF KnownInv, ARInv
<1>3. KnownInv => CompletedTaskHasCompletedRun
  BY DEF KnownInv, EndInv, TaskKnows, Over, CompletedTaskHasCompletedRun
<1> QED BY TeamRunsKnown, <1>1, <1>2, <1>3, PTL

\* As long as all recorded attempts completed, the database says the same of
\* them, and nobody is left who could change that.
THEOREM DoneInductive == TeamSpec => []DoneInv
<1>1. DoneInv /\ TInv /\ KnownInv /\ [TeamNext]_tVars => DoneInv' BY DoneStep
<1> QED BY DoneInit, <1>1, TeamInductive, TeamRunsKnown, PTL DEF TeamSpec

\* A request reported COMPLETED is done: every stage asked for has a completed
\* run, and a completed task unless others work on it, and a repair was retested
\* without a reported failure.
THEOREM CompletedIsDone == TeamSpec => []CompletedMeansDone
<1>1. TInv /\ DoneInv => CompletedMeansDone
  <2> SUFFICES ASSUME TInv, DoneInv, team.at = "ended", Overall = "COMPLETED"
               PROVE  /\ \A i \in DOMAIN team.plan : Succeeded(team.plan[i])
                      /\ run[RunFor["repair"]].status # "none" =>
                           \E i \in DOMAIN team.stages :
                             /\ team.stages[i].of = "retest"
                             /\ ~ReportsFailure(team.stages[i].response)
                             /\ Succeeded("retest")
    BY DEF CompletedMeansDone
  <2>1. AllCompleted
    <3>1. ASSUME NEW i \in DOMAIN team.stages PROVE team.stages[i].status \in StageStatus
      <4>1. team.stages \in Seq(Entry) BY DEF TInv, Team
      <4>2. team.stages[i] \in Entry BY <3>1, <4>1
      <4> QED BY <4>2 DEF Entry
    <3>2. ~Recorded({"WAITING_FOR_HUMAN"}) BY DEF Overall
    <3>3. ~Recorded({"FAILED", "BLOCKED", "SKIPPED", "STEP_LIMIT_REACHED"}) BY DEF Overall
    <3>4. ASSUME NEW i \in DOMAIN team.stages
          PROVE  /\ team.stages[i].status # "WAITING_FOR_HUMAN"
                 /\ team.stages[i].status \notin {"FAILED", "BLOCKED", "SKIPPED", "STEP_LIMIT_REACHED"}
      BY <3>2, <3>3, <3>4 DEF Recorded
    <3> QED BY <3>1, <3>4 DEF AllCompleted, StageStatus
  <2>2. OnCourse /\ RetestsPassed /\ team.pos > Len(team.plan) BY <2>1 DEF DoneInv
  <2>3. /\ team.plan \in Seq(Stage) /\ team.pos \in 1..4 /\ ~Ongoing
        /\ "retest" \in Attempt /\ Stage \subseteq Attempt
    <3>1. team.plan \in StagePlans \union {<< >>} /\ team.pos \in 1..4 BY DEF TInv, Team
    <3>2. team.plan \in Seq(Stage)
      <4>1. << >> \in Seq(Stage) OBVIOUS
      <4>2. StagePlans \subseteq Seq(Stage) BY StagePlanType
      <4> QED BY <3>1, <4>1, <4>2
    <3>3. ~Ongoing BY DEF Ongoing
    <3>4. "retest" \in Attempt /\ Stage \subseteq Attempt BY DEF Attempt
    <3> QED BY <3>1, <3>2, <3>3, <3>4
  <2>4. ASSUME NEW i \in DOMAIN team.plan PROVE Succeeded(team.plan[i])
    <3>1. team.plan[i] \in Stage /\ i < team.pos BY <2>2, <2>3
    <3>2. Passed(team.plan[i]) BY <3>1 DEF Passed
    <3> QED BY <2>2, <2>3, <3>1, <3>2 DEF OnCourse, Finished
  <2>5. ASSUME run[RunFor["repair"]].status # "none"
        PROVE  \E i \in DOMAIN team.stages :
                 /\ team.stages[i].of = "retest"
                 /\ ~ReportsFailure(team.stages[i].response)
                 /\ Succeeded("retest")
    <3>1. HasEntry("retest") /\ Succeeded("retest")
      BY <2>2, <2>3, <2>5 DEF OnCourse, Finished
    <3> QED BY <2>1, <2>2, <3>1 DEF HasEntry, RetestsPassed, AllCompleted
  <2> QED BY <2>4, <2>5
<1> QED BY TeamInductive, DoneInductive, <1>1, PTL

===============================================================================
