------------------------------- MODULE AgentRun -------------------------------
(***************************************************************************)
(* Agent runs: AgentService.act, runLoop and resumeAfterApproval over the  *)
(* table agent_runs, composed with the tool executions and approvals of    *)
(* ToolApproval, with the task each run works on, and with the part of the *)
(* decision handlers that resumes a paused run and settles its task.       *)
(*                                                                         *)
(* A run executes inside whoever called it: first the handler of           *)
(* POST /agents/act (or OrchestratorService.dispatchAndRun), which is      *)
(* named like the run, and after a pause the decision handler that claimed *)
(* it.  loop[p] is what such a caller keeps in memory; run[u] is the row.  *)
(* Every database write of the code is a step of its own.                  *)
(***************************************************************************)
EXTENDS ToolApproval, Sequences, FiniteSets

CONSTANTS
  Runs,         \* agent runs, and the callers that start them
  Tasks,        \* tasks
  NoTask, NoRun, NoRequest, NoLoop,
  TaskOf,       \* agent_runs.task_id of each run
  RunOwner,     \* agent_runs.employee_id
  Finalizes,    \* runs with finalize_task, all but those of dispatchAndRun
  Delegated,    \* tasks that have a TASK_REQUEST message
  Direct,       \* requests made outside a run (POST /tools/request, /approvals)
  DirectTask,   \* the taskId of such a request
  MaxSteps      \* agent_runs.max_steps, 5 in the code

ASSUME RunsAssumption ==
  /\ Runs \intersect Deciders = {}
  /\ TaskOf \in [Runs -> Tasks \union {NoTask}]
  /\ RunOwner \in [Runs -> Users]
  /\ Finalizes \subseteq Runs
  /\ Delegated \subseteq Tasks
  /\ \A u \in Runs \ Finalizes : TaskOf[u] \in Delegated
  /\ Direct \subseteq Requests
  /\ DirectTask \in [Direct -> Tasks \union {NoTask}]
  /\ {NoTask, NoRun, NoRequest} \intersect (Tasks \union Runs \union Requests) = {}

ASSUME MaxStepsAssumption == MaxSteps \in Nat \ {0}

VARIABLES
  run,          \* the rows of agent_runs, with the histories of RunRow
  loop,         \* the callers that are inside act or resumeAfterApproval
  issuer,       \* history: the run that issued each request
  posting,      \* direct requests whose handler has yet to update the task
  task,         \* tasks.status
  responses     \* how many TASK_RESPONSE messages each task has

arVars == <<run, loop, issuer, posting, task, responses>>
vars   == <<taVars, arVars>>

Callers == Runs \union Deciders

RunStatus == {"none", "RUNNING", "WAITING_FOR_HUMAN", "COMPLETED", "REJECTED",
              "FAILED", "STEP_LIMIT_REACHED"}

TaskStatus == {"TODO", "IN_PROGRESS", "WAITING_FOR_AGENT", "WAITING_FOR_HUMAN",
               "BLOCKED", "COMPLETED", "FAILED"}

Reply == {"none", "COMPLETED", "WAITING_FOR_HUMAN", "STEP_LIMIT_REACHED",
          "REJECTED", "threw"}

\* Labels at which a throw is caught by the try block of runLoop.
TryLabel == {"plan", "answer", "limit", "closeTask", "ask", "pause", "pauseTask",
             "tool", "finish", "record"}

LoopLabel == TryLabel \union
  {"create", "enter", "failed", "failTask", "returned", "claim", "decline",
   "restart", "settle", "delegated", "respond", "message", "finishResponse"}

\* Three fields are histories that no step reads: done, that the row has been
\* COMPLETED; lost, the requests whose results a late catch block took out of a
\* row that a resumed loop was about to read; rewound, that such a catch block
\* set the step back further than the last pause.
RunRow == [status : RunStatus, step : 0..(MaxSteps + 1), results : Seq(Requests),
           waiting : Requests \union {NoRequest},
           done : BOOLEAN, lost : SUBSET Requests, rewound : BOOLEAN]

Loop == [at : LoopLabel, run : Runs \union {NoRun}, step : 0..(MaxSteps + 1),
         results : Seq(Requests), req : Requests \union {NoRequest}, reply : Reply]

\* A caller that is outside has none of these in memory.
ASSUME NoLoopAssumption == NoLoop \notin Loop

ARTypeOK ==
  /\ TypeOK
  /\ run       \in [Runs -> RunRow]
  /\ loop      \in [Callers -> Loop \union {NoLoop}]
  /\ issuer    \in [Requests -> Runs \union {NoRun}]
  /\ posting   \subseteq Direct
  /\ task      \in [Tasks -> TaskStatus]
  /\ responses \in [Tasks -> Nat]

ARInit ==
  /\ Init
  /\ run = [u \in Runs |-> [status |-> "none", step |-> 0, results |-> << >>,
                            waiting |-> NoRequest,
                            done |-> FALSE, lost |-> {}, rewound |-> FALSE]]
  /\ loop = [p \in Callers |-> NoLoop]
  /\ issuer = [r \in Requests |-> NoRun]
  /\ posting = {}
  /\ task = [t \in Tasks |-> IF t \in Delegated THEN "IN_PROGRESS" ELSE "TODO"]
  /\ responses = [t \in Tasks |-> 0]

At(p, l) == loop[p] # NoLoop /\ loop[p].at = l

Goes(p, l) == loop' = [loop EXCEPT ![p].at = l]

Returns(p, l, reply) == loop' = [loop EXCEPT ![p].at = l, ![p].reply = reply]

SetTask(t, status) ==
  task' = IF t = NoTask THEN task ELSE [task EXCEPT ![t] = status]

\* tasks.updateStatus guarded by "input.taskId && input.finalizeTask !== false"
SetFinalTask(u, status) ==
  IF u \in Finalizes THEN SetTask(TaskOf[u], status) ELSE UNCHANGED task

Written(row, status, step, results, waiting) ==
  [row EXCEPT !.status = status, !.step = step, !.results = results, !.waiting = waiting,
              !.done = IF status = "COMPLETED" THEN TRUE ELSE @]

\* AgentRunRepository.update writes status, step, results and both waiting
\* ids, with no condition on what the row holds.
UpdateRun(p, status, step, results, waiting) ==
  run' = [run EXCEPT ![loop[p].run] = Written(@, status, step, results, waiting)]

-------------------------------------------------------------------------------
(* AgentService.act and runLoop *)

\* The task is moved to IN_PROGRESS before the run row exists.
Act(u) ==
  /\ run[u].status = "none"
  /\ loop[u] = NoLoop
  /\ SetTask(TaskOf[u], "IN_PROGRESS")
  /\ loop' = [loop EXCEPT ![u] = [at |-> "create", run |-> u, step |-> 0,
                results |-> << >>, req |-> NoRequest, reply |-> "none"]]
  /\ UNCHANGED <<taVars, run, issuer, posting, responses>>

\* The loop starts from the row it has created, which nobody else has yet.
CreateRun(p) ==
  /\ At(p, "create")
  /\ UpdateRun(p, "RUNNING", 0, << >>, NoRequest)
  /\ Goes(p, "plan")
  /\ UNCHANGED <<taVars, issuer, posting, task, responses>>

\* runLoop reads the row again, outside its try block: what a resumed run goes
\* on from is what the row says by now.
EnterLoop(p) ==
  LET row == run[loop[p].run] IN
  /\ At(p, "enter")
  /\ loop' = [loop EXCEPT ![p].at = "plan", ![p].step = row.step, ![p].results = row.results]
  /\ UNCHANGED <<taVars, run, issuer, posting, task, responses>>

Fresh(u, r) == asker[r] = "absent" /\ r \notin Direct /\ OwnerOf[r] = RunOwner[u]

StepsLeft(p) == loop[p].step < MaxSteps

\* One turn of the while loop: the planner answers, or asks for a tool that
\* the policy lets run at once or puts before a human.
Plan(p) ==
  LET u == loop[p].run
      Turn(l, r) == loop' = [loop EXCEPT ![p].at = l, ![p].step = @ + 1, ![p].req = r]
  IN
  /\ At(p, "plan")
  /\ StepsLeft(p)
  /\ \/ Turn("answer", NoRequest) /\ UNCHANGED <<taVars, issuer>>
     \/ \E r \in Requests :
          /\ Fresh(u, r)
          /\ issuer' = [issuer EXCEPT ![r] = u]
          /\ \/ CreateHeld(r) /\ Turn("ask", r)
             \/ CreateRunnable(r) /\ Turn("tool", r)
  /\ UNCHANGED <<run, posting, task, responses>>

PlanExhausted(p) ==
  /\ At(p, "plan")
  /\ ~StepsLeft(p)
  /\ Goes(p, "limit")
  /\ UNCHANGED <<taVars, run, issuer, posting, task, responses>>

\* With no tool result the answer is a chat turn, whose status the agent
\* service sets to WAITING_FOR_HUMAN when no provider is configured.
CompleteRun(p) ==
  /\ At(p, "answer")
  /\ UpdateRun(p, "COMPLETED", loop[p].step, loop[p].results, NoRequest)
  /\ \/ Returns(p, "closeTask", "COMPLETED")
     \/ loop[p].results = << >> /\ Returns(p, "closeTask", "WAITING_FOR_HUMAN")
  /\ UNCHANGED <<taVars, issuer, posting, task, responses>>

LimitRun(p) ==
  /\ At(p, "limit")
  /\ UpdateRun(p, "STEP_LIMIT_REACHED", loop[p].step, loop[p].results, NoRequest)
  /\ Returns(p, "closeTask", "STEP_LIMIT_REACHED")
  /\ UNCHANGED <<taVars, issuer, posting, task, responses>>

\* (mutant) The task is COMPLETED however the run ended.
CloseTaskAnyway(p) ==
  /\ At(p, "closeTask")
  /\ SetFinalTask(loop[p].run, "COMPLETED")
  /\ Goes(p, "returned") \/ (MayFail /\ Goes(p, "failed"))
  /\ UNCHANGED <<taVars, run, issuer, posting, responses>>

\* The update of the task may take effect and still throw.
CloseTask(p) ==
  /\ At(p, "closeTask")
  /\ SetFinalTask(loop[p].run,
       IF loop[p].reply = "STEP_LIMIT_REACHED" THEN "BLOCKED" ELSE "COMPLETED")
  /\ Goes(p, "returned") \/ (MayFail /\ Goes(p, "failed"))
  /\ UNCHANGED <<taVars, run, issuer, posting, responses>>

AskHuman(p) ==
  /\ At(p, "ask")
  /\ Ask(loop[p].req)
  /\ Goes(p, "pause")
  /\ UNCHANGED <<run, issuer, posting, task, responses>>

\* (mutant) The pause does not store the step.
PauseRunForgetful(p) ==
  /\ At(p, "pause")
  /\ UpdateRun(p, "WAITING_FOR_HUMAN", run[loop[p].run].step, loop[p].results, loop[p].req)
  /\ Goes(p, "pauseTask")
  /\ UNCHANGED <<taVars, issuer, posting, task, responses>>

\* The pause stores the step after the current one.
PauseRun(p) ==
  /\ At(p, "pause")
  /\ UpdateRun(p, "WAITING_FOR_HUMAN", loop[p].step + 1, loop[p].results, loop[p].req)
  /\ Goes(p, "pauseTask")
  /\ UNCHANGED <<taVars, issuer, posting, task, responses>>

\* (mutant) The loop goes on after it paused its run.
PauseTaskUnreturned(p) ==
  /\ At(p, "pauseTask")
  /\ SetTask(TaskOf[loop[p].run], "WAITING_FOR_HUMAN")
  /\ Goes(p, "plan")
  /\ UNCHANGED <<taVars, run, issuer, posting, responses>>

\* Whether or not the run finalises its task.
PauseTask(p) ==
  /\ At(p, "pauseTask")
  /\ SetTask(TaskOf[loop[p].run], "WAITING_FOR_HUMAN")
  /\ Returns(p, "returned", "WAITING_FOR_HUMAN") \/ (MayFail /\ Goes(p, "failed"))
  /\ UNCHANGED <<taVars, run, issuer, posting, responses>>

RunTool(p) ==
  /\ At(p, "tool")
  /\ CallTool(loop[p].req)
  /\ Goes(p, IF asker'[loop[p].req] = "called" THEN "finish" ELSE "failed")
  /\ UNCHANGED <<run, issuer, posting, task, responses>>

FinishTool(p) ==
  /\ At(p, "finish")
  /\ FinishCall(loop[p].req)
  /\ Goes(p, "record")
  /\ UNCHANGED <<run, issuer, posting, task, responses>>

\* (mutant) The row gets the result, the list in memory does not.
RecordResultStale(p) ==
  /\ At(p, "record")
  /\ UpdateRun(p, "RUNNING", loop[p].step, Append(loop[p].results, loop[p].req), NoRequest)
  /\ Goes(p, "plan")
  /\ UNCHANGED <<taVars, issuer, posting, task, responses>>

RecordResult(p) ==
  LET results == Append(loop[p].results, loop[p].req) IN
  /\ At(p, "record")
  /\ UpdateRun(p, "RUNNING", loop[p].step, results, NoRequest)
  /\ loop' = [loop EXCEPT ![p].at = "plan", ![p].results = results]
  /\ UNCHANGED <<taVars, issuer, posting, task, responses>>

\* Any await of the try block throws before its effect, or the one before it
\* did after its own: planner, provider, database, a result over the size
\* limit, which is looked at once the result is in the list.
LoopThrows(p) ==
  /\ MayFail
  /\ loop[p] # NoLoop
  /\ loop[p].at \in TryLabel
  /\ \/ Goes(p, "failed")
     \/ /\ loop[p].at = "record"
        /\ loop' = [loop EXCEPT ![p].at = "failed", ![p].results = Append(@, loop[p].req)]
  /\ IF loop[p].at \in {"ask", "tool", "finish"} THEN AskerThrows(loop[p].req)
                                                 ELSE UNCHANGED taVars
  /\ UNCHANGED <<run, issuer, posting, task, responses>>

IssuedBy(u) == {r \in Requests : issuer[r] = u}

Listed(results, r) == \E i \in DOMAIN results : results[i] = r

\* The requests of a run that a list of results does not tell of.
Untold(u, results) == {r \in IssuedBy(u) : ~Listed(results, r)}

\* A handler that is bringing a run back and has yet to read its row.
Resuming(q, u) == (At(q, "restart") \/ At(q, "enter")) /\ loop[q].run = u

LostBy(p) ==
  LET u == loop[p].run IN
  IF \E q \in Callers : At(q, "enter") /\ loop[q].run = u
  THEN Untold(u, loop[p].results)
  ELSE run[u].lost

RewoundBy(p) ==
  LET u == loop[p].run IN
  IF \E q \in Callers : Resuming(q, u) /\ loop[p].step + 1 < loop[q].step
  THEN TRUE
  ELSE run[u].rewound

\* The catch block writes the step and the results that its caller has in
\* memory, even if a decision has resumed the run in the meantime.
MarkFailed(p) ==
  run' = [run EXCEPT ![loop[p].run] =
    [Written(@, "FAILED", loop[p].step, loop[p].results, NoRequest) EXCEPT
       !.lost = LostBy(p), !.rewound = RewoundBy(p)]]

\* The catch block; its own writes are allowed to fail.
FailRun(p) ==
  /\ At(p, "failed")
  /\ MarkFailed(p) \/ (MayFail /\ UNCHANGED run)
  /\ Goes(p, "failTask")
  /\ UNCHANGED <<taVars, issuer, posting, task, responses>>

FailTask(p) ==
  /\ At(p, "failTask")
  /\ \/ SetFinalTask(loop[p].run, "FAILED")
     \/ MayFail /\ UNCHANGED task
  /\ Returns(p, "returned", "threw")
  /\ UNCHANGED <<taVars, run, issuer, posting, responses>>

RunLoop(p) ==
  \/ EnterLoop(p) \/ Plan(p) \/ PlanExhausted(p) \/ CompleteRun(p) \/ LimitRun(p) \/ CloseTask(p)
  \/ AskHuman(p) \/ PauseRun(p) \/ PauseTask(p)
  \/ RunTool(p) \/ FinishTool(p) \/ RecordResult(p)
  \/ LoopThrows(p) \/ FailRun(p) \/ FailTask(p)

-------------------------------------------------------------------------------
(* The caller of act, once it returns *)

Quits(p) == loop' = [loop EXCEPT ![p] = NoLoop]

\* (mutant) A waiting run is answered for.
ActReturnsEarly(u) ==
  /\ At(u, "returned")
  /\ IF u \in Finalizes \/ loop[u].reply = "threw" THEN Quits(u) ELSE Goes(u, "respond")
  /\ UNCHANGED <<taVars, run, issuer, posting, task, responses>>

\* POST /agents/act answers; dispatchAndRun answers the delegating agent
\* unless the run waits or threw.
ActReturns(u) ==
  /\ At(u, "returned")
  /\ IF u \in Finalizes \/ loop[u].reply \in {"WAITING_FOR_HUMAN", "threw"}
     THEN Quits(u)
     ELSE Goes(u, "respond")
  /\ UNCHANGED <<taVars, run, issuer, posting, task, responses>>

-------------------------------------------------------------------------------
(* CollaborationService.completeDelegatedRun and respondTask *)

SubjectOf(r) ==
  IF r \in Direct THEN DirectTask[r]
  ELSE IF issuer[r] = NoRun THEN NoTask ELSE TaskOf[issuer[r]]

\* The task the caller answers for: a decision handler takes it from the
\* approval, dispatchAndRun from its own task.
TaskInHand(p) == IF p \in Runs THEN TaskOf[p] ELSE SubjectOf(job[p].app)

\* A decision handler leaves as it quits; the other callers have no job.
Done(p) ==
  /\ Quits(p)
  /\ IF p \in Deciders THEN Leave(p) ELSE UNCHANGED <<pc, job>>
  /\ UNCHANGED <<dbVars, asker, ran>>

\* completeDelegatedRun is a no-op on a task that is COMPLETED or answered,
\* and throws on one that nobody delegated.
CompleteDelegated(d) ==
  LET t == TaskInHand(d) IN
  /\ At(d, "delegated")
  /\ IF task[t] = "COMPLETED" \/ t \notin Delegated \/ responses[t] > 0
     THEN Done(d)
     ELSE Goes(d, "respond") /\ UNCHANGED taVars
  /\ UNCHANGED <<run, issuer, posting, task, responses>>

\* respondTask throws unless the task is with the agent; the message is
\* inserted later, whatever the task has become by then.
AwaitsAgent(t) == task[t] \in {"IN_PROGRESS", "WAITING_FOR_AGENT"}

RespondTask(p) ==
  /\ At(p, "respond")
  /\ IF AwaitsAgent(TaskInHand(p)) THEN Goes(p, "message") /\ UNCHANGED taVars
                                   ELSE Done(p)
  /\ UNCHANGED <<run, issuer, posting, task, responses>>

PostResponse(p) ==
  /\ At(p, "message")
  /\ responses' = [responses EXCEPT ![TaskInHand(p)] = @ + 1]
  /\ Goes(p, "finishResponse")
  /\ UNCHANGED <<taVars, run, issuer, posting, task>>

FinishResponse(p) ==
  /\ At(p, "finishResponse")
  /\ SetTask(TaskInHand(p), "COMPLETED")
  /\ Done(p)
  /\ UNCHANGED <<run, issuer, posting, responses>>

AnswerTask(p) == RespondTask(p) \/ PostResponse(p) \/ FinishResponse(p)

-------------------------------------------------------------------------------
(* AgentService.resumeAfterApproval, called by the three decision handlers *)

\* What the handler passes as "approved": /tools/approve always true.
PassedAsApproved(d) ==
  \/ job[d].route = "tools/approve"
  \/ job[d].route = "patch" /\ Approves(d)

WaitingOn(x) == {u \in Runs : run[u].status = "WAITING_FOR_HUMAN" /\ run[u].waiting = x}

\* The run must belong to the user who decides; otherwise the handler throws.
FindWaiting(d) ==
  LET Waiters == WaitingOn(job[d].exec)
      Enters(l, u) == loop' = [loop EXCEPT ![d] = [at |-> l, run |-> u, step |-> 0,
                         results |-> << >>, req |-> job[d].exec, reply |-> "none"]]
  IN
  /\ pc[d] = "resume"
  /\ loop[d] = NoLoop
  /\ \/ Waiters = {} /\ Enters("settle", NoRun) /\ UNCHANGED taVars
     \/ \E u \in Waiters :
          IF RunOwner[u] = job[d].user
          THEN Enters("claim", u) /\ UNCHANGED taVars
          ELSE Leave(d) /\ UNCHANGED <<loop, dbVars, asker, ran>>
  /\ UNCHANGED <<run, issuer, posting, task, responses>>

\* UPDATE ... WHERE status='WAITING_FOR_HUMAN' AND waiting_execution_id=...
Claimable(u, x) == u \in WaitingOn(x)

\* (mutant) The resumed run calls the tool again for its result.
ClaimWaitingRerun(d) ==
  LET u == loop[d].run IN
  /\ At(d, "claim")
  /\ run' = [run EXCEPT ![u].status = "RUNNING", ![u].waiting = NoRequest]
  /\ loop' = [loop EXCEPT ![d] =
       [@ EXCEPT !.at = "restart", !.step = run[u].step,
                 !.results = Append(run[u].results, loop[d].req)]]
  /\ Invoke(loop[d].req)
  /\ UNCHANGED <<dbVars, asker, pc, job, issuer, posting, task, responses>>

ClaimWaiting(d) ==
  LET u == loop[d].run IN
  /\ At(d, "claim")
  /\ IF Claimable(u, loop[d].req)
     THEN /\ run' = [run EXCEPT ![u].status = "RUNNING", ![u].waiting = NoRequest]
          /\ loop' = [loop EXCEPT ![d] =
               [@ EXCEPT !.at = IF PassedAsApproved(d) THEN "restart" ELSE "decline",
                         !.step = run[u].step,
                         !.results = Append(run[u].results, loop[d].req)]]
     ELSE Goes(d, "settle") /\ UNCHANGED run
  /\ UNCHANGED <<taVars, issuer, posting, task, responses>>

\* (mutant) The handler answers a rejection without ending the run.
DeclineRunUnsaved(d) ==
  /\ At(d, "decline")
  /\ Returns(d, "settle", "REJECTED")
  /\ UNCHANGED <<taVars, run, issuer, posting, task, responses>>

DeclineRun(d) ==
  /\ At(d, "decline")
  /\ UpdateRun(d, "REJECTED", loop[d].step, loop[d].results, NoRequest)
  /\ Returns(d, "settle", "REJECTED")
  /\ UNCHANGED <<taVars, issuer, posting, task, responses>>

\* The update passes no step: the row keeps the one it has.
RestartRun(d) ==
  /\ At(d, "restart")
  /\ UpdateRun(d, "RUNNING", run[loop[d].run].step, loop[d].results, NoRequest)
  /\ Goes(d, "enter")
  /\ UNCHANGED <<taVars, issuer, posting, task, responses>>

ResumeReturns(d) ==
  /\ At(d, "returned")
  /\ IF loop[d].reply = "threw" THEN Done(d)
                                ELSE Goes(d, "settle") /\ UNCHANGED taVars
  /\ UNCHANGED <<run, issuer, posting, task, responses>>

\* The status the handler gives the task once resumeAfterApproval returned.
SettledStatus(d) ==
  CASE job[d].route = "tools/reject"  -> "BLOCKED"
    [] job[d].route = "tools/approve" ->
         IF loop[d].reply = "COMPLETED" THEN "COMPLETED" ELSE "IN_PROGRESS"
    [] job[d].route = "patch" ->
         IF loop[d].reply = "REJECTED" THEN "BLOCKED" ELSE "IN_PROGRESS"

SettleTask(d) ==
  LET t == SubjectOf(job[d].app) IN
  /\ At(d, "settle")
  /\ IF t # NoTask /\ job[d].route = "patch" /\ loop[d].reply = "COMPLETED"
     THEN Goes(d, "delegated") /\ UNCHANGED <<taVars, task>>
     ELSE SetTask(t, SettledStatus(d)) /\ Done(d)
  /\ UNCHANGED <<run, issuer, posting, responses>>

\* A bare approval only moves its task.
SettleBare(d) ==
  /\ pc[d] = "settle"
  /\ SetTask(SubjectOf(job[d].app), IF Approves(d) THEN "IN_PROGRESS" ELSE "BLOCKED")
  /\ Leave(d)
  /\ UNCHANGED <<dbVars, asker, ran, run, loop, issuer, posting, responses>>

\* Up to the stored outcome the handler is the one of ToolApproval.
DecideApproval(d) ==
  /\ loop[d] = NoLoop
  /\ DecideStep(d) \/ Throw(d)
  /\ UNCHANGED arVars

Resume(d) ==
  \/ FindWaiting(d) \/ ClaimWaiting(d) \/ DeclineRun(d) \/ RestartRun(d)
  \/ ResumeReturns(d) \/ SettleTask(d) \/ CompleteDelegated(d) \/ SettleBare(d)

-------------------------------------------------------------------------------
(* Requests made outside a run *)

\* POST /tools/request runs ToolExecutionService.request, then moves the task.
DirectIssue(r) ==
  /\ r \in Direct
  /\ Issue(r)
  /\ posting' = IF asker'[r] \in {"held", "returned"} THEN posting \union {r} ELSE posting
  /\ UNCHANGED <<run, loop, issuer, task, responses>>

PostRequestTask(r) ==
  /\ r \in posting
  /\ posting' = posting \ {r}
  /\ SetTask(DirectTask[r], IF asker[r] = "held" THEN "WAITING_FOR_HUMAN" ELSE "IN_PROGRESS")
  /\ UNCHANGED <<taVars, run, loop, issuer, responses>>

-------------------------------------------------------------------------------
(* Crashes *)

\* The process running p stops: what p kept in memory is gone.
Stop(p) ==
  /\ MayFail
  /\ loop[p] # NoLoop
  /\ Quits(p)
  /\ IF p \in Deciders THEN Leave(p) ELSE UNCHANGED <<pc, job>>
  /\ UNCHANGED <<dbVars, asker, ran, run, issuer, posting, task, responses>>

ARNext ==
  \/ \E u \in Runs : Act(u) \/ CreateRun(u) \/ ActReturns(u)
  \/ \E p \in Callers : RunLoop(p) \/ AnswerTask(p) \/ Stop(p)
  \/ \E d \in Deciders : Resume(d) \/ DecideApproval(d)
  \/ \E r \in Requests : DirectIssue(r) \/ PostRequestTask(r)

ARSpec == ARInit /\ [][ARNext]_vars

\* Callers are served while the process is up: each one that is inside a call
\* is scheduled again, Node.js having no other way to keep it waiting.
CallerStep(p) == RunLoop(p) \/ AnswerTask(p)

RunStep(u) == CreateRun(u) \/ ActReturns(u)

Fairness ==
  /\ \A p \in Callers : WF_vars(CallerStep(p))
  /\ \A u \in Runs : WF_vars(RunStep(u))
  /\ \A d \in Deciders : WF_vars(Resume(d)) /\ WF_vars(pc[d] # "idle" /\ DecideApproval(d))

-------------------------------------------------------------------------------
(* Properties *)

\* Labels from which the caller still issues tools for its run or writes it.
Drives(p, u) ==
  /\ loop[p] # NoLoop
  /\ loop[p].run = u
  /\ loop[p].at \in {"create", "enter", "plan", "answer", "limit", "ask", "pause",
                     "tool", "finish", "record", "decline", "restart"}

\* The catch block of the caller is about to mark its run.
Catches(p, u) == At(p, "failed") /\ loop[p].run = u

\* A run is driven by one caller at a time: a paused loop has let go of the run
\* before a decision can resume it, and one decision resumes it.
OneLoopPerRun ==
  \A u \in Runs : \A p, q \in Callers : Drives(p, u) /\ Drives(q, u) => p = q

TimesIn(results, r) == Cardinality({i \in DOMAIN results : results[i] = r})

\* The final answer is written from the results of the tools the run used, each
\* counted once, across every pause, resumption and failed attempt: nothing a
\* COMPLETED run did is missing from its results or listed twice.  The code has
\* one exception: the caller that had paused the run throws, and its catch
\* block writes its older results between the update and the read of the
\* resumption; what the run forgets so is in lost.
CompletedRunAccountsForTools ==
  \A u \in Runs : run[u].status = "COMPLETED" =>
    /\ \A r \in IssuedBy(u) \ run[u].lost : TimesIn(run[u].results, r) = 1
    /\ \A r \in Requests :
         TimesIn(run[u].results, r) > 0 => issuer[r] = u /\ TimesIn(run[u].results, r) = 1

\* The step limit bounds the tools a run asks for, however often it is paused,
\* resumed by other handlers and marked FAILED by the caller that paused it
\* last.  Only the catch block of a caller that is two pauses late can set the
\* step back below the tools asked for.
ToolBudget ==
  \A u \in Runs : ~run[u].rewound => Cardinality(IssuedBy(u)) <= MaxSteps

\* A task finalised by its runs, and by nobody's hand (PATCH /tasks/:id/status,
\* POST /collaboration/tasks/:taskId/respond), is COMPLETED only if one of them
\* was COMPLETED and still is; or, when an await may fail, has been marked FAILED
\* since, by the caller that ended it and threw after the task was written, or
\* by the one that had paused it and is unaware that a decision resumed it.
CompletedTaskHasCompletedRun ==
  \A t \in Tasks \ Delegated : task[t] = "COMPLETED" =>
    \E u \in Runs :
      /\ TaskOf[u] = t
      /\ run[u].done
      /\ \/ run[u].status = "COMPLETED"
         \/ MayFail /\ run[u].status = "FAILED"

\* A waiting run goes on only once the execution it waits for is decided and
\* its outcome stored, and it goes on with that outcome in its results.
ResumedWithOutcome ==
  [][\A u \in Runs :
       run[u].status = "WAITING_FOR_HUMAN" /\ run'[u].status = "RUNNING" =>
         LET x == run[u].waiting IN
         /\ execution[x] \in {"COMPLETED", "REJECTED"}
         /\ approval[x] # "PENDING"
         /\ \E d \in Deciders :
              loop'[d] # NoLoop /\ loop'[d].run = u /\ loop'[d].results = Append(run[u].results, x)]_vars

\* A run that has ended stays as it ended, whatever decisions on its approvals
\* arrive late; except that a caller that held it and threw, the one that ended
\* it or the one that had paused it, may mark it FAILED.  And once nobody drives
\* it, a FAILED run stays FAILED.
EndedRunsStayEnded ==
  [][\A u \in Runs :
       /\ run[u].status \in {"COMPLETED", "REJECTED", "STEP_LIMIT_REACHED"} =>
            \/ run'[u] = run[u]
            \/ MayFail /\ run'[u].status = "FAILED" /\ \E p \in Callers : Catches(p, u)
       /\ run[u].status = "FAILED" /\ (\A p \in Callers : ~Drives(p, u)) =>
            run'[u].status = "FAILED"]_vars

\* The composition leaves the approval gate intact: to ToolApproval, all that
\* runs, resumptions and tasks do is one of its own steps or none.
KeepsToolApproval == Spec

\* While nothing fails, a run that is RUNNING ends or pauses: the planner
\* cannot keep it going past its step limit.
RunsSettle == \A u \in Runs : run[u].status = "RUNNING" ~> run[u].status # "RUNNING"

\* No call is in flight.
AtRest ==
  /\ \A p \in Callers : loop[p] = NoLoop
  /\ \A d \in Deciders : pc[d] = "idle"
  /\ posting = {}

Paused(u) == run[u].status = "WAITING_FOR_HUMAN"

\* docs/API.md: "WAITING_FOR_HUMAN: execution needs an approval decision".
WaitingNeedsDecision ==
  AtRest => \A u \in Runs : Paused(u) => approval[run[u].waiting] = "PENDING"

-------------------------------------------------------------------------------
(* The inductive invariants behind these properties *)

\* What a caller inside the loop is sure to hold in memory.
Holding == {"ask", "pause", "tool", "finish", "record", "claim"}

LoopKnows(p) ==
  loop[p] # NoLoop =>
    /\ loop[p].at \in Holding => loop[p].req \in Requests
    /\ loop[p].at \in {"ask", "pause"} => loop[p].step <= MaxSteps
    /\ loop[p].at \in {"claim", "restart", "enter"} => loop[p].run \in Runs
    /\ loop[p].at = "create" => loop[p].run = p
    /\ loop[p].run \in Runs =>
         (loop[p].at = "create" <=> run[loop[p].run].status = "none")
    /\ p \in Deciders => pc[p] = "resume"

\* A caller that drives a run does so alone, and the run is not waiting.
DrivesAlone(u) ==
  \A p \in Callers : Drives(p, u) =>
    /\ run[u].status # "WAITING_FOR_HUMAN"
    /\ \A q \in Callers : Drives(q, u) => p = q

ARInv ==
  /\ ARTypeOK
  /\ \A p \in Callers : LoopKnows(p)
  /\ \A u \in Runs : DrivesAlone(u)

\* The results and the one request that has none yet, if there is one, are what
\* has been asked for, each once.
Accounts(asked, results, open) ==
  /\ \A i, j \in DOMAIN results : results[i] = results[j] => i = j
  /\ ~Listed(results, open)
  /\ \A r \in Requests : r \in asked <=> r = open \/ Listed(results, r)

\* The request whose result the caller has yet to append.
InHand(p) ==
  IF loop[p].at \in {"ask", "pause", "tool", "finish", "record"} THEN loop[p].req
                                                                 ELSE NoRequest

\* The results the caller goes on from: until it has read its row, the row's.
ResultsOf(p) == IF loop[p].at = "enter" THEN run[loop[p].run].results ELSE loop[p].results

\* The requests a run has not forgotten.
Remembered(u) == IssuedBy(u) \ run[u].lost

Asked(u) == Cardinality(IssuedBy(u))

\* Results of requests of the run, none of them twice.
OwnResults(u, results) ==
  /\ \A i, j \in DOMAIN results : results[i] = results[j] => i = j
  /\ \A i \in DOMAIN results : results[i] \in IssuedBy(u)

\* A caller has results that its catch block may still write.
Writes(p, u) == loop[p] # NoLoop /\ loop[p].run = u /\ loop[p].at \in TryLabel \union {"failed"}

\* The account of a run's tools is passed from the row to the caller that
\* drives the run and back; what a catch block writes is part of it.
AccountOf(u) ==
  /\ run[u].lost \subseteq IssuedBy(u)
  /\ run[u].status = "none" => IssuedBy(u) = {}
  /\ run[u].status = "WAITING_FOR_HUMAN" =>
       /\ run[u].waiting \in Requests
       /\ Accounts(Remembered(u), run[u].results, run[u].waiting)
  /\ run[u].status = "COMPLETED" => Accounts(Remembered(u), run[u].results, NoRequest)
  /\ \A p \in Callers : Drives(p, u) =>
       /\ run[u].status \in {"none", "RUNNING", "FAILED"}
       /\ Accounts(Remembered(u), ResultsOf(p), InHand(p))
  /\ \A p \in Callers : Writes(p, u) => OwnResults(u, loop[p].results)

\* The steps of a run cover the tools it has asked for, wherever they are kept,
\* with one to spare for the request it has waited for.
StepsOf(u) ==
  /\ IsFiniteSet(IssuedBy(u))
  /\ run[u].rewound \/
       /\ Asked(u) <= MaxSteps
       /\ run[u].status = "WAITING_FOR_HUMAN" => Asked(u) + 1 <= run[u].step
       /\ \A p \in Callers :
            /\ Drives(p, u) /\ loop[p].at # "enter" => Asked(u) <= loop[p].step
            /\ Resuming(p, u) => Asked(u) + 1 <= loop[p].step /\ Asked(u) <= run[u].step

\* Requests that were not issued by a run, or not at all, have no issuer.
UnissuedOf(r) == asker[r] = "absent" \/ r \in Direct => issuer[r] = NoRun

LedgerOf(u) == AccountOf(u) /\ StepsOf(u)

LedgerInv ==
  /\ \A u \in Runs : LedgerOf(u)
  /\ \A r \in Requests : UnissuedOf(r)

\* The run has ended, if only as FAILED, and nobody drives it any more.
Over(u) ==
  /\ \A p \in Callers : ~Drives(p, u)
  /\ run[u].done
  /\ \/ run[u].status = "COMPLETED"
     \/ MayFail /\ run[u].status = "FAILED"

SaysDone(p) ==
  \/ loop[p].reply = "COMPLETED"
  \/ loop[p].at = "closeTask" /\ loop[p].reply # "STEP_LIMIT_REACHED"

\* What a caller knows of the run it works on: whose request brought it there,
\* that it answers for delegated tasks only, and that the run is over once it
\* says so.
CallerKnows(p) ==
  loop[p] # NoLoop =>
    /\ loop[p].run \notin Runs => loop[p].at = "settle" /\ loop[p].reply = "none"
    /\ p \in Runs => loop[p].run = p
    /\ p \in Deciders /\ loop[p].run \in Runs => issuer[job[p].app] = loop[p].run
    /\ p \in Deciders /\ loop[p].at = "claim" => loop[p].req = job[p].exec
    /\ loop[p].at \in {"failed", "failTask"} => MayFail
    /\ loop[p].at \in {"respond", "message", "finishResponse"} => TaskInHand(p) \in Delegated
    /\ SaysDone(p) => Over(loop[p].run)

\* A handler resumes a run once the outcome of the execution is stored.
OutcomeStored(d) == pc[d] = "resume" => execution[job[d].exec] \in {"COMPLETED", "REJECTED"}

TaskKnows(t) ==
  task[t] = "COMPLETED" /\ t \notin Delegated => \E u \in Runs : TaskOf[u] = t /\ Over(u)

EndInv ==
  /\ \A p \in Callers : CallerKnows(p)
  /\ \A d \in Deciders : OutcomeStored(d)
  /\ \A t \in Tasks : TaskKnows(t)

===============================================================================
