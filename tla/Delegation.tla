------------------------------ MODULE Delegation -------------------------------
(***************************************************************************)
(* Delegated work.  OrchestratorService.dispatchAndRun creates a task for  *)
(* another agent, stores a TASK_REQUEST, adds an entry to the Redis stream *)
(* agent:tasks and then starts an agent run on the task itself: that part  *)
(* is AgentRun.  The entry is consumed by AgentTaskWorker, which works on  *)
(* the same task with a chat turn of its own.  This module adds the worker *)
(* to AgentRun; the two share tasks.status and the messages.               *)
(*                                                                         *)
(* An entry is "elsewhere" when the worker never gets it: the consumer     *)
(* group starts at "$" and misses what was added before, and the Python    *)
(* runtime reads under the same group name and writes neither tasks nor    *)
(* messages.  Only ">" is read, so an entry whose handler died is never    *)
(* delivered again.                                                        *)
(*                                                                         *)
(* The employee of the receiving agent may also answer the task by hand:   *)
(* POST /collaboration/tasks/:taskId/respond calls respondTask without any *)
(* run having ended.                                                       *)
(***************************************************************************)
EXTENDS AgentRun

\* Each dispatch creates a task of its own; nobody runs agents on one for ever.
ASSUME FiniteRunsAssumption ==
  \A t \in Delegated : IsFiniteSet({u \in Runs : TaskOf[u] = t})

CONSTANTS
  Respondents,        \* the answers given by hand
  RespondsTo          \* the delegated task each of them names

ASSUME RespondentsAssumption ==
  IsFiniteSet(Respondents) /\ RespondsTo \in [Respondents -> Delegated]

VARIABLES
  delivery,           \* what became of the stream entry of each delegated task
  answering           \* how far the handler of each answer by hand is

dVars == <<vars, delivery, answering>>

\* Labels of AgentTaskWorker.handle at which a throw is caught.
WorkerTry == {"queued", "chat", "message", "publish", "close"}

Delivery == WorkerTry \union {"failTask", "failMessage", "ack", "done", "elsewhere", "lost"}

\* "done": the answer is stored, and the handler is not at work any more.
HandLabel == {"none", "message", "finish", "done"}

DTypeOK ==
  /\ ARTypeOK
  /\ delivery \in [Delegated -> Delivery]
  /\ answering \in [Respondents -> HandLabel]

DInit ==
  /\ ARInit
  /\ delivery \in [Delegated -> {"queued", "elsewhere"}]
  /\ answering = [h \in Respondents |-> "none"]

Moves(t, from, to) ==
  /\ delivery[t] = from
  /\ delivery' = [delivery EXCEPT ![t] = to]
  /\ UNCHANGED <<taVars, run, loop, issuer, posting, answering>>

Answers(t) == responses' = [responses EXCEPT ![t] = @ + 1]

-------------------------------------------------------------------------------
(* AgentTaskWorker.handle *)

\* (mutant) The entry of a task that is no longer IN_PROGRESS is left alone.
StartWorkFresh(t) ==
  /\ task[t] = "IN_PROGRESS"
  /\ Moves(t, "queued", "chat")
  /\ UNCHANGED <<task, responses>>

\* The worker asks whom the task is assigned to, not what its status is.
StartWork(t) ==
  /\ Moves(t, "queued", "chat")
  /\ SetTask(t, "IN_PROGRESS")
  /\ UNCHANGED responses

\* AgentService.chat: one answer of the receiving agent, without tools.
Chat(t) == Moves(t, "chat", "message") /\ UNCHANGED <<task, responses>>

\* publishResponse stores the answer, then adds it to agent:responses.
StoreAnswer(t) == Moves(t, "message", "publish") /\ Answers(t) /\ UNCHANGED task

PublishAnswer(t) == Moves(t, "publish", "close") /\ UNCHANGED <<task, responses>>

CloseWork(t) ==
  /\ Moves(t, "close", "ack")
  /\ SetTask(t, "COMPLETED")
  /\ UNCHANGED responses

WorkerThrows(t) ==
  /\ MayFail
  /\ \E l \in WorkerTry : Moves(t, l, "failTask")
  /\ UNCHANGED <<task, responses>>

\* The catch block marks the task FAILED and answers again; either may fail.
FailWork(t) ==
  /\ Moves(t, "failTask", "failMessage")
  /\ \/ SetTask(t, "FAILED")
     \/ MayFail /\ UNCHANGED task
  /\ UNCHANGED responses

AnswerFailure(t) ==
  /\ Moves(t, "failMessage", "ack")
  /\ \/ Answers(t)
     \/ MayFail /\ UNCHANGED responses
  /\ UNCHANGED task

\* (mutant) The entry is not acknowledged and comes back.
AcknowledgeNot(t) == Moves(t, "ack", "queued") /\ UNCHANGED <<task, responses>>

Acknowledge(t) == Moves(t, "ack", "done") /\ UNCHANGED <<task, responses>>

WorkerStep(t) ==
  \/ StartWork(t) \/ Chat(t) \/ StoreAnswer(t) \/ PublishAnswer(t) \/ CloseWork(t)
  \/ WorkerThrows(t) \/ FailWork(t) \/ AnswerFailure(t) \/ Acknowledge(t)

\* The process stops while it handles the entry.
WorkerStops(t) ==
  /\ MayFail
  /\ \E l \in Delivery \ {"done", "elsewhere", "lost"} : Moves(t, l, "lost")
  /\ UNCHANGED <<task, responses>>

-------------------------------------------------------------------------------
(* CollaborationController.respond *)

Handles(h, from, to) ==
  /\ answering[h] = from
  /\ answering' = [answering EXCEPT ![h] = to]
  /\ UNCHANGED <<taVars, run, loop, issuer, posting, delivery>>

\* respondTask asks whether the task awaits work, then reads the agents.
AcceptByHand(h) ==
  /\ AwaitsAgent(RespondsTo[h])
  /\ Handles(h, "none", "message")
  /\ UNCHANGED <<task, responses>>

\* The task may have been answered or moved since it was read.
StoreByHand(h) ==
  /\ Handles(h, "message", "finish")
  /\ Answers(RespondsTo[h])
  /\ UNCHANGED task

FinishByHand(h) ==
  /\ Handles(h, "finish", "done")
  /\ SetTask(RespondsTo[h], "COMPLETED")
  /\ UNCHANGED responses

\* Nothing catches a throw, and the process may stop: the task is left as it is,
\* and an answer that was not stored may be given again.
HandThrows(h) ==
  /\ MayFail
  /\ Handles(h, "message", "none") \/ Handles(h, "finish", "done")
  /\ UNCHANGED <<task, responses>>

HandStep(h) == AcceptByHand(h) \/ StoreByHand(h) \/ FinishByHand(h) \/ HandThrows(h)

DNext ==
  \/ ARNext /\ UNCHANGED <<delivery, answering>>
  \/ \E t \in Delegated : WorkerStep(t) \/ WorkerStops(t)
  \/ \E h \in Respondents : HandStep(h)

DSpec == DInit /\ [][DNext]_dVars

\* The worker's loop never ends and handles what it read.  Nothing is expected
\* of those who answer by hand.
FairDSpec == DSpec /\ Fairness /\ \A t \in Delegated : WF_dVars(WorkerStep(t))

-------------------------------------------------------------------------------
(* Properties *)

\* The fewest and the most answers the worker can have stored where the entry is.
WorkerAtLeast(t) ==
  IF \/ delivery[t] \in {"publish", "close"}
     \/ ~MayFail /\ delivery[t] \in {"ack", "done"}
  THEN 1 ELSE 0

WorkerAtMost(t) ==
  IF delivery[t] \in {"queued", "chat", "message", "elsewhere"} THEN 0
  ELSE IF delivery[t] \in {"publish", "close", "failTask", "failMessage"} \/ ~MayFail THEN 1
  ELSE 2

\* How an answered run ends, if its end is not marked FAILED later.
Ends == {"COMPLETED", "STEP_LIMIT_REACHED", "FAILED"}

EndedRuns(t) == {u \in Runs : TaskOf[u] = t /\ run[u].status \in Ends}

\* The answers to the task that were stored by hand.
StoredByHand(t) == {h \in Respondents : RespondsTo[h] = t /\ answering[h] \in {"finish", "done"}}

\* The answers that were not.
Automatic(t) == responses[t] - Cardinality(StoredByHand(t))

\* Each answer of a delegated task that is neither the worker's nor given by hand
\* is for a run of the task that has ended, one per run, whether dispatchAndRun
\* gives it or the decision that let the run finish, although the worker and the
\* employee move and answer the task behind their backs and whatever throws or
\* stops.
RunAnswersOnce ==
  \A t \in Delegated :
    Automatic(t) \in WorkerAtLeast(t)..(WorkerAtMost(t) + Cardinality(EndedRuns(t)))

\* While nothing fails, work that reached the worker is answered.
QueuedIsAnswered ==
  \A t \in Delegated : delivery[t] = "queued" ~> responses[t] > 0

\* No call, no entry and no answer by hand is in flight.
Quiet ==
  /\ AtRest
  /\ \A t \in Delegated : delivery[t] \in {"done", "elsewhere", "lost"}
  /\ \A h \in Respondents : answering[h] \notin {"message", "finish"}

\* docs/MULTI_AGENT_DEVICE.md: delegated work returns "result -> Agent A",
\* here a delegated run that used a tool and completed.
DelegatedWorkIsAnswered ==
  Quiet => \A u \in Runs \ Finalizes :
    run[u].status = "COMPLETED" /\ run[u].results # << >> => responses[TaskOf[u]] > 0

-------------------------------------------------------------------------------
(* The inductive invariant behind the number of answers *)

\* The run may still be completed by somebody.
Unfinished(u) ==
  \/ run[u].status \in {"none", "WAITING_FOR_HUMAN"}
  \/ \E p \in Callers : Drives(p, u)

\* The caller ended its run and may yet answer for it.
Answering(p, u) ==
  /\ loop[p] # NoLoop
  /\ loop[p].run = u
  /\ \/ loop[p].at \in {"closeTask", "delegated", "respond", "message"}
     \/ loop[p].at = "returned" /\ loop[p].reply \notin {"WAITING_FOR_HUMAN", "threw"}
     \/ loop[p].at \in {"claim", "settle"} /\ loop[p].reply = "COMPLETED"

\* One caller ends a run, once.
EndedOnce(u) ==
  \A p \in Callers : Answering(p, u) =>
    /\ ~Unfinished(u)
    /\ run[u].status \in Ends
    /\ \A q \in Callers : Answering(q, u) => p = q

\* The runs of the task that ended and have been answered for, if they ever are.
Settled(t) ==
  {u \in EndedRuns(t) : ~Unfinished(u) /\ \A p \in Callers : ~Answering(p, u)}

AnswerCount(t) ==
  /\ Automatic(t) \in WorkerAtLeast(t)..(WorkerAtMost(t) + Cardinality(Settled(t)))
  /\ delivery[t] \in {"failTask", "failMessage", "lost"} => MayFail

CountInv ==
  /\ \A u \in Runs : EndedOnce(u)
  /\ \A t \in Delegated : AnswerCount(t)

===============================================================================
