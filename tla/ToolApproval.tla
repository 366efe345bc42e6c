----------------------------- MODULE ToolApproval -----------------------------
(***************************************************************************)
(* Tool executions and the human approvals that gate them: ApprovalService,*)
(* ToolExecutionService and the three HTTP handlers that decide an         *)
(* approval (PATCH /approvals/:id, POST /tools/approve, /tools/reject).    *)
(*                                                                         *)
(* The rows of the tables tool_executions and approvals are functions of   *)
(* the request that creates them: approvals.execution_id is UNIQUE, so an  *)
(* execution and its approval share one identity r.  A request with an     *)
(* execution and no approval is a tool the registry lets run at once; one  *)
(* with an approval and no execution comes from POST /approvals.           *)
(*                                                                         *)
(* Every await of the code ends a step.  The decision handlers run         *)
(* concurrently, each a member of Deciders with a label pc[d] and its      *)
(* arguments job[d]; they are reused, so any number of decisions is made.  *)
(***************************************************************************)
EXTENDS Naturals

CONSTANTS
  Requests,     \* identities of executions and approvals
  Deciders,     \* decision handlers that can be in flight together
  Users,        \* employees of the company
  Admins,       \* those whose role is "admin"
  OwnerOf,      \* the employee who owns the agent of each request
  NoUser,       \* decided_by before a decision
  NoJob,        \* the job of an idle handler
  MayFail       \* whether an await may throw (database, network, crash)

ASSUME UsersAssumption ==
  /\ Admins \subseteq Users
  /\ OwnerOf \in [Requests -> Users]
  /\ NoUser \notin Users

ASSUME MayFailAssumption == MayFail \in BOOLEAN

VARIABLES
  execution,    \* tool_executions.status, "none" when there is no row
  approval,     \* approvals.status, "none" when there is no row
  decidedBy,    \* approvals.decided_by
  asker,        \* progress of the call that issued each request
  ran,          \* history: how often executeTool reached the tool
  pc,           \* where each decision handler is
  job           \* what it was asked: route, ids in the URL, user, verdict

dbVars  == <<execution, approval, decidedBy>>
taVars  == <<execution, approval, decidedBy, asker, ran, pc, job>>

ExecutionStatus == {"none", "RUNNABLE", "WAITING_FOR_HUMAN", "COMPLETED", "REJECTED"}
ApprovalStatus  == {"none", "PENDING", "APPROVED", "REJECTED"}

AskerState == {"absent", "asking", "held", "calling", "called", "returned",
               "threw", "filed"}

Label == {"idle", "get", "check", "policy", "select", "update", "execute",
          "complete", "resume", "settle"}

Route   == {"patch", "tools/approve", "tools/reject"}
Verdict == {"APPROVED", "REJECTED"}

\* "refused" records that the policy turned an approving request around.
Job == [route : Route, exec : Requests, app : Requests, user : Users,
        verdict : Verdict, refused : BOOLEAN]

TypeOK ==
  /\ execution \in [Requests -> ExecutionStatus]
  /\ approval  \in [Requests -> ApprovalStatus]
  /\ decidedBy \in [Requests -> Users \union {NoUser}]
  /\ asker     \in [Requests -> AskerState]
  /\ ran       \in [Requests -> Nat]
  /\ pc        \in [Deciders -> Label]
  /\ job       \in [Deciders -> Job \union {NoJob}]
  /\ \A d \in Deciders : pc[d] # "idle" => job[d] \in Job

Init ==
  /\ execution = [r \in Requests |-> "none"]
  /\ approval  = [r \in Requests |-> "none"]
  /\ decidedBy = [r \in Requests |-> NoUser]
  /\ asker     = [r \in Requests |-> "absent"]
  /\ ran       = [r \in Requests |-> 0]
  /\ pc        = [d \in Deciders |-> "idle"]
  /\ job       = [d \in Deciders |-> NoJob]

-------------------------------------------------------------------------------
(* Creating requests *)

AskerMoves(r, from, to) ==
  /\ asker[r] = from
  /\ asker' = [asker EXCEPT ![r] = to]

\* ToolExecutionService.request: the policy allows the tool and says whether
\* a human must approve it; the row is inserted with the matching status.
\* A refusal by the policy throws before anything is written.
CreateHeld(r) ==
  /\ AskerMoves(r, "absent", "asking")
  /\ execution' = [execution EXCEPT ![r] = "WAITING_FOR_HUMAN"]
  /\ UNCHANGED <<approval, decidedBy, ran, pc, job>>

CreateRunnable(r) ==
  /\ AskerMoves(r, "absent", "calling")
  /\ execution' = [execution EXCEPT ![r] = "RUNNABLE"]
  /\ UNCHANGED <<approval, decidedBy, ran, pc, job>>

\* ApprovalService.request: the approval is inserted PENDING and can be
\* decided from this step on, before the call that asked for it returns.
InsertApproval(r, from, to) ==
  /\ AskerMoves(r, from, to)
  /\ approval' = [approval EXCEPT ![r] = "PENDING"]
  /\ UNCHANGED <<execution, decidedBy, ran, pc, job>>

Ask(r)  == InsertApproval(r, "asking", "held")
File(r) == InsertApproval(r, "absent", "filed")

\* executeTool: the tool takes effect and its answer arrives or is lost, or
\* the call throws before the tool was reached.
Invoke(r) == ran' = [ran EXCEPT ![r] = @ + 1]

CallTool(r) ==
  /\ \/ AskerMoves(r, "calling", "called") /\ Invoke(r)
     \/ MayFail /\ AskerMoves(r, "calling", "threw") /\ Invoke(r)
     \/ MayFail /\ AskerMoves(r, "calling", "threw") /\ UNCHANGED ran
  /\ UNCHANGED <<execution, approval, decidedBy, pc, job>>

\* ToolExecutionRepository.complete: only an open execution is finalised.
Open(r) == execution[r] \in {"RUNNABLE", "WAITING_FOR_HUMAN"}

Finalise(r, status) ==
  execution' = IF Open(r) THEN [execution EXCEPT ![r] = status] ELSE execution

FinishCall(r) ==
  /\ AskerMoves(r, "called", "returned")
  /\ Finalise(r, "COMPLETED")
  /\ UNCHANGED <<approval, decidedBy, ran, pc, job>>

\* The call dies between two of its writes and leaves what it wrote.
AskerThrows(r) ==
  /\ MayFail
  /\ asker[r] \in {"asking", "calling", "called"}
  /\ asker' = [asker EXCEPT ![r] = "threw"]
  /\ UNCHANGED <<execution, approval, decidedBy, ran, pc, job>>

-------------------------------------------------------------------------------
(* Deciding an approval *)

Bare(a) == execution[a] = "none" /\ approval[a] # "none"

\* (mutant) The ids in the URL are not compared.
LinkedLoosely(a, x) == ~Bare(a) /\ execution[x] # "none"

\* approval.executionId = execution id
Linked(a, x) == ~Bare(a) /\ a = x

Goto(d, l) ==
  /\ pc' = [pc EXCEPT ![d] = l]
  /\ UNCHANGED job

\* (mutant) The handler answers but does not return.
LeaveUnreturned(d) == job' = [job EXCEPT ![d] = NoJob] /\ UNCHANGED pc

Leave(d) ==
  /\ pc'  = [pc EXCEPT ![d] = "idle"]
  /\ job' = [job EXCEPT ![d] = NoJob]

Enter(d, route, x, a, u, v, l) ==
  /\ pc[d] = "idle"
  /\ pc'  = [pc EXCEPT ![d] = l]
  /\ job' = [job EXCEPT ![d] =
               [route |-> route, exec |-> x, app |-> a, user |-> u,
                verdict |-> v, refused |-> FALSE]]
  /\ UNCHANGED <<dbVars, asker, ran>>

\* PATCH /approvals/:id reads the approval; a decided one is returned as it
\* is, one without an execution is decided directly.
StartPatch(d) ==
  \E a \in Requests, u \in Users, v \in Verdict :
    /\ approval[a] = "PENDING"
    /\ Enter(d, "patch", a, a, u, v, IF Bare(a) THEN "select" ELSE "get")

\* POST /tools/approve/:executionId/:approvalId and /tools/reject/... take
\* both ids from the URL and require that they belong together.
StartTools(d) ==
  \E x, a \in Requests, u \in Users, v \in Verdict :
    /\ approval[a] # "none"
    /\ Linked(a, x)
    /\ Enter(d, IF v = "APPROVED" THEN "tools/approve" ELSE "tools/reject",
             x, a, u, v, "get")

Read(d, from, test, to) ==
  /\ pc[d] = from
  /\ IF test THEN Goto(d, to) ELSE Leave(d)
  /\ UNCHANGED <<dbVars, asker, ran>>

GetExecution(d) ==
  Read(d, "get", execution[job[d].exec] = "WAITING_FOR_HUMAN", "check")

CheckApproval(d) ==
  Read(d, "check",
       approval[job[d].app] = "PENDING" /\ Linked(job[d].app, job[d].exec),
       IF job[d].verdict = "APPROVED" THEN "policy" ELSE "select")

\* The policy is asked again before an approved tool runs; a refusal, or any
\* error while asking, turns the approval into a rejection.
Revalidate(d) ==
  /\ pc[d] = "policy"
  /\ pc' = [pc EXCEPT ![d] = "select"]
  /\ \E refused \in BOOLEAN : job' = [job EXCEPT ![d].refused = refused]
  /\ UNCHANGED <<dbVars, asker, ran>>

\* ApprovalService.decide, first query: the approval is still pending and the
\* user is an admin or owns the agent.
Authorised(u, a) == u \in Admins \/ u = OwnerOf[a]

SelectPending(d) ==
  Read(d, "select",
       approval[job[d].app] = "PENDING" /\ Authorised(job[d].user, job[d].app),
       "update")

\* (mutant) UPDATE without the condition on the status.
StillPendingUnchecked(a) == approval[a] # "none"

\* ApprovalService.decide, second query: UPDATE ... WHERE status='PENDING'.
\* The handler whose update finds no such row throws.
StillPending(a) == approval[a] = "PENDING"

Approves(d) == job[d].verdict = "APPROVED" /\ ~job[d].refused

\* (mutant) The refusal of the policy is recorded and then forgotten.
AfterDecisionUnheeded(d) ==
  IF Bare(job[d].app) THEN "settle"
  ELSE IF job[d].verdict = "APPROVED" THEN "execute" ELSE "complete"

\* (mutant) A rejection resumes the run before its outcome is stored.
AfterDecisionHasty(d) ==
  IF Bare(job[d].app) THEN "settle"
  ELSE IF Approves(d) THEN "execute" ELSE "resume"

AfterDecision(d) ==
  IF Bare(job[d].app) THEN "settle"
  ELSE IF Approves(d) THEN "execute" ELSE "complete"

Decide(d) ==
  LET a == job[d].app IN
  /\ pc[d] = "update"
  /\ IF StillPending(a)
     THEN /\ approval'  = [approval EXCEPT ![a] = IF Approves(d) THEN "APPROVED" ELSE "REJECTED"]
          /\ decidedBy' = [decidedBy EXCEPT ![a] = job[d].user]
          /\ Goto(d, AfterDecision(d))
     ELSE /\ Leave(d)
          /\ UNCHANGED <<approval, decidedBy>>
  /\ UNCHANGED <<execution, asker, ran>>

\* (mutant) A call whose answer was lost is tried again.
ExecuteRetrying(d) ==
  /\ pc[d] = "execute"
  /\ Invoke(job[d].exec)
  /\ Goto(d, "complete") \/ UNCHANGED <<pc, job>>
  /\ UNCHANGED <<dbVars, asker>>

\* executeTool inside approveAndExecute: if it throws, the approval stays
\* APPROVED and the execution WAITING_FOR_HUMAN.
Execute(d) ==
  /\ pc[d] = "execute"
  /\ \/ Invoke(job[d].exec) /\ Goto(d, "complete")
     \/ MayFail /\ Invoke(job[d].exec) /\ Leave(d)
     \/ MayFail /\ UNCHANGED ran /\ Leave(d)
  /\ UNCHANGED <<dbVars, asker>>

Complete(d) ==
  LET x == job[d].exec IN
  /\ pc[d] = "complete"
  /\ Finalise(x, IF Approves(d) THEN "COMPLETED" ELSE "REJECTED")
  /\ IF Open(x) THEN Goto(d, "resume") ELSE Leave(d)
  /\ UNCHANGED <<approval, decidedBy, asker, ran>>

\* What the handler does after the decision is the business of AgentRun; on
\* its own it answers the request.
Respond(d) ==
  /\ pc[d] \in {"resume", "settle"}
  /\ Leave(d)
  /\ UNCHANGED <<dbVars, asker, ran>>

\* An await throws, the connection is lost or the process stops.
Throw(d) ==
  /\ MayFail
  /\ pc[d] # "idle"
  /\ Leave(d)
  /\ UNCHANGED <<dbVars, asker, ran>>

Issue(r) ==
  \/ CreateHeld(r) \/ CreateRunnable(r) \/ Ask(r) \/ File(r)
  \/ CallTool(r) \/ FinishCall(r) \/ AskerThrows(r)

\* The part of a decision handler up to the stored outcome.
DecideStep(d) ==
  \/ StartPatch(d) \/ StartTools(d) \/ GetExecution(d) \/ CheckApproval(d)
  \/ Revalidate(d) \/ SelectPending(d) \/ Decide(d) \/ Execute(d)
  \/ Complete(d)

Next ==
  \/ \E r \in Requests : Issue(r)
  \/ \E d \in Deciders : DecideStep(d) \/ Respond(d) \/ Throw(d)

Spec == Init /\ [][Next]_taVars

-------------------------------------------------------------------------------
(* Properties *)

\* Sensitive tools run only once approved, by the agent's owner or an admin,
\* and never again: however many handlers race on an approval, a tool with an
\* approval record has run at most once and only under APPROVED.
\* (docs/SECURITY.md section 7; docs/TESTING.md "approval replay")
RunsOnlyApproved ==
  \A r \in Requests :
    /\ ran[r] <= 1
    /\ ran[r] = 1 /\ (approval[r] # "none" \/ execution[r] = "WAITING_FOR_HUMAN") =>
         approval[r] = "APPROVED" /\ Authorised(decidedBy[r], r)

\* The stored outcome agrees with the decision and with what happened: a
\* COMPLETED execution ran, a REJECTED one was rejected and never ran.
OutcomeMatchesDecision ==
  \A r \in Requests :
    /\ execution[r] = "COMPLETED" => ran[r] = 1 /\ approval[r] \in {"none", "APPROVED"}
    /\ execution[r] = "REJECTED"  => ran[r] = 0 /\ approval[r] = "REJECTED"

\* No handler overturns a decision, reassigns it to another person, or reopens
\* or rewrites a finalised execution, however late its write arrives.
DecisionsAreFinal ==
  [][\A r \in Requests :
       /\ approval[r] \in {"APPROVED", "REJECTED"} =>
            approval'[r] = approval[r] /\ decidedBy'[r] = decidedBy[r]
       /\ execution[r] \in {"COMPLETED", "REJECTED"} => execution'[r] = execution[r]]_taVars

\* The interface ApprovalGate promises is what these steps amount to.
GateDecision ==
  [r \in Requests |->
     CASE approval[r] = "PENDING"  -> "open"
       [] approval[r] = "APPROVED" -> "granted"
       [] approval[r] = "REJECTED" -> "denied"
       [] OTHER -> IF execution[r] \in {"RUNNABLE", "COMPLETED"} THEN "waived" ELSE "none"]

GateOutcome ==
  [r \in Requests |->
     CASE execution[r] = "COMPLETED" -> "done"
       [] execution[r] = "REJECTED"  -> "refused"
       [] OTHER -> "none"]

Gate == INSTANCE ApprovalGate WITH
          decision <- GateDecision, performed <- ran, outcome <- GateOutcome

GateSpec == Gate!Spec

-------------------------------------------------------------------------------
(* The inductive invariant behind the safety properties *)

\* How far the call that issued r has come tells which rows it has written.
IssuedRows(r) ==
  /\ asker[r] = "absent" => execution[r] = "none" /\ approval[r] = "none" /\ ran[r] = 0
  /\ asker[r] = "asking" => execution[r] = "WAITING_FOR_HUMAN" /\ approval[r] = "none" /\ ran[r] = 0
  /\ asker[r] = "calling" => execution[r] = "RUNNABLE" /\ approval[r] = "none" /\ ran[r] = 0
  /\ asker[r] = "called" => execution[r] = "RUNNABLE" /\ approval[r] = "none" /\ ran[r] = 1
  /\ asker[r] = "returned" => execution[r] = "COMPLETED" /\ approval[r] = "none" /\ ran[r] = 1
  /\ asker[r] = "threw" =>
       /\ approval[r] = "none"
       /\ \/ execution[r] = "WAITING_FOR_HUMAN" /\ ran[r] = 0
          \/ execution[r] = "RUNNABLE" /\ ran[r] \in {0, 1}
  /\ asker[r] = "filed" => execution[r] = "none" /\ approval[r] # "none" /\ ran[r] = 0
  /\ asker[r] = "held" => execution[r] \notin {"none", "RUNNABLE"} /\ approval[r] # "none"

\* Once an approval guards an execution, the decision says what may have
\* happened to it.
DecidedRows(r) ==
  asker[r] = "held" =>
    /\ approval[r] = "PENDING" => execution[r] = "WAITING_FOR_HUMAN" /\ ran[r] = 0
    /\ approval[r] = "REJECTED" => execution[r] \in {"WAITING_FOR_HUMAN", "REJECTED"} /\ ran[r] = 0
    /\ approval[r] = "APPROVED" =>
         /\ Authorised(decidedBy[r], r)
         /\ \/ execution[r] = "WAITING_FOR_HUMAN" /\ ran[r] \in {0, 1}
            \/ execution[r] = "COMPLETED" /\ ran[r] = 1

\* What each handler has established by the time it reaches a label.
JobInv(d) ==
  pc[d] # "idle" =>
    LET a == job[d].app IN
    /\ job[d].exec = a
    /\ asker[a] \in {"held", "filed"}
    /\ pc[d] \in {"get", "check", "policy", "execute", "complete", "resume"} => asker[a] = "held"
    /\ pc[d] \in {"update", "settle", "execute", "complete", "resume"} => Authorised(job[d].user, a)
    /\ pc[d] = "execute" =>
         Approves(d) /\ approval[a] = "APPROVED" /\ execution[a] = "WAITING_FOR_HUMAN" /\ ran[a] = 0
    /\ pc[d] = "complete" =>
         /\ execution[a] = "WAITING_FOR_HUMAN"
         /\ IF Approves(d) THEN approval[a] = "APPROVED" /\ ran[a] = 1
                           ELSE approval[a] = "REJECTED" /\ ran[a] = 0

\* The conditional UPDATE hands each approval to one handler.
Deciding(d) == pc[d] \in {"execute", "complete"}

OneWinner ==
  \A d, e \in Deciders :
    Deciding(d) /\ Deciding(e) /\ job[d].app = job[e].app => d = e

IInv ==
  /\ TypeOK
  /\ \A r \in Requests : IssuedRows(r) /\ DecidedRows(r)
  /\ \A d \in Deciders : JobInv(d)
  /\ OneWinner

===============================================================================
