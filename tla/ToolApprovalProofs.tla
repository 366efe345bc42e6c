-------------------------- MODULE ToolApprovalProofs --------------------------
(***************************************************************************)
(* Proofs about ToolApproval, for every number of requests, employees and  *)
(* concurrent decision handlers.                                           *)
(***************************************************************************)
EXTENDS ToolApproval, TLAPS

LEMMA TypeInit == Init => TypeOK
  BY UsersAssumption DEF Init, TypeOK, ExecutionStatus, ApprovalStatus,
     AskerState, Label

USE DEF ExecutionStatus, ApprovalStatus, AskerState, Label, Route, Verdict, Job

\* Leaving and going to a label keep the types of pc and job.
LEMMA TypeGoto ==
  ASSUME TypeOK, NEW d \in Deciders, NEW l \in Label, pc[d] # "idle",
         Goto(d, l) \/ Leave(d)
  PROVE  /\ pc' \in [Deciders -> Label]
         /\ job' \in [Deciders -> Job \union {NoJob}]
         /\ \A e \in Deciders : pc'[e] # "idle" => job'[e] \in Job
  BY DEF TypeOK, Goto, Leave

LEMMA TypeStep == TypeOK /\ [Next]_taVars => TypeOK'
<1> SUFFICES ASSUME TypeOK, [Next]_taVars PROVE TypeOK'
  OBVIOUS
<1> USE DEF TypeOK
<1>1. ASSUME NEW r \in Requests, Issue(r) PROVE TypeOK'
  <2> USE DEF AskerMoves
  <2>1. CASE CreateHeld(r) BY <2>1 DEF CreateHeld
  <2>2. CASE CreateRunnable(r) BY <2>2 DEF CreateRunnable
  <2>3. CASE Ask(r) BY <2>3 DEF Ask, InsertApproval
  <2>4. CASE File(r) BY <2>4 DEF File, InsertApproval
  <2>5. CASE CallTool(r) BY <2>5 DEF CallTool, Invoke
  <2>6. CASE FinishCall(r) BY <2>6 DEF FinishCall, Finalise
  <2>7. CASE AskerThrows(r) BY <2>7 DEF AskerThrows
  <2> QED BY <1>1, <2>1, <2>2, <2>3, <2>4, <2>5, <2>6, <2>7 DEF Issue
<1>2. ASSUME NEW d \in Deciders, DecideStep(d) PROVE TypeOK'
  <2>1. CASE StartPatch(d) BY <2>1 DEF StartPatch, Enter, dbVars
  <2>2. CASE StartTools(d) BY <2>2 DEF StartTools, Enter, dbVars
  <2>3. CASE GetExecution(d)
    BY <2>3, TypeGoto DEF GetExecution, Read, dbVars
  <2>4. CASE CheckApproval(d)
    BY <2>4, TypeGoto DEF CheckApproval, Read, dbVars
  <2>5. CASE Revalidate(d) BY <2>5 DEF Revalidate, dbVars
  <2>6. CASE SelectPending(d)
    BY <2>6, TypeGoto DEF SelectPending, Read, dbVars
  <2>7. CASE Decide(d)
    <3>1. AfterDecision(d) \in Label BY DEF AfterDecision
    <3>2. job[d] \in Job BY <2>7 DEF Decide
    <3> QED BY <2>7, <3>1, <3>2, TypeGoto DEF Decide
  <2>8. CASE Execute(d)
    BY <2>8, TypeGoto DEF Execute, Invoke, dbVars
  <2>9. CASE Complete(d)
    BY <2>9, TypeGoto DEF Complete, Finalise
  <2> QED BY <1>2, <2>1, <2>2, <2>3, <2>4, <2>5, <2>6, <2>7, <2>8, <2>9 DEF DecideStep
<1>3. ASSUME NEW d \in Deciders, Respond(d) \/ Throw(d) PROVE TypeOK'
  BY <1>3 DEF Respond, Throw, Leave, dbVars
<1>4. CASE UNCHANGED taVars BY <1>4 DEF taVars
<1> QED BY <1>1, <1>2, <1>3, <1>4 DEF Next

\* Every variable keeps its type: the state written by handlers that race on
\* the same rows is always one of the statuses schema.sql names.
THEOREM TypeCorrect == Spec => []TypeOK
  BY TypeInit, TypeStep, PTL DEF Spec

-------------------------------------------------------------------------------
(* The inductive invariant *)

Rows == \A r \in Requests : IssuedRows(r) /\ DecidedRows(r)

LEMMA InductiveInit == Init => IInv
<1> SUFFICES ASSUME Init PROVE IInv
  OBVIOUS
<1>1. TypeOK BY TypeInit
<1>2. ASSUME NEW r \in Requests PROVE IssuedRows(r) /\ DecidedRows(r)
  BY DEF Init, IssuedRows, DecidedRows
<1>3. ASSUME NEW d \in Deciders PROVE JobInv(d)
  BY DEF Init, JobInv
<1>4. OneWinner BY DEF Init, OneWinner, Deciding
<1> QED BY <1>1, <1>2, <1>3, <1>4 DEF IInv

\* A handler that does not move, and whose rows nobody writes, still knows
\* what it knew.
LEMMA JobKept ==
  ASSUME IInv, NEW e \in Deciders,
         pc'[e] = pc[e], job'[e] = job[e],
         pc[e] # "idle" =>
           LET a == job[e].app IN
             /\ execution'[a] = execution[a]
             /\ approval'[a] = approval[a]
             /\ asker'[a] = asker[a]
             /\ ran'[a] = ran[a]
  PROVE  JobInv(e)'
  BY DEF IInv, JobInv, Approves, Authorised

\* The call that issues a request writes no row a handler is deciding.
LEMMA IssueInv ==
  ASSUME IInv, NEW r \in Requests, Issue(r)
  PROVE  /\ Rows'
         /\ \A e \in Deciders : JobInv(e)'
         /\ OneWinner'
<1> DEFINE Writes == /\ \A q \in Requests \ {r} :
                          /\ execution'[q] = execution[q]
                          /\ approval'[q] = approval[q]
                          /\ asker'[q] = asker[q]
                          /\ ran'[q] = ran[q]
                     /\ asker[r] \notin {"held", "filed"}
                     /\ UNCHANGED <<decidedBy, pc, job>>
<1> USE DEF AskerMoves
<1>0. TypeOK BY DEF IInv
<1>1. Writes
  <2>1. CASE CreateHeld(r) BY <1>0, <2>1 DEF CreateHeld, TypeOK
  <2>2. CASE CreateRunnable(r) BY <1>0, <2>2 DEF CreateRunnable, TypeOK
  <2>3. CASE Ask(r) BY <1>0, <2>3 DEF Ask, InsertApproval, TypeOK
  <2>4. CASE File(r) BY <1>0, <2>4 DEF File, InsertApproval, TypeOK
  <2>5. CASE CallTool(r) BY <1>0, <2>5 DEF CallTool, Invoke, TypeOK
  <2>6. CASE FinishCall(r) BY <1>0, <2>6 DEF FinishCall, Finalise, TypeOK
  <2>7. CASE AskerThrows(r) BY <1>0, <2>7 DEF AskerThrows, TypeOK
  <2> QED BY <2>1, <2>2, <2>3, <2>4, <2>5, <2>6, <2>7 DEF Issue
<1>2. IssuedRows(r)' /\ DecidedRows(r)'
  <2> USE DEF IssuedRows, DecidedRows
  <2>0. IssuedRows(r) BY DEF IInv
  <2>1. CASE CreateHeld(r) BY <1>0, <2>0, <2>1 DEF CreateHeld, TypeOK
  <2>2. CASE CreateRunnable(r) BY <1>0, <2>0, <2>2 DEF CreateRunnable, TypeOK
  <2>3. CASE Ask(r) BY <1>0, <2>0, <2>3 DEF Ask, InsertApproval, TypeOK
  <2>4. CASE File(r) BY <1>0, <2>0, <2>4 DEF File, InsertApproval, TypeOK
  <2>5. CASE CallTool(r) BY <1>0, <2>0, <2>5 DEF CallTool, Invoke, TypeOK
  <2>6. CASE FinishCall(r) BY <1>0, <2>0, <2>6 DEF FinishCall, Finalise, Open, TypeOK
  <2>7. CASE AskerThrows(r) BY <1>0, <2>0, <2>7 DEF AskerThrows, TypeOK
  <2> QED BY <2>1, <2>2, <2>3, <2>4, <2>5, <2>6, <2>7 DEF Issue
<1>3. Rows'
  <2> SUFFICES ASSUME NEW q \in Requests, q # r
               PROVE  IssuedRows(q)' /\ DecidedRows(q)'
    BY <1>2 DEF Rows
  <2> QED BY <1>1 DEF IInv, IssuedRows, DecidedRows, Authorised
<1>4. ASSUME NEW e \in Deciders PROVE JobInv(e)'
  <2>1. pc[e] # "idle" => job[e].app \in Requests \ {r}
    BY <1>1 DEF IInv, TypeOK, JobInv
  <2> QED BY <1>1, <2>1, JobKept
<1>5. OneWinner' BY <1>1 DEF IInv, OneWinner, Deciding
<1> QED BY <1>3, <1>4, <1>5

\* A handler that only reads, or leaves, keeps the invariant if it knows at its
\* new label what JobInv asks of it there.
LEMMA ReadInv ==
  ASSUME IInv, NEW d \in Deciders, UNCHANGED <<dbVars, asker, ran>>,
         TypeOK', JobInv(d)', ~Deciding(d)',
         \A e \in Deciders \ {d} : pc'[e] = pc[e] /\ job'[e] = job[e]
  PROVE  IInv'
<1>1. \A r \in Requests : IssuedRows(r)' /\ DecidedRows(r)'
  BY DEF IInv, IssuedRows, DecidedRows, Authorised, dbVars
<1>2. ASSUME NEW e \in Deciders PROVE JobInv(e)'
  BY JobKept DEF dbVars
<1>3. OneWinner' BY DEF IInv, OneWinner, Deciding
<1> QED BY <1>1, <1>2, <1>3 DEF IInv

\* A handler that leaves without a write.
LEMMA LeaveInv ==
  ASSUME IInv, NEW d \in Deciders, Leave(d), TypeOK',
         UNCHANGED <<dbVars, asker, ran>>
  PROVE  IInv'
<1>1. TypeOK BY DEF IInv
<1>2. pc'[d] = "idle" /\ \A e \in Deciders \ {d} : pc'[e] = pc[e] /\ job'[e] = job[e]
  BY <1>1 DEF Leave, TypeOK
<1> QED BY <1>2, ReadInv DEF JobInv, Deciding

\* Of handlers that have an approval to decide, only one moves to a label
\* where it acts upon the decision.
LEMMA WinnerKept ==
  ASSUME IInv, NEW d \in Deciders,
         \A e \in Deciders \ {d} : pc'[e] = pc[e] /\ job'[e] = job[e],
         Deciding(d)' =>
           \A e \in Deciders \ {d} : Deciding(e) => job[e].app # job'[d].app
  PROVE  OneWinner'
  BY DEF IInv, OneWinner, Deciding

LEMMA StartInv ==
  ASSUME IInv, NEW d \in Deciders, StartPatch(d) \/ StartTools(d), TypeOK'
  PROVE  IInv'
<1>1. TypeOK /\ \A r \in Requests : IssuedRows(r) BY DEF IInv
<1>2. UNCHANGED <<dbVars, asker, ran>> BY DEF StartPatch, StartTools, Enter
<1>3. \A e \in Deciders \ {d} : pc'[e] = pc[e] /\ job'[e] = job[e]
  BY <1>1 DEF StartPatch, StartTools, Enter, TypeOK
<1>4. pc'[d] \in {"get", "select"}
  BY <1>1 DEF StartPatch, StartTools, Enter, TypeOK
<1>5. JobInv(d)'
  <2>1. CASE StartPatch(d)
    <3>1. PICK a \in Requests, u \in Users, v \in Verdict :
            /\ approval[a] = "PENDING"
            /\ Enter(d, "patch", a, a, u, v, IF Bare(a) THEN "select" ELSE "get")
      BY <2>1 DEF StartPatch
    <3>2. job'[d].exec = a /\ job'[d].app = a
      BY <1>1, <3>1 DEF Enter, TypeOK
    <3>3. pc'[d] = IF Bare(a) THEN "select" ELSE "get"
      BY <1>1, <3>1 DEF Enter, TypeOK
    <3>4. asker[a] \in {"held", "filed"} /\ (~Bare(a) => asker[a] = "held")
      BY <1>1, <3>1 DEF IssuedRows, Bare, TypeOK
    <3> QED BY <1>2, <3>2, <3>3, <3>4 DEF JobInv, dbVars
  <2>2. CASE StartTools(d)
    <3>1. PICK x, a \in Requests, u \in Users, v \in Verdict :
            /\ approval[a] # "none"
            /\ Linked(a, x)
            /\ Enter(d, IF v = "APPROVED" THEN "tools/approve" ELSE "tools/reject",
                     x, a, u, v, "get")
      BY <2>2 DEF StartTools
    <3>2. job'[d].exec = a /\ job'[d].app = a /\ pc'[d] = "get"
      BY <1>1, <3>1 DEF Enter, Linked, TypeOK
    <3>3. asker[a] = "held"
      BY <1>1, <3>1 DEF IssuedRows, Linked, Bare, TypeOK
    <3> QED BY <1>2, <3>2, <3>3 DEF JobInv, dbVars
  <2> QED BY <2>1, <2>2
<1> QED BY <1>2, <1>3, <1>4, <1>5, ReadInv DEF Deciding

\* The reads between the URL and the UPDATE.
LEMMA CheckInv ==
  ASSUME IInv, NEW d \in Deciders, TypeOK',
         GetExecution(d) \/ CheckApproval(d) \/ Revalidate(d) \/ SelectPending(d)
  PROVE  IInv'
<1>1. TypeOK /\ JobInv(d) BY DEF IInv
<1>2. UNCHANGED <<dbVars, asker, ran>>
  BY DEF GetExecution, CheckApproval, Revalidate, SelectPending, Read
<1>3. CASE Leave(d) BY <1>2, <1>3, LeaveInv
<1>4. CASE ~Leave(d)
  <2>1. \A e \in Deciders \ {d} : pc'[e] = pc[e] /\ job'[e] = job[e]
    BY <1>1, <1>4 DEF GetExecution, CheckApproval, Revalidate, SelectPending,
       Read, Goto, TypeOK
  <2>2. /\ job'[d].exec = job[d].exec /\ job'[d].app = job[d].app
        /\ job'[d].user = job[d].user
    <3>1. CASE Revalidate(d)
      <4>1. pc[d] # "idle" BY <3>1 DEF Revalidate
      <4>2. PICK refused \in BOOLEAN : job' = [job EXCEPT ![d].refused = refused]
        BY <3>1 DEF Revalidate
      <4>3. job'[d] = [job[d] EXCEPT !.refused = refused]
        BY <1>1, <4>2 DEF TypeOK
      <4> QED BY <1>1, <4>1, <4>3 DEF TypeOK
    <3>2. CASE ~Revalidate(d)
      BY <1>1, <1>4, <3>2 DEF GetExecution, CheckApproval, SelectPending, Read, Goto, TypeOK
    <3> QED BY <3>1, <3>2
  <2>3. /\ pc[d] # "idle"
        /\ pc'[d] \in {"check", "policy", "select", "update"}
        /\ pc'[d] \in {"check", "policy"} => pc[d] \in {"get", "check", "policy"}
        /\ pc'[d] = "update" => Authorised(job[d].user, job[d].app)
    BY <1>1, <1>4 DEF GetExecution, CheckApproval, Revalidate, SelectPending,
       Read, Goto, TypeOK
  <2>4. JobInv(d)'
    BY <1>1, <1>2, <2>2, <2>3 DEF JobInv, Authorised, dbVars
  <2> QED BY <1>2, <2>1, <2>3, <2>4, ReadInv DEF Deciding
<1> QED BY <1>3, <1>4

LEMMA DecideInv ==
  ASSUME IInv, NEW d \in Deciders, Decide(d), TypeOK'
  PROVE  IInv'
<1> DEFINE a == job[d].app
<1>1. /\ TypeOK /\ JobInv(d) /\ pc[d] = "update"
      /\ a \in Requests /\ Authorised(job[d].user, a)
  BY DEF IInv, Decide, JobInv, TypeOK
<1>2. CASE ~StillPending(a)
  <2>1. Leave(d) /\ UNCHANGED <<dbVars, asker, ran>>
    BY <1>2 DEF Decide, dbVars
  <2> QED BY <2>1, LeaveInv
<1>3. CASE StillPending(a)
  <2>1. /\ approval' = [approval EXCEPT ![a] = IF Approves(d) THEN "APPROVED" ELSE "REJECTED"]
        /\ decidedBy' = [decidedBy EXCEPT ![a] = job[d].user]
        /\ pc' = [pc EXCEPT ![d] = AfterDecision(d)]
        /\ UNCHANGED <<execution, asker, ran, job>>
    BY <1>3 DEF Decide, Goto
  <2>2. /\ IssuedRows(a) /\ DecidedRows(a) /\ approval[a] = "PENDING"
        /\ asker[a] \in {"held", "filed"}
    BY <1>1, <1>3 DEF IInv, JobInv, StillPending
  <2>3. ASSUME NEW r \in Requests PROVE IssuedRows(r)' /\ DecidedRows(r)'
    <3>1. CASE r = a
      BY <1>1, <2>1, <2>2, <3>1 DEF IssuedRows, DecidedRows, Authorised, TypeOK
    <3>2. CASE r # a
      BY <1>1, <2>1, <3>2 DEF IInv, IssuedRows, DecidedRows, Authorised, TypeOK
    <3> QED BY <3>1, <3>2
  <2>4. ASSUME NEW e \in Deciders, Deciding(e), job[e].app = a PROVE FALSE
    \* The other handler would have found the approval pending no longer.
    BY <2>2, <2>4 DEF IInv, JobInv, Deciding
  <2>5. \A e \in Deciders \ {d} : pc'[e] = pc[e] /\ job'[e] = job[e]
    BY <1>1, <2>1 DEF TypeOK
  <2>6. JobInv(d)'
    <3>1. CASE Bare(a)
      <4>1. asker[a] = "filed" BY <2>2, <3>1 DEF Bare, IssuedRows
      <4>2. pc'[d] = "settle"
        BY <1>1, <2>1, <3>1 DEF AfterDecision, TypeOK
      <4> QED BY <1>1, <2>1, <4>1, <4>2 DEF JobInv, Authorised
    <3>2. CASE ~Bare(a)
      <4>1. asker[a] = "held" BY <2>2, <3>2 DEF Bare, IssuedRows
      <4>2. pc'[d] = IF Approves(d) THEN "execute" ELSE "complete"
        BY <1>1, <2>1, <3>2 DEF AfterDecision, TypeOK
      <4>3. approval'[a] = IF Approves(d) THEN "APPROVED" ELSE "REJECTED"
        BY <1>1, <2>1 DEF TypeOK
      <4>4. execution[a] = "WAITING_FOR_HUMAN" /\ ran[a] = 0
        BY <2>2, <4>1 DEF DecidedRows
      <4> QED BY <1>1, <2>1, <4>1, <4>2, <4>3, <4>4 DEF JobInv, Authorised, Approves
    <3> QED BY <3>1, <3>2
  <2>7. ASSUME NEW e \in Deciders PROVE JobInv(e)'
    <3>1. CASE e = d BY <2>6, <3>1
    <3>2. CASE e # d /\ pc[e] # "idle" /\ job[e].app = a
      BY <1>1, <2>1, <2>4, <2>5, <3>2 DEF IInv, JobInv, Deciding, Authorised, Approves
    <3>3. CASE e # d /\ (pc[e] = "idle" \/ job[e].app # a)
      BY <1>1, <2>1, <2>5, <3>3, JobKept DEF TypeOK
    <3> QED BY <3>1, <3>2, <3>3
  <2>8. OneWinner' BY <2>1, <2>4, <2>5, WinnerKept
  <2> QED BY <2>3, <2>7, <2>8 DEF IInv
<1> QED BY <1>2, <1>3

LEMMA ExecuteInv ==
  ASSUME IInv, NEW d \in Deciders, Execute(d), TypeOK'
  PROVE  IInv'
<1> DEFINE a == job[d].app
<1>1. /\ TypeOK /\ JobInv(d) /\ pc[d] = "execute" /\ a \in Requests
      /\ job[d].exec = a /\ asker[a] = "held" /\ Approves(d)
      /\ approval[a] = "APPROVED" /\ execution[a] = "WAITING_FOR_HUMAN" /\ ran[a] = 0
      /\ IssuedRows(a) /\ DecidedRows(a) /\ Deciding(d)
  BY DEF IInv, Execute, JobInv, TypeOK, Deciding
<1>2. /\ UNCHANGED <<execution, approval, decidedBy, asker>>
      /\ ran' = ran \/ ran' = [ran EXCEPT ![a] = @ + 1]
      /\ \/ pc' = [pc EXCEPT ![d] = "complete"] /\ job' = job /\ ran' # ran
         \/ Leave(d)
  BY <1>1 DEF Execute, Goto, Invoke, dbVars, TypeOK
<1>3. ran'[a] \in {0, 1} /\ (pc'[d] = "complete" => ran'[a] = 1)
  BY <1>1, <1>2 DEF Leave, TypeOK
<1>4. \A q \in Requests \ {a} : ran'[q] = ran[q]
  BY <1>1, <1>2 DEF TypeOK
<1>5. ASSUME NEW r \in Requests PROVE IssuedRows(r)' /\ DecidedRows(r)'
  <2>1. CASE r = a
    BY <1>1, <1>2, <1>3, <2>1 DEF IssuedRows, DecidedRows, Authorised
  <2>2. CASE r # a
    BY <1>2, <1>4, <2>2 DEF IInv, IssuedRows, DecidedRows, Authorised
  <2> QED BY <2>1, <2>2
<1>6. \A e \in Deciders \ {d} : pc'[e] = pc[e] /\ job'[e] = job[e]
  BY <1>1, <1>2 DEF Leave, TypeOK
<1>7. ASSUME NEW e \in Deciders \ {d}, Deciding(e) PROVE job[e].app # a
  BY <1>1, <1>7 DEF IInv, OneWinner
<1>8. ASSUME NEW e \in Deciders PROVE JobInv(e)'
  <2>1. CASE e = d /\ pc'[d] = "complete"
    <3>1. job'[d] = job[d] BY <1>1, <1>2, <2>1 DEF Leave, TypeOK
    <3> QED BY <1>1, <1>2, <1>3, <2>1, <3>1 DEF JobInv, Authorised, Approves
  <2>2. CASE e = d /\ pc'[d] # "complete"
    BY <1>1, <1>2, <2>2 DEF Leave, JobInv, TypeOK
  <2>3. CASE e # d /\ pc[e] # "idle" /\ job[e].app = a
    BY <1>1, <1>2, <1>6, <1>7, <2>3 DEF IInv, JobInv, Deciding, Authorised, Approves
  <2>4. CASE e # d /\ (pc[e] = "idle" \/ job[e].app # a)
    BY <1>2, <1>4, <1>6, <2>4, JobKept DEF IInv, TypeOK
  <2> QED BY <2>1, <2>2, <2>3, <2>4
<1>9. OneWinner'
  <2>1. Deciding(d)' => job'[d].app = a
    BY <1>1, <1>2 DEF Deciding, Leave, TypeOK
  <2> QED BY <1>6, <1>7, <2>1, WinnerKept
<1> QED BY <1>5, <1>8, <1>9 DEF IInv

LEMMA CompleteInv ==
  ASSUME IInv, NEW d \in Deciders, Complete(d), TypeOK'
  PROVE  IInv'
<1> DEFINE a == job[d].app
<1>1. /\ TypeOK /\ JobInv(d) /\ pc[d] = "complete" /\ a \in Requests
      /\ job[d].exec = a /\ asker[a] = "held" /\ Authorised(job[d].user, a)
      /\ execution[a] = "WAITING_FOR_HUMAN" /\ Open(a)
      /\ IF Approves(d) THEN approval[a] = "APPROVED" /\ ran[a] = 1
                        ELSE approval[a] = "REJECTED" /\ ran[a] = 0
      /\ IssuedRows(a) /\ DecidedRows(a) /\ Deciding(d)
  BY DEF IInv, Complete, JobInv, TypeOK, Open, Deciding
<1>2. /\ execution' = [execution EXCEPT ![a] = IF Approves(d) THEN "COMPLETED" ELSE "REJECTED"]
      /\ pc' = [pc EXCEPT ![d] = "resume"]
      /\ UNCHANGED <<approval, decidedBy, asker, ran, job>>
  BY <1>1 DEF Complete, Finalise, Goto
<1>3. execution'[a] = IF Approves(d) THEN "COMPLETED" ELSE "REJECTED"
  BY <1>1, <1>2 DEF TypeOK
<1>4. \A q \in Requests \ {a} : execution'[q] = execution[q]
  BY <1>1, <1>2 DEF TypeOK
<1>5. ASSUME NEW r \in Requests PROVE IssuedRows(r)' /\ DecidedRows(r)'
  <2>1. CASE r = a
    BY <1>1, <1>2, <1>3, <2>1 DEF IssuedRows, DecidedRows, Authorised
  <2>2. CASE r # a
    BY <1>2, <1>4, <2>2 DEF IInv, IssuedRows, DecidedRows, Authorised
  <2> QED BY <2>1, <2>2
<1>6. /\ \A e \in Deciders \ {d} : pc'[e] = pc[e] /\ job'[e] = job[e]
      /\ pc'[d] = "resume"
  BY <1>1, <1>2 DEF TypeOK
<1>7. ASSUME NEW e \in Deciders \ {d}, Deciding(e) PROVE job[e].app # a
  BY <1>1, <1>7 DEF IInv, OneWinner
<1>8. ASSUME NEW e \in Deciders PROVE JobInv(e)'
  <2>1. CASE e = d
    BY <1>1, <1>2, <1>6, <2>1 DEF JobInv, Authorised
  <2>2. CASE e # d /\ pc[e] # "idle" /\ job[e].app = a
    BY <1>1, <1>2, <1>6, <1>7, <2>2 DEF IInv, JobInv, Deciding, Authorised
  <2>3. CASE e # d /\ (pc[e] = "idle" \/ job[e].app # a)
    BY <1>2, <1>4, <1>6, <2>3, JobKept DEF IInv, TypeOK
  <2> QED BY <2>1, <2>2, <2>3
<1>9. OneWinner' BY <1>6, WinnerKept DEF Deciding
<1> QED BY <1>5, <1>8, <1>9 DEF IInv

LEMMA InductiveStep == IInv /\ [Next]_taVars => IInv'
<1> SUFFICES ASSUME IInv, [Next]_taVars PROVE IInv'
  OBVIOUS
<1>0. TypeOK' BY TypeStep DEF IInv
<1>1. ASSUME NEW r \in Requests, Issue(r) PROVE IInv'
  BY <1>0, <1>1, IssueInv DEF IInv, Rows
<1>2. ASSUME NEW d \in Deciders, DecideStep(d) PROVE IInv'
  BY <1>0, <1>2, StartInv, CheckInv, DecideInv, ExecuteInv, CompleteInv DEF DecideStep
<1>3. ASSUME NEW d \in Deciders, Respond(d) \/ Throw(d) PROVE IInv'
  BY <1>0, <1>3, LeaveInv DEF Respond, Throw
<1>4. CASE UNCHANGED taVars
  BY <1>0, <1>4 DEF IInv, IssuedRows, DecidedRows, JobInv, OneWinner, Deciding,
     Approves, Authorised, taVars
<1> QED BY <1>1, <1>2, <1>3, <1>4 DEF Next

\* What has been written about a request, and what each handler knows of it,
\* fit together in every reachable state.
THEOREM Inductive == Spec => []IInv
  BY InductiveInit, InductiveStep, PTL DEF Spec

-------------------------------------------------------------------------------
(* Safety *)

\* A guarded tool runs at most once and only under an approval given by the
\* agent's owner or an admin, however many decisions are in flight.
THEOREM OnlyApprovedRun == Spec => []RunsOnlyApproved
<1>1. ASSUME IInv PROVE RunsOnlyApproved
  <2> SUFFICES ASSUME NEW r \in Requests
               PROVE  /\ ran[r] <= 1
                      /\ ran[r] = 1 /\ (approval[r] # "none" \/ execution[r] = "WAITING_FOR_HUMAN") =>
                           approval[r] = "APPROVED" /\ Authorised(decidedBy[r], r)
    BY DEF RunsOnlyApproved
  <2>1. TypeOK /\ IssuedRows(r) /\ DecidedRows(r) BY <1>1 DEF IInv
  <2>2. CASE asker[r] = "held" BY <2>1, <2>2 DEF IssuedRows, DecidedRows, TypeOK
  <2>3. CASE asker[r] # "held" BY <2>1, <2>3 DEF IssuedRows, TypeOK
  <2> QED BY <2>2, <2>3
<1> QED BY Inductive, <1>1, PTL

\* COMPLETED is stored only of a tool that ran, REJECTED only of one that was
\* rejected and never ran.
THEOREM OutcomesMatch == Spec => []OutcomeMatchesDecision
<1>1. ASSUME IInv PROVE OutcomeMatchesDecision
  <2> SUFFICES ASSUME NEW r \in Requests
               PROVE  /\ execution[r] = "COMPLETED" => ran[r] = 1 /\ approval[r] \in {"none", "APPROVED"}
                      /\ execution[r] = "REJECTED"  => ran[r] = 0 /\ approval[r] = "REJECTED"
    BY DEF OutcomeMatchesDecision
  <2>1. TypeOK /\ IssuedRows(r) /\ DecidedRows(r) BY <1>1 DEF IInv
  <2>2. CASE asker[r] = "held" BY <2>1, <2>2 DEF IssuedRows, DecidedRows, TypeOK
  <2>3. CASE asker[r] # "held" BY <2>1, <2>3 DEF IssuedRows, TypeOK
  <2> QED BY <2>2, <2>3
<1> QED BY Inductive, <1>1, PTL

Kept ==
  \A r \in Requests :
    /\ approval[r] \in {"APPROVED", "REJECTED"} =>
         approval'[r] = approval[r] /\ decidedBy'[r] = decidedBy[r]
    /\ execution[r] \in {"COMPLETED", "REJECTED"} => execution'[r] = execution[r]

LEMMA KeptStep == IInv /\ [Next]_taVars => Kept
<1> SUFFICES ASSUME IInv, [Next]_taVars PROVE Kept
  OBVIOUS
<1>0. TypeOK /\ \A r \in Requests : IssuedRows(r) BY DEF IInv
<1>1. ASSUME NEW r \in Requests, Issue(r) PROVE Kept
  <2> USE <1>0 DEF AskerMoves, Kept, TypeOK
  <2>1. CASE CreateHeld(r) BY <2>1 DEF CreateHeld, IssuedRows
  <2>2. CASE CreateRunnable(r) BY <2>2 DEF CreateRunnable, IssuedRows
  <2>3. CASE Ask(r) BY <2>3 DEF Ask, InsertApproval, IssuedRows
  <2>4. CASE File(r) BY <2>4 DEF File, InsertApproval, IssuedRows
  <2>5. CASE CallTool(r) BY <2>5 DEF CallTool
  <2>6. CASE FinishCall(r) BY <2>6 DEF FinishCall, Finalise, Open
  <2>7. CASE AskerThrows(r) BY <2>7 DEF AskerThrows
  <2> QED BY <1>1, <2>1, <2>2, <2>3, <2>4, <2>5, <2>6, <2>7 DEF Issue
<1>2. ASSUME NEW d \in Deciders, DecideStep(d) PROVE Kept
  <2> USE <1>0 DEF Kept
  <2>1. CASE Decide(d) BY <2>1 DEF Decide, StillPending, Goto, Leave, TypeOK
  <2>2. CASE Complete(d) BY <2>2 DEF Complete, Finalise, Open, TypeOK
  <2>3. CASE ~Decide(d) /\ ~Complete(d)
    BY <1>2, <2>3 DEF DecideStep, StartPatch, StartTools, Enter, GetExecution,
       CheckApproval, Revalidate, SelectPending, Read, Execute, dbVars
  <2> QED BY <2>1, <2>2, <2>3
<1>3. ASSUME NEW d \in Deciders, Respond(d) \/ Throw(d) PROVE Kept
  BY <1>3 DEF Respond, Throw, Kept, dbVars
<1>4. CASE UNCHANGED taVars BY <1>4 DEF taVars, Kept
<1> QED BY <1>1, <1>2, <1>3, <1>4 DEF Next

\* No late or concurrent write overturns a decision or a stored outcome.
THEOREM Finality == Spec => DecisionsAreFinal
<1>1. IInv /\ [Next]_taVars => [Kept]_taVars BY KeptStep
<1>2. Spec => [][Kept]_taVars BY Inductive, <1>1, PTL DEF Spec
<1> QED BY <1>2 DEF DecisionsAreFinal, Kept

-------------------------------------------------------------------------------
(* Refinement of ApprovalGate *)

LEMMA GateInit == Init => Gate!Init
  BY DEF Init, Gate!Init, GateDecision, GateOutcome

\* Rows nobody writes look the same through the gate.
LEMMA GateSame ==
  ASSUME UNCHANGED <<execution, approval>>
  PROVE  UNCHANGED <<GateDecision, GateOutcome>>
  BY DEF GateDecision, GateOutcome

LEMMA GateIssue ==
  ASSUME IInv, NEW r \in Requests, Issue(r)
  PROVE  [Gate!Next]_(Gate!vars)
<1>1. TypeOK /\ IssuedRows(r) BY DEF IInv
<1> USE DEF AskerMoves
<1>2. CASE CreateHeld(r)
  <2>1. UNCHANGED <<GateDecision, GateOutcome, ran>>
    BY <1>1, <1>2 DEF CreateHeld, IssuedRows, TypeOK, GateDecision, GateOutcome
  <2> QED BY <2>1 DEF Gate!vars
<1>3. CASE CreateRunnable(r)
  <2>1. GateDecision[r] = "none" /\ UNCHANGED ran
    BY <1>1, <1>3 DEF CreateRunnable, IssuedRows, GateDecision
  <2>2. GateDecision' = [GateDecision EXCEPT ![r] = "waived"]
    BY <1>1, <1>3 DEF CreateRunnable, IssuedRows, TypeOK, GateDecision
  <2>3. UNCHANGED GateOutcome
    BY <1>1, <1>3 DEF CreateRunnable, IssuedRows, TypeOK, GateOutcome
  <2> QED BY <2>1, <2>2, <2>3 DEF Gate!Next, Gate!Waive, Gate!Move
<1>4. CASE Ask(r) \/ File(r)
  <2>1. GateDecision[r] = "none" /\ UNCHANGED ran
    BY <1>1, <1>4 DEF Ask, File, InsertApproval, IssuedRows, GateDecision
  <2>2. GateDecision' = [GateDecision EXCEPT ![r] = "open"]
    BY <1>1, <1>4 DEF Ask, File, InsertApproval, IssuedRows, TypeOK, GateDecision
  <2>3. UNCHANGED GateOutcome
    BY <1>4 DEF Ask, File, InsertApproval, GateOutcome
  <2> QED BY <2>1, <2>2, <2>3 DEF Gate!Next, Gate!Ask, Gate!Move
<1>5. CASE CallTool(r)
  <2>1. GateDecision[r] = "waived" /\ ran[r] = 0
    BY <1>1, <1>5 DEF CallTool, IssuedRows, GateDecision
  <2>2. UNCHANGED <<GateDecision, GateOutcome>>
    BY <1>5, GateSame DEF CallTool
  <2>3. CASE UNCHANGED ran BY <2>2, <2>3 DEF Gate!vars
  <2>4. CASE ran' # ran
    <3>1. ran' = [ran EXCEPT ![r] = 1]
      BY <1>1, <1>5, <2>1, <2>4 DEF CallTool, Invoke, TypeOK
    <3> QED BY <2>1, <2>2, <3>1 DEF Gate!Next, Gate!Perform
  <2> QED BY <2>3, <2>4
<1>6. CASE FinishCall(r)
  <2>1. ran[r] = 1 /\ GateOutcome[r] = "none" /\ UNCHANGED ran
    BY <1>1, <1>6 DEF FinishCall, IssuedRows, GateOutcome
  <2>2. UNCHANGED GateDecision
    BY <1>1, <1>6 DEF FinishCall, Finalise, Open, IssuedRows, TypeOK, GateDecision
  <2>3. GateOutcome' = [GateOutcome EXCEPT ![r] = "done"]
    BY <1>1, <1>6 DEF FinishCall, Finalise, Open, IssuedRows, TypeOK, GateOutcome
  <2> QED BY <2>1, <2>2, <2>3 DEF Gate!Next, Gate!Done, Gate!Store
<1>7. CASE AskerThrows(r)
  BY <1>7, GateSame DEF AskerThrows, Gate!vars
<1> QED BY <1>2, <1>3, <1>4, <1>5, <1>6, <1>7 DEF Issue

LEMMA GateDecide ==
  ASSUME IInv, NEW d \in Deciders, DecideStep(d)
  PROVE  [Gate!Next]_(Gate!vars)
<1> DEFINE a == job[d].app
<1>1. TypeOK /\ JobInv(d) BY DEF IInv
<1>2. CASE ~Decide(d) /\ ~Execute(d) /\ ~Complete(d)
  <2>1. UNCHANGED <<execution, approval, ran>>
    BY <1>2 DEF DecideStep, StartPatch, StartTools, Enter, GetExecution,
       CheckApproval, Revalidate, SelectPending, Read, dbVars
  <2> QED BY <2>1, GateSame DEF Gate!vars
<1>3. CASE Decide(d) /\ ~StillPending(a)
  <2>1. UNCHANGED <<execution, approval, ran>> BY <1>3 DEF Decide
  <2> QED BY <2>1, GateSame DEF Gate!vars
<1>4. CASE Decide(d) /\ StillPending(a)
  <2>1. a \in Requests BY <1>1, <1>4 DEF Decide, TypeOK
  <2>2. /\ approval' = [approval EXCEPT ![a] = IF Approves(d) THEN "APPROVED" ELSE "REJECTED"]
        /\ UNCHANGED <<execution, ran>>
    BY <1>4 DEF Decide
  <2>3. GateDecision[a] = "open" BY <1>4, <2>1 DEF StillPending, GateDecision
  <2>4. GateDecision' = [GateDecision EXCEPT ![a] = IF Approves(d) THEN "granted" ELSE "denied"]
    BY <1>1, <2>1, <2>2 DEF TypeOK, GateDecision
  <2>5. UNCHANGED GateOutcome BY <2>2 DEF GateOutcome
  <2> QED BY <2>1, <2>2, <2>3, <2>4, <2>5
          DEF Gate!Next, Gate!Grant, Gate!Deny, Gate!Move
<1>5. CASE Execute(d)
  <2>1. /\ a \in Requests /\ job[d].exec = a /\ ran[a] = 0
        /\ approval[a] = "APPROVED"
    BY <1>1, <1>5 DEF Execute, JobInv, TypeOK
  <2>2. UNCHANGED <<GateDecision, GateOutcome>>
    BY <1>5, GateSame DEF Execute, dbVars
  <2>3. GateDecision[a] = "granted" BY <2>1 DEF GateDecision
  <2>4. CASE UNCHANGED ran BY <2>2, <2>4 DEF Gate!vars
  <2>5. CASE ran' # ran
    <3>1. ran' = [ran EXCEPT ![a] = 1]
      BY <1>1, <1>5, <2>1, <2>5 DEF Execute, Invoke, TypeOK
    <3> QED BY <2>1, <2>2, <2>3, <3>1 DEF Gate!Next, Gate!Perform
  <2> QED BY <2>4, <2>5
<1>6. CASE Complete(d)
  <2>1. /\ a \in Requests /\ job[d].exec = a /\ execution[a] = "WAITING_FOR_HUMAN"
        /\ IF Approves(d) THEN approval[a] = "APPROVED" /\ ran[a] = 1
                          ELSE approval[a] = "REJECTED" /\ ran[a] = 0
    BY <1>1, <1>6 DEF Complete, JobInv, TypeOK
  <2>2. /\ execution' = [execution EXCEPT ![a] = IF Approves(d) THEN "COMPLETED" ELSE "REJECTED"]
        /\ UNCHANGED <<approval, ran>>
    BY <1>6, <2>1 DEF Complete, Finalise, Open
  <2>3. UNCHANGED GateDecision
    BY <1>1, <2>1, <2>2 DEF TypeOK, GateDecision
  <2>4. GateOutcome[a] = "none" BY <2>1 DEF GateOutcome
  <2>5. GateOutcome' = [GateOutcome EXCEPT ![a] = IF Approves(d) THEN "done" ELSE "refused"]
    BY <1>1, <2>1, <2>2 DEF TypeOK, GateOutcome
  <2>6. ~Approves(d) => GateDecision[a] = "denied" BY <2>1 DEF GateDecision
  <2> QED BY <2>1, <2>2, <2>3, <2>4, <2>5, <2>6
          DEF Gate!Next, Gate!Done, Gate!Refuse, Gate!Store
<1> QED BY <1>2, <1>3, <1>4, <1>5, <1>6

LEMMA GateStep == IInv /\ [Next]_taVars => [Gate!Next]_(Gate!vars)
<1> SUFFICES ASSUME IInv, [Next]_taVars PROVE [Gate!Next]_(Gate!vars)
  OBVIOUS
<1>1. ASSUME NEW r \in Requests, Issue(r) PROVE [Gate!Next]_(Gate!vars)
  BY <1>1, GateIssue
<1>2. ASSUME NEW d \in Deciders, DecideStep(d) PROVE [Gate!Next]_(Gate!vars)
  BY <1>2, GateDecide
<1>3. ASSUME NEW d \in Deciders, Respond(d) \/ Throw(d) PROVE [Gate!Next]_(Gate!vars)
  BY <1>3, GateSame DEF Respond, Throw, dbVars, Gate!vars
<1>4. CASE UNCHANGED taVars BY <1>4, GateSame DEF taVars, Gate!vars
<1> QED BY <1>1, <1>2, <1>3, <1>4 DEF Next

\* The handlers, their database round trips and their failures amount to the
\* approval gate: decide once, perform at most once and only if granted or
\* waived, store the outcome that happened.
THEOREM ImplementsGate == Spec => GateSpec
  BY Inductive, GateInit, GateStep, PTL DEF Spec, GateSpec, Gate!Spec

===============================================================================
