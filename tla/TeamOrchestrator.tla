--------------------------- MODULE TeamOrchestrator ----------------------------
(***************************************************************************)
(* TeamOrchestratorService.run: one team request is worked on stage by     *)
(* stage.  Each stage creates a task, calls AgentService.act on it and     *)
(* waits for the answer; act is AgentRun, which this module extends, so a  *)
(* stage may fail anywhere, pause for an approval, and be resumed by a     *)
(* decision handler behind the orchestrator's back.  The agents of one     *)
(* employee share a workspace, which is why stages must not overlap.       *)
(*                                                                         *)
(* A response is the set of those phrases in it that the code looks for.   *)
(* The code searches for the text /\\b(failed|...)\\b/, which in a regular *)
(* expression literal is a backslash, a "b" and the word, not a word       *)
(* boundary: "failed" alone does not match.                                *)
(***************************************************************************)
EXTENDS AgentRun

CONSTANTS
  Agents,
  Roles,        \* the stages whose rolePattern an agent's role matches
  Rosters,      \* what agentsForEmployee may return, in order
  Responses,    \* what an agent may answer: sets of phrases
  RunFor        \* the run, and by TaskOf the task, of each attempt

Stage == {"coding", "testing", "documentation"}

Attempt == Stage \union {"repair", "retest"}

TeamRuns == {RunFor[a] : a \in Attempt}

ASSUME TeamAssumption ==
  /\ Roles \in [Agents -> SUBSET Stage]
  /\ Rosters \subseteq Seq(Agents)
  /\ RunFor \in [Attempt -> Runs]
  /\ \A a, b \in Attempt : RunFor[a] = RunFor[b] => a = b
  /\ \A a \in Attempt : RunFor[a] \in Finalizes /\ TaskOf[RunFor[a]] \in Tasks \ Delegated
  /\ \A a, b \in Attempt : TaskOf[RunFor[a]] = TaskOf[RunFor[b]] => a = b

VARIABLE team     \* what the handler of POST /orchestrator/team-run has in memory

tVars == <<vars, team>>

\* The stages asked for, by what the request's text mentions.
StagePlans == {<<"coding", "testing", "documentation">>, <<"testing", "documentation">>,
               <<"testing">>, <<"documentation">>}

StageStatus == {"COMPLETED", "WAITING_FOR_HUMAN", "STEP_LIMIT_REACHED", "FAILED",
                "BLOCKED", "SKIPPED"}

TeamLabel == {"idle", "next", "create", "act", "acting", "catch", "ended", "threw", "stopped"}

\* A response is there when the agent answered, else {}.
Entry == [of : Attempt, status : StageStatus, response : Responses \union {{}}]

Team == [at : TeamLabel, plan : StagePlans \union {<< >>}, pos : 1..4,
         roster : Rosters \union {<< >>}, attempt : Attempt, blocked : BOOLEAN,
         stages : Seq(Entry)]

TeamTypeOK == ARTypeOK /\ team \in Team

TeamInit ==
  /\ ARInit
  /\ team = [at |-> "idle", plan |-> << >>, pos |-> 1, roster |-> << >>,
             attempt |-> "coding", blocked |-> FALSE, stages |-> << >>]

CurrentRun == RunFor[team.attempt]

Pending == team.at = "next" /\ team.pos <= Len(team.plan)

Current == team.plan[team.pos]

\* Those available.find(...) picks the first of.
Matching(stage) == {i \in DOMAIN team.roster : stage \in Roles[team.roster[i]]}

Specialist(stage) ==
  team.roster[CHOOSE i \in Matching(stage) : \A j \in Matching(stage) : i <= j]

\* Another agent than the tester writes the repair.
SeparateCoder == \E i \in Matching("coding") : team.roster[i] # Specialist("testing")

\* (mutant) The expressions as they were meant.
ReportsFailureInWords(response) == "failed" \in response

ReportsFailure(response) == "\\bfailed\\b" \in response /\ "\\bno failures\\b" \notin response

-------------------------------------------------------------------------------
(* The loop over the requested stages *)

\* Without an agent that may chat and collaborate the request is refused.
TakeRequest ==
  /\ team.at = "idle"
  /\ \E plan \in StagePlans, roster \in Rosters :
       team' = [team EXCEPT !.plan = plan, !.roster = roster,
                  !.at = IF roster = << >> THEN "threw" ELSE "next"]
  /\ UNCHANGED vars

Entered(a, status, response) == Append(team.stages, [of |-> a, status |-> status, response |-> response])

\* stages.push and on to the next requested stage.
Records(a, status, response, blocked) ==
  team' = [team EXCEPT !.stages = Entered(a, status, response), !.blocked = blocked,
             !.at = "next", !.pos = @ + 1]

SkipStage ==
  /\ Pending
  /\ Matching(Current) = {}
  /\ Records(Current, "SKIPPED", {}, team.blocked)
  /\ UNCHANGED vars

\* (mutant) A stage behind a pause waits for its end.
BlockStageAwaiting ==
  /\ Pending
  /\ Matching(Current) # {}
  /\ team.blocked
  /\ \A u \in TeamRuns : ~Paused(u)
  /\ Records(Current, "BLOCKED", {}, TRUE)
  /\ UNCHANGED vars

BlockStage ==
  /\ Pending
  /\ Matching(Current) # {}
  /\ team.blocked
  /\ Records(Current, "BLOCKED", {}, TRUE)
  /\ UNCHANGED vars

BeginStage ==
  /\ Pending
  /\ Matching(Current) # {}
  /\ ~team.blocked
  /\ team' = [team EXCEPT !.at = "create", !.attempt = Current]
  /\ UNCHANGED vars

EndTeam ==
  /\ team.at = "next"
  /\ team.pos > Len(team.plan)
  /\ team' = [team EXCEPT !.at = "ended"]
  /\ UNCHANGED vars

-------------------------------------------------------------------------------
(* One attempt: a task, a run on it, and what is made of the answer *)

NewTask == SetTask(TaskOf[CurrentRun], "WAITING_FOR_AGENT")

CreateTask ==
  /\ team.at = "create"
  /\ NewTask
  /\ team' = [team EXCEPT !.at = "act"]
  /\ UNCHANGED <<taVars, run, loop, issuer, posting, responses>>

\* tasks.create of a stage is outside every try block; that of the repair is
\* caught as if Testing had failed, that of the retest as if the repair had.
CreateThrows ==
  /\ MayFail
  /\ team.at = "create"
  /\ NewTask \/ UNCHANGED task
  /\ team' = CASE team.attempt \in Stage   -> [team EXCEPT !.at = "threw"]
               [] team.attempt = "repair" -> [team EXCEPT !.at = "catch", !.attempt = "testing"]
               [] team.attempt = "retest" -> [team EXCEPT !.at = "catch", !.attempt = "repair"]
  /\ UNCHANGED <<taVars, run, loop, issuer, posting, responses>>

BeginAct ==
  /\ team.at = "act"
  /\ Act(CurrentRun)
  /\ team' = [team EXCEPT !.at = "acting"]

\* act throws before there is a run.
ActThrows ==
  /\ MayFail
  /\ \/ team.at = "act" /\ UNCHANGED vars
     \/ team.at = "acting" /\ At(CurrentRun, "create") /\ Stop(CurrentRun)
  /\ team' = [team EXCEPT !.at = "catch"]

\* (mutant) A stage that waits is taken for one that is done.
BlocksUnlessWaiting(a, status) == status \notin {"COMPLETED", "WAITING_FOR_HUMAN"}

\* A stage is held up by WAITING_FOR_HUMAN, FAILED and STEP_LIMIT_REACHED, a
\* repair or a retest by all but COMPLETED.
Blocks(a, status) ==
  IF a \in Stage THEN status \in {"WAITING_FOR_HUMAN", "FAILED", "STEP_LIMIT_REACHED"}
                 ELSE status # "COMPLETED"

\* After Testing one repair, after a repair that completed one retest.
StageAnswers(status, response) ==
  LET a == team.attempt
      repairs == a = "testing" /\ ReportsFailure(response) /\ ~Blocks(a, status)
  IN
  /\ a \in Stage
  /\ \/ ~repairs /\ Records(a, status, response, Blocks(a, status))
     \/ /\ repairs /\ SeparateCoder
        /\ team' = [team EXCEPT !.stages = Entered(a, status, response),
                      !.attempt = "repair", !.at = "create"]
     \/ /\ repairs /\ ~SeparateCoder
        /\ team' = [team EXCEPT !.blocked = TRUE, !.at = "next", !.pos = @ + 1,
                      !.stages = Entered(a, status, response) \o
                        <<[of |-> "repair", status |-> "BLOCKED", response |-> {}]>>]

RepairAnswers(status, response) ==
  /\ team.attempt = "repair"
  /\ IF Blocks("repair", status)
     THEN Records("repair", status, response, TRUE)
     ELSE team' = [team EXCEPT !.stages = Entered("repair", status, response),
                     !.attempt = "retest", !.at = "create"]

RetestAnswers(status, response) ==
  LET verdict == IF status = "COMPLETED" /\ ReportsFailure(response) THEN "FAILED" ELSE status
  IN
  /\ team.attempt = "retest"
  /\ Records("retest", verdict, response, Blocks("retest", verdict))

\* (mutant) An exception is recorded like an answer.
ActAnswersUncaught ==
  /\ team.at = "acting"
  /\ ActReturns(CurrentRun)
  /\ \E response \in Responses :
       \/ StageAnswers(loop[CurrentRun].reply, response)
       \/ RepairAnswers(loop[CurrentRun].reply, response)
       \/ RetestAnswers(loop[CurrentRun].reply, response)

\* act returns what the run's first call came to, be it a pause.
ActAnswers ==
  /\ team.at = "acting"
  /\ ActReturns(CurrentRun)
  /\ LET reply == loop[CurrentRun].reply IN
     IF reply = "threw"
     THEN team' = [team EXCEPT !.at = "catch"]
     ELSE \E response \in Responses :
            \/ StageAnswers(reply, response)
            \/ RepairAnswers(reply, response)
            \/ RetestAnswers(reply, response)

\* (mutant) The failure is recorded and the next stage started.
CatchFailureUnblocked ==
  /\ team.at = "catch"
  /\ \/ SetTask(TaskOf[CurrentRun], "FAILED")
     \/ MayFail /\ UNCHANGED task
  /\ Records(team.attempt, "FAILED", {}, team.blocked)
  /\ UNCHANGED <<taVars, run, loop, issuer, posting, responses>>

\* Every catch block marks its task FAILED if it can and ends the stage.
CatchFailure ==
  /\ team.at = "catch"
  /\ \/ SetTask(TaskOf[CurrentRun], "FAILED")
     \/ MayFail /\ UNCHANGED task
  /\ Records(team.attempt, "FAILED", {}, TRUE)
  /\ UNCHANGED <<taVars, run, loop, issuer, posting, responses>>

-------------------------------------------------------------------------------
(* Agents at work, crashes, and the whole *)

\* Runs go on, and decisions are made, while the handler waits; no call to act
\* of this request begins or ends.
AgentsWork ==
  /\ ARNext
  /\ \A u \in TeamRuns : loop[u] = NoLoop <=> loop'[u] = NoLoop
  /\ UNCHANGED team

\* The process that serves the request stops, and the call to act with it.
TeamStops ==
  /\ MayFail
  /\ team.at \notin {"idle", "ended", "threw", "stopped"}
  /\ IF team.at = "acting" THEN Stop(CurrentRun) ELSE UNCHANGED vars
  /\ team' = [team EXCEPT !.at = "stopped"]

TeamStep ==
  \/ SkipStage \/ BlockStage \/ BeginStage \/ EndTeam
  \/ CreateTask \/ CreateThrows \/ BeginAct \/ ActThrows \/ ActAnswers \/ CatchFailure

TeamNext == TakeRequest \/ TeamStep \/ TeamStops \/ AgentsWork

TeamSpec == TeamInit /\ [][TeamNext]_tVars

\* The handler's own progress, in the orchestrator or inside act.
HandlerStep ==
  \/ TeamStep
  \/ team.at = "acting" /\ AgentsWork /\ (CreateRun(CurrentRun) \/ RunLoop(CurrentRun))

\* While its process is up the handler is scheduled again; nobody has to decide.
FairTeamSpec == TeamSpec /\ WF_tVars(HandlerStep)

\* The status of the whole, computed from the recorded stages.
Recorded(statuses) == \E i \in DOMAIN team.stages : team.stages[i].status \in statuses

\* (mutant) Only what failed counts as a failure.
OverallOfFailed ==
  IF Recorded({"WAITING_FOR_HUMAN"}) THEN "WAITING_FOR_HUMAN"
  ELSE IF Recorded({"FAILED", "STEP_LIMIT_REACHED"}) THEN "PARTIAL" ELSE "COMPLETED"

Overall ==
  IF Recorded({"WAITING_FOR_HUMAN"}) THEN "WAITING_FOR_HUMAN"
  ELSE IF Recorded({"FAILED", "BLOCKED", "SKIPPED", "STEP_LIMIT_REACHED"}) THEN "PARTIAL"
  ELSE "COMPLETED"

-------------------------------------------------------------------------------
(* Properties *)

InWork(a) == \E p \in Callers : Drives(p, RunFor[a])

\* The agents of a request share a workspace: whatever fails, whenever a paused
\* stage is resumed by a decision, two of its runs are never worked on at once.
OneStageAtATime == \A a, b \in Attempt : InWork(a) /\ InWork(b) => a = b

\* Nobody else starts work on the task of the run.
OwnTask(u) ==
  /\ \A v \in Runs : TaskOf[v] = TaskOf[u] => v = u
  /\ \A r \in Direct : DirectTask[r] # TaskOf[u]

Succeeded(a) ==
  /\ run[RunFor[a]].status = "COMPLETED"
  /\ OwnTask(RunFor[a]) => task[TaskOf[RunFor[a]]] = "COMPLETED"

\* A request reported COMPLETED is done in the database, where decisions, catch
\* blocks and late writes have been: each stage asked for has a completed run,
\* and a completed task unless somebody started other work on it, and a repair
\* was followed by a retest that reports no failure.
CompletedMeansDone ==
  team.at = "ended" /\ Overall = "COMPLETED" =>
    /\ \A i \in DOMAIN team.plan : Succeeded(team.plan[i])
    /\ run[RunFor["repair"]].status # "none" =>
         \E i \in DOMAIN team.stages :
           /\ team.stages[i].of = "retest"
           /\ ~ReportsFailure(team.stages[i].response)
           /\ Succeeded("retest")

\* Nothing is started for a request once an attempt of it did not complete,
\* although stages without an agent are passed over.
StartsOnlyAfterSuccess ==
  [][team.at = "create" /\ team'.at # "create" =>
       \A i \in DOMAIN team.stages : team.stages[i].status \in {"COMPLETED", "SKIPPED"}]_tVars

\* A request is answered, fails or is lost with its process: pauses, repairs
\* and failures cannot keep the handler going.
TeamEnds == team.at = "next" ~> team.at \in {"ended", "threw", "stopped"}

\* The comment in the code: "One bounded repair cycle: send a reported test
\* failure back to Coding".
FailureIsRepaired ==
  \A i \in DOMAIN team.stages :
    /\ team.at = "ended"
    /\ team.stages[i].of = "testing"
    /\ team.stages[i].status = "COMPLETED"
    /\ ReportsFailureInWords(team.stages[i].response)
    /\ SeparateCoder
    => run[RunFor["repair"]].status # "none"

-------------------------------------------------------------------------------
(* The inductive invariant behind CompletedMeansDone *)

\* No tool of the run was ever put before a human, so no decision can be about
\* the run or its task.
Unasked(u) == \A r \in IssuedBy(u) : asker[r] \notin {"held", "filed"}

SaysCompleted(u) ==
  loop[u] # NoLoop /\ loop[u].at \in {"closeTask", "returned"} /\ loop[u].reply = "COMPLETED"

\* Of the run that its call to act says is COMPLETED the row is, and so is the
\* task once the call has returned; it came there without a pause.
CallKnows(u) ==
  /\ Drives(u, u) /\ loop[u].at # "pause" => Unasked(u)
  /\ SaysCompleted(u) =>
       /\ Unasked(u) /\ run[u].status = "COMPLETED"
       /\ loop[u].at = "returned" /\ OwnTask(u) => task[TaskOf[u]] = "COMPLETED"

\* The attempt is done and nobody is left who could change that.
Finished(a) == loop[RunFor[a]] = NoLoop /\ Unasked(RunFor[a]) /\ Succeeded(a)

HasEntry(a) == \E i \in DOMAIN team.stages : team.stages[i].of = a

Passed(stage) == \E j \in DOMAIN team.plan : j < team.pos /\ team.plan[j] = stage

Ongoing == team.at \in {"create", "act", "acting"}

\* Where a request stands of which everything recorded so far completed.
OnCourse ==
  /\ \A a \in Attempt : HasEntry(a) => Finished(a)
  /\ \A stage \in Stage : Passed(stage) => HasEntry(stage)
  /\ \A a \in Attempt : HasEntry(a) =>
       \/ Passed(IF a \in Stage THEN a ELSE "testing")
       \/ Ongoing /\ a = "testing" /\ team.attempt \in {"repair", "retest"}
       \/ Ongoing /\ a = "repair" /\ team.attempt = "retest"
  /\ Ongoing =>
       IF team.attempt \in Stage THEN team.attempt = Current
                                 ELSE Current = "testing" /\ HasEntry("testing")
  /\ run[RunFor["repair"]].status # "none" =>
       \/ HasEntry("retest")
       \/ Ongoing /\ team.attempt \in {"repair", "retest"}

AllCompleted == \A i \in DOMAIN team.stages : team.stages[i].status = "COMPLETED"

RetestsPassed ==
  \A i \in DOMAIN team.stages :
    team.stages[i].of = "retest" /\ team.stages[i].status = "COMPLETED" =>
      ~ReportsFailure(team.stages[i].response)

DoneInv ==
  /\ \A a \in Attempt : CallKnows(RunFor[a])
  /\ RetestsPassed
  /\ team.at = "idle" => team.pos = 1 /\ team.stages = << >>
  /\ team.at = "ended" => team.pos > Len(team.plan)
  /\ team.at \in {"idle", "next", "create", "act", "acting", "ended"} /\ AllCompleted => OnCourse

===============================================================================
