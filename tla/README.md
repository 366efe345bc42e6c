# AI Teammates: TLA+ models, model checking and proofs

AI Teammates runs AI agents for the employees of a company. A NestJS API owns
all state in PostgreSQL; agents plan tool calls, sensitive tools wait for a
human decision, agents delegate tasks to each other through a Redis stream, and
a desktop agent acts on an employee's machine over a web socket. This directory
models the parts of the API where several handlers meet on the same rows, and
the pages of the web application whose state outlives a request.

## 1. Inventory

| Component | State | Operations | Interacts with | Modelled |
|---|---|---|---|---|
| Approvals and tool executions (`approvals/`, `tools/`) | rows of `approvals`, `tool_executions` | request, decide by three routes, execute, finalise | policy, agent runs, devices, sandbox | `ToolApproval` |
| Agent runs (`agent/`) | rows of `agent_runs`; step and results in memory of the caller | act, loop, pause, resume, fail | planner, tools, tasks | `AgentRun` |
| Tasks (`tasks/`) | `tasks.status`, dependencies | create, update status, add dependency | runs, approvals, worker | status in `AgentRun`, `Delegation` |
| Collaboration (`collaboration/`, `orchestrator/orchestrator.service.ts`) | `messages`, stream `agent:tasks` | dispatch, run, respond, worker | runs, tasks, Redis | `Delegation` |
| Devices (`devices/`, `apps/desktop-agent`) | `devices`, bindings, `device_commands`; sockets in memory | connect, revoke, bind, command, result, wait | tools, desktop | `Devices` |
| Team orchestrator (`orchestrator/team-orchestrator.service.ts`) | rows of tasks and runs; plan, position and stages of a request in memory | work on the stages of a request, repair and retest once, report | runs, tasks | `TeamOrchestrator` |
| Activity events (`activity/`) | two Redis connections and the pages' sockets of each process; the channel; a page's list | publish, fall back, relay, broadcast, connect, close | all services | `Activity` |
| Conversations and memory (`conversations/`, `memory/`, chat in `agent/`) | rows of `conversations`, `conversation_messages`, `agent_memories`; what a turn has read | create, rename, chat turn, delegated result, learn, search, delete | agent service, `my-agent` page | `Chat` |
| Authentication, organization (`auth/`, `organization/`) | rows of `companies`, `employees`; tokens | register, hire, login, check a token | all | `Accounts` |
| Web application (`apps/web`) | what a page shows and waits for | load, open, send; click, refresh; list | API, activity sockets | `MyAgent`, `Bindings`, `Activity`; other pages not |
| Projects, audit | rows written by single inserts | | all | constants |
| Sandbox worker, Python agent service | none across requests | | API | as choices, or not |

`PROJECT.json` lists the components with their sources, and under `hazards`
every place where order, failure or time matters.

What is hard here: every `await` of a handler lets other handlers run, almost
every status is written by an UPDATE without a condition on the old status, and
the decisions that do need a condition (`approvals`, `tool_executions.complete`,
`claimWaiting`, `completeCommand`) carry the whole weight. No transaction spans
two statements. A failure between two writes leaves what was written.

What makes each part correct:

- approvals: a guarded tool runs at most once and only under an approval by
  someone entitled; decisions and outcomes are final and agree;
- runs: one caller drives a run; what tools did is in the results; a pause goes
  on only after a stored outcome; ended runs stay ended; the step limit holds;
- tasks: their status follows the runs and approvals;
- team requests: stages that share a workspace never overlap, nothing is started
  behind a stage that did not complete, and the reported status is true of the rows;
- delegation: an entry the worker reads is answered, and not over and over;
- devices: a command is performed at most once and its caller is told the truth,
  whatever the connection does; a revoked device does not come back;
- activity: an event reaches the pages of its employee and no other, in order,
  again only when a connection broke;
- chat: a prompt holds nothing of another employee or company, the record of a
  conversation reads as questions with their answers, what is learned stays
  private, and a page shows the conversation it names;
- accounts: which employees may answer to one login name;
- the devices page: the last answered click decides what is bound, and the page
  ends up listing the rows.

## 2. Modules

| Module | Models | Composed of |
|---|---|---|
| `ApprovalGate` | what the approval protocol promises: open, granted, denied, performed, finalised | |
| `ToolApproval` | `ApprovalService`, `ToolExecutionService`, the routes PATCH `/approvals/:id`, POST `/tools/approve`, `/tools/reject`; implements `ApprovalGate` | |
| `AgentRun` | `AgentService` (act, runLoop, resumeAfterApproval), `respondTask`, `completeDelegatedRun`, and what the decision routes do after the decision | EXTENDS `ToolApproval` |
| `Delegation` | `AgentTaskWorker` and the stream; answers by hand, POST `/collaboration/tasks/:taskId/respond` | EXTENDS `AgentRun` |
| `TeamOrchestrator` | `TeamOrchestratorService.run`: stages, repair and retest, catch blocks, the overall status | EXTENDS `AgentRun` |
| `DeviceCall` | what a device tool promises its caller | |
| `Devices` | `DeviceService`, `DeviceGateway`, the desktop agent and the connection; implements `DeviceCall` | |
| `Activity` | `ActivityEventService`, `ActivityGateway`, Redis as they use it, and the activity page | |
| `Chat` | `AgentService.chat`, `receiveDelegatedResult` and `learnFromConversation`, `ConversationService`, `MemoryService` | |
| `MyAgent` | the my-agent page: load, openConversation, createConversation, send; implements a client of `Chat` | EXTENDS `Chat` |
| `Accounts` | `AuthService`, `AuthGuard`, `RolesGuard`, `OrganizationService.createEmployee` | |
| `Bindings` | the devices page with `DeviceController` and `DeviceService` behind it: register, bind, unbind, revoke | EXTENDS `Accounts` |
| `MCPages` | the instance that checks the five modules above | EXTENDS `Activity`, `MyAgent`, `Bindings` |
| `MC*` | model values and symmetry for TLC | the module of that name |
| `*Proofs` | theorems and proofs; those of `Chat` are in `MyAgentProofs`, of `Accounts` in `BindingsProofs` | the module of that name |

**State.** A table column is a function from the identity of the row to the
status; "none" is a row that does not exist. An execution and its approval have
one identity, since `approvals.execution_id` is unique. What a handler holds in
memory between two awaits is a record (`job[d]`, `loop[p]`), where it is is a
label (`pc[d]`, `loop[p].at`).

**Steps.** Each database statement or outside call ends a step. A conditional
UPDATE is one step that reads and writes. `tasks.updateStatus` reads the row and
saves it; only the status differs between writers, so it is one write.

**Callers.** A run is driven by a caller: first the one that called `act`, named
like the run, and after a pause the decision handler that claimed it. Decision
handlers are reused, so any number of decisions is made. A resumption stores the
results (`RestartRun`) and `runLoop` reads the row again (`EnterLoop`): in between,
the catch block of the caller that had paused the run may write what that caller
remembers (`MarkFailed`). Three fields of the row are histories of this and no column,
and no step reads them: `done`, that the run has been COMPLETED; `lost`, what such a
catch block took out of a row about to be read; `rewound`, that it set the step back
by more than one pause.

**Failures.** With `MayFail` any await may throw, before its effect or after it, and
any caller may stop where it is (`Throw`, `Stop`, `WorkerStops`, `Restart`). A write
that is the last of a `try` block and throws after its effect is caught by it
(`CloseTask`, `PauseTask`); elsewhere a throw after an effect is the throw of the
next await, at which the caller knows no more.
Catch blocks are steps of their own that may fail as well.

**Team requests.** One request is one record `team`: where its handler is (`at`),
the requested stages and the one it is at (`plan`, `pos`), the agents found
(`roster`), the attempt it works on (a stage, the repair or the retest), `blocked`
and the recorded `stages`. `act` is `Act` of `AgentRun` on a run and a task that
belong to the attempt, and its answer is `ActReturns`; between them the whole of
`AgentRun` goes on, decisions on the request's paused runs included (`AgentsWork`).
A task that is not created yet is TODO. A response is the set of the phrases the
code's expressions look for. The requests of two employees, or two requests of
one, share nothing the module speaks of, so there is one request.

**Delivery.** The stream entry of a delegated task reaches the worker once or
never: the group is created at "$" and only new entries are read, and the Python
consumer shares the group's name. An answer by
hand (`answering`) looks at the task, is stored and completes the task in three
steps. In `Devices` the two ends of a connection
close at different times (`client`, `wire`); a command is started and written in two
steps, and a message on the way is lost when the end it is for is gone.

**Redis and pages.** Each process has a connection that publishes and one that is
subscribed; either may break, come back, or end for good when it has tried often
enough. A command whose connection breaks is sent again or rejected, and Redis
may have executed it in both cases. A page's socket belongs to one process; the
page keeps the latest `PageSize` events.

**Turns.** A call of `chat` is `turn[k]`: where it is and what it has read.
Messages carry the turn they belong to in place of a text, and a history or a
search result is the set of what may be in it. `learning` goes on after the turn
has answered. The my-agent page is `shown`, the conversations it lists and one
request per function under way; its steps that reach the API are steps of `Chat`.
The API returns the latest `HistoryLimit` messages, 30 in the code.

**Accounts and clicks.** Sessions are issued facts with a time of issue. An address
is a mail and a spelling, since lowering and trimming are not done in every
place. An operation of the devices page (`ops[n]`) goes through the guards, the
rows and its answer while others do the same; `busy` is the one slot of the page.

## 3. Runs

| Run | Bounds | Question |
|---|---|---|
| `ToolApproval` | 2 requests of 2 employees, an admin, 2 handlers, failures | does any interleaving of decisions run a tool unapproved or twice, or overturn anything; does the protocol implement `ApprovalGate` |
| `AgentRun` | 1 run with 4 requests, which finalises its task or works on a delegated one, 1 handler, 3 steps, failures and stops | pauses and resumptions when anything may fail: one caller drives the run, outcomes reach it, the step limit holds, the task's COMPLETED is true |
| `Delegation` | 1 delegated run with a request, 1 request outside a run, 1 handler, the worker, no answer by hand, 3 steps; fairness | who answers and how often, and termination, while nothing fails |
| `Faults` | 1 delegated run with 2 requests, 1 handler, the worker, 1 answer by hand, 2 steps, failures and stops | what survives partial failure: results, one answer for each run that ended, ends that stand |
| `Devices` | 1 device, 2 connections, 1 command, failures before and after effects, restart; fairness | one command while the device reconnects, is revoked or vanishes |
| `Team` | 1 request with its 5 attempts, 1 tool request, 1 handler, 1 step, 3 rosters, 2 responses, failures and stops; fairness | do stages overlap when a paused one is resumed; what starts after a failure; is COMPLETED true; does the handler end |
| `Pages` | one scene at a time, see below; failures; fairness | who sees, reads and learns what, and what pages come to show, while requests overlap, connections break and sessions expire |
| `LostWakeup`, `DelegatedUnanswered`, `DroppedCommand`, `LateClose`, `RepairNeverRuns` | smallest that shows it | statements of the documentation the code does not keep (section 5) |

**Why the bounds are enough.** Handlers meet on one approval and its execution:
two of them, in `ToolApproval` and `LostWakeup`, show every race on a conditional UPDATE, two requests of different
owners show mixed-up ids and missing authority. The code's limit is 5 steps. `AgentRun`
has 3 and 4 requests, one more than the run may ask for: a pause uses two
steps, so it may pause at its first step, be resumed, pause again at its third and be
resumed once more, while the catch block of the caller that paused it first may come at
any time. `Delegation`, with a limit of 3, admits a pause and one tool more, and
decides the one request outside a run. In `Faults` the limit is 2: a pause, and its
resumption up to the end of the run, or a tool and a pause, beside the worker and one
answer by hand, which are not at work at once (`Apart`): they meet only in the status of
the task, which either may find as the other left it. The result that a late catch block
takes is that of the pause. A team request needs a run per attempt, a pause in any
one of them and a roster that lacks a role, has one agent for two, or is
complete; what happens inside a run that uses more tools is the question of the
other runs. A second connection is what a late event of the first can harm, and what a device
may try after it was revoked. Commands do not
share state, so one is enough; its caller either polls or returns at once.
Handlers, and requests of a run, are interchangeable, which the safety runs use
as symmetry; the runs with fairness do not. `CHECK_DEADLOCK` is off because the
systems may stop: requests, runs and connections are used up.

The components of `Pages` share no state, so their product would only multiply
states: the instance chooses a `scene` at the start, in which one of them moves.
Each property is about the scenes in which its part moves.

- *activity*: 1 request with 2 events, 2 processes, 2 pages whose lists hold 4 events,
  and breaks of connections: the publisher's may break up to three times, or once
  beside one break of a subscription. The pages are opened before the first break and
  the second one stays open. Two events show order, two processes show both ways to a
  page. Two breaks of the publisher show a command that is resent twice, or sent again
  and then delivered locally: an event is listed three times, which `DuplicatesNeedDrops`
  allows, and a fourth copy would have its place in the list. With three breaks the list
  overflows and is cut.
- *chat*: one message sent from the page while conversations are opened and
  created on it, then a delegated result that comes to rest in the conversation, with
  the API returning the latest 2 messages: the question is cut off from its answer.
- *turns*, *result*: two calls of the API, or one and a delegated result, on any
  conversation, the caller's own or that of another company's employee, who
  writes and deletes memories; names are given by hand.
- *accounts*: 2 companies, 1 mail in its spellings, 2 passwords, 2 hires: two
  overlapping looks for one address, in one company or in two.
- *buttons*: 3 clicks on 1 device, which a slot given back too early needs;
  *devices*: 2 clicks on 2 devices, and requests fail; *expiry*: 2 clicks while the
  session expires.

**Fairness.** `Fairness` in `AgentRun` and `FairDSpec` are weak fairness of each
caller and of the worker: a promise of Node.js that has resolved is continued.
The HTTP calls set timeouts but for one, the `fetch` of `chat` to the agent service
(`agent.service.ts:304`), with which a run answers and the worker works: only the default
header and body timeouts of Node's `fetch` bound it, which are not in the repository. On
these rests that a caller at that call goes on, as on PostgreSQL that a query is answered or
fails. Nothing is expected of those who answer by
hand. Decisions are not fair: no human
has to decide. `FairTeamSpec` is weak fairness of the request's own handler, in the
orchestrator and inside `act`; other runs and decisions need not move. `FairSpec` of `Devices` is weak fairness of the request and of the
message on its way; connections, revocation and the desktop's reconnection are
not fair. `FeedFairness` of `Activity`: a command is answered or rejected, what the
channel has taken is relayed and written to sockets that live; connections need
neither break nor recover. `Fairness` of `MyAgent`: turns go on and answers come
back to the page, but here not even the default timeouts are relied on: the agent service
may never answer a chat, a case that `SendEnds` excepts by name. Nobody has to click. `QueuedIsAnswered` and `RunsSettle` are checked without failures, since
a stopped worker's entry is never read again and a stopped caller's run is never
picked up. `StartedIsFinished` is checked with failures and names the
losses: on the way, or before the command was written (`Unsent`).

## 4. Proofs

All theorems hold for any number of requests, handlers, users, runs and tasks,
with failures or without, from the assumptions named in the modules
(`UsersAssumption`, `MayFailAssumption`, `RunsAssumption`, `MaxStepsAssumption`,
`TeamAssumption`, `DevicesAssumption`, `ActivityAssumption`, `ChatAssumption`,
`PageAssumption`, `AccountsAssumption`, `BindingsAssumption`, `FiniteRunsAssumption`):
names of different kinds differ, the constant functions have their types, each attempt of
a team request has a run and a task of its own, and a task has finitely many runs. No
theorem has a further hypothesis: where something holds only while nothing fails, or
only of a task on which nobody else starts work, the property itself says so.

- `ToolApprovalProofs`: type correctness, `OnlyApprovedRun`, `OutcomesMatch`,
  `Finality` and the refinement `ImplementsGate`. None of the properties is
  inductive: that a rejected execution never ran rests on what the handlers have
  found on their way. `IInv` says which rows the issuing call has written
  (`IssuedRows`), what the decision says of the execution (`DecidedRows`), what a
  handler knows at each label (`JobInv`), and that the conditional UPDATE leaves
  one handler to execute or complete (`OneWinner`). There is one lemma per group
  of actions (issue, read, decide, execute, complete).
- `AgentRunProofs`: `RunTypeCorrect`, `SoleDriver` and `ImplementsToolApproval`,
  so that the gate's guarantees carry over (`RunsUseApprovedTools`). `ARInv` ties
  what a caller holds in memory to the row it works on, and says that a run that
  is driven is not waiting, which is why a claim cannot meet another driver.
  `StepsBoundTools` and `ToolsAccountedFor` rest on the ledger, `LedgerInv`: the
  requests a run has issued, less those in `lost`, are those in the results and the one
  that has none yet (`AccountOf`), and all of them are no more than the steps unless
  `rewound` (`StepsOf`). The account is passed from the row of
  a waiting run to the caller that drives it and back, so each has a clause, and a
  resumption that has yet to read its row goes by the row (`ResultsOf`). A catch block
  that is still to come may write what its caller has: results of the run's own, each
  once (`Writes`); when they take the place of those a resumption is about to read, what
  they lack goes into `lost` (`LedgerFails`). A run
  whose caller stopped has no account, and is not COMPLETED. `CompletedTasksFinished` and
  `EndsAreFinal` rest on `EndInv`: a caller that is past the end of its run, or holds
  the answer COMPLETED, knows that the run is over and has been COMPLETED (`Over`). An ended run is not driven,
  so the one writer that is left is a catch block, which marks its own run FAILED
  (`EndsStep`); a FAILED run that is driven is one whose former caller threw after the
  pause, and its driver may still complete it. `ResumptionsTakeOutcomes`
  rests on what a handler has stored before it looks for the run (`OutcomeStored`).
  `KnownInv` is all of it together.
- `DelegationProofs`: the worker and the answers by hand keep `ARInv` and `KnownInv`, so what
  holds of runs holds beside them. `OneAnswerPerRun` counts: by `CountInv` the answers a
  task has got, those by hand set aside (`Automatic`), are no fewer than the worker must have stored where its entry is (`WorkerAtLeast`: none
  is certain of an entry that has failed) and no more than it can have stored
  (`WorkerAtMost`: two, when it fails after the first and reports that) with one for each
  run that has ended and is answered for (`Settled`). Answering settles a run, a run is
  answered for by one caller (`EndedOnce`), and what is settled stays so, since an ended
  run comes back neither through a decision nor through a catch block (`EndsStay`): that
  is where `EndsAreFinal` is needed with failures. A task may have any number of runs:
  POST `/agents/act` takes any task. The runs of section 3 have one run on a task; several
  are the theorem's.
- `TeamOrchestratorProofs`: `TeamTypeCorrect`, `StagesNeverOverlap` and
  `BegunAfterSuccess`, for any roster and any responses, plans of the code's four
  shapes. That stages do not overlap rests on two facts. Of `AgentRun`: a run comes to wait only by
  its own call to `act` (`BecomesResumable`), and `act` answers COMPLETED only of a
  run no decision will work on (`ActTells`). Of the orchestrator: a run that can
  still be worked on is the attempt in turn or holds the request up (`Ordered`),
  so the handler, which goes on only when told COMPLETED, starts nothing beside
  it. `TeamKeepsRuns` carries the one driver per run and the approvals over,
  `TeamRunsKnown` and `TeamRunsHonest` the rest of what `AgentRun` promises.
- `CompletedIsDone` (same module): a request reported COMPLETED is done in the
  database. The handler has only answers; behind it decisions, catch blocks and late
  writes change rows. By `DoneInv` an answer COMPLETED comes from a call none of whose
  tools was ever put before a human (`Unasked`), and of such a run and its task nobody
  but the call writes (`RowSteady`, `TaskSteady`). So what the call knows at its end
  (`CallKnows`) stays true when it is gone (`Finished`), and the stages passed, the one
  at work, the repair and the retest account for all entries (`OnCourse`). The
  part about a stage's task is of one on which nobody else starts work (`OwnTask`): POST
  /agents/act and POST /tools/request take the tasks of a request too, from any employee
  who may see them, and their writes to it are not the request's. With such a request on
  the coding task TLC finds the part false without that condition; the run checks the instance where nobody interferes.
- `DevicesProofs`: `DevicesTypeCorrect`, `ThrowFinalises`, `RevocationIsFinal` and the
  refinement `ImplementsDeviceCall`. `CommandInv` says for each command what the
  row, its request and its way to the desktop know of each other; commands do not
  touch each other, so each lemma is about one (`OthersInv`). That a revoked device
  which is out stays out (`Out`) rests on the registry: what is registered has been
  opened before (`SocketInv`), so a new connection begins unregistered, and its lookup,
  which comes after the revocation, refuses it.
- `ActivityProofs`: `FeedTypeCorrect` and `PagesListOwnEvents`. That a page lists no
  other employee's event needs to know what is on the way to it: an event on the
  channel has been published (`ChannelBegun`), a command that waits has an event
  (`CommandBounded`), and a page takes its next viewer only with its list empty
  (`ClosedIsEmpty`). `EventsInOrder` rests on `OInv`: the channel carries the events
  of a request in order (`ChannelInOrder`), and a page lists none before an earlier
  one still on its way (`ListedBefore`), unless it fell back. `DuplicatesAreDrops`
  counts what is listed together with what is on the way, `Copies`, and bounds it by
  `Allowed`: a command that Redis has still to execute, for the first time or again,
  has one copy less. It needs that only a process that started with Redis has
  commands there (`CommandKnows`).
- `MyAgentProofs`, of `Chat`: `PromptsAreOwn`, `RecordIsReadable` and `LearningIsPrivate` for any
  client. `TurnKnows` says what a turn has established at each label, `TurnRecord`
  which of its messages are stored by then, `MessagesAreOwn` that nobody writes to
  another employee's conversation; ids are never used again and rows of
  conversations never deleted, which is what keeps a check valid that was made
  some round trips ago. `NamesAreOfTheFirst` rests on `NameInv`: a turn that has found
  its question alone in the conversation finds it in the first place for ever
  (`NamingKnows`), so of all that overlap one gives the name; that the default is left
  only for the reasons stated needs to know which turns write questions
  (`SendersMatch`).
- `MyAgentProofs`, of the page: it is a client (`PageImplementsClient`): each of its steps is
  one of `ChatNext` or leaves the tables alone. So `PageKeepsChat` is a corollary.
  `CalmPageShowsActive` is of what the page shows. By `ShowInv` the messages on their
  way to it are still a part of the conversation (`ServedAreStored`), however
  late they arrive, from some place on (`PartOf`, `LatestIsEnd`), and a question that is
  cut off stays so (`CutOffStays`); a calm page has nothing on its way but the answer to a message
  (`CalmIsStill`), and shows no more of that turn than the question (`OnlyAsked`).
- `BindingsProofs`: `AddressesApart`, `LastClicksHold` and `ListsAreCurrent`, of all
  steps of both modules. `createEmployee` looks for the address and inserts later:
  `HireKnows` says that the rows it has seen still have other addresses, since rows are
  only appended and never change. The page notes which operations were under way
  together (`OverlapsSeen`), so one that overlaps nothing knows that all before it have
  ended, those that were lost on the way included; hence nobody else writes its row
  while it is the last (`TablesMove`, `Alone`), and what it has listed is still what
  there is (`LastListed`).

Every invariant, action property and refinement that a passing run checks is stated by
a theorem, for every value of the constants. The types of the page and of the bindings
are only proved (`PageTypeCorrect`, `BindingsTypeCorrect`). Liveness
(`QueuedIsAnswered`, `RunsSettle`, `StartedIsFinished`, `TeamEnds`, `EventsReachPages`,
`SendEnds`) is beyond the prover and only model-checked.

## 5. Where code and documentation part

`PROJECT.json` quotes the statements. In short:

- `LostWakeup`: the approval can be decided before the run has stored that it
  waits; the run then waits with nothing left to decide.
- `DelegatedUnanswered`: POST `/tools/approve` completes a delegated task and
  sends no answer.
- `DroppedCommand`: a command written to a socket that closed between the check and
  the write is dropped and stays RUNNING; so does, without a run of its own, one that is
  lost with the connection, or whose request stopped or threw between the start and the
  write.
- `RepairNeverRuns`: the expressions that look for a reported failure are regular
  expression literals with a doubled backslash, which match a backslash and not a
  word boundary, so the repair cycle does not start on any ordinary answer.
- `LateClose`: the close event of a device's old socket removes the new one.

Also found while modelling, without a run: when a caller has paused its run and its
update of the task throws, the run may be resumed and completed before that caller's
catch block marks the row FAILED, over COMPLETED results and a COMPLETED task, which is
why `CompletedTaskHasCompletedRun` admits a FAILED run when calls may fail; an admin's decision executes the tool
and then throws on the run's owner (`agent.service.ts:186`), which strands the run; between the two writes of a resumption (`agent.service.ts:213`)
and its read (108), the catch block (172) of the caller that had paused the run, and
threw at 153, may put back the results without the tool that was approved: the run
goes on, and can be COMPLETED, as if that tool had never run; a catch block that is two
pauses late sets the step back as well, and the run may then ask for more tools than
`max_steps`; POST `/collaboration/tasks/:taskId/respond` answers a delegated task whatever
its runs do, and may do so between the check and the insertion of another answer;
when `tasks.create` of the retest throws, the repair is recorded twice, COMPLETED
and FAILED (`team-orchestrator.service.ts:214`, `:264`); a chat turn without a provider answers WAITING_FOR_HUMAN,
which holds up a team request although there is nothing to decide, and makes the my-agent
page send the employee to the Approvals page (`page.tsx:107`), where there is nothing; a resumed run that pauses again has its
task set back to IN_PROGRESS by the handler that resumed it
(`approval.controller.ts:34`, `tool.controller.ts:64`); PATCH `/approvals/:id` lets a delegated
run complete while its task stays WAITING_FOR_HUMAN, because `respondTask` refuses
that status; the worker sets a task COMPLETED while the run on it waits, since
`dispatchAndRun` both queues the task and runs it; a pause uses up two steps of
the limit (`currentStep: step+1` and the increment on resumption);
`completeCommand` is idempotent, but the desktop agent answers a command once, so
nothing here needs it to be; a device that is revoked while it connects, after the lookup
(`device.gateway.ts:20`), is registered (23) after `disconnect` found nothing, and stays
connected, though revoked and refused commands; a command that timed out is stored as a COMPLETED
execution; a device may be bound after it was revoked.

Activity: `tool.completed` goes to the pages of who decided, not of who asked; when
the subscribed connection ends for good, `redisAvailable` stays true and the
process delivers nothing more to its pages (`activity.event.service.ts:65`).

Chat: the request of `chat` to the agent service has no timeout; a name given by hand
between the look for the first message and `WriteTitle` is overwritten; a
conversation is checked against its employee and not against the agent it is used
with; on the page, `load` calls the `openConversation` of the first rendering, which
knows no agents, so it opens nothing; `send` and the devices page have no `catch`,
so a rejected `fetch` leaves `sending` and `busy` set; when requests overtake each
other, the page shows one conversation's messages under another's name; `busy` is
one slot, so a second operation gives back the first one's button.

Accounts: an employee added by an admin has no password and cannot log in, since no
route reaches `AuthService.register`; `registerCompany` neither looks for the address
in other companies nor trims it, and `login` takes the first row of an address,
so which of two employees can log in is up to the database; POST
`/organization/agents` works for the admin's own employee only, as `AuthGuard`
refuses another `employeeId`.

## 6. Not modelled

The content of plans, prompts, answers and tool results; permissions and roles
beyond "allowed, needs a human, refused later"; the size limit on results (one of
the throws); how messages and memories are ranked and cut; a task's other columns. That a device
is a member's and that an agent is its owner's is in the constants. `socket.url`
of `DeviceGateway` is taken to carry the token. PATCH `/tasks/:id/status` sets any
status by hand and would void every statement about tasks; POST
`/collaboration/tasks/:taskId/respond`, modelled for delegated tasks, does so for a task that
is not delegated, as POST `/collaboration/tasks` makes any task delegated. In `Chat`, the
title given at POST `/conversations` and the `updated_at` that `addMessage` writes in a
second statement are left out; no property depends on either. Python's consumer is
the reason why an entry may be `elsewhere`, nothing more.

Tasks are created in the initial state: creation, dependencies, dispatch
(`requestTask`, `dispatch`) and the scores of `route` are planned. Two legal calls make
a cycle of dependencies, but nothing reads them. Of the web application the team,
approvals, login and overview pages and `createAgent` of the my-agent page are left
out: one request per click, after which the lists are loaded again. Creation of
agents and projects and the audit log are single inserts, the sandbox has no state
between requests, the tool policy and the permissions are a table. Signatures and
hashes are taken to be perfect.

## 7. Plan

1. Tasks: creation, dependencies and manual status changes; dispatch of requests;
   two runs on one task in the runs that check liveness; a composition of `Devices` and `ToolApproval` for device
   tools.
2. Pure modules: routing scores of `OrchestratorService.route`, the tool policy and
   the desktop agent's policy, against reference definitions.
3. The team page over `TeamOrchestrator`.
