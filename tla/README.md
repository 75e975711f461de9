# A TLA+ verification of domainry-agent

domainry-agent runs conversations with a language model: it queues the turns of
many users, executes them on workers that may crash, lets the model call tools
that change the outside world, and asks the user before it does.  This
directory holds TLA+ modules translated from the Go code, the TLC runs that
check them on small instances, and proofs checked by TLAPS.

## 1. Inventory

Paths are relative to `src/internal`; `db/` stands for
`infrastructure/persistence/database/agent/`, `app/` for `application/`.

| Part | State | Operations | What makes it hard |
|---|---|---|---|
| Run queue and leases (`db/conversation_run_store.go`, `app/conversation_service.go`) | conversation, run and message rows; a worker's claim in memory | Enqueue, Claim, Heartbeat, AppendDelta, Finish, Cancel, Resume, Delete | leases expire under live workers; every write is fenced; two workers of one instance share a lease owner |
| Capacity guard (`db/conversation_capacity_store.go`) | counts over runs and tasks | queue and running checks | several entry paths share a limit |
| Interactions (`db/conversation_interaction_store.go`, `db/conversation_operation_scope_store.go`) | interaction records and the copy in the run row | WaitExecution, RespondExecution, ExpireInteractions | expiry, answer, cancel and resume race; two copies of one fact |
| Tool ledger (`db/conversation_execution_store.go`, `db/conversation_cancellation_store.go`, `app/conversation_execution.go`) | steps, tool calls with receipts | ExecutionStep, CompleteExecutionStep, BeginExecutionTool, FinishExecutionTool | crash between an effect and its receipt; late receipts of a cancelled run |
| Background tasks (`db/conversation_task_store.go`, `app/conversation_tasks.go`) | task rows next to runs | create, launch, cancel, resume, finish | task and run are two rows that must move together |
| Model attempts (`db/conversation_model_attempt_store.go`, `app/conversation_model_retry.go`) | attempts inside the run | begin, fail, complete | retry windows across a reclaim |
| Work budget (`db/conversation_work_budget_store.go`) | ledger of a delegation tree | admit, reserve, start, complete, release, prune | reservations of dead claims |
| Delegations, transfer, peer messages, external agents (`db/conversation_delegation_store.go`, `..._transfer_store.go`, `..._peer_inbox_store.go`, `..._external_agent_store.go`) | delegation rows, messages, external claims | create, update, transfer, deliver, claim, report | changes race the receiver's run; repeated reports |
| Follow-up outbox (`db/conversation_follow_up_store.go`) | leased events | enqueue, claim, complete, release | delivered but not marked |
| Plans, completion, agreements, verification, dependencies, disagreements | versioned records of a task | apply, review, supersede | a brief changes under a plan |
| Agent task runs (`db/agent_task_*_store.go`, `db/agent_tool_call_store.go`, `app/task_*_service.go`) | task run row, tool invocations, budget | claim, heartbeat, save, cancel, override, tool calls | a second engine whose updates are not all one transaction |
| Interactive runs and proposals | revisioned run rows | save, hand off to a task | compare-and-set between dialogs |
| Attachments, artifacts and knowledge documents | none here: the stores forward to the knowledge module | forwarded calls | outside this repository |
| Subject and data lifecycle | all of the above | list, erase | erasure against running work |
| Providers, transport, remote client, assembly, front end | none of their own | | I/O |

`PROJECT.json` lists every part with its status, and the hazards with the line
where each one bites.

## 2. Modules

**ConversationRun** is the run engine.  `conv`, `run` and `task` are the rows
of three tables, `claim` is what each worker remembers.  A store method runs in
one serializable transaction, so it is one action: `Enqueue`, `Update`,
`Delete`, `Claim`, `Heartbeat`, `AppendDelta`, `FinishCompleted` and
`FinishFailed` (Finish), `WaitExecution`, `ResolveReconciliation`, `Respond`,
`ExpireInteraction`, `Cancel` and `Resume` (transitionRun), `StartTask`,
`CancelQueuedTask`, `ResumeQueuedTask`, `LaunchTask`.  `Abandon` is the end of a
worker's memory of its claim: a crash, a shutdown, or an error that makes
`execute` return.  `Tick` is time.  Run numbers stand for the
`(created_at, run_id)` order of the claim scan.  Text is abstracted to the fence
of the claim that produced it, which is what the draft and answer properties
need.

**ConversationTools** extends it with the execution ledger: `steps`, `ledger`,
`gate` and `recon` (interaction records of a call), `hand` (a worker's progress
inside a call), and the outside world as `wire` and `done`.  Its actions
conjoin the action of ConversationRun with the ledger part of the same
transaction, so "the ledger changes nothing about the life cycle" is a
refinement (`RefinesConversationRun`).  `Script` is the sequence of calls the
model asks for: step, batch inside the step (calls of a batch are parallel
reads), read or write, idempotency `key` or `reconcile`, and whether the user
is asked first.  The tool host is external and modelled from its use: it may
execute a request at any later time, its reply may be lost, it deduplicates by
key only for tools that declare it, and its reconciliation reports success only
of an effect it applied.

**AgentTask** is the second engine, which executes the tasks of workflows.  A row
of `_agent_task_runs` is a few columns and a payload that repeats them, so `run`
has both (`run.status`, `run.doc.status`).  Here a handler is not one
transaction: Heartbeat is three statements, a cancellation reads and saves
separately, a tool call reads the run, reserves, calls the host, closes the
call and may then save the run it read first.  Each statement or transaction is
an action, and `job`, `beat`, `call` and `cancel` hold what a process read
earlier.  Handlers that save under a compare-and-set of the revision
(approvals, overrides, operator actions, the delivery mark) are one action;
`RevisionIdentifies` is the fact that allows it.  `notes` are callbacks to the
workflow in flight, `told` what it accepted (the workflow is external), `invoked`
counts the calls handed to the tool host.  Every reading of the clock is later than
the one before; the payload keeps it, the column `updated_at` its millisecond, and
`Resolution` readings fall into one.  Only RequestCancel compares the column, so
only there does a shared millisecond matter.  `run.lost` is no column: it records
that a cancellation was saved over a row it had not read, after which the
properties about the row make no promise.  `FailClaim` reads the clock twice, as the
code does: `late` is a process that stalls in between for longer than the backoff.
Rows do not refer to each other, so one is modelled.

**FencedJob** is no component but what two of them promise: a job has a fence,
every taking raises it, a holder remembers the fence it was given for as long as
it likes, and only the holder of the latest one may end the job or put it down; a
job that is done is never taken again.  ConversationRun (`Queue`) and FollowUp
(`Outbox`) implement it, each through a mapping of its statuses to the phases of
a job and of its workers' memories to remembered claims.  Leases, clocks and
instances are not in it: the mapping hides them, so that a step of time is a
stutter, and a claim of an expired run is an ordinary taking.

**FollowUp** is the follow-up of scheduled tasks.  The transaction that ends, stops
or suspends the run of a window also writes the plan's state and the outbox:
`FinishWithReport`, `FinishWithoutReport`, `Wait`, `Cancel`; `Continue`, `Lapse` and
`Resume` change the run only.  Each instance has a publisher loop of three steps
(`ClaimEvent`; `PublishAccepted` or `PublishRefused`; `CompleteEvent` or
`ReleaseEvent`), any of which may be the last one it takes (`Abandon`).  The
notification service is external; it may have accepted what the loop believes
refused.  `history` is only for the properties.

**ModelStep** is the loop of `generateConversationExecution` around one model call
and the two records it keeps: the attempts on the run and the work budget that
the delegations of one root conversation share.  Each transaction of the loop is
an action (`Reserve`, `Begin`, `Start`, `FailAttempt`, `Save`, `Release`), as is the
provider's answer; a worker's `pc` is its place in the loop.  Reservations of lost
claims are settled by the next `Reserve` of any run (`Stale`, `Abandoned`,
`Pruned`).  A claim number is both the fence and the run's attempt count, which
change together.

**Delegation** is one delegation between two agents: its row `d`, one task per
assignment, the runs of those tasks, an external agent's sessions, and messages
to the receiver.  It composes handlers of nine stores, since each of them writes
several of these rows.  `RunStep` has the run's handlers with their effects on task
and delegation, `Decision` the source's and the receiver's decisions, `PeerStep`
the external agent's and the messages' handlers.  `working` is the outside world:
the sessions in which an external agent is still at work, whatever the rows say.  A
session may report as long as its task's execution is running or asked to stop,
also after it has ended: its reports may be repeated and late.

The theorems are in modules of their own.  **ConversationRunProofs** is about the
messages and the client ids of a conversation, for steps of the shapes that
**ConversationShapes** defines, and about the life cycle of a run, the columns of its
row and its task; **ConversationTheorems** adds the capacity limits, shows that every
step has one of these shapes, draws the conclusions, and shows that the run queue is
a fenced queue.
**ConversationToolsProofs**, **AgentTaskProofs**, **FencedJobProofs**,
**FollowUpProofs**, **ModelStepProofs** and **DelegationProofs** are about the modules
they are named after.  The modules whose names begin with **MC** are the instances
for TLC.

Definitions marked `(mutant)` are faulty variants of the definition that follows
them.  They are not part of any specification: each is substituted for its
original to confirm that some property notices.

### What is abstracted

- An authorization refusal is a call that does not happen: no state changes.
- Runs appear in three modules at three grains: ConversationRun has claims, leases
  and questions, ModelStep adds what happens inside a claim, Delegation has many
  runs of one piece of work and knows of a claim only that it is current.
- Delegation: budgets, capacities, participants, subjects and authorization are
  refusals; disagreements and delivery reviews, the source's inbox, notices and
  interjection into a running step are left out.  `Settle` stands for a receipt,
  an inspection or a reconciliation of an unknown write.
- ModelStep: a reservation always asks for the same bounds; cost is one more sum of
  the same kind; the tool-less reply uses the same attempts without a budget.
- FollowUp: an observation stands for its canonical hash.
- The runs of ConversationRun are of the default agent.  Claim also passes over a
  queued run of another agent that has all the running turns it may have
  (`peerAgentCapacity`).
- The order in which queued tasks are launched is free; the code's order is one
  of the orders allowed.
- Every run asks for the same `Script`; arguments and results are a success, a
  failure or unknown.
- Agent tasks: attachments, credentials, authorization evidence and the provider's
  protocol are left out; a provider ends in a result, an error or never.  A stamp is
  read in the step that writes it.  One
  cancellation and one tool request are in flight at a time.  The operator's
  `reconcile` is unreachable: no code sets the `ExternalRunID` it requires.
- A serializable transaction is atomic; the database itself is not modelled.

## 3. Runs

| Run | Checks |
|---|---|
| `lifecycle` | one conversation, two runs (foreground or background), two workers of one instance: exclusive claims, one answer per run, no interleaved turns, drafts of one claim, limits, task and run agreement, idempotent sends, and that the queue implements FencedJob |
| `live` | queued runs are taken, claims end |
| `tools` | a question, a confirmed write deduplicated by key and an unconfirmed one that is reconciled: no effect without approval, at most once and in order, final receipts, unknown outcomes are held, a closed question ends its run, the two copies of an interaction agree |
| `agent_task` | two workers, a tool request, a cancellation, an operator: saves of stale copies never make payload and columns disagree, break the ledger or reopen an ended run, but for a cancellation that misses a write of its millisecond; a run that ends owes its callback, which stays pending until that end is told |
| `follow_up` | two windows of one plan, two publishers: the outbox holds exactly what the outcomes call for, implements FencedJob and drains |
| `model_step` | two delegated runs, two workers, one budget that their calls can exhaust: never overcommitted, adds up with the stored results, reservations of live claims survive, attempts are numbered in order |
| `delegation` | a local and an external agent, two assignments, two agreements, two runs, a message: rows agree, accepted work is settled, one session at a time, messages stay current |
| `task_follows_run`, `agent_task_budget`, `agent_task_regress`, `delegation_resume`, `delegation_external` | expected to fail, see Findings |

**Bounds.**  `MaxRuns` bounds runs ever created, `MaxDeltas` streamed pieces,
`MaxFence` the fence below which a lease may still be lost and a run may still
wait or be resumed (the claim then in force can always finish).  The hazards
need at most two claims of one run, a stale and a live one, plus a cancel or
resume between them: `MaxFence` 3 gives that with two runs and both workers, and
10 gives the tools run its waits, answers, a crash and a takeover.  In
AgentTask `MaxClock` bounds the writes of one run: with 5, a run can be claimed,
heartbeat, reserve a call and end while a cancellation or an approval waits, or
be retried and claimed a second time; `Resolution` 2 lets a write share its
millisecond with the one before or the one after it; `MaxFence` 2 bounds the claims, `MaxToolCalls` and `MaxCostUnits` 1 put the
budget at its limit with the first call.  In FollowUp `MaxAsks` and `MaxHistory` bound what the windows do (a question, and
two outcomes, which is what a changed or completed baseline needs; once both are
recorded the windows stand still and the publishers go on) and `MaxFaults`
the claims that are lost or refused: with 2, an event can be taken by a second
publisher and by a third claim while the first is still calling.  What needs three
outcomes of one plan, such as a completion between two changes, is left to
`OutboxIsExact`.  In ModelStep two
claims of each run give every reservation a successor, and a budget of two calls
is exhausted by one saved and one abandoned; a call takes its whole time there and
any part of its tokens.  In Delegation two assignments, two runs, two agreements
and two external attempts allow a change or a transfer, and resumes before and after
it, with a stale run or session left from before; for longer histories there are the
proofs of section 4, as there are for calls that take part of their time.  Deadlock is
not checked: with the bounds used up and every run ended the system is at rest.

**Symmetry** is used over the two workers in `lifecycle`, `tools` and `agent_task`,
in `lifecycle` over the client message ids too, and in `model_step` over runs and
workers; their properties are state and step predicates that name none of them, and
the workers of `lifecycle` and of `tools` belong to one instance.

**Fairness** (`live`): worker loops poll Claim every second; `execute` always
ends a claim (a run timeout cancels the context, Finish or the abandonment
follows); the interaction sweep and the task loop poll; time passes.  Nothing is
assumed of users: answers, cancels and resumes may never come.  `follow_up`: each
publisher loop polls at least every second and gives its call a deadline of 30
seconds, so its steps are weakly fair; leases and delays run out, since time
passes.  Faults are bounded by `MaxFaults`: a service that refuses for ever, or
claims that are always lost, would keep an event for ever, as the code intends.

### Findings

- `TaskFollowsItsRun`: `docs/testing-2026-09-12-l03-task-control.md:11` says that a
  started task follows the state of its run in the same transaction.
  RespondExecution with a rejection, and expireInteraction, end the run without
  `finishConversationTask`, so the task stays `running`.
  `TaskAndRunAgree` states what does hold.
- `BudgetNeverReplenished`: Heartbeat writes back a payload it read in an earlier
  statement.  A tool reservation committed in between is lost, and the host gets
  more calls than the budget.  `LedgerWithinBudget` states what does hold: the
  stored ledger never shows more than the budget.
- `ToldRunsStayEnded`: `docs/backend-requirements-prd.md:32` says that state transitions
  use the revision or the lease and that terminal states cannot regress.
  RequestCancel reads the run and saves it whole where `updated_at` is still the
  millisecond it read.  If a worker completes the run in that millisecond, and the
  workflow accepts the callback, the cancellation puts the run back to `running`.
  `TerminalUntilRetried` states what holds of every other step, and `ToldStayEnded`
  proves the property when no two readings share a millisecond.
- `OnlyTheLatestRunIsOpen`: `docs/conversations.md:58` says that a failed or cancelled
  run can be resumed only while it is the latest.  `resumeConversationTask` lets
  any run pass while its task is running, so an earlier run of the task is queued
  beside the later one; as the task names the other run, it can then neither
  finish nor be cancelled, and keeps the delegation from being accepted or
  transferred.  `AcceptedIsSettled` still holds.
- `OneKindExecutes`: `docs/conversations.md:125` says that local workers skip external
  tasks on every path, so that local and external do not execute at the same time.
  They recognise one by its `ExternalExecution`, which a transfer to an external
  agent does not set, so a local worker runs it.  And `docs/testing-2026-09-13-c04-transfer.md:7`
  and `docs/agent-core-capabilities-todo.md:180` require the old execution to have ended
  or been verified before a transfer; the transfer looks at runs only, so an external
  session of the former assignment goes on beside the new run.

Two more disagreements have no run of their own.  Every run that ended should be
called back (`docs/backend-requirements-prd.md:36`), but RequestCancel ending a run that
no worker has, and FailAttempt making a dead letter of a late retry, leave no pending
callback: `TerminalOwesCallback` excepts exactly these two.  And
`docs/agent-core-capabilities-todo.md:25` and the comment at
`app/conversation_execution.go:324` say that a reclaimed run waits out a stored retry
window; attempts are looked up by the run's attempt number, which the claim has just
raised, so no claim ever finds one (`ClaimsMissTheWindow`).  `AttemptsInOrder` states
what holds within one claim.

## 4. Proofs

For every choice of conversations, users, workers, instances, limits and bounds
that satisfies `ConversationRunConstants`, of scripts that satisfy
`ScriptAssumption`, of workers, gateways, tools and limits of an agent task that
satisfy `AgentTaskAssumption`, of plans, windows, observations and
instances that satisfies `FollowUpConstants`, of any finite set of runs that share a
budget, with the limits of `ModelStepConstants`, of agents, messages and bounds that
satisfies `DelegationConstants`, and of jobs and holders:

| Theorem | States |
|---|---|
| `TypeCorrect` | `Spec => []TypeOK` |
| `NoOrphanRuns` | `Spec => []RunsBelong` |
| `OneForegroundRun` | `Spec => []ActiveRunIsTheOpenRun` |
| `FencesAreUnique` | `Spec => []ClaimFences` |
| `MutualExclusion` | `Spec => []SingleHolder` |
| `CompletionIsFinal` | `Spec => CompletedIsFinal` |
| `FencesOnlyGrow` | `Spec => FenceSeparatesClaims` |
| `OneAnswer` | `Spec => []OneAnswerPerRun` |
| `TurnsDoNotInterleave` | `Spec => []ForegroundTurnsDoNotInterleave` |
| `DraftsAreOfOneClaim` | `Spec => []DraftFromOneClaim` |
| `ClosedQuestionsEnd` | `Spec => []ClosedQuestionEndsRun` |
| `TasksAgree` | `Spec => []TaskAndRunAgree` |
| `SendsAreIdempotent` | `Spec => []SendIsIdempotent` |
| `CapacityHolds` | `Spec => []CapacityRespected` |
| `ToolsImplementRun` | `ToolsSpec => RefinesConversationRun` |
| `ToolsKeepRunsSafe` | `SingleHolder` and `ActiveRunIsTheOpenRun` hold with tools |
| `ToolsTypeCorrect` | `ToolsSpec => []ToolsTypeOK` |
| `AtMostOneEffect` | `ToolsSpec => []EffectAtMostOnce` |
| `EffectsAreApproved` | `ToolsSpec => []NoEffectWithoutApproval` |
| `EffectsFollowTheScript` | `ToolsSpec => []EffectsInOrder` |
| `SuccessIsReal` | `ToolsSpec => []SuccessMeansEffect` |
| `CopiesAgree` | `ToolsSpec => []InteractionCopiesAgree` |
| `OutcomesAreHeld` | `ToolsSpec => []UnknownOutcomesAreHeld` |
| `CompletedReceiptsStay` | `ToolsSpec => ReceiptsAreFinal` |
| AgentTask's `TypeCorrect` | `Spec => []TypeOK` |
| `BudgetKept` | AgentTask: `Spec => []LedgerWithinBudget` |
| `CallbackOwed` | AgentTask: `Spec => TerminalOwesCallback` |
| `ColumnsAgree` | AgentTask: `Spec => []ColumnsMatchPayload` |
| `EndsStay` | AgentTask: `Spec => TerminalUntilRetried` |
| `RevisionsIdentify` | AgentTask: `Spec => RevisionIdentifies` |
| `ToldStayEnded` | AgentTask, with `Resolution = 1`: `Spec => []ToldRunsStayEnded` |
| `ClaimsIdentified` | FencedJob: `Spec => []IInv` |
| `Exclusion`, `Finality` | FencedJob: `Spec => []OneCurrentHolder`, `Spec => DoneIsFinal` |
| `RunQueueIsFenced` | ConversationRun: `Spec => ImplementsFencedJob` |
| `RunQueueIsExclusive` | ConversationRun: `Spec => []Queue!OneCurrentHolder /\ Queue!DoneIsFinal` |
| FollowUp's `TypeCorrect` | `Spec => []TypeOK` |
| `OutboxIsFenced` | FollowUp: `Spec => ImplementsFencedJob` |
| `OutboxIsExact` | FollowUp: `Spec => []OutboxMatchesHistory` |
| `OneSettler` | FollowUp: `Spec => []Outbox!OneCurrentHolder` |
| ModelStep's `TypeCorrect` | `Spec => []TypeOK` |
| ModelStep's `BudgetKept` | `Spec => []BudgetNeverOvercommitted` |
| `LedgerAddsUp` | ModelStep: `Spec => []LedgerMatchesResults` |
| `ReservationKept` | ModelStep: `Spec => []ReservationSurvives` |
| `AttemptsOrdered` | ModelStep: `Spec => []AttemptsInOrder` |
| `ClaimsMissTheWindow` | ModelStep: `Spec => []NoWindowFound` |
| `DelegationTypes` | Delegation: `Spec => []TypeOK` |
| `TaskFollowsDelegation` | Delegation: `Spec => []TaskMatchesDelegation` |
| `AcceptanceIsSettled` | Delegation: `Spec => []AcceptedIsSettled` |
| `SessionsExclude` | Delegation: `Spec => []OneSessionPerTask` |
| `MessagesAlwaysCurrent` | Delegation: `Spec => []MessagesStayCurrent` |

The inductive invariant of the life cycle is `Inv`: type correctness and `RunsBelong` together
(an action indexes `UserOf` and `conv` by a run's conversation, so types are not
inductive without it), `ActiveRunIsTheOpenRun`, and `ClaimFences`.  `SingleHolder`
is not inductive: it follows from `ClaimFences`, because two workers that pass
the claimed check both remember the row's fence.  Each action has a lemma that
says which rows it changes and how, and one lemma shows that any such change
preserves the invariant.

`HistoryInv` (`ConversationTheorems`) adds what the other properties need.
`Rows`: a run that waits has a pending question of the kind it waits for, a closed
question belongs to an ended run, and the draft of a running run is of its fence.  `Executions`: a background
run that has not completed is the one its task names, and a running task has a run;
this is stronger than `TaskAndRunAgree` because a cancel or a finish finds the task
through the run, and a resume the other way round.  `History`: every message is of
a run of its conversation, a run has at most one answer and has one when it
completed, its input is a message of its own, and since the active run's first
message no other foreground run spoke (`ActiveIsLatest`).  The last one is why turns
do not interleave: only the active run posts, and Resume makes a run active only
when the last message is its own input.  `CapacityRespected` is inductive
with types alone, given that each step adds at most one run or task to a queue and
checks the limit unless it only moves a task into a run; that is a fact about
cardinalities, proved once (`NoneEnters` and the lemmas on it).  An action is first
shown to have a shape (`Rests`, `Moves`, `Answers`, `Replies`, `Starts`, `Removes`), and
each conjunct of `History` is preserved by the shapes, so that the actions do not
each repeat the argument.

The refinement of ConversationRun by ConversationTools needs no mapping, since the
variables are shared: each tool action implies an action of ConversationRun or
leaves its variables alone.  The theorems of ConversationRun therefore hold of the
system with tools, and the ledger's invariant may assume `Sound /\ Rows`.  That
invariant, `ToolsInv`, says of each worker busy with a call that it has a claim and
began the call (`HandsOK`); that a call begins only when its question is answered and
the calls of earlier batches are settled (`CallsOK`); that what reached the host was
begun (`RequestsOK`); that a tool without deduplication is invoked by one worker at
most, and never after a request for it went out, while the host applies a key once
(`Once`); and that the run's status agrees with its calls and its question with the
record of the call (`QuestionsOK`).  `Once` is the heart of "at most once": neither
the ledger nor the host could promise it alone.  The clause that a run that waits
for its user has no call under way is needed for a cancel while waiting, which
marks nothing.  `ScriptAssumption` says that a call that only asks the user for
input writes nothing, as `ask_user`.

AgentTask is proved in layers, because only part of what it promises depends on the
resolution of its timestamps.  `Ledgers` holds whatever was saved over what: every
copy of the payload that a worker, a heartbeat, a tool request or a cancellation
holds is within budget (`Copies`, `LedgerOK`), so it does not matter which of them is
saved last; a payload that is not of a running row has the row's status
(`StatusFits`), and a callback is marked only after one was accepted (`Told`).
`EndsStay` and `RevisionsIdentify` need no more.  `Fits` holds until a cancellation is
saved over a row it had not read.  It says that a copy with the row's fence agrees
with a running row, also in the operators' keys, that a heartbeat's copy is no older
than its fence (so the lease predicate on the fence is enough when it writes back what
it read), and that a cancellation whose full `updated_at` is still the row's read what
it replaces (`CopyFits`, `BeatFits`, `CancelFits`).  With `Resolution` 1 the guard on the
millisecond is a guard on the full `updated_at`, so nothing is ever lost
(`NothingLost`).  `Speaks` says that until an operator acts every callback in flight has
the status of the run, and that a run the workflow was told of has ended: this is
what ties the mark of a delivery to the end it delivers.  As for messages, an action
is first shown to have a shape (`Rests`, `Edits`, `Saves`, `Takes`, `Extends`,
`Overwrites`, `CancelsRun`), and the invariants are preserved by shapes; `Follows` and
`Reported` say what an edit and a worker's save do to the callback.  What a ledger costs
is computed by a loop; that its totals exist, and grow by one cost with each entry
(`CostOfAppend`), is shown through the least index at which they would not.

FencedJob's inductive invariant says that no remembered fence is ahead of the job's
and that no two holders remember the same fence of one job; exclusion follows as
above, and finality because nothing takes a job that is done.  The two refinements
have the same shape.  `Queued` and `Memories` (`ConversationTheorems`,
`FollowUpProofs`) are the abstract variables as state functions; one lemma per
abstract action says when a change of
the two is that action (`IsOffer`, `IsTake`, `IsPutDown`, ...), and one lemma per
concrete action says which of these changes it makes.  The run queue needs
`ConversationRunProofs`' invariant for the types and for the fact that a deleted
conversation leaves no run behind; the outbox needs its types only.  The theorems
about FencedJob are then instantiated with the mapping, which gives the two
queues exclusion (and the run queue finality) without another induction.

`OutboxIsExact` compares what the code decides from one state row per plan with what
the whole history of the plan calls for.  `PlanOK` ties the two: the row says
`completed` exactly when some outcome was, and until then holds what the last report
saw.  `PlanKept` then shows that one more outcome adds to the outbox exactly the
event (or none) that it adds to `Expected(history)`.  Each transaction that records
an outcome is an instance of that lemma, and the publisher's steps add or withdraw
nothing.

The invariants of ModelStep are proved together too.  `RowOK` says of a run that its
reservation is of a claim that was made and that a lease belongs to a running run;
`WorkerOK` that a worker remembers such a claim, and, while the row still carries it
(`OwnOK`), that its reservation and its attempt are there.  No two workers remember
one claim of a run (`Unique`), so a step of one leaves what the others rely on alone
(`WorkersGo`); the one exception, the prune, takes only reservations that are stale,
and that of a worker which has its claim is not (`WorkerKept`).  `Kept` bounds the
claims of the attempts and the numbers of those that may be repeated; it gives
`AttemptsInOrder` its limit, and it shows that a new claim finds no attempt of its
own (`NoWindow`).  Hence `ClaimsMissTheWindow`: a stored retry window is passed over by
every claim of every instance.  The budget is kept because `Fits` counts all reservations the prune
leaves, and because a call is charged at most what its reservation, dropped in the
same transaction, allowed for (`DropKeepsBudget`).  That the ledger adds up is about
sums over all runs (`Books`, `Paid`); that the library's sum exists, grows with one
entry (`SumGrows`) and distributes (`SumOfSums`) is shown through the smallest set
for which it would not.

The invariants of Delegation are proved together, since none is inductive alone.
`IInv` adds to them what ties the rows to each other.  A run's agreement is at most
its task's, and the task's at most the delegation's (`RunFits`, `TaskFits`): a run
resumed under the delegation's agreement therefore finds a task of that agreement.
`StatusFits` extends the agreement clause to failed work, which may be resumed.
Runs and sessions belong to assignments made so far, so a transfer starts with
neither.  A session at work is that of the latest attempt, and its stop is not
acknowledged (`SessionFits`): a task tried again after an acknowledged stop has no
session left, whatever was reported before and repeated after it.  `FailureFits`
is proved on top of `IInv`: a delegation fails with its task, or by the failure
report of a former assignment's session, which no later step takes back.  There is one lemma per action; stopping a task, starting a run,
ending one, an external report, superseding and writing a message are lemmas that
several actions share.

Only model-checked:

- the liveness properties (`QueuedRunsAreTaken`, `ClaimsEnd`, `OutboxDrains`): fairness
  and ENABLED are outside this prover;
- the properties of the runs that are expected to fail, which do not hold (but for
  `ToldRunsStayEnded` with `Resolution` 1).

## 5. Not modelled

- **Overlapping reads of one batch.**  ConversationTools has them (`Script` entries
  with the same batch), but no instance does: with a question and two writes beside
  them the ledger passes what TLC can explore in minutes.
- **Several runs of AgentTask**: recovery looks at a page of 100 terminal runs and
  workers scan by scope, which one run cannot show; the direct execution service.
- **Tool-less replies and costs** in ModelStep; admission of a delegation to a
  budget tree.
- **Several delegations at once**: a change upstream reaches the modelled delegation
  as an action of its environment.  Disagreements, delivery reviews, participants
  and subject exit.
- **Document work**: attachments, artifacts, knowledge documents and their index and
  cleanup workers.  The stores here only forward ("Knowledge owns the data
  implementation."); the leases and transactions are in another repository.
- **Plans, completion, interactive runs, proposals, erasure**: versioned rows that
  are compared and set, each in one transaction.
- **Verification, citations, context, skills, calculation**: pure computations over
  text and records, whose properties would be about wording and parsing.
- **Providers, transport, remote client, assembly, front end, database engines**: I/O
  with no durable state of their own.  Providers, tool hosts, the workflow and the
  notification service appear as nondeterministic answers.

## 6. Plan

1. Plans and completion; erasure against running work.
2. AgentTask with several runs and the page limits of recovery.
3. Proofs about what the first two items add.
