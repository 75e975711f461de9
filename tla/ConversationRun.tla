--------------------------- MODULE ConversationRun ---------------------------
(***************************************************************************)
(* The durable run queue of a conversation: rows of _agent_conversations,  *)
(* _agent_conversation_runs, _agent_conversation_messages and              *)
(* _agent_conversation_tasks, the workers that claim runs under a fenced   *)
(* lease, and the callers that send, answer, cancel, resume, archive and   *)
(* delete.  Every store method is one serializable transaction             *)
(* (ConversationStore.transaction), hence one action here; what is         *)
(* interleaved is the sequence of transactions of different workers and    *)
(* callers, and a worker's memory of its claim, which may be stale.        *)
(*                                                                         *)
(* Run numbers stand for the (created_at, run_id) order in which Claim     *)
(* scans candidates.  lease counts the ticks until lease_expires_at.  A    *)
(* piece of generated text is represented by the fence of the claim that   *)
(* produced it, a user message by fence 0.                                 *)
(***************************************************************************)
EXTENDS Integers, Sequences, FiniteSets

CONSTANTS
  Conversations,    \* conversation ids
  Users,            \* owners (runtime, workspace, user) of one workspace
  UserOf,           \* the owner of each conversation
  Tasks,            \* background task ids
  TaskConv,         \* the source conversation of each task
  Workers,          \* worker goroutines of all service instances
  Services,         \* service instances
  OwnerOf,          \* the lease owner a worker writes: its instance's id
  ClientIDs,        \* client_message_id values callers send
  Nil,              \* an empty string or nil pointer of a row
  MaxRuns,          \* bound: runs ever created
  MaxFence,         \* bound: fence below which a lease may still be lost and
                    \* a run may still wait or be resumed
  MaxDeltas,        \* bound: streamed pieces of one answer
  LeaseTTL,         \* ConversationOptions.Lease, in ticks
  MaxQueuedPerUser, MaxQueuedPerWorkspace,    \* ConversationCapacityLimits
  MaxRunningPerUser, MaxRunningPerWorkspace

ASSUME ConversationRunConstants ==
  /\ UserOf \in [Conversations -> Users]
  /\ TaskConv \in [Tasks -> Conversations]
  /\ OwnerOf \in [Workers -> Services]
  /\ Nil \notin Conversations \cup Tasks \cup Services \cup ClientIDs
  /\ IsFiniteSet(Tasks)
  /\ MaxRuns \in Nat /\ MaxFence \in Nat /\ MaxDeltas \in Nat
  /\ LeaseTTL \in Nat \ {0}
  /\ MaxQueuedPerUser \in Nat /\ MaxQueuedPerWorkspace \in Nat
  /\ MaxRunningPerUser \in Nat /\ MaxRunningPerWorkspace \in Nat

VARIABLES
  conv,    \* conversation rows and their messages
  run,     \* run rows, with the run's current interaction
  task,    \* background task rows
  claim    \* the ConversationClaim each worker holds in memory

vars == <<conv, run, task, claim>>

Runs == 1..MaxRuns
NoRun == 0

Waiting == {"waiting_user", "waiting_confirmation", "needs_reconciliation"}
Terminal == {"completed", "failed", "cancelled"}
Open == {"queued", "running"} \cup Waiting
\* "none": not created yet; "deleted": row removed with its conversation.
RunStatus == Open \cup Terminal \cup {"none", "deleted"}
TaskStatus == {"none", "queued", "running", "awaiting_review", "completed",
               "failed", "cancelled", "deleted"}

Kinds == {"input", "confirmation", "reconciliation"}
Closed == {"cancelled", "expired", "rejected"}
NoInteraction == [kind |-> "none", status |-> "none", due |-> FALSE]
Interactions == [kind : Kinds \cup {"none"},
                 status : {"none", "pending", "answered", "approved",
                           "resolved"} \cup Closed,
                 due : BOOLEAN]
Pending(kind) == [kind |-> kind, status |-> "pending", due |-> FALSE]

NoClaim == [run |-> NoRun, fence |-> 0, sent |-> 0]

Message(r, role, by) == [run |-> r, role |-> role, by |-> by]
LastSeq(c) == Len(conv[c].msgs)

Messages == [run : Runs, role : {"user", "assistant"}, by : Nat]
ConvRows == [active : Runs \cup {NoRun}, archived : BOOLEAN, gone : BOOLEAN,
             msgs : Seq(Messages)]
RunRows == [conv : Conversations \cup {Nil}, task : Tasks \cup {Nil},
            client : ClientIDs \cup {Nil}, status : RunStatus, fence : Nat,
            owner : Services \cup {Nil}, lease : 0..LeaseTTL, input : Nat,
            draft : Seq(Nat), inter : Interactions]
TaskRows == [status : TaskStatus, run : Runs \cup {NoRun}]
Claims == [run : Runs \cup {NoRun}, fence : Nat, sent : Nat]

\* Every row holds the values its columns can hold: a run's status is one the
\* service knows, its lease never outlives the configured duration, and the
\* active run of a conversation and the run of a task are real run ids.
TypeOK ==
  /\ conv \in [Conversations -> ConvRows]
  /\ run \in [Runs -> RunRows]
  /\ task \in [Tasks -> TaskRows]
  /\ claim \in [Workers -> Claims]

-----------------------------------------------------------------------------
(* Reads shared by the transactions.                                       *)

Exists(r) == run[r].status \notin {"none", "deleted"}
Background(r) == run[r].task # Nil
Fresh(r) == run[r].status = "none" /\ \A q \in Runs : q < r => run[q].status # "none"
UserRuns(u, status) ==
  {r \in Runs : run[r].status = status /\ UserOf[run[r].conv] = u}
UserTasks(u) == {t \in Tasks : task[t].status = "queued" /\ UserOf[TaskConv[t]] = u}

\* checkConversationQueueCapacity: queued runs and queued tasks together.
QueueHasRoom(u) ==
  /\ Cardinality(UserRuns(u, "queued")) + Cardinality(UserTasks(u)) < MaxQueuedPerUser
  /\ Cardinality({r \in Runs : run[r].status = "queued"})
       + Cardinality({t \in Tasks : task[t].status = "queued"}) < MaxQueuedPerWorkspace

\* (mutant) off by one.
RunningHasAlmostRoom(u) ==
  /\ Cardinality(UserRuns(u, "running")) <= MaxRunningPerUser
  /\ Cardinality({r \in Runs : run[r].status = "running"}) < MaxRunningPerWorkspace

\* checkConversationRunningCapacity.
RunningHasRoom(u) ==
  /\ Cardinality(UserRuns(u, "running")) < MaxRunningPerUser
  /\ Cardinality({r \in Runs : run[r].status = "running"}) < MaxRunningPerWorkspace

\* (mutant) the fence is not compared.
ClaimedByOwner(w) ==
  /\ claim[w].run \in Runs
  /\ LET row == run[claim[w].run] IN
       row.status = "running" /\ row.owner = OwnerOf[w] /\ row.lease > 0

\* claimed: the row still carries this claim's owner, fence and live lease.
Claimed(w) ==
  /\ claim[w].run \in Runs
  /\ LET row == run[claim[w].run] IN
       /\ row.status = "running"
       /\ row.owner = OwnerOf[w]
       /\ row.fence = claim[w].fence
       /\ row.lease > 0

\* A row released by its transaction: no owner, no lease, next fence.
Released(row, status) ==
  [row EXCEPT !.status = status, !.owner = Nil, !.lease = 0, !.fence = @ + 1]

\* A row whose worker finished: no owner, no lease.
Ended(row, status) == [row EXCEPT !.status = status, !.owner = Nil, !.lease = 0]

\* insertMessage at the next sequence number.
Post(row, message) == [row EXCEPT !.msgs = Append(@, message)]

\* closeRunInteraction.
CloseInteraction(inter, status) ==
  IF \/ inter.status = "pending"
     \/ status = "resolved" /\ inter.kind = "reconciliation" /\ inter.status = "cancelled"
  THEN [inter EXCEPT !.status = status]
  ELSE inter

\* (mutant) the conversation stays busy.
KeepActive(c, r) == conv

\* The conversation is idle again when r was its active run.
ClearActive(c, r) ==
  [conv EXCEPT ![c].active = IF @ = r THEN NoRun ELSE @]

\* A run row before its insertion, and as the three writers insert it.
NoRow == [conv |-> Nil, task |-> Nil, client |-> Nil, status |-> "none", fence |-> 0,
          owner |-> Nil, lease |-> 0, input |-> 0, draft |-> <<>>,
          inter |-> NoInteraction]
QueuedRow(c, t, m) ==
  [NoRow EXCEPT !.conv = c, !.task = t, !.client = m, !.status = "queued",
                !.input = LastSeq(c) + 1]

Init ==
  /\ conv = [c \in Conversations |->
               [active |-> NoRun, archived |-> FALSE, gone |-> FALSE, msgs |-> <<>>]]
  /\ run = [r \in Runs |-> NoRow]
  /\ task = [t \in Tasks |-> [status |-> "none", run |-> NoRun]]
  /\ claim = [w \in Workers |-> NoClaim]

-----------------------------------------------------------------------------
(* Callers: send, archive, delete.                                         *)

\* (mutant) a send is recognised only while its run is open.
SentAndOpen(c, m) ==
  \E r \in Runs : run[r].status \in Open /\ run[r].conv = c /\ run[r].client = m

\* The conversation has a run for this client_message_id.
Sent(c, m) == \E r \in Runs : Exists(r) /\ run[r].conv = c /\ run[r].client = m

\* Enqueue with a client_message_id the conversation has not seen; a repeated
\* one returns the earlier run and changes nothing.
Enqueue(c, m) ==
  /\ ~conv[c].gone /\ ~conv[c].archived
  /\ ~Sent(c, m)
  /\ conv[c].active = NoRun
  /\ QueueHasRoom(UserOf[c])
  /\ \E r \in Runs :
       /\ Fresh(r)
       /\ run' = [run EXCEPT ![r] = QueuedRow(c, Nil, m)]
       /\ conv' = [conv EXCEPT ![c] = [Post(conv[c], Message(r, "user", 0)) EXCEPT !.active = r]]
  /\ UNCHANGED <<task, claim>>

\* Update of the archived flag, refused while a run is active.
Update(c, archived) ==
  /\ ~conv[c].gone
  /\ conv[c].active = NoRun
  /\ conv[c].archived # archived
  /\ conv' = [conv EXCEPT ![c].archived = archived]
  /\ UNCHANGED <<run, task, claim>>

\* DeleteForRequest removes the conversation with its runs, messages,
\* interactions and tasks, whether or not one of its runs is active.
Delete(c) ==
  /\ ~conv[c].gone
  /\ conv' = [conv EXCEPT ![c] = [active |-> NoRun, archived |-> FALSE,
                                  gone |-> TRUE, msgs |-> <<>>]]
  /\ run' = [r \in Runs |-> IF Exists(r) /\ run[r].conv = c
                            THEN [NoRow EXCEPT !.status = "deleted"] ELSE run[r]]
  /\ task' = [t \in Tasks |-> IF TaskConv[t] = c /\ task[t].status # "none"
                              THEN [status |-> "deleted", run |-> NoRun] ELSE task[t]]
  /\ UNCHANGED claim

-----------------------------------------------------------------------------
(* Workers: claim, heartbeat, stream, finish, wait.                        *)

\* (mutant) a running row is never recovered.
QueuedOnly(r) == run[r].status = "queued"

\* Claim's candidates: queued runs, and running ones whose lease has expired.
Candidate(r) ==
  \/ run[r].status = "queued"
  \/ run[r].status = "running" /\ run[r].lease = 0

\* A queued candidate needs a running slot; a recovered one keeps its own.
\* The runs here are of the default agent, which peerAgentCapacity does not
\* limit.
Startable(r) ==
  Candidate(r) /\ (run[r].status = "queued" => RunningHasRoom(UserOf[run[r].conv]))

\* A foreground candidate that is not its conversation's active run makes the
\* whole Claim fail with run_superseded.
Superseded(r) == ~Background(r) /\ conv[run[r].conv].active # r

\* (mutants) the fence, or the old draft, is left as it was.
TakenSameFence(row, w) ==
  [row EXCEPT !.status = "running", !.owner = OwnerOf[w], !.lease = LeaseTTL,
              !.draft = <<>>]
TakenKeepsDraft(row, w) ==
  [row EXCEPT !.status = "running", !.owner = OwnerOf[w], !.lease = LeaseTTL,
              !.fence = @ + 1]

\* The row as Claim writes it.
Taken(row, w) ==
  [row EXCEPT !.status = "running", !.owner = OwnerOf[w], !.lease = LeaseTTL,
              !.fence = @ + 1, !.draft = <<>>]

\* Claim takes the oldest startable run.
Claim(w) ==
  /\ claim[w] = NoClaim
  /\ \E r \in Runs :
       /\ Startable(r)
       /\ \A q \in Runs : Startable(q) => r <= q
       /\ ~Superseded(r)
       /\ run' = [run EXCEPT ![r] = Taken(run[r], w)]
       /\ claim' = [claim EXCEPT ![w] = [run |-> r, fence |-> Taken(run[r], w).fence,
                                         sent |-> 0]]
  /\ UNCHANGED <<conv, task>>

Heartbeat(w) ==
  LET r == claim[w].run IN
  /\ Claimed(w)
  /\ run' = [run EXCEPT ![r] = [run[r] EXCEPT !.lease = LeaseTTL]]
  /\ UNCHANGED <<conv, task, claim>>

\* AppendDelta of the next piece of this attempt's answer.  The offset the
\* worker sends is the length of what it has streamed.
AppendDelta(w) ==
  LET r == claim[w].run IN
  /\ Claimed(w)
  /\ claim[w].sent < MaxDeltas
  /\ claim[w].sent = Len(run[r].draft)
  /\ run' = [run EXCEPT ![r] = [run[r] EXCEPT !.draft = Append(@, claim[w].fence)]]
  /\ claim' = [claim EXCEPT ![w].sent = @ + 1]
  /\ UNCHANGED <<conv, task>>

\* (mutant) the task row is forgotten.
FinishRunOnly(t, r, status) == UNCHANGED task

\* finishConversationTask, when run r of task t ends with the given status; a
\* completed run leaves its task completed or, unverified, awaiting review.
FinishTask(t, r, status) ==
  IF t = Nil THEN UNCHANGED task
  ELSE /\ task[t].status = "running" /\ task[t].run = r
       /\ \E s \in IF status = "completed" THEN {"completed", "awaiting_review"}
                                             ELSE {status} :
            task' = [task EXCEPT ![t].status = s]

\* resumeConversationTask.
ResumeTask(t, r) ==
  IF t = Nil \/ task[t].status = "running" THEN UNCHANGED task
  ELSE /\ task[t].run = r /\ task[t].status \in {"failed", "cancelled"}
       /\ task' = [task EXCEPT ![t].status = "running"]

\* The content the worker passes to Finish is what it streamed, if it did.
OwnText(w) == [i \in 1..claim[w].sent |-> claim[w].fence]

FinishCompleted(w) ==
  LET r == claim[w].run
      c == run[r].conv IN
  /\ Claimed(w)
  /\ ~Superseded(r)
  /\ run[r].draft = <<>> \/ run[r].draft = OwnText(w)
  /\ run' = [run EXCEPT ![r] = [Ended(run[r], "completed") EXCEPT !.draft = <<>>]]
  /\ conv' = [conv EXCEPT ![c] = [Post(conv[c], Message(r, "assistant", claim[w].fence)) EXCEPT
                                    !.active = IF Background(r) THEN @ ELSE NoRun]]
  /\ FinishTask(run[r].task, r, "completed")
  /\ claim' = [claim EXCEPT ![w] = NoClaim]

FinishFailed(w) ==
  LET r == claim[w].run
      c == run[r].conv IN
  /\ Claimed(w)
  /\ ~Superseded(r)
  /\ run' = [run EXCEPT ![r] = Ended(run[r], "failed")]
  /\ conv' = [conv EXCEPT ![c].active = IF Background(r) THEN @ ELSE NoRun]
  /\ FinishTask(run[r].task, r, "failed")
  /\ claim' = [claim EXCEPT ![w] = NoClaim]

\* The status of a run parked on an interaction of this kind.
WaitStatus(kind) ==
  CASE kind = "input" -> "waiting_user"
    [] kind = "confirmation" -> "waiting_confirmation"
    [] kind = "reconciliation" -> "needs_reconciliation"

\* WaitExecution parks the run on a new (or reopened) interaction.
WaitExecution(w, kind) ==
  LET r == claim[w].run IN
  /\ Claimed(w)
  /\ run[r].fence < MaxFence
  /\ run' = [run EXCEPT ![r] = [Released(run[r], WaitStatus(kind)) EXCEPT
                                   !.inter = Pending(kind)]]
  /\ claim' = [claim EXCEPT ![w] = NoClaim]
  /\ UNCHANGED <<conv, task>>

\* cancelledToolReceiptRow: the invocation the cancellation interrupted may
\* still record its receipt, until the row's fence moves on.
CancelledReceipt(w) ==
  /\ claim[w].run \in Runs
  /\ LET row == run[claim[w].run] IN
       /\ row.status = "cancelled"
       /\ row.owner = Nil
       /\ row.fence - 1 = claim[w].fence

\* FinishExecutionTool with a definite result for the call under
\* reconciliation resolves the run's interaction.
ResolveReconciliation(w) ==
  LET r == claim[w].run IN
  /\ Claimed(w) \/ CancelledReceipt(w)
  /\ run[r].inter.kind = "reconciliation"
  /\ CloseInteraction(run[r].inter, "resolved") # run[r].inter
  /\ run' = [run EXCEPT ![r] = [run[r] EXCEPT !.inter = CloseInteraction(@, "resolved")]]
  /\ UNCHANGED <<conv, task, claim>>

\* The worker's memory of a claim ends without Finish: the process crashes or
\* shuts down, or a heartbeat or a write failed and execute returned.
Abandon(w) ==
  /\ claim[w] # NoClaim
  /\ Claimed(w) => run[claim[w].run].fence < MaxFence
  /\ claim' = [claim EXCEPT ![w] = NoClaim]
  /\ UNCHANGED <<conv, run, task>>

-----------------------------------------------------------------------------
(* Callers: answer, cancel, resume.                                        *)

Decisions == {"answer", "approve", "reject"}
Outcome(kind, decision) ==
  CASE kind = "input" /\ decision = "answer" -> "answered"
    [] kind = "confirmation" /\ decision = "approve" -> "approved"
    [] kind = "confirmation" /\ decision = "reject" -> "rejected"
    [] OTHER -> "none"

\* The run waits on a pending interaction that may be answered or may expire.
AwaitsResponse(r) == run[r].status \in Waiting /\ run[r].inter.status = "pending"

\* RespondExecution in time: the answer becomes a user message; the run is
\* queued again, or cancelled when a confirmation is rejected.
Respond(r, decision) ==
  LET c == run[r].conv
      outcome == Outcome(run[r].inter.kind, decision)
      rejected == outcome = "rejected" IN
  /\ AwaitsResponse(r) /\ ~run[r].inter.due
  /\ ~Superseded(r)
  /\ ~conv[c].archived
  /\ outcome # "none"
  /\ rejected \/ QueueHasRoom(UserOf[c])
  /\ run' = [run EXCEPT ![r] =
       [Released(run[r], IF rejected THEN "cancelled" ELSE "queued") EXCEPT
          !.inter = [run[r].inter EXCEPT !.status = outcome], !.input = LastSeq(c) + 1, !.draft = <<>>]]
  /\ conv' = [conv EXCEPT ![c] = [Post(conv[c], Message(r, "user", 0)) EXCEPT
                                    !.active = IF rejected /\ @ = r THEN NoRun ELSE @]]
  /\ UNCHANGED <<task, claim>>

\* The interaction's ExpiresAt passes; a reconciliation has none.
InteractionDue(r) ==
  /\ AwaitsResponse(r) /\ ~run[r].inter.due
  /\ run[r].inter.kind # "reconciliation"
  /\ run' = [run EXCEPT ![r] = [run[r] EXCEPT !.inter = [run[r].inter EXCEPT !.due = TRUE]]]
  /\ UNCHANGED <<conv, task, claim>>

\* expireInteraction, from the ExpireInteractions sweep or from a late answer.
ExpireInteraction(r) ==
  /\ AwaitsResponse(r) /\ run[r].inter.due
  /\ run' = [run EXCEPT ![r] = [Released(run[r], "failed") EXCEPT
                                  !.inter = CloseInteraction(@, "expired")]]
  /\ conv' = ClearActive(run[r].conv, r)
  /\ UNCHANGED <<task, claim>>

\* (mutant) any run may be cancelled.
CancellableAlways(r) == Exists(r)

\* transitionRun leaves a run that has ended as it is.
Cancellable(r) == run[r].status \in Open

\* transitionRun without resume.
Cancel(r) ==
  /\ Cancellable(r)
  /\ run' = [run EXCEPT ![r] = [Released(run[r], "cancelled") EXCEPT
                                  !.inter = CloseInteraction(@, "cancelled")]]
  /\ conv' = ClearActive(run[r].conv, r)
  /\ FinishTask(run[r].task, r, "cancelled")
  /\ UNCHANGED claim

\* (mutant) the later messages of the conversation are not looked at.
NoOtherActive(r) ==
  LET c == run[r].conv IN
  \/ conv[c].active = NoRun
  \/ conv[c].active = r /\ run[r].status = "needs_reconciliation"

\* A foreground run resumes only while it is the latest input of its
\* conversation and no other run has the conversation.
StillLatest(r) ==
  LET c == run[r].conv IN
  /\ \/ conv[c].active = NoRun
     \/ conv[c].active = r /\ run[r].status = "needs_reconciliation"
  /\ LastSeq(c) = run[r].input

\* (mutant) an expired question does not count as closed.
QuestionTurnedDown(r) ==
  run[r].inter.kind # "reconciliation" /\ run[r].inter.status \in {"cancelled", "rejected"}

\* interaction_closed: the run's question will never be answered.
QuestionClosed(r) ==
  run[r].inter.kind # "reconciliation" /\ run[r].inter.status \in Closed

\* transitionRun with resume.
Resume(r) ==
  LET c == run[r].conv IN
  /\ run[r].status \in {"failed", "cancelled", "needs_reconciliation"}
  /\ run[r].fence < MaxFence
  /\ ~conv[c].archived
  /\ ~QuestionClosed(r)
  /\ Background(r) \/ StillLatest(r)
  /\ QueueHasRoom(UserOf[c])
  /\ run' = [run EXCEPT ![r] = [Released(run[r], "queued") EXCEPT !.draft = <<>>]]
  /\ conv' = [conv EXCEPT ![c].active = IF Background(r) THEN @ ELSE r]
  /\ ResumeTask(run[r].task, r)
  /\ UNCHANGED claim

-----------------------------------------------------------------------------
(* Background tasks.                                                       *)

\* The insert shared by ApplyConversationTaskTool,
\* AcceptScheduledConversationTask and AcceptBusinessEventConversationTask.
StartTask(t) ==
  /\ task[t].status = "none"
  /\ ~conv[TaskConv[t]].gone
  /\ QueueHasRoom(UserOf[TaskConv[t]])
  /\ task' = [task EXCEPT ![t].status = "queued"]
  /\ UNCHANGED <<conv, run, claim>>

\* transitionQueuedConversationTask without resume.
CancelQueuedTask(t) ==
  /\ task[t].status = "queued" /\ task[t].run = NoRun
  /\ task' = [task EXCEPT ![t].status = "cancelled"]
  /\ UNCHANGED <<conv, run, claim>>

\* transitionQueuedConversationTask with resume.
ResumeQueuedTask(t) ==
  /\ \/ task[t].status = "awaiting_review" /\ task[t].run # NoRun
     \/ task[t].status = "cancelled" /\ task[t].run = NoRun
  /\ QueueHasRoom(UserOf[TaskConv[t]])
  /\ task' = [task EXCEPT ![t] = [status |-> "queued", run |-> NoRun]]
  /\ UNCHANGED <<conv, run, claim>>

\* LaunchConversationTask: a task whose conversation has no active run gets a
\* background run, which does not become the conversation's active run.
LaunchTask(t) ==
  LET c == TaskConv[t] IN
  /\ task[t].status = "queued"
  /\ ~conv[c].gone
  /\ conv[c].active = NoRun
  /\ \E r \in Runs :
       /\ Fresh(r)
       /\ run' = [run EXCEPT ![r] = QueuedRow(c, t, Nil)]
       /\ task' = [task EXCEPT ![t] = [status |-> "running", run |-> r]]
       /\ conv' = [conv EXCEPT ![c] = Post(conv[c], Message(r, "user", 0))]
  /\ UNCHANGED claim

-----------------------------------------------------------------------------
(* Time.                                                                   *)

Leased(r) == run[r].status = "running" /\ run[r].lease > 0
Held(r) == \E w \in Workers : Claimed(w) /\ claim[w].run = r

\* A tick of the clock brings every lease closer to its expiry.
Tick ==
  /\ \E r \in Runs : Leased(r)
  /\ \A r \in Runs : Held(r) => run[r].fence < MaxFence
  /\ run' = [r \in Runs |-> IF Leased(r) THEN [run[r] EXCEPT !.lease = @ - 1] ELSE run[r]]
  /\ UNCHANGED <<conv, task, claim>>

-----------------------------------------------------------------------------
ConversationStep(c) ==
  \/ \E m \in ClientIDs : Enqueue(c, m)
  \/ \E b \in BOOLEAN : Update(c, b)
  \/ Delete(c)

WorkerStep(w) ==
  \/ Claim(w)
  \/ Heartbeat(w)
  \/ AppendDelta(w)
  \/ FinishCompleted(w)
  \/ FinishFailed(w)
  \/ \E kind \in Kinds : WaitExecution(w, kind)
  \/ ResolveReconciliation(w)
  \/ Abandon(w)

RunStep(r) ==
  \/ \E decision \in Decisions : Respond(r, decision)
  \/ InteractionDue(r)
  \/ ExpireInteraction(r)
  \/ Cancel(r)
  \/ Resume(r)

TaskStep(t) ==
  \/ StartTask(t)
  \/ CancelQueuedTask(t)
  \/ ResumeQueuedTask(t)
  \/ LaunchTask(t)

Next ==
  \/ \E c \in Conversations : ConversationStep(c)
  \/ \E w \in Workers : WorkerStep(w)
  \/ \E r \in Runs : RunStep(r)
  \/ \E t \in Tasks : TaskStep(t)
  \/ Tick

Spec == Init /\ [][Next]_vars

\* The scheduling the code guarantees: the worker loops poll Claim, execute
\* always ends a claim it still holds (RunTimeout cancels the context and
\* Finish follows), time passes, and the task loop polls LaunchConversationTask.
Fairness ==
  /\ \A w \in Workers : WF_vars(Claim(w))
  /\ \A w \in Workers : WF_vars(FinishCompleted(w) \/ FinishFailed(w) \/ Abandon(w))
  /\ \A r \in Runs : WF_vars(ExpireInteraction(r))
  /\ \A t \in Tasks : WF_vars(LaunchTask(t))
  /\ WF_vars(Tick)

FairSpec == Spec /\ Fairness

-----------------------------------------------------------------------------
(* Safety.                                                                 *)

\* A conversation's ActiveRunID names exactly its open foreground run.  So a
\* conversation never has two open foreground runs, never stays busy after
\* its run ended, and Claim never meets the run_superseded error that would
\* stop every worker at the head of the queue.
ActiveRunIsTheOpenRun ==
  /\ \A r \in Runs : ~Background(r) /\ run[r].status \in Open
                       => conv[run[r].conv].active = r
  /\ \A c \in Conversations : conv[c].active # NoRun =>
       LET row == run[conv[c].active] IN
       row.conv = c /\ row.task = Nil /\ row.status \in Open

\* Two workers never both pass the claimed check for one run, even when they
\* share an instance's lease owner, a lease expired under one of them, or the
\* run was cancelled and resumed behind its back.
SingleHolder ==
  \A v, w \in Workers :
    Claimed(v) /\ Claimed(w) /\ claim[v].run = claim[w].run => v = w

\* Why that is so: each claim a worker remembers, stale or not, has a fence no
\* other claim of the run has and the run row has reached.
ClaimFences ==
  /\ \A r \in Runs : run[r].status = "none" => run[r].fence = 0
  /\ \A w \in Workers :
       LET r == claim[w].run IN
       r # NoRun /\ run[r].status # "deleted" => claim[w].fence <= run[r].fence
  /\ \A v, w \in Workers :
       v # w /\ claim[v].run # NoRun /\ claim[v].run = claim[w].run
         => claim[v].fence # claim[w].fence

\* A run gives its conversation exactly one assistant message when it
\* completes and none otherwise, through crashes, reclaims and resumes.
OneAnswerPerRun ==
  \A r \in Runs : Exists(r) =>
    Cardinality({i \in DOMAIN conv[run[r].conv].msgs :
                   LET m == conv[run[r].conv].msgs[i] IN
                   m.run = r /\ m.role = "assistant"})
      = IF run[r].status = "completed" THEN 1 ELSE 0

\* In the message history, no foreground run's message falls between two
\* messages of another foreground run: a resumed run never answers after a
\* later question was asked.
ForegroundTurnsDoNotInterleave ==
  \A c \in Conversations : \A i, j, k \in DOMAIN conv[c].msgs :
    LET of(n) == conv[c].msgs[n].run IN
    i < j /\ j < k /\ of(i) = of(k) /\ ~Background(of(i)) /\ ~Background(of(j))
      => of(j) = of(i)

\* A streamed draft never mixes the text of two claims, and a running run
\* shows only text of its present claim.
DraftFromOneClaim ==
  \A r \in Runs : \A i \in DOMAIN run[r].draft :
    /\ run[r].draft[i] = run[r].draft[1]
    /\ run[r].status = "running" => run[r].draft[i] = run[r].fence

\* The configured limits hold at every moment: queued runs and tasks
\* together, and running runs, those with an expired lease included.
CapacityRespected ==
  /\ \A u \in Users :
       /\ Cardinality(UserRuns(u, "queued")) + Cardinality(UserTasks(u)) <= MaxQueuedPerUser
       /\ Cardinality(UserRuns(u, "running")) <= MaxRunningPerUser
  /\ Cardinality({r \in Runs : run[r].status = "queued"})
       + Cardinality({t \in Tasks : task[t].status = "queued"}) <= MaxQueuedPerWorkspace
  /\ Cardinality({r \in Runs : run[r].status = "running"}) <= MaxRunningPerWorkspace

\* An open background run is the execution its task is waiting for, so that
\* Finish and Cancel never fail with task_run_changed and strand the run.
OpenBackgroundRunOwnsTask ==
  \A r \in Runs : Background(r) /\ run[r].status \in Open
    => task[run[r].task] = [status |-> "running", run |-> r]

\* A task counted as running has an execution that exists and is open, or
\* that ended because its question was rejected or expired.
RunningTaskHasExecution ==
  \A t \in Tasks : task[t].status = "running" =>
    /\ task[t].run # NoRun
    /\ LET row == run[task[t].run] IN
         /\ row.task = t
         /\ row.status \in Open \/ row.inter.status \in {"rejected", "expired"}

\* A background task and its run agree: neither end of the pair can be left
\* open without the other by any sequence of launches, finishes, cancels,
\* resumes, answers and recoveries.
TaskAndRunAgree == OpenBackgroundRunOwnsTask /\ RunningTaskHasExecution

\* What the task-control documentation says of a started task: a change of its
\* run's status changes the task's status in the same transaction.  So a
\* running task would always have an open run.
TaskFollowsItsRun ==
  \A t \in Tasks : task[t].status = "running" => run[task[t].run].status \in Open

\* A run whose question was cancelled, rejected or left to expire never
\* executes again; only an unresolved external result may be resumed.
ClosedQuestionEndsRun ==
  \A r \in Runs :
    run[r].inter.kind # "reconciliation" /\ run[r].inter.status \in Closed
      => run[r].status \in Terminal

\* Every run row that exists belongs to a conversation that exists.
RunsBelong ==
  \A r \in Runs : Exists(r) => run[r].conv \in Conversations /\ ~conv[run[r].conv].gone

\* A client_message_id starts at most one run of its conversation, however
\* often and whenever the send is repeated.
SendIsIdempotent ==
  \A q, r \in Runs :
    Exists(q) /\ Exists(r) /\ run[q].conv = run[r].conv
      /\ run[q].client = run[r].client /\ run[r].client # Nil => q = r

EndedRunsStay ==
  \A r \in Runs :
    /\ run[r].status = "completed" => run'[r].status \in {"completed", "deleted"}
    /\ run[r].status = "deleted" => run'[r] = run[r]

\* A completed run and a run row of a deleted conversation never change again.
CompletedIsFinal == [][EndedRunsStay]_vars

FencesAdvance ==
  \A r \in Runs : run'[r].status # "deleted" =>
    /\ run[r].fence <= run'[r].fence
    /\ \A w \in Workers :
         claim'[w].run = r /\ claim'[w].fence # claim[w].fence
           => claim'[w].fence > run[r].fence

\* A run's fence never falls while the run exists, and a worker that takes a
\* run always gets a fence no earlier claim of it had.
FenceSeparatesClaims == [][FencesAdvance]_vars

-----------------------------------------------------------------------------
(* Refinement.                                                             *)

\* The run queue as a queue of fenced jobs.  A run that waits, failed or was
\* cancelled may be queued again; one that completed may not.
Phase(status) ==
  CASE status = "none" -> "absent"
    [] status = "queued" -> "ready"
    [] status = "running" -> "held"
    [] status \in Waiting \cup {"failed", "cancelled"} -> "parked"
    [] status = "completed" -> "done"
    [] status = "deleted" -> "gone"

Queue == INSTANCE FencedJob WITH
  Jobs <- Runs,
  Holders <- Workers,
  job <- [r \in Runs |-> [phase |-> Phase(run[r].status), fence |-> run[r].fence]],
  held <- [w \in Workers |->
             IF claim[w].run = NoRun THEN {}
             ELSE {[of |-> claim[w].run, fence |-> claim[w].fence]}]

\* Whatever callers, other workers and the clock do, a run is finished, parked
\* or put back only by its latest claim or by a transaction that invalidates
\* that claim; every claim raises the fence; and a run that completed or was
\* deleted with its conversation is never executed again.
ImplementsFencedJob == Queue!Spec

-----------------------------------------------------------------------------
(* Liveness, under Fairness.                                               *)

\* A queued run is eventually claimed, cancelled or deleted: no candidate
\* blocks the scan, and slots of crashed workers are recovered.
QueuedRunsAreTaken ==
  \A r \in Runs : run[r].status = "queued" ~> run[r].status # "queued"

\* A claim never lasts for ever: the run ends, waits or is reclaimed.
ClaimsEnd ==
  \A r \in Runs, n \in 1..(MaxFence + 1) :
    run[r].status = "running" /\ run[r].fence = n
      ~> run[r].status # "running" \/ run[r].fence # n

=============================================================================
