----------------------------- MODULE Delegation -----------------------------
(***************************************************************************)
(* One delegation from an agent to another: its row, the task of each      *)
(* assignment, the runs of the tasks a local agent executes, the protocol  *)
(* of an external agent, the transfer to another agent and the messages    *)
(* sent to whoever has the work.  Every store operation is a transaction   *)
(* whose delegation write compares the revision it read, so it is one      *)
(* action here.                                                            *)
(*                                                                         *)
(* A brief version changes only together with the agreement revision, and  *)
(* stands for it.  A run waits for nothing but reconciliation here (the    *)
(* questions of a run are in ConversationTools), its claims are those of   *)
(* ConversationRun, and "unsettled" says that a write of it has no definite *)
(* receipt.  Budgets, capacities and who may do what are left out: each    *)
(* only refuses a step.                                                    *)
(***************************************************************************)
EXTENDS Integers, FiniteSets

CONSTANTS
  Agents,           \* receivers: [external, cancellation, resume : BOOLEAN]
  Messages,         \* messages to the receiver
  MaxAssignments,   \* bound: assignments (16 in the code)
  MaxAgreement,     \* bound: agreement revisions
  MaxAttempts,      \* bound: attempts of an external task
  MaxRuns           \* bound: runs, numbered in the order of their creation

ASSUME DelegationConstants ==
  /\ Agents \subseteq [external : BOOLEAN, cancellation : BOOLEAN, resume : BOOLEAN]
  /\ {MaxAssignments, MaxAgreement, MaxAttempts} \subseteq Nat \ {0}
  /\ MaxRuns \in Nat

VARIABLES
  d,         \* the delegation row
  task,      \* the task of each assignment
  run,       \* the runs of the tasks
  msg,       \* the messages
  working    \* <<assignment, attempt>> an external agent is at work on

vars == <<d, task, run, msg, working>>

Assignments == 1..MaxAssignments
Runs == 1..MaxRuns
NoRun == 0

Closed == {"cancelled", "rejected", "accepted_delivery"}
DelegationStatus == Closed \cup {"accepted", "running", "delivered", "awaiting_delivery",
                                 "failed", "paused", "needs_changes", "needs_update"}
Terminal == {"completed", "failed", "cancelled"}
OpenRun == {"queued", "running", "needs_reconciliation"}

Executions == [status : {"none", "waiting_claim", "running", "stop_requested"} \cup Terminal,
               attempt : 0..MaxAttempts, session : BOOLEAN, acknowledged : BOOLEAN,
               effect : {"", "none", "known", "unknown"}]
NoExecution == [status |-> "none", attempt |-> 0, session |-> FALSE, acknowledged |-> FALSE,
                effect |-> ""]
Waiting(attempt) == [NoExecution EXCEPT !.status = "waiting_claim", !.attempt = attempt]

DelegationRows == [status : DelegationStatus, agreement : 1..MaxAgreement, current : Assignments,
                   delivery : 0..MaxAgreement, pending : SUBSET {"own", "upstream"}]
TaskRows == [status : {"none", "queued", "running"} \cup Terminal, agent : Agents,
             agreement : 0..MaxAgreement, run : {NoRun} \cup Runs, exec : Executions]
RunRows == [status : {"none"} \cup OpenRun \cup Terminal, task : {0} \cup Assignments,
            agreement : 0..MaxAgreement, unsettled : BOOLEAN]
MessageRows == [state : {"none", "unread", "consumed", "superseded"},
                agreement : 0..MaxAgreement, to : {0} \cup Assignments,
                after : {NoRun} \cup Runs, launched : BOOLEAN, by : {NoRun} \cup Runs]

\* Every row holds values the code can give it.
TypeOK ==
  /\ d \in DelegationRows
  /\ task \in [Assignments -> TaskRows]
  /\ run \in [Runs -> RunRows]
  /\ msg \in [Messages -> MessageRows]
  /\ working \subseteq Assignments \X (1..MaxAttempts)

\* A message nobody can read, not yet sent or superseded.
Blank(state) == [state |-> state, agreement |-> 0, to |-> 0, after |-> NoRun,
                 launched |-> FALSE, by |-> NoRun]

\* The task row an assignment starts with.
NewTask(agent, agreement, exec) ==
  [status |-> "queued", agent |-> agent, agreement |-> agreement, run |-> NoRun, exec |-> exec]

\* CreateConversationDelegation, for a local or an external agent.
Init ==
  /\ d = [status |-> "accepted", agreement |-> 1, current |-> 1, delivery |-> 0, pending |-> {}]
  /\ \E agent \in Agents :
       task = [k \in Assignments |->
                 IF k = 1
                 THEN NewTask(agent, 1, IF agent.external THEN Waiting(1) ELSE NoExecution)
                 ELSE [NewTask(agent, 0, NoExecution) EXCEPT !.status = "none"]]
  /\ run = [r \in Runs |-> [status |-> "none", task |-> 0, agreement |-> 0, unsettled |-> FALSE]]
  /\ msg = [m \in Messages |-> Blank("none")]
  /\ working = {}

-----------------------------------------------------------------------------
(* Runs of a local agent.                                                  *)

Current == task[d.current]
External(k) == task[k].exec.status # "none"
OpenRunsOf(k) == {r \in Runs : run[r].task = k /\ run[r].status \in OpenRun}
Unsettled(k) == \E r \in Runs : run[r].task = k /\ run[r].unsettled

\* The new run r of the current task, its task and its delegation.
Started(r) ==
  /\ run[r].status = "none" /\ \A q \in 1..(r - 1) : run[q].status # "none"
  /\ run' = [run EXCEPT ![r] = [status |-> "queued", task |-> d.current,
                                agreement |-> Current.agreement, unsettled |-> FALSE]]
  /\ task' = [task EXCEPT ![d.current].status = "running", ![d.current].run = r]
  /\ d' = [d EXCEPT !.status = "running"]

\* LaunchConversationTask: the tick skips external tasks, and delegated ones
\* that are not the accepted current assignment.
Launch ==
  /\ ~External(d.current)
  /\ Current.status = "queued" /\ d.status = "accepted"
  /\ \E r \in Runs : Started(r)
  /\ UNCHANGED <<msg, working>>

Claim(r) ==
  /\ run[r].status = "queued"
  /\ run' = [run EXCEPT ![r].status = "running"]
  /\ UNCHANGED <<d, task, msg, working>>

\* claimed: what every write of a worker is checked against.
Claimed(r) ==
  /\ run[r].status = "running"
  /\ d.current = run[r].task
  /\ d.status \in {"running", "delivered"}
  /\ d.pending = {}
  /\ d.agreement = run[r].agreement

\* BeginExecutionTool of a write.
BeginWrite(r) ==
  /\ Claimed(r) /\ ~run[r].unsettled
  /\ run' = [run EXCEPT ![r].unsettled = TRUE]
  /\ UNCHANGED <<d, task, msg, working>>

\* A definite receipt: from the claim, late for a cancelled run, or found by
\* the read-only inspection of a stopped run of the current assignment.
Settle(r) ==
  /\ run[r].unsettled
  /\ \/ Claimed(r)
     \/ run[r].status = "cancelled"
     \/ run[r].status \in {"failed", "needs_reconciliation"} /\ run[r].task = d.current
  /\ run' = [run EXCEPT ![r].unsettled = FALSE]
  /\ UNCHANGED <<d, task, msg, working>>

\* WaitExecution for reconciliation.
Hold(r) ==
  /\ Claimed(r) /\ run[r].unsettled
  /\ run' = [run EXCEPT ![r].status = "needs_reconciliation"]
  /\ UNCHANGED <<d, task, msg, working>>

\* (mutant) the delegation takes the status of the run.
FollowedByStatus(k, outcome) ==
  IF d.current # k \/ d.status \notin {"accepted", "running", "delivered"} THEN d
  ELSE [d EXCEPT !.status = outcome]

\* finishConversationDelegation: the delegation after a run of task k ended.
Followed(k, outcome) ==
  IF d.current # k \/ d.status \notin {"accepted", "running", "delivered"} THEN d
  ELSE [d EXCEPT !.status = CASE outcome = "cancelled" -> "paused"
                              [] outcome = "failed" -> "failed"
                              [] outcome = "completed" /\ @ = "delivered" -> @
                              [] OTHER -> "awaiting_delivery"]

\* finishConversationTask: refused unless the task is running this very run.
EndRun(r, outcome) ==
  LET k == run[r].task IN
  /\ task[k].status = "running" /\ task[k].run = r
  /\ run' = [run EXCEPT ![r].status = outcome]
  /\ task' = [task EXCEPT ![k].status = outcome]
  /\ d' = Followed(k, outcome)
  /\ UNCHANGED <<msg, working>>

Finish(r, outcome) ==
  /\ Claimed(r)
  /\ outcome = "completed" => ~run[r].unsettled
  /\ EndRun(r, outcome)

CancelRun(r) ==
  /\ run[r].status \in OpenRun
  /\ EndRun(r, "cancelled")

\* resumeConversationTask: the status the task of run r takes, if it may.
TaskAllows(r) ==
  LET t == task[run[r].task] IN
  t.status = "running" \/ (t.run = r /\ t.status \in {"failed", "cancelled"})

\* transitionRun of a delegated run, resuming.
ResumeRun(r) ==
  /\ run[r].status \in {"failed", "cancelled", "needs_reconciliation"}
  /\ d.current = run[r].task /\ d.agreement = run[r].agreement /\ d.pending = {}
  /\ d.status \in {"paused", "failed", "running", "delivered"}
  /\ TaskAllows(r)
  /\ d' = [d EXCEPT !.status = "running"]
  /\ run' = [run EXCEPT ![r].status = "queued"]
  /\ task' = [task EXCEPT ![run[r].task].status = "running"]
  /\ UNCHANGED <<msg, working>>

\* transitionQueuedConversationTask: the owner cancels or resumes the task of
\* an assignment that has no run, whatever its delegation says.
ToggleQueuedTask(k) ==
  /\ task[k].run = NoRun
  /\ \/ task[k].status = "queued" /\ task' = [task EXCEPT ![k].status = "cancelled"]
     \/ task[k].status = "cancelled" /\ task' = [task EXCEPT ![k].status = "queued"]
  /\ UNCHANGED <<d, run, msg, working>>

RunStep ==
  \/ Launch
  \/ \E r \in Runs :
       \/ Claim(r)
       \/ BeginWrite(r)
       \/ Settle(r)
       \/ Hold(r)
       \/ \E outcome \in {"completed", "failed"} : Finish(r, outcome)
       \/ CancelRun(r)
       \/ ResumeRun(r)
  \/ \E k \in Assignments : ToggleQueuedTask(k)

-----------------------------------------------------------------------------
(* Decisions about the delegation: UpdateConversationDelegation.           *)

\* (mutant) messages of an earlier agreement stay unread.
SupersededNever(agreement) == msg

\* supersedePeerMessages: unread messages of another agreement.
Superseded(agreement) ==
  [m \in Messages |-> IF msg[m].state = "unread" /\ msg[m].agreement # agreement
                      THEN Blank("superseded") ELSE msg[m]]

\* controlDelegationTask, other than resume: the open run of a local task is
\* cancelled, an external executor is asked to stop, and the task is
\* cancelled, also if it had ended.
StopTask ==
  /\ run' = [r \in Runs |->
               IF ~External(d.current) /\ Current.status \notin Terminal
                    /\ r = Current.run /\ run[r].status \in OpenRun
               THEN [run[r] EXCEPT !.status = "cancelled"] ELSE run[r]]
  /\ task' = [task EXCEPT ![d.current].status = "cancelled",
                          ![d.current].exec =
                             IF External(d.current)
                             THEN [@ EXCEPT !.status = "stop_requested", !.acknowledged = FALSE,
                                            !.effect = ""]
                             ELSE @]

\* Pause and cancel need the external agent's cancellation capability.
Stop(status) ==
  /\ d.status \notin Closed
  /\ status \in {"paused", "cancelled"} /\ External(d.current)
       => Current.agent.cancellation
  /\ StopTask
  /\ d' = [d EXCEPT !.status = status]
  /\ UNCHANGED <<msg, working>>

\* update_brief, update_input and set_dependencies, which reopen accepted work.
ChangeAgreement ==
  /\ d.status \notin {"cancelled", "rejected"}
  /\ d.agreement < MaxAgreement
  /\ StopTask
  /\ d' = [d EXCEPT !.status = "needs_update", !.agreement = @ + 1, !.pending = @ \cup {"own"}]
  /\ msg' = Superseded(d.agreement + 1)
  /\ UNCHANGED working

\* propagateRequirementChange reaching this delegation: a delegation it
\* depends on has changed.  The agreement keeps its revision, and so does the
\* outcome of a task that has ended.
UpstreamChanged ==
  /\ d.status \notin {"cancelled", "rejected"}
  /\ IF Current.status \in Terminal THEN UNCHANGED <<run, task>> ELSE StopTask
  /\ d' = [d EXCEPT !.status = "needs_update", !.pending = @ \cup {"upstream"}]
  /\ UNCHANGED <<msg, working>>

\* (mutant) an external task may be tried again before its stop is confirmed.
MayRerunUnconfirmed ==
  IF External(d.current) THEN Current.agent.resume ELSE ~Unsettled(d.current)

\* What controlDelegationTask asks before a task is executed again.
MayRerun ==
  IF External(d.current)
  THEN Current.agent.resume /\ Current.exec.acknowledged /\ Current.exec.effect # "unknown"
  ELSE ~Unsettled(d.current)

\* (mutant) the task keeps the agreement of its last execution.
RequeuedUnderOldAgreement(agreement) ==
  [Current EXCEPT !.status = "queued", !.run = NoRun,
                  !.exec = IF External(d.current) THEN Waiting(@.attempt + 1) ELSE @]

\* The task row of the next execution.
Requeued(agreement) ==
  [Current EXCEPT !.status = "queued", !.run = NoRun, !.agreement = agreement,
                  !.exec = IF External(d.current) THEN Waiting(@.attempt + 1) ELSE @]

\* The resume of a delegation.  A change of another delegation must be
\* answered with new dependencies, which are a new agreement.
Resume(newDependencies) ==
  LET agreement == d.agreement + IF newDependencies THEN 1 ELSE 0 IN
  /\ d.status \in {"paused", "needs_changes", "needs_update", "failed"}
  /\ "upstream" \in d.pending => newDependencies
  /\ agreement <= MaxAgreement
  /\ Current.status \in Terminal
  /\ MayRerun
  /\ External(d.current) => Current.exec.attempt < MaxAttempts
  /\ task' = [task EXCEPT ![d.current] = Requeued(agreement)]
  /\ d' = [d EXCEPT !.status = "accepted", !.pending = {}, !.agreement = agreement]
  /\ msg' = Superseded(agreement)
  /\ UNCHANGED <<run, working>>

\* By the receiver's run, the external agent or the receiving user.
Deliver ==
  /\ d.status \in {"running", "awaiting_delivery", "delivered"} /\ d.pending = {}
  /\ d' = [d EXCEPT !.status = "delivered", !.delivery = d.agreement]
  /\ UNCHANGED <<task, run, msg, working>>

\* (mutant) only the task's last run is looked at.
HandoffOfLastRun ==
  Current.run # NoRun
    => run[Current.run].status \in Terminal /\ ~run[Current.run].unsettled

\* prepareDelegationHandoff: no run of any assignment is open, no write open.
HandoffReady == \A k \in Assignments : OpenRunsOf(k) = {} /\ ~Unsettled(k)

AcceptDelivery ==
  /\ d.status = "delivered" /\ d.delivery = d.agreement /\ d.pending = {}
  /\ Current.status = "completed"
  /\ HandoffReady
  /\ d' = [d EXCEPT !.status = "accepted_delivery"]
  /\ UNCHANGED <<task, run, msg, working>>

\* TransferConversationDelegation.  The task it is given has no external
\* execution, whoever the new agent is.
Transfer(agent) ==
  /\ d.status \notin {"cancelled", "accepted_delivery"}
  /\ d.current < MaxAssignments /\ d.agreement < MaxAgreement
  /\ Current.status \in Terminal
  /\ HandoffReady
  /\ task' = [task EXCEPT ![d.current + 1] = NewTask(agent, d.agreement + 1, NoExecution)]
  /\ d' = [status |-> "accepted", agreement |-> d.agreement + 1, current |-> d.current + 1,
           delivery |-> 0, pending |-> {}]
  /\ msg' = Superseded(d.agreement + 1)
  /\ UNCHANGED <<run, working>>

Decision ==
  \/ \E status \in {"paused", "needs_changes", "cancelled", "rejected"} : Stop(status)
  \/ ChangeAgreement
  \/ UpstreamChanged
  \/ \E newDependencies \in BOOLEAN : Resume(newDependencies)
  \/ Deliver
  \/ AcceptDelivery
  \/ \E agent \in Agents : Transfer(agent)

-----------------------------------------------------------------------------
(* The external agent protocol.                                            *)

ClaimExternal ==
  LET k == d.current IN
  /\ External(k)
  /\ task[k].status = "queued" /\ task[k].exec.status = "waiting_claim"
  /\ d.status = "accepted"
  /\ task' = [task EXCEPT ![k].status = "running", ![k].exec.status = "running",
                          ![k].exec.session = TRUE]
  /\ d' = [d EXCEPT !.status = "running"]
  /\ working' = working \cup {<<k, task[k].exec.attempt>>}
  /\ UNCHANGED <<run, msg>>

\* A report names the session of the task's attempt; others are refused.  A
\* session that has ended may report again if it is asked to stop after that.
Session(k) == <<k, task[k].exec.attempt>>
MayReport(k) ==
  task[k].exec.session /\ task[k].exec.status \in {"running", "stop_requested"}

\* The delivery must have been saved, by whichever assignment is current.
ReportCompleted(k) ==
  /\ MayReport(k) /\ d.status = "delivered"
  /\ task' = [task EXCEPT ![k].status = "completed", ![k].exec.status = "completed"]
  /\ working' = working \ {Session(k)}
  /\ UNCHANGED <<d, run, msg>>

ReportFailed(k) ==
  /\ MayReport(k)
  /\ task' = [task EXCEPT ![k].status = "failed", ![k].exec.status = "failed"]
  /\ d' = IF d.status \in {"running", "accepted"} THEN [d EXCEPT !.status = "failed"] ELSE d
  /\ working' = working \ {Session(k)}
  /\ UNCHANGED <<run, msg>>

ReportStopped(k, effect) ==
  /\ MayReport(k)
  /\ task[k].exec.status = "stop_requested" /\ task[k].status = "cancelled"
  /\ task' = [task EXCEPT ![k].exec.status = "cancelled", ![k].exec.acknowledged = TRUE,
                          ![k].exec.effect = effect]
  /\ working' = working \ {Session(k)}
  /\ UNCHANGED <<d, run, msg>>

-----------------------------------------------------------------------------
(* Messages to the receiver.                                               *)

\* SendConversationAgentMessage: one for the next run waits for the newest
\* open run of the conversation to end.
Send(m, nextRun) ==
  LET open == OpenRunsOf(d.current)
      newest == {r \in open : nextRun /\ \A q \in open : q <= r} IN
  /\ msg[m].state = "none"
  /\ d.status \notin Closed
  /\ \E after \in IF newest = {} THEN {NoRun} ELSE newest :
       msg' = [msg EXCEPT ![m] = [state |-> "unread", agreement |-> d.agreement, to |-> d.current,
                                  after |-> after, launched |-> FALSE, by |-> NoRun]]
  /\ UNCHANGED <<d, task, run, working>>

\* peerMessageReady.
Ready(m) ==
  /\ msg[m].state = "unread"
  /\ msg[m].agreement = d.agreement /\ msg[m].to = d.current
  /\ msg[m].after # NoRun => run[msg[m].after].status \in Terminal

\* consumeConversationPeerInbox, with the model input that quotes the message.
\* Whether the message once started a run no longer matters.
Consume(r, m) ==
  /\ Claimed(r) /\ Ready(m)
  /\ msg' = [msg EXCEPT ![m].state = "consumed", ![m].by = r,
                     ![m].launched = FALSE]
  /\ UNCHANGED <<d, task, run, working>>

\* acknowledgeExternalMessages, in a report of the session.
Acknowledge(k, m) ==
  /\ MayReport(k) /\ Ready(m) /\ msg[m].to = k
  /\ msg' = [msg EXCEPT ![m] = Blank("consumed")]
  /\ UNCHANGED <<d, task, run, working>>

\* launchConversationPeerMessage: a message nobody is running for starts a
\* run, at most one ever, of the current task.
LaunchForMessage(m) ==
  /\ ~Current.agent.external
  /\ Ready(m) /\ ~msg[m].launched
  /\ OpenRunsOf(d.current) = {}
  /\ d.status \notin Closed \cup {"paused", "needs_update", "needs_changes"}
  /\ \E r \in Runs : Started(r)
  /\ msg' = [msg EXCEPT ![m].launched = TRUE]
  /\ UNCHANGED working

PeerStep ==
  \/ ClaimExternal
  \/ \E k \in Assignments :
       \/ ReportCompleted(k)
       \/ ReportFailed(k)
       \/ \E effect \in {"none", "known", "unknown"} : ReportStopped(k, effect)
       \/ \E m \in Messages : Acknowledge(k, m)
  \/ \E m \in Messages :
       \/ \E nextRun \in BOOLEAN : Send(m, nextRun)
       \/ \E r \in Runs : Consume(r, m)
       \/ LaunchForMessage(m)

Next == RunStep \/ Decision \/ PeerStep

Spec == Init /\ [][Next]_vars

-----------------------------------------------------------------------------
(* Properties.                                                             *)

\* The external session of an earlier assignment reported that it failed.
FailedBefore == \E k \in 1..(d.current - 1) : task[k].exec.status = "failed"

\* The delegation and the task of its assignment are two rows written by a
\* dozen handlers, and agree: work that is running, awaited or accepted has a
\* task in that state, made for the very agreement the delegation now has,
\* failed work has a failed task, and stopped work has no running task.  The
\* exception is a failure that a former assignment's session reports late: it
\* fails the delegation whatever the new assignment is doing.
TaskMatchesDelegation ==
  /\ Current.status \in CASE d.status = "accepted" -> {"queued", "cancelled"}
                          [] d.status = "running" -> {"running"}
                          [] d.status = "delivered" -> {"running", "completed", "failed"}
                          [] d.status \in {"awaiting_delivery", "accepted_delivery"}
                               -> {"completed"}
                          [] d.status = "failed" ->
                               IF FailedBefore THEN {"queued", "running", "failed", "cancelled"}
                                               ELSE {"failed"}
                          [] OTHER -> {"queued"} \cup Terminal
  /\ d.status \in {"accepted", "running", "delivered", "awaiting_delivery", "accepted_delivery"}
       => Current.agreement = d.agreement

\* What is accepted is settled: the delivery answers the agreement in force,
\* no run of any assignment can still act, and no write of a run is in doubt.
\* It speaks of runs: prepareDelegationHandoff does not look at the external
\* session of an earlier assignment.
AcceptedIsSettled ==
  d.status = "accepted_delivery" =>
    /\ d.delivery = d.agreement /\ d.pending = {}
    /\ \A r \in Runs : run[r].status \notin OpenRun /\ ~run[r].unsettled

\* An external task is never given to a second session while an earlier one is
\* at work: it is tried again only after the stop was confirmed.
OneSessionPerTask ==
  \A k \in Assignments : Cardinality({n \in 1..MaxAttempts : <<k, n>> \in working}) <= 1

\* A message still to be read is about the agreement in force and addressed
\* to whoever has the work; one a run has read was about that run's agreement.
MessagesStayCurrent ==
  \A m \in Messages :
    /\ msg[m].state = "unread" => msg[m].agreement = d.agreement /\ msg[m].to = d.current
    /\ msg[m].by # NoRun => /\ run[msg[m].by].agreement = msg[m].agreement
                            /\ run[msg[m].by].task = msg[m].to
                            /\ msg[m].by # msg[m].after

\* "A failed or cancelled run can be resumed only while it is the latest":
\* an open run is the one its task names.
OnlyTheLatestRunIsOpen ==
  \A r \in Runs : run[r].status \in OpenRun => task[run[r].task].run = r

\* "The local conversation worker skips external tasks on every path, so that
\* local and external do not execute at the same time", and a transfer must
\* have ended the old execution: no run is open while an external session of
\* the delegation is at work.
OneKindExecutes ==
  working # {} => \A r \in Runs : run[r].status \notin OpenRun

=============================================================================
