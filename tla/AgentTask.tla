----------------------------- MODULE AgentTask -----------------------------
(***************************************************************************)
(* The durable agent task engine: one row of _agent_task_runs, the workers *)
(* that claim and execute it, their heartbeats, the tool gateway, the      *)
(* cancellation and approval requests, the operator's actions and the      *)
(* completion callback to the workflow that started the run.               *)
(*                                                                         *)
(* A row is a few queryable columns and a payload (run.doc) that repeats   *)
(* them.  Every step below is one SQL statement or one serializable        *)
(* transaction; a handler made of several is several steps, with what it   *)
(* read kept in job, beat, call or cancel.  Handlers that save under a     *)
(* compare-and-set of the revision are one step: RevisionIdentifies says   *)
(* why, and a lost race leaves the row alone.                              *)
(*                                                                         *)
(* Rows do not refer to each other, so the module keeps a single one.      *)
(***************************************************************************)
EXTENDS Integers, Sequences

CONSTANTS
    Workers,         \* instances of TaskExecutionService
    Gateways,        \* tool requests that can be in flight at once
    Keys,            \* idempotency keys of operator actions
    Outcomes,        \* terminal statuses the provider's result can lead to
    Costs,           \* cost units of the tools
    MaxAttempts,     \* run.MaxAttempts
    MaxToolCalls,    \* run.MaxToolCalls
    MaxCostUnits,    \* run.MaxCostUnits
    WorkflowTask,    \* whether the run has a ProcessID
    Resolution,      \* readings of the clock in one millisecond
    MaxFence,        \* bound: claims of the run
    MaxClock,        \* bound: timestamps taken
    None             \* no row, no claim, no request

Terminal == {"succeeded", "manual_review", "rejected", "no_result", "failed",
             "cancelled", "dead_letter"}
Waiting  == {"pending", "retry_scheduled"}
Status   == Terminal \cup Waiting \cup {"running", "waiting_approval"}
Recon    == {"none", "workflow_callback_pending",
             "workflow_callback_delivered", "force_restart",
             "manually_resolved"}
Decision == {"none", "approved", "approved_failed", "rejected", "timed_out",
             "cancelled"}

\* The payload.  retryable is the flag of the last entry of Attempts.
Docs == [status: Status, owner: Workers \cup {None}, fence: Nat,
         attempt: Nat, rev: Nat, updated: Nat, cancelled: BOOLEAN,
         calls: Nat, ledger: Seq([cost: Costs, done: BOOLEAN]),
         proposal: Nat, decision: Decision, retryable: BOOLEAN,
         recon: Recon, keys: SUBSET Keys]

\* The row.  lost is no column, and no step depends on it: it records that a
\* cancellation was saved over a row it had not read.
Rows == [status: Status, owner: Workers \cup {None}, fence: Nat,
         live: BOOLEAN, due: BOOLEAN, updated: Nat, doc: Docs,
         lost: BOOLEAN]

Beats == [fence: Nat, at: Nat, doc: Docs \cup {None}]

Calls == [phase: {"begin", "host", "wait"}, doc: Docs, ref: Nat, proposal: Nat]

Cancels == [phase: {"save"}, doc: Docs] \cup [phase: {"resolve"}, proposal: Nat]

ASSUME AgentTaskAssumption ==
    /\ None \notin Workers \cup Rows \cup Docs \cup Beats \cup Calls \cup Cancels
    /\ Outcomes \subseteq Terminal
    /\ Costs \subseteq Nat \ {0}
    /\ {MaxAttempts, Resolution} \subseteq Nat \ {0}
    /\ {MaxToolCalls, MaxCostUnits, MaxFence, MaxClock} \subseteq Nat
    /\ WorkflowTask \in BOOLEAN

VARIABLES
    run,     \* the row, or None before it is created
    clock,   \* the last timestamp any process read
    job,     \* the run as each worker claimed it
    beat,    \* each worker's heartbeat in flight
    call,    \* the tool request in each gateway slot
    cancel,  \* the cancellation request in flight
    notes,   \* completion callbacks in flight
    drafts,  \* proposals drafted for the run
    invoked, \* tool calls handed to the host
    told     \* statuses the workflow has accepted

vars == <<run, clock, job, beat, call, cancel, notes, drafts, invoked, told>>

\* Types of the row, of the copies processes hold and of the ledger.
TypeOK ==
    /\ run \in Rows \cup {None}
    /\ clock \in Nat
    /\ job \in [Workers -> Docs \cup {None}]
    /\ beat \in [Workers -> Beats \cup {None}]
    /\ call \in [Gateways -> Calls \cup {None}]
    /\ cancel \in Cancels \cup {None}
    /\ notes \subseteq [status: Terminal, phase: {"call", "mark"}]
    /\ drafts \in Nat
    /\ invoked \in Nat
    /\ told \subseteq Terminal

-----------------------------------------------------------------------------
(* Timestamps.  Every reading of the clock is one later than the one before, *)
(* and Resolution of them fall into one millisecond; the run starts anywhere *)
(* in one.  The payload keeps the reading and the column its millisecond,    *)
(* which is only compared for equality, so a stamp is taken in the step that *)
(* writes it.                                                                *)

Now == {t \in {clock + 1} : t <= MaxClock}

Millisecond(t) == t \div Resolution

-----------------------------------------------------------------------------
(* The row: predicates and updates of the store.                            *)

Leased(owner, fence) ==
    /\ run # None
    /\ run.status = "running"
    /\ run.owner = owner
    /\ run.fence = fence

Eligible ==
    \/ run.status \in Waiting /\ run.due
    \/ run.status = "running" /\ ~run.live

\* Columns status, payload_json and updated_at written together.
Put(doc) ==
    run' = [run EXCEPT !.status = doc.status, !.doc = doc,
                       !.updated = doc.updated]

\* A payload a process is about to save: next revision, current time.
Touched(doc, now) == [doc EXCEPT !.rev = @ + 1, !.updated = now]

\* (mutant) the worker's copy of the call counter wins.
MergedStaleCount(doc) ==
    [doc EXCEPT !.ledger = run.doc.ledger,
                !.rev = IF @ <= run.doc.rev THEN run.doc.rev + 1 ELSE @]

\* SaveRunning keeps the ledger of the row and never lowers the revision.
Merged(doc) ==
    [doc EXCEPT !.calls = run.doc.calls, !.ledger = run.doc.ledger,
                !.rev = IF @ <= run.doc.rev THEN run.doc.rev + 1 ELSE @]

SaveRunning(doc) ==
    /\ Leased(doc.owner, doc.fence)
    /\ run' = [run EXCEPT !.status = doc.status, !.doc = Merged(doc),
                          !.due = doc.status # "retry_scheduled",
                          !.updated = doc.updated]

TerminalRecon(recon) == IF WorkflowTask THEN "workflow_callback_pending"
                                        ELSE recon

\* (mutant) a scheduled retry is reported as well.
NoteAnyStatus(status) == IF WorkflowTask
                           THEN {[status |-> status, phase |-> "call"]} ELSE {}

\* notifyWorkflow's guard: a run of a workflow that reached its end.
Note(status) == IF WorkflowTask /\ status \in Terminal
                  THEN {[status |-> status, phase |-> "call"]} ELSE {}

-----------------------------------------------------------------------------
Init ==
    /\ run = None
    /\ clock \in 0..(Resolution - 1)
    /\ job = [w \in Workers |-> None]
    /\ beat = [w \in Workers |-> None]
    /\ call = [g \in Gateways |-> None]
    /\ cancel = None
    /\ notes = {}
    /\ drafts = 0
    /\ invoked = 0
    /\ told = {}

\* A replayed Create finds the row by its idempotency key and returns it.
Create ==
    /\ run = None
    /\ run' = [status |-> "pending", owner |-> None, fence |-> 0,
               live |-> FALSE, due |-> TRUE, updated |-> clock,
               doc |-> [status |-> "pending", owner |-> None, fence |-> 0,
                        attempt |-> 0, rev |-> 1, updated |-> clock,
                        cancelled |-> FALSE, calls |-> 0, ledger |-> <<>>,
                        proposal |-> 0, decision |-> "none",
                        retryable |-> FALSE, recon |-> "none", keys |-> {}],
               lost |-> FALSE]
    /\ UNCHANGED <<clock, job, beat, call, cancel, notes, drafts, invoked, told>>

-----------------------------------------------------------------------------
(* Workers.                                                                 *)

Claim(w) ==
    /\ run # None /\ job[w] = None
    /\ Eligible
    /\ run.fence < MaxFence
    /\ \E now \in Now :
         LET token == run.fence + 1
             doc == [Touched(run.doc, now) EXCEPT
                       !.status = "running", !.owner = w, !.fence = token,
                       !.attempt = @ + 1, !.retryable = FALSE]
         IN  /\ run' = [run EXCEPT !.status = "running", !.owner = w,
                                   !.fence = token, !.live = TRUE,
                                   !.doc = doc, !.updated = now]
             /\ job' = [job EXCEPT ![w] = doc]
             /\ clock' = now
    /\ UNCHANGED <<beat, call, cancel, notes, drafts, invoked, told>>

\* The end of executeClaim: the save under the claim's fence, and the
\* callback when it committed a terminal status.  A rejected save ends the
\* attempt with no effect.
EndAttempt(w, doc) ==
    /\ \/ /\ SaveRunning(doc)
          /\ notes' = notes \cup Note(doc.status)
       \/ /\ ~Leased(doc.owner, doc.fence)
          /\ UNCHANGED <<run, notes>>
    /\ clock' = doc.updated
    /\ job' = [job EXCEPT ![w] = None]
    /\ UNCHANGED <<beat, call, cancel, drafts, invoked, told>>

Executing(w) == job[w] # None /\ ~job[w].cancelled

Complete(w) ==
    /\ Executing(w)
    /\ \E now \in Now, outcome \in Outcomes :
         EndAttempt(w, [Touched(job[w], now) EXCEPT
                          !.status = outcome, !.recon = TerminalRecon("none")])

\* (mutant) exhausted attempts are not reported to the workflow.
FailClaimSilently(w) ==
    /\ Executing(w)
    /\ \E now \in Now, retryable, late \in BOOLEAN :
         LET again == retryable /\ job[w].attempt < MaxAttempts
         IN  EndAttempt(w, [Touched(job[w], now) EXCEPT
                 !.status = IF again /\ ~late THEN "retry_scheduled" ELSE "dead_letter",
                 !.retryable = retryable,
                 !.recon = IF retryable THEN @ ELSE TerminalRecon(@)])

\* failClaim computes the time of the next attempt and FailAttempt reads the
\* clock again: a process that stalls between the two for longer than the
\* backoff is late, and the run becomes a dead letter.
FailClaim(w) ==
    /\ Executing(w)
    /\ \E now \in Now, retryable, late \in BOOLEAN :
         LET again == retryable /\ job[w].attempt < MaxAttempts
         IN  EndAttempt(w, [Touched(job[w], now) EXCEPT
                 !.status = IF again /\ ~late THEN "retry_scheduled" ELSE "dead_letter",
                 !.retryable = retryable,
                 !.recon = IF again THEN @ ELSE TerminalRecon(@)])

\* A claim that finds a cancellation request completes as cancelled.
CancelClaim(w) ==
    /\ job[w] # None /\ job[w].cancelled
    /\ \E now \in Now :
         EndAttempt(w, [Touched(job[w], now) EXCEPT
                          !.status = "cancelled", !.recon = TerminalRecon("none")])

\* First statement of a heartbeat: the lease and updated_at columns.  A
\* heartbeat that finds its lease lost only cancels the execution, which
\* then ends with FailClaim.
HeartbeatLease(w) ==
    /\ Executing(w) /\ beat[w] = None
    /\ Leased(w, job[w].fence) /\ run.live
    /\ \E now \in Now :
         /\ run' = [run EXCEPT !.updated = now]
         /\ beat' = [beat EXCEPT ![w] =
                       [fence |-> job[w].fence, at |-> now, doc |-> None]]
         /\ clock' = now
    /\ UNCHANGED <<job, call, cancel, notes, drafts, invoked, told>>

HeartbeatRead(w) ==
    /\ beat[w] # None /\ beat[w].doc = None
    /\ beat' = [beat EXCEPT ![w].doc = run.doc]
    /\ UNCHANGED <<run, clock, job, call, cancel, notes, drafts, invoked, told>>

\* (mutant) the payload is saved without the lease predicate.
HeartbeatSaveUnfenced(w) ==
    /\ beat[w] # None /\ beat[w].doc # None
    /\ run' = [run EXCEPT !.doc = Touched(beat[w].doc, beat[w].at)]
    /\ beat' = [beat EXCEPT ![w] = None]
    /\ UNCHANGED <<clock, job, call, cancel, notes, drafts, invoked, told>>

\* Last statement: the payload that was read, under the lease predicate.
HeartbeatSave(w) ==
    /\ beat[w] # None /\ beat[w].doc # None
    /\ run' = IF Leased(w, beat[w].fence)
                THEN [run EXCEPT !.doc = Touched(beat[w].doc, beat[w].at)]
                ELSE run
    /\ beat' = [beat EXCEPT ![w] = None]
    /\ UNCHANGED <<clock, job, call, cancel, notes, drafts, invoked, told>>

\* A context that ends between two statements of a heartbeat drops it.
HeartbeatFails(w) ==
    /\ beat[w] # None
    /\ beat' = [beat EXCEPT ![w] = None]
    /\ UNCHANGED <<run, clock, job, call, cancel, notes, drafts, invoked, told>>

Crash(w) ==
    /\ job[w] # None \/ beat[w] # None
    /\ job' = [job EXCEPT ![w] = None]
    /\ beat' = [beat EXCEPT ![w] = None]
    /\ UNCHANGED <<run, clock, call, cancel, notes, drafts, invoked, told>>

\* Time passes the lease or the scheduled retry.
LeaseExpires ==
    /\ run # None /\ run.status = "running" /\ run.live
    /\ run' = [run EXCEPT !.live = FALSE]
    /\ UNCHANGED <<clock, job, beat, call, cancel, notes, drafts, invoked, told>>

RetryDue ==
    /\ run # None /\ ~run.due
    /\ run' = [run EXCEPT !.due = TRUE]
    /\ UNCHANGED <<clock, job, beat, call, cancel, notes, drafts, invoked, told>>

-----------------------------------------------------------------------------
(* The tool gateway: Invoke, with the ledger transactions it makes.         *)

ToolGet(g) ==
    /\ run # None /\ call[g] = None
    /\ run.doc.status = "running" /\ ~run.doc.cancelled
    /\ call' = [call EXCEPT ![g] = [phase |-> "begin", doc |-> run.doc,
                                    ref |-> 0, proposal |-> 0]]
    /\ UNCHANGED <<run, clock, job, beat, cancel, notes, drafts, invoked, told>>

\* The loop of BeginAgentToolCall that adds up what the calls so far cost.
UsedCost(ledger) ==
    LET used[n \in 0..Len(ledger)] ==
          IF n = 0 THEN 0 ELSE used[n - 1] + ledger[n].cost
    IN  used[Len(ledger)]

CanReserve(doc, cost) ==
    /\ doc.calls < MaxToolCalls
    /\ UsedCost(doc.ledger) + cost <= MaxCostUnits

Reserved(doc, cost) ==
    [doc EXCEPT !.calls = @ + 1,
                !.ledger = Append(@, [cost |-> cost, done |-> FALSE])]

BeginToolCall(g) ==
    /\ call[g] # None /\ call[g].phase = "begin"
    /\ \E cost \in Costs :
         \/ /\ Leased(call[g].doc.owner, call[g].doc.fence)
            /\ CanReserve(run.doc, cost)
            /\ \E now \in Now :
                 /\ Put(Reserved(Touched(run.doc, now), cost))
                 /\ clock' = now
            /\ call' = [call EXCEPT ![g].phase = "host",
                                    ![g].ref = run.doc.calls + 1]
            /\ invoked' = invoked + 1
         \/ /\ ~ /\ Leased(call[g].doc.owner, call[g].doc.fence)
                 /\ CanReserve(run.doc, cost)
            /\ call' = [call EXCEPT ![g] = None]
            /\ UNCHANGED <<run, clock, invoked>>
    /\ UNCHANGED <<job, beat, cancel, notes, drafts, told>>

\* The host has answered.  A proposal is drafted before the call is closed;
\* only a call that closed goes on to wait for the approval.
FinishToolCall(g) ==
    /\ call[g] # None /\ call[g].phase = "host"
    /\ \E proposes \in BOOLEAN :
         LET ref == call[g].ref
             found == /\ Leased(call[g].doc.owner, call[g].doc.fence)
                      /\ ref \in DOMAIN run.doc.ledger
             open == found /\ ~run.doc.ledger[ref].done
         IN  /\ \/ /\ open
                   /\ \E now \in Now :
                        /\ Put([Touched(run.doc, now) EXCEPT
                                  !.ledger[ref].done = TRUE])
                        /\ clock' = now
                \/ ~open /\ UNCHANGED <<run, clock>>
             /\ drafts' = IF proposes THEN drafts + 1 ELSE drafts
             /\ call' = [call EXCEPT ![g] =
                           IF found /\ proposes
                             THEN [@ EXCEPT !.phase = "wait",
                                            !.proposal = drafts + 1]
                             ELSE None]
    /\ UNCHANGED <<job, beat, cancel, notes, invoked, told>>

\* WaitForApproval saves the run as Invoke read it at the start.
WaitForApproval(g) ==
    /\ call[g] # None /\ call[g].phase = "wait"
    /\ \E now \in Now :
         LET doc == [Touched(call[g].doc, now) EXCEPT
                       !.status = "waiting_approval",
                       !.proposal = call[g].proposal, !.decision = "none"]
         IN  /\ \/ SaveRunning(doc)
                \/ ~Leased(doc.owner, doc.fence) /\ UNCHANGED run
             /\ clock' = now
    /\ call' = [call EXCEPT ![g] = None]
    /\ UNCHANGED <<job, beat, cancel, notes, drafts, invoked, told>>

\* The request's process or context ends between two of its steps.
ToolCallLost(g) ==
    /\ call[g] # None
    /\ call' = [call EXCEPT ![g] = None]
    /\ UNCHANGED <<run, clock, job, beat, cancel, notes, drafts, invoked, told>>

-----------------------------------------------------------------------------
(* Approvals.                                                               *)

Settled(decision) ==
    CASE decision = "approved"  -> "succeeded"
      [] decision = "rejected"  -> "rejected"
      [] decision = "cancelled" -> "cancelled"
      [] OTHER                  -> "failed"

AwaitsApproval(proposal) ==
    /\ run.doc.status = "waiting_approval"
    /\ run.doc.proposal = proposal

ResolveApproval(decision, now) ==
    Put([Touched(run.doc, now) EXCEPT
           !.status = Settled(decision), !.decision = decision,
           !.recon = TerminalRecon(@)])

\* A proposal of the run is decided.  Deciding it again the same way repeats
\* the callback; any other decision is refused.
ResolveProposal ==
    /\ run # None
    /\ \E p \in 1..drafts, d \in {"approved", "approved_failed", "rejected"} :
         \/ /\ AwaitsApproval(p)
            /\ \E now \in Now : ResolveApproval(d, now) /\ clock' = now
            /\ notes' = notes \cup Note(Settled(d))
         \/ /\ run.doc.status \in Terminal
            /\ run.doc.proposal = p /\ run.doc.decision = d
            /\ notes' = notes \cup Note(run.doc.status)
            /\ UNCHANGED <<run, clock>>
    /\ UNCHANGED <<job, beat, call, cancel, drafts, invoked, told>>

ExpireApproval ==
    /\ run # None
    /\ run.doc.status = "waiting_approval"
    /\ \E now \in Now : ResolveApproval("timed_out", now) /\ clock' = now
    /\ UNCHANGED <<job, beat, call, cancel, notes, drafts, invoked, told>>

-----------------------------------------------------------------------------
(* Cancellation: RequestCancel of the store, then of the service.           *)

\* What the service does with the run the store returned.
AfterCancel(doc) ==
    IF doc.status = "waiting_approval"
      THEN [phase |-> "resolve", proposal |-> doc.proposal] ELSE None

CancelGet ==
    /\ run # None /\ cancel = None
    /\ run.doc.status \notin Terminal
    /\ cancel' = IF run.doc.cancelled THEN AfterCancel(run.doc)
                                      ELSE [phase |-> "save", doc |-> run.doc]
    /\ UNCHANGED <<run, clock, job, beat, call, notes, drafts, invoked, told>>

CancelledDoc(old, now) ==
    [Touched(old, now) EXCEPT !.cancelled = TRUE,
                              !.status = IF @ \in Waiting THEN "cancelled" ELSE @]

\* The row is the one that was read, or the claim that ran then still runs.
Unmoved(old) ==
    /\ run.status = old.status /\ run.owner = old.owner /\ run.fence = old.fence
    /\ run.status # "running" => run.doc = old

\* (mutant) the save is unconditional.
CancelSaveBlind ==
    /\ cancel # None /\ cancel.phase = "save"
    /\ \E now \in Now :
         LET doc == CancelledDoc(cancel.doc, now)
         IN  Put(doc) /\ cancel' = AfterCancel(doc) /\ clock' = now
    /\ UNCHANGED <<job, beat, call, notes, drafts, invoked, told>>

\* The save is conditional on the millisecond of updated_at alone.
CancelSave ==
    /\ cancel # None /\ cancel.phase = "save"
    /\ \/ /\ Millisecond(run.updated) = Millisecond(cancel.doc.updated)
          /\ \E now \in Now :
               LET doc == CancelledDoc(cancel.doc, now)
               IN  /\ run' = [run EXCEPT !.status = doc.status, !.doc = doc,
                                         !.updated = now,
                                         !.lost = @ \/ ~Unmoved(cancel.doc)]
                   /\ cancel' = AfterCancel(doc)
                   /\ clock' = now
       \/ /\ Millisecond(run.updated) # Millisecond(cancel.doc.updated)
          /\ cancel' = AfterCancel(run.doc)
          /\ UNCHANGED <<run, clock>>
    /\ UNCHANGED <<job, beat, call, notes, drafts, invoked, told>>

CancelResolve ==
    /\ cancel # None /\ cancel.phase = "resolve"
    /\ \/ /\ AwaitsApproval(cancel.proposal)
          /\ \E now \in Now : ResolveApproval("cancelled", now) /\ clock' = now
       \/ /\ ~AwaitsApproval(cancel.proposal)
          /\ UNCHANGED <<run, clock>>
    /\ cancel' = None
    /\ UNCHANGED <<job, beat, call, notes, drafts, invoked, told>>

-----------------------------------------------------------------------------
(* The completion callback to the workflow.                                 *)

\* The recovery tick and Poll find a callback that was not acknowledged.
Redeliver ==
    /\ run # None
    /\ run.doc.status \in Terminal
    /\ run.doc.recon = "workflow_callback_pending"
    /\ notes' = notes \cup Note(run.doc.status)
    /\ UNCHANGED <<run, clock, job, beat, call, cancel, drafts, invoked, told>>

\* notifyWorkflow: the workflow accepts, then the run is marked delivered,
\* whatever terminal status it has by then.
CompleteWorkflowTask(n) ==
    /\ n.phase = "call"
    /\ told' = told \cup {n.status}
    /\ notes' = (notes \ {n}) \cup {[n EXCEPT !.phase = "mark"]}
    /\ UNCHANGED <<run, clock, job, beat, call, cancel, drafts, invoked>>

MarkDelivered(n) ==
    /\ n.phase = "mark"
    /\ \/ /\ run.doc.status \in Terminal
          /\ run.doc.recon # "workflow_callback_delivered"
          /\ \E now \in Now :
               /\ Put([Touched(run.doc, now) EXCEPT
                         !.recon = "workflow_callback_delivered"])
               /\ clock' = now
       \/ /\ \/ run.doc.status \notin Terminal
             \/ run.doc.recon = "workflow_callback_delivered"
          /\ UNCHANGED <<run, clock>>
    /\ notes' = notes \ {n}
    /\ UNCHANGED <<job, beat, call, cancel, drafts, invoked, told>>

\* The workflow refuses, the mark loses its race, or the process dies.
LoseCallback(n) ==
    /\ notes' = notes \ {n}
    /\ UNCHANGED <<run, clock, job, beat, call, cancel, drafts, invoked, told>>

-----------------------------------------------------------------------------
(* Operators.  A key that was used returns the run as it is.                *)

Operate(k, doc) ==
    /\ \E now \in Now :
         /\ Put([Touched(doc, now) EXCEPT !.keys = @ \cup {k}])
         /\ clock' = now
    /\ UNCHANGED <<job, beat, call, cancel, notes, drafts, invoked, told>>

OperatorRetry(k) ==
    /\ run # None /\ k \notin run.doc.keys
    /\ run.doc.status \in {"failed", "dead_letter", "cancelled"}
    /\ Operate(k, [run.doc EXCEPT !.status = "pending", !.cancelled = FALSE,
                                  !.recon = "force_restart"])

OperatorResolve(k) ==
    /\ run # None /\ k \notin run.doc.keys
    /\ run.doc.status \in Terminal
    /\ run.doc.recon = "workflow_callback_pending"
    /\ Operate(k, [run.doc EXCEPT !.status = "manual_review",
                                  !.recon = "manually_resolved"])

\* (mutant) the override keeps the revision.
OverrideOutputSameRevision ==
    /\ run # None
    /\ run.doc.status \in Terminal
    /\ \E now \in Now :
         Put([run.doc EXCEPT !.updated = now]) /\ clock' = now
    /\ UNCHANGED <<job, beat, call, cancel, notes, drafts, invoked, told>>

OverrideOutput ==
    /\ run # None
    /\ run.doc.status \in Terminal
    /\ \E now \in Now : Put(Touched(run.doc, now)) /\ clock' = now
    /\ UNCHANGED <<job, beat, call, cancel, notes, drafts, invoked, told>>

-----------------------------------------------------------------------------
Next ==
    \/ Create \/ LeaseExpires \/ RetryDue
    \/ \E w \in Workers :
         \/ Claim(w) \/ Complete(w) \/ FailClaim(w) \/ CancelClaim(w)
         \/ HeartbeatLease(w) \/ HeartbeatRead(w) \/ HeartbeatSave(w)
         \/ HeartbeatFails(w) \/ Crash(w)
    \/ \E g \in Gateways :
         \/ ToolGet(g) \/ BeginToolCall(g) \/ FinishToolCall(g) \/ WaitForApproval(g)
         \/ ToolCallLost(g)
    \/ ResolveProposal \/ ExpireApproval
    \/ CancelGet \/ CancelSave \/ CancelResolve
    \/ Redeliver
    \/ \E n \in notes :
         CompleteWorkflowTask(n) \/ MarkDelivered(n) \/ LoseCallback(n)
    \/ \E k \in Keys : OperatorRetry(k) \/ OperatorResolve(k)
    \/ OverrideOutput

Spec == Init /\ [][Next]_vars

-----------------------------------------------------------------------------
(* Properties.                                                              *)

\* This step is a cancellation that saves over a row it has not read.
CancelOverwrites ==
    /\ cancel # None /\ cancel.phase = "save" /\ cancel' # cancel
    /\ Millisecond(run.updated) = Millisecond(cancel.doc.updated)
    /\ ~Unmoved(cancel.doc)

\* The columns the store filters on (agentTaskLeasePredicate,
\* agentTaskEligiblePredicate, agentTaskPayloadSelect) say what the payload
\* says, although heartbeats and cancellations write payloads they read
\* earlier, and no such copy takes back an attempt: the number compared with
\* MaxAttempts counts every claim.  Only a cancellation whose guard on
\* updated_at missed a write of the same millisecond ends this.
ColumnsMatchPayload ==
    (run # None /\ ~run.lost) =>
        /\ run.status = run.doc.status
        /\ run.owner = run.doc.owner
        /\ run.fence = run.doc.fence
        /\ run.doc.attempt = run.fence

\* The call counter and the ledger of BeginAgentToolCall stay in step and
\* within both budgets through every save that carries an older copy.
LedgerWithinBudget ==
    run # None => /\ run.doc.calls = Len(run.doc.ledger)
                  /\ run.doc.calls <= MaxToolCalls
                  /\ UsedCost(run.doc.ledger) <= MaxCostUnits

\* The callback of a run that belongs to a workflow.  A step that ends the run
\* leaves the callback pending, for the recovery tick to find, with two
\* exceptions: RequestCancel ending a run that no worker has, and FailAttempt
\* making a dead letter of an attempt failClaim took for one with a retry
\* left.  A pending callback goes away when the workflow has accepted one
\* (that of the status the run has, unless an operator has acted on the run),
\* or by an operator's resolve or retry.
TerminalOwesCallback ==
    [][(run # None /\ WorkflowTask /\ ~run'.lost) =>
         /\ (run.status \notin Terminal /\ run'.status \in Terminal) =>
              \/ run'.doc.recon = "workflow_callback_pending"
              \/ run.status \in Waiting /\ run'.status = "cancelled"
              \/ /\ run.status = "running" /\ run'.status = "dead_letter"
                 /\ run'.doc.retryable /\ run'.doc.attempt < MaxAttempts
         /\ (/\ run.status \in Terminal
             /\ run.doc.recon = "workflow_callback_pending"
             /\ run'.doc.recon # "workflow_callback_pending") =>
              \/ /\ run'.doc.recon = "workflow_callback_delivered"
                 /\ IF run.doc.keys = {} THEN run.status \in told ELSE told # {}
              \/ run'.doc.recon \in {"manually_resolved", "force_restart"}]_vars

\* Only an operator's retry, which leaves its idempotency key in the run,
\* takes a run out of a terminal status: no late worker, tool call or
\* approval does, and no cancellation but one that saves over a write of the
\* same millisecond.
TerminalUntilRetried ==
    [][(/\ run # None /\ run.status \in Terminal
        /\ run'.status \notin Terminal /\ ~CancelOverwrites)
         => run'.doc.keys # run.doc.keys]_vars

\* While no worker has the run, a revision names one payload: every write
\* raises it, but for a cancellation that saves over a write of the same
\* millisecond.  The compare-and-set of SaveWaitingApproval,
\* SaveTerminalOverride and SaveOperationalTransition rests on this.
RevisionIdentifies ==
    [][(/\ run # None /\ run.status # "running"
        /\ run'.doc # run.doc /\ ~CancelOverwrites)
         => run'.doc.rev > run.doc.rev]_vars

\* A run whose end the workflow was told of does not run again unless an
\* operator retries it: the documents say that state transitions are fenced
\* and that terminal states cannot regress.
ToldRunsStayEnded ==
    (run # None /\ told # {} /\ run.doc.keys = {}) => run.status \in Terminal

\* The host is never handed more tool calls than the run's budget, however
\* requests, heartbeats and retries interleave.
BudgetNeverReplenished == invoked <= MaxToolCalls

=============================================================================
