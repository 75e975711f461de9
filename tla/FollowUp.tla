------------------------------- MODULE FollowUp ------------------------------
(***************************************************************************)
(* Scheduled follow-ups and their notification outbox: the rows of         *)
(* _agent_conversation_follow_up_states (one per plan) and                 *)
(* _agent_conversation_follow_up_events, the run of each window of a plan  *)
(* as far as it writes them, and the publisher loop of every service       *)
(* instance.  The end of a run writes the plan's state and its event in    *)
(* the transaction that ends the run; publishing an event takes three      *)
(* steps (claim, call, settle), between which the lease may expire, another*)
(* instance may claim the event, or the process may stop.                  *)
(*                                                                         *)
(* An event is the outcome of a window or a question of its run, as its id *)
(* is a hash of plan, task, run and kind, or of the interaction and its    *)
(* revision.  The position of an event in order is its created_at.  An     *)
(* observation stands for its hash.                                        *)
(***************************************************************************)
EXTENDS Integers, Sequences, FiniteSets

CONSTANTS
  Plans,           \* schedule plan ids of one owner
  Windows,         \* scheduled tasks with a follow-up scope, one per window
  PlanOf,          \* the plan of each window
  Observations,    \* canonical observations a report can carry
  Workers,         \* service instances, each with one publisher loop
  Nil,             \* an empty string of a row
  MaxAsks,         \* bound: questions the run of one window asks
  MaxHistory,      \* bound: the windows of a plan stop after so many outcomes
  MaxFaults        \* bound: claims that are lost or refused

\* Outcomes that are told.
Kinds == {"changed", "completed", "failed"}

ASSUME FollowUpConstants ==
  /\ PlanOf \in [Windows -> Plans]
  /\ Nil \notin Observations \cup Workers \cup Kinds
  /\ MaxAsks \in Nat /\ MaxHistory \in Nat /\ MaxFaults \in Nat

VARIABLES
  plan,       \* follow-up state rows
  window,     \* the run of each window: its status and its questions
  event,      \* outbox rows
  order,      \* events in the order of their insertion
  worker,     \* the claim each publisher loop holds, and how the call went
  told,       \* events the notification service has received
  faults,     \* claims lost or refused so far
  history     \* outcomes of each plan's windows, for the properties

vars == <<plan, window, event, order, worker, told, faults, history>>

Asks == 1..MaxAsks
Outcome(w, kind) == [window |-> w, kind |-> kind, ask |-> 0]
Question(w, n) == [window |-> w, kind |-> "needs_action", ask |-> n]
Events == {Outcome(w, kind) : w \in Windows, kind \in Kinds}
            \cup {Question(w, n) : w \in Windows, n \in Asks}
Reports == [status : {"active", "completed"}, seen : Observations]

\* "stopped": failed or cancelled, and resumable; "ended": for good.
RunStatus == {"running", "waiting", "stopped", "ended"}
\* "delayed": pending, with its next_attempt_at in the future.
EventStatus == {"none", "pending", "delayed", "publishing", "published"}
NoPlan == [found |-> FALSE, status |-> "active", seen |-> Nil]
NoEvent == [status |-> "none", owner |-> Nil, fence |-> 0, leased |-> FALSE]
Idle == [pc |-> "idle", event |-> Nil, fence |-> 0]

\* Every row and every publisher loop holds values the code can give it.
TypeOK ==
  /\ plan \in [Plans -> [found : BOOLEAN, status : {"active", "completed"},
                         seen : Observations \cup {Nil}]]
  /\ window \in [Windows -> [run : RunStatus, asks : 0..MaxAsks, open : BOOLEAN]]
  /\ event \in [Events -> [status : EventStatus, owner : Workers \cup {Nil},
                           fence : Nat, leased : BOOLEAN]]
  /\ order \in Seq(Events)
  /\ worker \in [Workers -> [pc : {"calling", "accepted", "refused"}, event : Events,
                             fence : Nat] \cup {Idle}]
  /\ told \in SUBSET Events
  /\ faults \in 0..MaxFaults

Init ==
  /\ plan = [p \in Plans |-> NoPlan]
  /\ window = [w \in Windows |-> [run |-> "running", asks |-> 0, open |-> FALSE]]
  /\ event = [e \in Events |-> NoEvent]
  /\ order = <<>>
  /\ worker = [i \in Workers |-> Idle]
  /\ told = {}
  /\ faults = 0
  /\ history = [p \in Plans |-> <<>>]

-----------------------------------------------------------------------------
(* Recording what the run of a window came to.                             *)

\* The outcome of a window; seen is the observation of its report, if any.
Log(e, seen) ==
  history' = [history EXCEPT ![PlanOf[e.window]] = Append(@, [event |-> e, seen |-> seen])]

\* enqueueConversationFollowUpEvent: a row with this id stays as it is.
Enqueue(e) ==
  IF event[e].status = "none"
  THEN /\ event' = [event EXCEPT ![e] = [NoEvent EXCEPT !.status = "pending"]]
       /\ order' = Append(order, e)
  ELSE UNCHANGED <<event, order>>

EnqueueKind(w, kind) ==
  IF kind = Nil THEN UNCHANGED <<event, order>> ELSE Enqueue(Outcome(w, kind))

\* Completion is terminal for every later outcome of the plan.
PlanCompleted(p) == plan[p].found /\ plan[p].status = "completed"

\* The report differs from the last one the plan recorded; the first report
\* is the baseline.
Differs(p, report) ==
  plan[p].found /\ plan[p].seen # Nil /\ plan[p].seen # report.seen

\* (mutants) the observation is not saved; the report's completion is saved
\* under a name the rest does not know.
SavedWithoutSeen(p, report) == [found |-> TRUE, status |-> report.status, seen |-> plan[p].seen]
SavedAsDone(p, report) == [found |-> TRUE, status |-> "done", seen |-> report.seen]

\* The plan's state row after a valid report.
Saved(p, report) == [found |-> TRUE, status |-> report.status, seen |-> report.seen]

\* recordConversationFollowUpTerminal for a run that completed with a report.
RecordReport(w, report) ==
  LET p == PlanOf[w]
      kind == IF report.status = "completed" THEN "completed"
              ELSE IF Differs(p, report) THEN "changed" ELSE Nil IN
  IF PlanCompleted(p) THEN UNCHANGED <<plan, event, order>>
  ELSE /\ plan' = [plan EXCEPT ![p] = Saved(p, report)]
       /\ EnqueueKind(w, kind)

\* recordConversationFollowUpTerminal for a run that failed, or that completed
\* with a text that is not a report.
RecordFailure(w) ==
  LET p == PlanOf[w] IN
  IF PlanCompleted(p) THEN UNCHANGED <<plan, event, order>>
  ELSE /\ plan' = [plan EXCEPT ![p].found = TRUE]
       /\ EnqueueKind(w, "failed")

-----------------------------------------------------------------------------
(* The run of a window, which the scheduler's callback started.            *)

\* Finish of a run whose final text is a valid report.
FinishWithReport(w, report) ==
  /\ window[w].run = "running"
  /\ window' = [window EXCEPT ![w].run = "ended"]
  /\ RecordReport(w, report)
  /\ Log(Outcome(w, report.status), report.seen)
  /\ UNCHANGED <<worker, told, faults>>

\* Finish of a run that failed, or that completed with a final text that
\* parseConversationFollowUpReport refuses.
FinishWithoutReport(w, run) ==
  /\ window[w].run = "running"
  /\ window' = [window EXCEPT ![w].run = run]
  /\ RecordFailure(w)
  /\ Log(Outcome(w, "failed"), Nil)
  /\ UNCHANGED <<worker, told, faults>>

\* recordConversationFollowUpWaiting.
RecordWaiting(w, n) ==
  /\ UNCHANGED plan
  /\ IF PlanCompleted(PlanOf[w]) THEN UNCHANGED <<event, order>> ELSE Enqueue(Question(w, n))

\* WaitExecution on a new question, or again on a reconciliation that is
\* still open.
Wait(w) ==
  LET n == IF window[w].open THEN window[w].asks ELSE window[w].asks + 1 IN
  /\ window[w].run = "running"
  /\ n \in Asks
  /\ window' = [window EXCEPT ![w] = [run |-> "waiting", asks |-> n, open |-> TRUE]]
  /\ RecordWaiting(w, n)
  /\ Log(Question(w, n), Nil)
  /\ UNCHANGED <<worker, told, faults>>

\* The question is answered, or the run is resumed with a reconciliation that
\* is still open.
Continue(w, open) ==
  /\ window[w].run = "waiting"
  /\ window' = [window EXCEPT ![w].run = "running", ![w].open = open]
  /\ UNCHANGED <<plan, event, order, worker, told, faults, history>>

\* The question is rejected or expires: the run ends without finishing its
\* task, so nothing is recorded.
Lapse(w) ==
  /\ window[w].run = "waiting"
  /\ window' = [window EXCEPT ![w].run = "ended", ![w].open = FALSE]
  /\ UNCHANGED <<plan, event, order, worker, told, faults, history>>

\* A cancelled run records nothing.  One that waited for an answer cannot be
\* resumed any more; one that waited for a reconciliation can.
Cancel(w) ==
  /\ window[w].run \in {"running", "waiting"}
  /\ \E run \in {"stopped"} \cup IF window[w].run = "waiting" THEN {"ended"} ELSE {} :
       window' = [window EXCEPT ![w].run = run, ![w].open = FALSE]
  /\ UNCHANGED <<plan, event, order, worker, told, faults, history>>

\* Resume of a run that failed or was cancelled.
Resume(w) ==
  /\ window[w].run = "stopped"
  /\ window' = [window EXCEPT ![w].run = "running"]
  /\ UNCHANGED <<plan, event, order, worker, told, faults, history>>

-----------------------------------------------------------------------------
(* The publisher loop of an instance (conversationFollowUpWorker).         *)

\* (mutant) an event is not recovered from an instance that stopped.
ClaimablePending(e) == event[e].status = "pending"

\* Due, and pending or left behind by an instance whose lease expired.
Claimable(e) ==
  \/ event[e].status = "pending"
  \/ event[e].status = "publishing" /\ ~event[e].leased

\* The row as ClaimConversationFollowUpEvent writes it.
Taken(e, i) ==
  [status |-> "publishing", owner |-> i, fence |-> event[e].fence + 1, leased |-> TRUE]

\* ClaimConversationFollowUpEvent takes the oldest claimable event.
ClaimEvent(i) ==
  /\ worker[i] = Idle
  /\ \E n \in DOMAIN order :
       /\ Claimable(order[n])
       /\ \A m \in 1..(n - 1) : ~Claimable(order[m])
       /\ event' = [event EXCEPT ![order[n]] = Taken(order[n], i)]
       /\ worker' = [worker EXCEPT ![i] = [pc |-> "calling", event |-> order[n],
                                          fence |-> Taken(order[n], i).fence]]
  /\ UNCHANGED <<plan, window, order, told, faults, history>>

\* One more claim is lost or refused.
Fault == faults < MaxFaults /\ faults' = faults + 1

\* PublishConversationFollowUp succeeds.
PublishAccepted(i) ==
  /\ worker[i].pc = "calling"
  /\ told' = told \cup {worker[i].event}
  /\ worker' = [worker EXCEPT ![i].pc = "accepted"]
  /\ UNCHANGED <<plan, window, event, order, faults, history>>

\* It fails or times out, before or after the notification was taken.
PublishRefused(i) ==
  /\ worker[i].pc = "calling"
  /\ Fault
  /\ told' \in {told, told \cup {worker[i].event}}
  /\ worker' = [worker EXCEPT ![i].pc = "refused"]
  /\ UNCHANGED <<plan, window, event, order, history>>

\* (mutant) the claim is not compared.
SettlesPublishing(i) == event[worker[i].event].status = "publishing"

\* The row still carries this claim; its lease may have expired.
Settles(i) ==
  LET row == event[worker[i].event] IN
  row.status = "publishing" /\ row.owner = i /\ row.fence = worker[i].fence

Settled(e, status) ==
  [event EXCEPT ![e] = [status |-> status, owner |-> Nil, fence |-> @.fence, leased |-> FALSE]]

\* CompleteConversationFollowUpEvent after a success; a claim that was lost
\* changes nothing.
CompleteEvent(i) ==
  /\ worker[i].pc = "accepted"
  /\ event' = IF Settles(i) THEN Settled(worker[i].event, "published") ELSE event
  /\ worker' = [worker EXCEPT ![i] = Idle]
  /\ UNCHANGED <<plan, window, order, told, faults, history>>

\* ReleaseConversationFollowUpEvent after a failure.
ReleaseEvent(i) ==
  /\ worker[i].pc = "refused"
  /\ event' = IF Settles(i) THEN Settled(worker[i].event, "delayed") ELSE event
  /\ worker' = [worker EXCEPT ![i] = Idle]
  /\ UNCHANGED <<plan, window, order, told, faults, history>>

\* The instance stops, or the settling statement fails.
Abandon(i) ==
  /\ worker[i] # Idle
  /\ IF Settles(i) THEN Fault ELSE UNCHANGED faults
  /\ worker' = [worker EXCEPT ![i] = Idle]
  /\ UNCHANGED <<plan, window, event, order, told, history>>

Held(e) == \E i \in Workers : worker[i] # Idle /\ worker[i].event = e /\ Settles(i)

\* lease_expires_at passes, under a slow publisher too: nothing renews it.
LeaseExpires(e) ==
  /\ event[e].status = "publishing" /\ event[e].leased
  /\ IF Held(e) THEN Fault ELSE UNCHANGED faults
  /\ event' = [event EXCEPT ![e].leased = FALSE]
  /\ UNCHANGED <<plan, window, order, worker, told, history>>

\* next_attempt_at passes.
Due(e) ==
  /\ event[e].status = "delayed"
  /\ event' = [event EXCEPT ![e].status = "pending"]
  /\ UNCHANGED <<plan, window, order, worker, told, faults, history>>

-----------------------------------------------------------------------------
WindowStep(w) ==
  /\ Len(history[PlanOf[w]]) < MaxHistory
  /\ \/ \E report \in Reports : FinishWithReport(w, report)
     \/ \E run \in {"stopped", "ended"} : FinishWithoutReport(w, run)
     \/ Wait(w)
     \/ \E open \in BOOLEAN : Continue(w, open)
     \/ Lapse(w)
     \/ Cancel(w)
     \/ Resume(w)

WorkerStep(i) ==
  \/ ClaimEvent(i)
  \/ PublishAccepted(i)
  \/ PublishRefused(i)
  \/ CompleteEvent(i)
  \/ ReleaseEvent(i)
  \/ Abandon(i)

Next ==
  \/ \E w \in Windows : WindowStep(w)
  \/ \E i \in Workers : WorkerStep(i)
  \/ \E e \in Events : LeaseExpires(e) \/ Due(e)

Spec == Init /\ [][Next]_vars

\* The publisher loop of each instance goes on: it polls, and the calls it
\* makes have deadlines.  Time passes.  Faults are bounded by MaxFaults.
Fairness ==
  /\ \A i \in Workers : WF_vars(WorkerStep(i))
  /\ WF_vars(\E e \in Events : LeaseExpires(e) \/ Due(e))

FairSpec == Spec /\ Fairness

-----------------------------------------------------------------------------
(* Properties.                                                             *)

\* The events a history calls for: one for each failure, each question and
\* each completion, and one for each report that differs from the report
\* before it, up to and including the first completion.
Expected(h) ==
  LET kind(i) == h[i].event.kind
      Report(i) == kind(i) \in {"active", "completed"}
      Changed(i) == \E j \in 1..(i - 1) :
        /\ Report(j) /\ h[j].seen # h[i].seen
        /\ \A k \in (j + 1)..(i - 1) : ~Report(k)
      open == {i \in DOMAIN h : \A j \in 1..(i - 1) : kind(j) # "completed"} IN
  {h[i].event : i \in {i \in open : kind(i) # "active"}} \cup
  {Outcome(h[i].event.window, "changed") : i \in {i \in open : kind(i) = "active" /\ Changed(i)}}

\* The outbox holds exactly the events the outcomes of the windows call for,
\* whatever order overlapping windows end in: no change is missed or told
\* twice, a failure does not disturb the baseline, and nothing is recorded
\* for a plan after its completion.
OutboxMatchesHistory ==
  \A p \in Plans :
    {e \in Events : PlanOf[e.window] = p /\ event[e].status # "none"} = Expected(history[p])

\* The outbox as a queue of fenced jobs.
Phase(status) ==
  CASE status = "none" -> "absent"
    [] status \in {"pending", "delayed"} -> "ready"
    [] status = "publishing" -> "held"
    [] status = "published" -> "done"

Outbox == INSTANCE FencedJob WITH
  Jobs <- Events,
  Holders <- Workers,
  job <- [e \in Events |-> [phase |-> Phase(event[e].status), fence |-> event[e].fence]],
  held <- [i \in Workers |->
             IF worker[i] = Idle THEN {}
             ELSE {[of |-> worker[i].event, fence |-> worker[i].fence]}]

\* Only the latest claim of an event settles it, and a published event is
\* never claimed again: a slow or restarted publisher cannot take back or
\* close what another instance is publishing.
ImplementsFencedJob == Outbox!Spec

\* The outbox drains: every event that is recorded is taken by the
\* notification service and marked published in the end, though leases expire,
\* calls fail and instances stop.
OutboxDrains ==
  []<>(\A e \in Events : event[e].status # "none" => event[e].status = "published" /\ e \in told)

=============================================================================
