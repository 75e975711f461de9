--------------------------- MODULE DelegationProofs ---------------------------
(***************************************************************************)
(* The rows of a delegation agree with each other, for any agents,         *)
(* messages and bounds.                                                    *)
(***************************************************************************)
EXTENDS Delegation, FiniteSetTheorems, TLAPS

USE Zenon

-----------------------------------------------------------------------------
(* The inductive invariant.                                                *)

\* A run belongs to an assignment made so far, works under an agreement its
\* task has or had, and never to a task an external agent executes.
RunFits(r) ==
  /\ run[r].status = "none" <=> run[r].task = 0
  /\ run[r].task = 0 => ~run[r].unsettled
  /\ run[r].task # 0 => /\ run[r].task <= d.current
                        /\ run[r].agreement <= task[run[r].task].agreement
                        /\ task[run[r].task].exec.status = "none"

\* A task is not ahead of the delegation, and its external execution follows it.
TaskFits(k) ==
  /\ task[k].agreement <= d.agreement
  /\ task[k].exec.status # "none" => task[k].agent.external /\ task[k].exec.attempt # 0
  /\ task[k].status = "completed" => task[k].exec.status \in {"none", "completed"}
  /\ task[k].exec.status = "waiting_claim" => ~task[k].exec.acknowledged

\* A session at work is that of its task's latest attempt, whose stop has not
\* been confirmed.
SessionFits(k, n) ==
  <<k, n>> \in working =>
    k <= d.current /\ n = task[k].exec.attempt /\ ~task[k].exec.acknowledged

RowsFit ==
  /\ \A r \in Runs : RunFits(r)
  /\ \A k \in Assignments : TaskFits(k)
  /\ \A k \in Assignments : \A n \in 1..MaxAttempts : SessionFits(k, n)

\* TaskMatchesDelegation case by case; and failed work was done for the
\* agreement in force, so that it may go on.
StatusFits ==
  /\ d.status = "accepted" => Current.status \in {"queued", "cancelled"}
  /\ d.status = "running" => Current.status = "running"
  /\ d.status = "delivered" => Current.status \in {"running", "completed", "failed"}
  /\ d.status \in {"awaiting_delivery", "accepted_delivery"} => Current.status = "completed"
  /\ d.status = "failed" => Current.status # "none"
  /\ d.status \in {"paused", "needs_changes", "needs_update", "cancelled", "rejected"}
       => Current.status \in {"queued"} \cup Terminal
  /\ d.status \in {"accepted", "running", "delivered", "awaiting_delivery",
                   "accepted_delivery", "failed"} => Current.agreement = d.agreement

\* Whoever read a message is a run that exists.
MessagesFit ==
  /\ MessagesStayCurrent
  /\ \A m \in Messages : msg[m].by # NoRun => run[msg[m].by].task # 0

IInv == TypeOK /\ RowsFit /\ StatusFits /\ AcceptedIsSettled /\ MessagesFit

-----------------------------------------------------------------------------
(* The rows of a step, and the types they keep.                            *)

USE DelegationConstants DEF NoRun

\* A run row keeps its type when its status or its doubt changes.
LEMMA RunRowTypes ==
  ASSUME TypeOK, NEW r \in Runs
  PROVE  /\ \A s \in OpenRun \cup Terminal : [run[r] EXCEPT !.status = s] \in RunRows
         /\ \A u \in BOOLEAN : [run[r] EXCEPT !.unsettled = u] \in RunRows
         /\ run[r] \in RunRows
BY DEF TypeOK, RunRows

\* A worker takes a run.
LEMMA ClaimFits == ASSUME IInv, NEW r \in Runs, Claim(r) PROVE IInv'
<1>1. TypeOK'
  BY RunRowTypes DEF IInv, TypeOK, Claim, OpenRun
<1>2. RowsFit'
  BY SMT DEF IInv, TypeOK, RunRows, Claim, RowsFit, RunFits, TaskFits, SessionFits
<1>3. StatusFits'
  BY DEF IInv, Claim, StatusFits, Current
<1>4. AcceptedIsSettled'
  BY DEF IInv, TypeOK, RunRows, Claim, AcceptedIsSettled, OpenRun
<1>5. MessagesFit'
  BY SMT DEF IInv, TypeOK, RunRows, MessageRows, Claim, MessagesFit, MessagesStayCurrent
<1> QED BY <1>1, <1>2, <1>3, <1>4, <1>5 DEF IInv

\* The worker begins a write.
LEMMA BeginWriteFits == ASSUME IInv, NEW r \in Runs, BeginWrite(r) PROVE IInv'
<1>1. TypeOK'
  BY RunRowTypes DEF IInv, TypeOK, BeginWrite, Claimed
<1>2. RowsFit'
  BY SMT DEF IInv, TypeOK, RunRows, TaskRows, DelegationRows, RowsFit, RunFits, TaskFits,
         SessionFits, BeginWrite, Claimed
<1>3. StatusFits'
  BY DEF IInv, StatusFits, Current, BeginWrite, Claimed
<1>4. AcceptedIsSettled'
  BY DEF IInv, TypeOK, RunRows, AcceptedIsSettled, OpenRun, BeginWrite, Claimed
<1>5. MessagesFit'
  BY SMT DEF IInv, TypeOK, RunRows, MessageRows, MessagesFit, MessagesStayCurrent, BeginWrite, Claimed
<1> QED BY <1>1, <1>2, <1>3, <1>4, <1>5 DEF IInv

\* A write gets its receipt.
LEMMA SettleFits == ASSUME IInv, NEW r \in Runs, Settle(r) PROVE IInv'
<1>1. TypeOK'
  BY RunRowTypes DEF IInv, TypeOK, Settle
<1>2. RowsFit'
  BY SMT DEF IInv, TypeOK, RunRows, TaskRows, DelegationRows, RowsFit, RunFits, TaskFits,
         SessionFits, Settle
<1>3. StatusFits'
  BY DEF IInv, StatusFits, Current, Settle
<1>4. AcceptedIsSettled'
  BY DEF IInv, TypeOK, RunRows, AcceptedIsSettled, OpenRun, Settle
<1>5. MessagesFit'
  BY SMT DEF IInv, TypeOK, RunRows, MessageRows, MessagesFit, MessagesStayCurrent, Settle
<1> QED BY <1>1, <1>2, <1>3, <1>4, <1>5 DEF IInv

\* The worker waits for reconciliation.
LEMMA HoldFits == ASSUME IInv, NEW r \in Runs, Hold(r) PROVE IInv'
<1>1. TypeOK'
  BY RunRowTypes DEF IInv, TypeOK, Hold, Claimed, OpenRun
<1>2. RowsFit'
  BY SMT DEF IInv, TypeOK, RunRows, TaskRows, DelegationRows, RowsFit, RunFits, TaskFits,
         SessionFits, Hold, Claimed, OpenRun
<1>3. StatusFits'
  BY DEF IInv, StatusFits, Current, Hold, Claimed, OpenRun
<1>4. AcceptedIsSettled'
  BY DEF IInv, TypeOK, RunRows, AcceptedIsSettled, OpenRun, Hold, Claimed, OpenRun
<1>5. MessagesFit'
  BY SMT DEF IInv, TypeOK, RunRows, MessageRows, MessagesFit, MessagesStayCurrent, Hold, Claimed,
         OpenRun
<1> QED BY <1>1, <1>2, <1>3, <1>4, <1>5 DEF IInv

\* The run an operation is about exists and has a local task.
LEMMA RunFacts ==
  ASSUME IInv, NEW r \in Runs, run[r].status # "none"
  PROVE  /\ run[r].task \in Assignments /\ run[r].task <= d.current
         /\ task[run[r].task] \in TaskRows /\ run[r] \in RunRows
         /\ task[run[r].task].exec.status = "none"
         /\ run[r].agreement <= task[run[r].task].agreement
BY DEF IInv, TypeOK, RunRows, RowsFit, RunFits

\* The current task is a row, and the delegation's own fields have their types.
LEMMA CurrentFacts ==
  ASSUME IInv
  PROVE  /\ d.current \in Assignments /\ d.agreement \in 1..MaxAgreement
         /\ d \in DelegationRows /\ Current \in TaskRows
BY DEF IInv, TypeOK, DelegationRows, Current

\* A task row keeps its type when its status changes.
LEMMA TaskRowTypes ==
  ASSUME TypeOK, NEW k \in Assignments
  PROVE  /\ \A s \in {"queued", "running"} \cup Terminal : [task[k] EXCEPT !.status = s] \in TaskRows
         /\ \A s \in {"running"}, r \in Runs : [task[k] EXCEPT !.status = s, !.run = r] \in TaskRows
BY DEF TypeOK, TaskRows

\* The delegation row keeps its type when its status changes.
LEMMA DelegationRowTypes ==
  ASSUME TypeOK
  PROVE  \A s \in DelegationStatus : [d EXCEPT !.status = s] \in DelegationRows
BY DEF TypeOK, DelegationRows

\* What a step that only moves a run and its task from status to status leaves.
RunKept(q) ==
  /\ run'[q].status = "none" <=> run[q].status = "none"
  /\ run'[q].task = run[q].task /\ run'[q].unsettled = run[q].unsettled
  /\ run'[q].agreement = run[q].agreement
  /\ run[q].task = 0 \/ run[q].task \in Assignments
TaskKept(j) ==
  /\ task'[j].agreement = task[j].agreement /\ task'[j].exec = task[j].exec
  /\ task'[j].agent = task[j].agent
  /\ task'[j].status = task[j].status \/ task[j].exec.status = "none"

\* Such a step, as the end and the resume of a run, keeps the rows together.
LEMMA OnlyStatuses ==
  ASSUME RowsFit, d'.current = d.current, d'.agreement = d.agreement, UNCHANGED working,
         \A q \in Runs : RunKept(q), \A j \in Assignments : TaskKept(j)
  PROVE  RowsFit'
<1>1. ASSUME NEW q \in Runs PROVE RunFits(q)'
  <2>1. RunKept(q) /\ RunFits(q) /\ (run[q].task # 0 => TaskKept(run[q].task))
    BY DEF RowsFit, RunKept
  <2> QED BY <2>1 DEF RunFits, RunKept, TaskKept
<1>2. ASSUME NEW j \in Assignments PROVE TaskFits(j)'
  <2>1. TaskKept(j) /\ TaskFits(j)
    BY DEF RowsFit
  <2> QED BY <2>1 DEF TaskFits, TaskKept
<1>3. ASSUME NEW j \in Assignments, NEW n \in 1..MaxAttempts PROVE SessionFits(j, n)'
  <2>1. TaskKept(j) /\ SessionFits(j, n)
    BY DEF RowsFit
  <2> QED BY <2>1 DEF SessionFits, TaskKept
<1> QED BY <1>1, <1>2, <1>3 DEF RowsFit

\* A run ends with its task, and the delegation follows.
LEMMA EndRunFits ==
  ASSUME IInv, NEW r \in Runs, NEW outcome \in Terminal, run[r].status \in OpenRun,
         EndRun(r, outcome)
  PROVE  IInv'
<1> DEFINE k == run[r].task
<1>0. /\ k \in Assignments /\ task[k].exec.status = "none" /\ task[k].status = "running"
      /\ run[r] \in RunRows /\ task[k] \in TaskRows
  BY RunFacts DEF OpenRun, EndRun
<1>1. TypeOK'
  <2>1. d' \in DelegationRows
    BY DelegationRowTypes DEF IInv, TypeOK, EndRun, Followed, DelegationStatus, Terminal
  <2>2. run' \in [Runs -> RunRows]
    BY RunRowTypes DEF IInv, TypeOK, EndRun
  <2>3. task' \in [Assignments -> TaskRows]
    BY <1>0, TaskRowTypes DEF IInv, TypeOK, EndRun
  <2> QED BY <2>1, <2>2, <2>3 DEF IInv, TypeOK, EndRun
<1>a. /\ d'.current = d.current /\ d'.agreement = d.agreement
      /\ d'.delivery = d.delivery /\ d'.pending = d.pending
  BY CurrentFacts DEF EndRun, Followed, DelegationRows
<1>2. RowsFit'
  <2>1. \A q \in Runs : RunKept(q)
    BY <1>0 DEF IInv, TypeOK, RunRows, EndRun, OpenRun, Terminal, RunKept
  <2>2. \A j \in Assignments : TaskKept(j)
    BY <1>0 DEF IInv, TypeOK, TaskRows, EndRun, TaskKept
  <2>3. UNCHANGED working
    BY DEF EndRun
  <2> QED BY <1>a, <2>1, <2>2, <2>3, OnlyStatuses DEF IInv
<1>3. StatusFits'
  <2>1. CASE d.current # k
    <3>1. d' = d /\ Current' = Current
      BY <2>1, <1>0, CurrentFacts DEF IInv, TypeOK, EndRun, Followed, Current
    <3> QED BY <3>1 DEF IInv, StatusFits
  <2>2. CASE d.current = k
    <3>1. Current'.status = outcome /\ Current'.agreement = Current.agreement
      BY <2>2, <1>0, <1>a DEF IInv, TypeOK, TaskRows, EndRun, Current
    <3>2. d.status \in {"running", "delivered", "failed"}
      BY <2>2, <1>0, CurrentFacts
         DEF IInv, StatusFits, DelegationRows, DelegationStatus, Closed, Terminal, Current
    <3>3. \/ d.status = "failed" /\ d'.status = "failed"
          \/ outcome = "cancelled" /\ d'.status = "paused"
          \/ outcome = "failed" /\ d'.status = "failed"
          \/ outcome = "completed" /\ d'.status \in {"delivered", "awaiting_delivery"}
      BY <2>2, <3>2, CurrentFacts DEF EndRun, Followed, DelegationRows, Terminal
    <3> QED BY <1>a, <3>1, <3>2, <3>3 DEF IInv, StatusFits, Terminal
  <2> QED BY <2>1, <2>2
<1>4. AcceptedIsSettled'
  BY <1>0, <1>a, CurrentFacts
     DEF IInv, AcceptedIsSettled, EndRun, Followed, Terminal, DelegationRows
<1>5. MessagesFit'
  BY <1>0, <1>a, ZenonT(30)
     DEF IInv, TypeOK, RunRows, MessageRows, MessagesFit, MessagesStayCurrent, EndRun
<1> QED BY <1>1, <1>2, <1>3, <1>4, <1>5 DEF IInv

\* A worker finishes its run.
LEMMA FinishFits ==
  ASSUME IInv, NEW r \in Runs, NEW outcome \in {"completed", "failed"}, Finish(r, outcome)
  PROVE  IInv'
BY EndRunFits DEF Finish, Claimed, OpenRun, Terminal

\* A run is cancelled.
LEMMA CancelRunFits == ASSUME IInv, NEW r \in Runs, CancelRun(r) PROVE IInv'
BY EndRunFits DEF CancelRun, Terminal

\* A run is resumed: its agreement is that of its task, since it is not ahead
\* of the task, nor the task of the delegation.
LEMMA ResumeRunFits == ASSUME IInv, NEW r \in Runs, ResumeRun(r) PROVE IInv'
<1> DEFINE k == run[r].task
<1>0. /\ k \in Assignments /\ task[k].exec.status = "none" /\ run[r].agreement <= task[k].agreement
      /\ run[r] \in RunRows /\ task[k] \in TaskRows /\ k = d.current
  BY RunFacts DEF ResumeRun
<1>1. TypeOK'
  <2>1. d' \in DelegationRows
    BY DelegationRowTypes DEF IInv, ResumeRun, DelegationStatus
  <2>2. run' \in [Runs -> RunRows]
    BY RunRowTypes DEF IInv, TypeOK, ResumeRun, OpenRun
  <2>3. task' \in [Assignments -> TaskRows]
    BY <1>0, TaskRowTypes DEF IInv, TypeOK, ResumeRun
  <2> QED BY <2>1, <2>2, <2>3 DEF IInv, TypeOK, ResumeRun
<1>a. /\ d'.current = d.current /\ d'.agreement = d.agreement /\ d'.status = "running"
  BY CurrentFacts DEF ResumeRun, DelegationRows
<1>2. RowsFit'
  <2>1. \A q \in Runs : RunKept(q)
    BY <1>0 DEF IInv, TypeOK, RunRows, ResumeRun, RunKept
  <2>2. \A j \in Assignments : TaskKept(j)
    BY <1>0 DEF IInv, TypeOK, TaskRows, ResumeRun, TaskKept
  <2>3. UNCHANGED working
    BY DEF ResumeRun
  <2> QED BY <1>a, <2>1, <2>2, <2>3, OnlyStatuses DEF IInv
<1>3. StatusFits'
  <2>1. Current'.status = "running" /\ Current'.agreement = task[k].agreement
    BY <1>0, <1>a DEF IInv, TypeOK, TaskRows, ResumeRun, Current
  <2>2. task[k].agreement <= d.agreement /\ d.agreement = run[r].agreement
    BY <1>0 DEF IInv, RowsFit, TaskFits, ResumeRun
  <2>3. task[k].agreement = d.agreement
    BY <1>0, <2>2, CurrentFacts, SMT DEF TaskRows, RunRows
  <2> QED BY <2>1, <2>3, <1>a DEF StatusFits
<1>4. AcceptedIsSettled'
  BY <1>a DEF AcceptedIsSettled
<1>5. MessagesFit'
  BY <1>0, <1>a, ZenonT(30)
     DEF IInv, TypeOK, RunRows, MessageRows, MessagesFit, MessagesStayCurrent, ResumeRun
<1> QED BY <1>1, <1>2, <1>3, <1>4, <1>5 DEF IInv

\* The owner cancels or resumes a task that has no run.
LEMMA ToggleQueuedTaskFits == ASSUME IInv, NEW k \in Assignments, ToggleQueuedTask(k) PROVE IInv'
<1>0. /\ task[k] \in TaskRows /\ task[k].status \in {"queued", "cancelled"}
      /\ \E s \in {"queued", "cancelled"} : task' = [task EXCEPT ![k] = [task[k] EXCEPT !.status = s]]
  BY DEF IInv, TypeOK, ToggleQueuedTask
<1> PICK s \in {"queued", "cancelled"} : task' = [task EXCEPT ![k] = [task[k] EXCEPT !.status = s]]
  BY <1>0
<1>1. TypeOK'
  BY TaskRowTypes DEF IInv, TypeOK, ToggleQueuedTask, Terminal
<1>2. RowsFit'
  BY <1>0, SMT
     DEF IInv, TypeOK, RunRows, TaskRows, RowsFit, RunFits, TaskFits, SessionFits, ToggleQueuedTask
<1>3. StatusFits'
  BY <1>0, CurrentFacts
     DEF IInv, TypeOK, TaskRows, StatusFits, Current, ToggleQueuedTask, DelegationRows, Terminal
<1>4. AcceptedIsSettled'
  BY DEF IInv, AcceptedIsSettled, ToggleQueuedTask
<1>5. MessagesFit'
  BY DEF IInv, MessagesFit, MessagesStayCurrent, ToggleQueuedTask
<1> QED BY <1>1, <1>2, <1>3, <1>4, <1>5 DEF IInv

\* A run of the current task, which no external agent executes, is made under
\* the agreement in force.
LEMMA StartedFits ==
  ASSUME IInv, NEW r \in Runs, Started(r), Current.exec.status = "none",
         Current.status # "none", Current.agreement = d.agreement,
         UNCHANGED working,
         msg' \in [Messages -> MessageRows],
         \A m \in Messages : \E b \in BOOLEAN : msg'[m] = [msg[m] EXCEPT !.launched = b]
  PROVE  IInv'
<1> DEFINE k == d.current
<1>0. k \in Assignments /\ task[k] \in TaskRows /\ d \in DelegationRows /\ run[r] \in RunRows
  BY CurrentFacts, RunRowTypes DEF IInv, Current
<1>1. TypeOK'
  <2>1. d' \in DelegationRows
    BY DelegationRowTypes DEF IInv, Started, DelegationStatus
  <2>2. run' \in [Runs -> RunRows]
    BY <1>0 DEF IInv, TypeOK, Started, OpenRun, Current, TaskRows, RunRows
  <2>3. task' \in [Assignments -> TaskRows]
    BY <1>0, TaskRowTypes DEF IInv, TypeOK, Started
  <2> QED BY <2>1, <2>2, <2>3 DEF IInv, TypeOK
<1>a. d'.current = d.current /\ d'.agreement = d.agreement /\ d'.status = "running"
  BY CurrentFacts DEF Started, DelegationRows
<1>2. RowsFit'
  <2>1. /\ task'[k].status = "running"
        /\ \A j \in Assignments : /\ task'[j].agreement = task[j].agreement
                                  /\ task'[j].agent = task[j].agent /\ task'[j].exec = task[j].exec
                                  /\ j # k => task'[j] = task[j]
    BY <1>0 DEF IInv, TypeOK, TaskRows, Started
  <2>2. /\ run'[r] = [status |-> "queued", task |-> k, agreement |-> task[k].agreement,
                      unsettled |-> FALSE]
        /\ \A q \in Runs : q # r => run'[q] = run[q]
    BY DEF IInv, TypeOK, Started, Current
  <2>3. \A q \in Runs : RunFits(q)'
    <3> TAKE q \in Runs
    <3>1. CASE q = r
      <4>1. /\ k \in Nat /\ k # 0 /\ task[k].agreement \in Nat /\ d'.current = k
            /\ task'[k].agreement = task[k].agreement /\ task'[k].exec.status = "none"
        BY <1>0, <1>a, <2>1, SMT DEF Assignments, TaskRows, Current
      <4>2. /\ run'[q].status = "queued" /\ run'[q].task = k /\ run'[q].unsettled = FALSE
            /\ run'[q].agreement = task[k].agreement
        BY <2>2, <3>1, SMT
      <4> QED BY <4>1, <4>2, SMT DEF RunFits
    <3>2. CASE q # r
      BY <1>a, <2>1, <2>2, <3>2, SMT DEF IInv, TypeOK, RunRows, RowsFit, RunFits
    <3> QED BY <3>1, <3>2
  <2>4. \A j \in Assignments : TaskFits(j)'
    BY <1>a, <2>1, SMT DEF IInv, RowsFit, TaskFits
  <2>5. \A j \in Assignments : \A n \in 1..MaxAttempts : SessionFits(j, n)'
    BY <1>a, <2>1, SMT DEF IInv, RowsFit, SessionFits
  <2> QED BY <2>3, <2>4, <2>5 DEF RowsFit
<1>3. StatusFits'
  <2>1. Current'.status = "running" /\ Current'.agreement = Current.agreement
    BY <1>0, <1>a DEF IInv, TypeOK, TaskRows, Started, Current
  <2> QED BY <2>1, <1>a DEF StatusFits
<1>4. AcceptedIsSettled'
  BY <1>a DEF AcceptedIsSettled
<1>5. MessagesFit'
  <2> SUFFICES ASSUME NEW m \in Messages
               PROVE  /\ msg'[m].state = "unread"
                           => msg'[m].agreement = d'.agreement /\ msg'[m].to = d'.current
                      /\ msg'[m].by # NoRun => /\ run'[msg'[m].by].agreement = msg'[m].agreement
                                               /\ run'[msg'[m].by].task = msg'[m].to
                                               /\ msg'[m].by # msg'[m].after
                                               /\ run'[msg'[m].by].task # 0
    BY DEF MessagesFit, MessagesStayCurrent
  <2>1. /\ msg[m] \in MessageRows
        /\ msg'[m].state = msg[m].state /\ msg'[m].agreement = msg[m].agreement
        /\ msg'[m].to = msg[m].to /\ msg'[m].by = msg[m].by /\ msg'[m].after = msg[m].after
    BY SMT DEF IInv, TypeOK, MessageRows
  <2>2. msg[m].by # NoRun => msg[m].by # r /\ run'[msg[m].by] = run[msg[m].by]
    BY <2>1 DEF IInv, TypeOK, RunRows, MessageRows, MessagesFit, RowsFit, RunFits, Started
  <2> QED BY <2>1, <2>2, <1>a, SMT DEF IInv, MessagesFit, MessagesStayCurrent
<1> QED BY <1>1, <1>2, <1>3, <1>4, <1>5 DEF IInv

\* A worker tick launches the queued task.
LEMMA LaunchFits == ASSUME IInv, Launch PROVE IInv'
<1>1. PICK r \in Runs : Started(r)
  BY DEF Launch
<1>2. /\ Current.exec.status = "none" /\ Current.status # "none" /\ Current.agreement = d.agreement
      /\ UNCHANGED <<msg, working>>
  BY DEF IInv, StatusFits, Launch, External, Current
<1>3. msg' \in [Messages -> MessageRows]
  BY <1>2 DEF IInv, TypeOK
<1>4. \A m \in Messages : \E b \in BOOLEAN : msg'[m] = [msg[m] EXCEPT !.launched = b]
  <2> TAKE m \in Messages
  <2>1. msg[m] \in MessageRows
    BY DEF IInv, TypeOK
  <2>2. msg[m] = [msg[m] EXCEPT !.launched = msg[m].launched] /\ msg[m].launched \in BOOLEAN
    BY <2>1 DEF MessageRows
  <2> QED BY <1>2, <2>2
<1> QED BY <1>1, <1>2, <1>3, <1>4, StartedFits

\* A message launches a run: only for an agent that is not external.
LEMMA LaunchForMessageFits == ASSUME IInv, NEW m \in Messages, LaunchForMessage(m) PROVE IInv'
<1>1. PICK r \in Runs : Started(r)
  BY DEF LaunchForMessage
<1>2. Current.status # "none" /\ Current.agreement = d.agreement
  BY CurrentFacts
     DEF IInv, StatusFits, LaunchForMessage, Closed, DelegationRows, DelegationStatus, Terminal
<1>3. Current.exec.status = "none"
  BY CurrentFacts DEF IInv, RowsFit, TaskFits, LaunchForMessage, Current
<1>4. \A q \in Messages : [msg[q] EXCEPT !.launched = TRUE] \in MessageRows
  BY DEF IInv, TypeOK, MessageRows
<1>5. msg' \in [Messages -> MessageRows]
  BY <1>4 DEF IInv, TypeOK, LaunchForMessage
<1>6. \A q \in Messages : \E b \in BOOLEAN : msg'[q] = [msg[q] EXCEPT !.launched = b]
  <2> TAKE q \in Messages
  <2>1. msg[q] \in MessageRows
    BY DEF IInv, TypeOK
  <2>2. msg[q] = [msg[q] EXCEPT !.launched = msg[q].launched] /\ msg[q].launched \in BOOLEAN
    BY <2>1 DEF MessageRows
  <2>3. CASE q = m
    BY <2>3 DEF IInv, TypeOK, LaunchForMessage
  <2>4. CASE q # m
    BY <2>2, <2>4 DEF IInv, TypeOK, LaunchForMessage
  <2> QED BY <2>3, <2>4
<1>7. UNCHANGED working
  BY DEF LaunchForMessage
<1> QED BY <1>1, <1>2, <1>3, <1>5, <1>6, <1>7, StartedFits

\* Messages a decision supersedes or leaves alone: those still unread are of
\* the agreement in force.
LEMMA SupersededFits ==
  ASSUME IInv, NEW a \in 1..MaxAgreement, msg' = Superseded(a),
         d'.agreement = a, a = d.agreement => d'.current = d.current,
         \A r \in Runs : run'[r].task = run[r].task /\ run'[r].agreement = run[r].agreement
  PROVE  msg' \in [Messages -> MessageRows] /\ MessagesFit'
<1>1. Blank("superseded") \in MessageRows /\ Blank("superseded").state = "superseded"
      /\ Blank("superseded").by = NoRun
  BY SMT DEF Blank, MessageRows
<1>2. \A m \in Messages : /\ msg[m] \in MessageRows
                          /\ msg'[m] = Blank("superseded") \/ msg'[m] = msg[m]
                          /\ msg'[m].state = "unread" => msg'[m] = msg[m] /\ msg[m].agreement = a
  BY <1>1 DEF IInv, TypeOK, Superseded
<1>3. msg' \in [Messages -> MessageRows]
  BY <1>1 DEF IInv, TypeOK, Superseded
<1>4. MessagesFit'
  <2> SUFFICES ASSUME NEW m \in Messages
               PROVE  /\ msg'[m].state = "unread"
                           => msg'[m].agreement = d'.agreement /\ msg'[m].to = d'.current
                      /\ msg'[m].by # NoRun => /\ run'[msg'[m].by].agreement = msg'[m].agreement
                                               /\ run'[msg'[m].by].task = msg'[m].to
                                               /\ msg'[m].by # msg'[m].after
                                               /\ run'[msg'[m].by].task # 0
    BY DEF MessagesFit, MessagesStayCurrent
  <2>1. CASE msg'[m] = Blank("superseded")
    BY <1>1, <2>1
  <2>2. CASE msg'[m] = msg[m]
    BY <1>2, <2>2, SMT DEF IInv, MessagesFit, MessagesStayCurrent, MessageRows
  <2> QED BY <1>2, <2>1, <2>2
<1> QED BY <1>3, <1>4

\* What stopping the current task leaves alone.
LEMMA StopTaskFacts ==
  ASSUME IInv, StopTask
  PROVE  /\ run' \in [Runs -> RunRows] /\ task' \in [Assignments -> TaskRows]
         /\ \A r \in Runs : /\ run'[r].task = run[r].task /\ run'[r].agreement = run[r].agreement
                            /\ run'[r].unsettled = run[r].unsettled
                            /\ run'[r].status = "none" <=> run[r].status = "none"
         /\ \A k \in Assignments :
              /\ task'[k].agreement = task[k].agreement /\ task'[k].agent = task[k].agent
              /\ task'[k].exec.attempt = task[k].exec.attempt
              /\ task'[k].exec.status = "none" <=> task[k].exec.status = "none"
              /\ task'[k].exec.acknowledged => task'[k].exec = task[k].exec
              /\ task'[k].exec.status = "waiting_claim" => task'[k].exec = task[k].exec
              /\ task'[k].status = "completed" => task'[k] = task[k]
         /\ task'[d.current].status = "cancelled"
<1> DEFINE k == d.current
           stopped == [task[k].exec EXCEPT !.status = "stop_requested", !.acknowledged = FALSE,
                                           !.effect = ""]
           exec == IF External(k) THEN stopped ELSE task[k].exec
           row == [task[k] EXCEPT !.status = "cancelled", !.exec = exec]
<1>1. k \in Assignments /\ task[k] \in TaskRows /\ task[k].exec \in Executions
  BY CurrentFacts DEF Current, TaskRows
<1>2. /\ exec \in Executions /\ exec.attempt = task[k].exec.attempt
      /\ exec.status = "none" <=> task[k].exec.status = "none"
      /\ exec # task[k].exec => exec.status = "stop_requested" /\ exec.acknowledged = FALSE
  BY <1>1 DEF External, Executions
<1>3. /\ row \in TaskRows /\ row.status = "cancelled" /\ row.exec = exec
      /\ row.agreement = task[k].agreement /\ row.agent = task[k].agent
  <2> HIDE DEF exec
  <2> QED BY <1>1, <1>2 DEF TaskRows, Terminal
<1>4. task' = [task EXCEPT ![k] = row]
  BY <1>1 DEF IInv, TypeOK, StopTask
<1> HIDE DEF exec, row
<1>5. task' \in [Assignments -> TaskRows] /\ task'[k] = row
      /\ \A j \in Assignments : j # k => task'[j] = task[j]
  BY <1>1, <1>3, <1>4 DEF IInv, TypeOK
<1>6. \A r \in Runs : \/ run'[r] = run[r]
                      \/ run[r].status \in OpenRun /\ run'[r] = [run[r] EXCEPT !.status = "cancelled"]
  BY DEF StopTask
<1>7. run' \in [Runs -> RunRows]
  BY RunRowTypes DEF IInv, TypeOK, StopTask, Terminal
<1>8. \A r \in Runs : /\ run'[r].task = run[r].task /\ run'[r].agreement = run[r].agreement
                      /\ run'[r].unsettled = run[r].unsettled
                      /\ run'[r].status = "none" <=> run[r].status = "none"
  <2> TAKE r \in Runs
  <2>1. run[r] \in RunRows
    BY RunRowTypes DEF IInv
  <2>2. CASE run'[r] = run[r]
    BY <2>2
  <2>3. CASE run[r].status \in OpenRun /\ run'[r] = [run[r] EXCEPT !.status = "cancelled"]
    BY <2>1, <2>3 DEF RunRows, OpenRun
  <2> QED BY <1>6, <2>2, <2>3
<1> QED BY <1>1, <1>2, <1>3, <1>5, <1>7, <1>8

\* A decision that stops the task and leaves the delegation stopped.
LEMMA StoppedFits ==
  ASSUME IInv, StopTask, d' \in DelegationRows, d'.current = d.current, d.agreement <= d'.agreement,
         d'.status \in {"paused", "needs_changes", "needs_update", "cancelled", "rejected"},
         UNCHANGED working, msg' \in [Messages -> MessageRows], MessagesFit'
  PROVE  IInv'
<1>1. TypeOK'
  BY StopTaskFacts DEF IInv, TypeOK
<1>2. \A r \in Runs : RunFits(r)'
  BY StopTaskFacts, SMT DEF IInv, TypeOK, RunRows, RowsFit, RunFits
<1>3. \A k \in Assignments : TaskFits(k)'
  BY StopTaskFacts, SMT DEF IInv, TypeOK, TaskRows, DelegationRows, RowsFit, TaskFits
<1>4. \A k \in Assignments : \A n \in 1..MaxAttempts : SessionFits(k, n)'
  BY StopTaskFacts, ZenonT(30) DEF IInv, RowsFit, SessionFits
<1>5. StatusFits'
  BY StopTaskFacts DEF StatusFits, Current, Terminal
<1>6. AcceptedIsSettled'
  BY DEF AcceptedIsSettled
<1> QED BY <1>1, <1>2, <1>3, <1>4, <1>5, <1>6 DEF IInv, RowsFit

\* Messages are left alone by a step that keeps what they refer to.
LEMMA MessagesKept ==
  ASSUME IInv, UNCHANGED msg, d'.agreement = d.agreement, d'.current = d.current,
         \A r \in Runs : run'[r].task = run[r].task /\ run'[r].agreement = run[r].agreement
  PROVE  msg' \in [Messages -> MessageRows] /\ MessagesFit'
BY DEF IInv, TypeOK, MessageRows, MessagesFit, MessagesStayCurrent

\* Pause, cancel, reject and the request for changes.
LEMMA StopFits ==
  ASSUME IInv, NEW status \in {"paused", "needs_changes", "cancelled", "rejected"}, Stop(status)
  PROVE  IInv'
<1>1. d' \in DelegationRows
  BY DelegationRowTypes DEF IInv, Stop, DelegationStatus, Closed
<1>2. d'.current = d.current /\ d'.agreement = d.agreement /\ d'.status = status
  BY CurrentFacts DEF Stop, DelegationRows
<1>3. StopTask /\ UNCHANGED <<msg, working>>
  BY DEF Stop
<1>4. msg' \in [Messages -> MessageRows] /\ MessagesFit'
  BY <1>2, <1>3, StopTaskFacts, MessagesKept
<1>5. d.agreement <= d'.agreement
  BY <1>2, CurrentFacts, SMT
<1> QED BY <1>1, <1>2, <1>3, <1>4, <1>5, StoppedFits

\* A new agreement stops the work and supersedes the unread messages.
LEMMA ChangeAgreementFits == ASSUME IInv, ChangeAgreement PROVE IInv'
<1>1. /\ d'.current = d.current /\ d'.agreement = d.agreement + 1 /\ d'.status = "needs_update"
      /\ d.agreement + 1 \in 1..MaxAgreement
  BY CurrentFacts, SMT DEF ChangeAgreement, DelegationRows
<1>2. d' \in DelegationRows
  BY <1>1, CurrentFacts DEF ChangeAgreement, DelegationRows, DelegationStatus
<1>3. StopTask /\ UNCHANGED working /\ msg' = Superseded(d.agreement + 1)
  BY DEF ChangeAgreement
<1>4. msg' \in [Messages -> MessageRows] /\ MessagesFit'
  BY <1>1, <1>3, StopTaskFacts, SupersededFits, CurrentFacts
<1>5. d.agreement <= d'.agreement
  BY <1>1, CurrentFacts, SMT
<1> QED BY <1>1, <1>2, <1>3, <1>4, <1>5, StoppedFits

\* A change upstream stops work that has not ended.
LEMMA UpstreamChangedFits == ASSUME IInv, UpstreamChanged PROVE IInv'
<1>1. d'.current = d.current /\ d'.agreement = d.agreement /\ d'.status = "needs_update"
  BY CurrentFacts DEF UpstreamChanged, DelegationRows
<1>2. d' \in DelegationRows
  BY <1>1, CurrentFacts DEF UpstreamChanged, DelegationRows, DelegationStatus
<1>3. UNCHANGED <<msg, working>> /\ d.agreement <= d'.agreement
  BY <1>1, CurrentFacts, SMT DEF UpstreamChanged
<1>4. CASE StopTask
  BY <1>1, <1>2, <1>3, <1>4, StopTaskFacts, MessagesKept, StoppedFits
<1>5. CASE UNCHANGED <<run, task>> /\ Current.status \in Terminal
  <2>1. TypeOK' /\ RowsFit' /\ MessagesFit'
    BY <1>1, <1>2, <1>3, <1>5, MessagesKept
       DEF IInv, TypeOK, RowsFit, RunFits, TaskFits, SessionFits
  <2>2. StatusFits' /\ AcceptedIsSettled'
    BY <1>1, <1>5 DEF StatusFits, AcceptedIsSettled, Current
  <2> QED BY <2>1, <2>2 DEF IInv
<1> QED BY <1>4, <1>5 DEF UpstreamChanged

\* The task of the next execution: an external one gets a new attempt, and only
\* when the stop of the last one was confirmed, so no session is at work on it.
LEMMA ResumeFits == ASSUME IInv, NEW new \in BOOLEAN, Resume(new) PROVE IInv'
<1> DEFINE k == d.current
           a == d.agreement + IF new THEN 1 ELSE 0
           row == Requeued(a)
<1>0. k \in Assignments /\ task[k] \in TaskRows /\ task[k].exec \in Executions /\ Current = task[k]
  BY CurrentFacts DEF Current, TaskRows
<1>a. a \in 1..MaxAgreement /\ d.agreement <= a /\ d.agreement \in Nat
  BY CurrentFacts, SMT DEF Resume
<1>b. /\ d' \in DelegationRows /\ d'.current = k /\ d'.agreement = a /\ d'.status = "accepted"
  <2> HIDE DEF a
  <2> QED BY <1>a, CurrentFacts DEF Resume, a, DelegationRows, DelegationStatus
<1>c. /\ task' = [task EXCEPT ![k] = row] /\ msg' = Superseded(a) /\ UNCHANGED <<run, working>>
  BY DEF Resume
<1> DEFINE exec == IF External(k) THEN Waiting(task[k].exec.attempt + 1) ELSE task[k].exec
<1>d. /\ exec \in Executions
      /\ exec.status = "none" <=> task[k].exec.status = "none"
      /\ exec.status # "none" => ~exec.acknowledged /\ task[k].exec.acknowledged
      /\ exec.status = "none" => exec = task[k].exec
      /\ exec.status # "none" => exec.attempt # 0
  <2>1. CASE External(k)
    <3>a. task[k].exec.attempt < MaxAttempts
      BY <1>0, <2>1 DEF Resume
    <3>1. task[k].exec.attempt + 1 \in 0..MaxAttempts /\ task[k].exec.attempt + 1 # 0
      <4>1. task[k].exec.attempt \in 0..MaxAttempts
        BY <1>0 DEF Executions
      <4>2. MaxAttempts \in Nat
        OBVIOUS
      <4> QED BY <3>a, <4>1, <4>2, SMT
    <3>2. /\ Waiting(task[k].exec.attempt + 1) \in Executions
          /\ Waiting(task[k].exec.attempt + 1).attempt # 0
          /\ Waiting(task[k].exec.attempt + 1).status = "waiting_claim"
          /\ Waiting(task[k].exec.attempt + 1).acknowledged = FALSE
      BY <3>1 DEF Executions, Waiting, NoExecution
    <3>3. task[k].exec.acknowledged /\ task[k].exec.status # "none"
      BY <1>0, <2>1 DEF Resume, MayRerun, External
    <3> QED BY <2>1, <3>2, <3>3
  <2>2. CASE ~External(k)
    BY <1>0, <2>2 DEF External
  <2> QED BY <2>1, <2>2
<1>e. /\ row \in TaskRows /\ row.status = "queued" /\ row.agreement = a /\ row.agent = task[k].agent
      /\ row.exec = exec
  <2>1. row = [task[k] EXCEPT !.status = "queued", !.run = NoRun, !.agreement = a, !.exec = exec]
    BY <1>0 DEF Requeued
  <2>2. a \in 0..MaxAgreement
    BY <1>a, SMT
  <2> HIDE DEF exec, a, row
  <2>3. row \in TaskRows
    BY <1>0, <1>d, <2>1, <2>2 DEF TaskRows
  <2> QED BY <1>0, <2>1, <2>3 DEF TaskRows
<1> HIDE DEF exec, a, row
<1>f. /\ task' \in [Assignments -> TaskRows] /\ task'[k] = row
      /\ \A j \in Assignments : j # k => task'[j] = task[j]
  BY <1>0, <1>c, <1>e DEF IInv, TypeOK
<1>g. msg' \in [Messages -> MessageRows] /\ MessagesFit'
  BY <1>a, <1>b, <1>c, SupersededFits
<1>1. TypeOK'
  BY <1>b, <1>c, <1>f, <1>g DEF IInv, TypeOK
<1>2. \A j \in Assignments : task[j].agreement \in Nat /\ task[j].agreement <= task'[j].agreement
  BY <1>0, <1>a, <1>e, <1>f, SMT DEF IInv, TypeOK, TaskRows, RowsFit, TaskFits
<1>3. \A r \in Runs : RunFits(r)'
  <2> TAKE r \in Runs
  <2>1. run[r] \in RunRows /\ run' = run /\ RunFits(r)
    BY <1>c, RunRowTypes DEF IInv, RowsFit
  <2>2. run[r].task # 0 => /\ run[r].agreement <= task'[run[r].task].agreement
                           /\ task'[run[r].task].exec.status = "none"
    <3> SUFFICES ASSUME run[r].task # 0
                 PROVE  /\ run[r].agreement <= task'[run[r].task].agreement
                        /\ task'[run[r].task].exec.status = "none"
      OBVIOUS
    <3>1. /\ run[r].task \in Assignments /\ run[r].agreement \in Nat
          /\ run[r].agreement <= task[run[r].task].agreement
          /\ task[run[r].task].exec.status = "none"
      BY <2>1, SMT DEF RunRows, RunFits
    <3>2. task[run[r].task].agreement \in Nat /\ task'[run[r].task].agreement \in Nat
          /\ task[run[r].task].agreement <= task'[run[r].task].agreement
      BY <3>1, <1>2, <1>f, SMT DEF TaskRows
    <3>3. task'[run[r].task].exec.status = "none"
      BY <3>1, <1>d, <1>e, <1>f
    <3> QED BY <3>1, <3>2, <3>3, SMT
  <2> QED BY <2>1, <2>2, <1>b DEF RunFits
<1>4. \A j \in Assignments : TaskFits(j)'
  <2> TAKE j \in Assignments
  <2>1. CASE j = k
    BY <2>1, <1>0, <1>a, <1>b, <1>d, <1>e, <1>f, SMT DEF IInv, RowsFit, TaskFits
  <2>2. CASE j # k
    BY <2>2, <1>2, <1>a, <1>b, <1>f, SMT DEF IInv, RowsFit, TaskFits
  <2> QED BY <2>1, <2>2
<1>5. \A j \in Assignments : \A n \in 1..MaxAttempts : SessionFits(j, n)'
  BY <1>0, <1>b, <1>c, <1>d, <1>e, <1>f, SMT DEF IInv, RowsFit, SessionFits
<1>6. StatusFits'
  BY <1>b, <1>e, <1>f DEF StatusFits, Current
<1>7. AcceptedIsSettled'
  BY <1>b DEF AcceptedIsSettled
<1> QED BY <1>1, <1>3, <1>4, <1>5, <1>6, <1>7, <1>g DEF IInv, RowsFit

\* A delivery changes only the delegation.
LEMMA DeliverFits == ASSUME IInv, Deliver PROVE IInv'
<1>1. /\ d' \in DelegationRows /\ d'.current = d.current /\ d'.agreement = d.agreement
      /\ d'.status = "delivered"
  <2>1. d.agreement \in 0..MaxAgreement /\ d \in DelegationRows
    BY CurrentFacts, SMT
  <2>2. d' = [d EXCEPT !.status = "delivered", !.delivery = d.agreement]
    BY DEF Deliver
  <2> QED BY <2>1, <2>2 DEF DelegationRows, DelegationStatus
<1>2. UNCHANGED <<task, run, msg, working>>
  BY DEF Deliver
<1>3. TypeOK' /\ RowsFit' /\ AcceptedIsSettled'
  BY <1>1, <1>2 DEF IInv, TypeOK, RowsFit, RunFits, TaskFits, SessionFits, AcceptedIsSettled
<1>4. StatusFits'
  BY <1>1, <1>2 DEF IInv, StatusFits, Current, Deliver
<1>5. MessagesFit'
  BY <1>1, <1>2, MessagesKept
<1> QED BY <1>3, <1>4, <1>5 DEF IInv

\* What the handoff establishes, of every run there is.
LEMMA HandoffFacts ==
  ASSUME IInv, HandoffReady
  PROVE  \A r \in Runs : run[r].status \notin OpenRun /\ ~run[r].unsettled
<1> TAKE r \in Runs
<1>1. run[r] \in RunRows /\ RunFits(r)
  BY RunRowTypes DEF IInv, RowsFit
<1>2. CASE run[r].task = 0
  BY <1>1, <1>2 DEF RunFits, OpenRun
<1>3. CASE run[r].task # 0
  <2>1. run[r].task \in Assignments
    BY <1>1, <1>3 DEF RunRows
  <2> QED BY <2>1 DEF HandoffReady, OpenRunsOf, Unsettled
<1> QED BY <1>2, <1>3

\* The delivery is accepted.
LEMMA AcceptDeliveryFits == ASSUME IInv, AcceptDelivery PROVE IInv'
<1>1. /\ d' \in DelegationRows /\ d'.current = d.current /\ d'.agreement = d.agreement
      /\ d'.status = "accepted_delivery" /\ d'.delivery = d.agreement /\ d'.pending = {}
  BY CurrentFacts DEF AcceptDelivery, DelegationRows, DelegationStatus, Closed
<1>2. UNCHANGED <<task, run, msg, working>> /\ HandoffReady
  BY DEF AcceptDelivery
<1>3. TypeOK' /\ RowsFit'
  BY <1>1, <1>2 DEF IInv, TypeOK, RowsFit, RunFits, TaskFits, SessionFits
<1>4. StatusFits'
  BY <1>1, <1>2 DEF IInv, StatusFits, Current, AcceptDelivery
<1>5. AcceptedIsSettled'
  BY <1>1, <1>2, HandoffFacts DEF AcceptedIsSettled
<1>6. MessagesFit'
  BY <1>1, <1>2, MessagesKept
<1> QED BY <1>3, <1>4, <1>5, <1>6 DEF IInv

\* The next assignment: no run and no session is about it yet.
LEMMA TransferFits == ASSUME IInv, NEW agent \in Agents, Transfer(agent) PROVE IInv'
<1> DEFINE k == d.current + 1
           a == d.agreement + 1
           row == NewTask(agent, a, NoExecution)
<1>a. /\ a \in 1..MaxAgreement /\ d.agreement <= a /\ d.agreement \in Nat /\ a # d.agreement
      /\ k \in Assignments /\ d.current \in Nat /\ d.current <= k /\ ~(k <= d.current)
  BY CurrentFacts, SMT DEF Transfer, Assignments
<1>b. /\ task' = [task EXCEPT ![k] = row] /\ msg' = Superseded(a) /\ UNCHANGED <<run, working>>
      /\ d' = [status |-> "accepted", agreement |-> a, current |-> k, delivery |-> 0, pending |-> {}]
  BY DEF Transfer
<1>c. /\ row \in TaskRows /\ row.status = "queued" /\ row.agreement = a
      /\ row.exec.status = "none" /\ row.exec \in Executions /\ row.exec.acknowledged = FALSE
  <2>1. /\ NoExecution \in Executions /\ NoExecution.status = "none"
        /\ NoExecution.acknowledged = FALSE
    BY SMT DEF NoExecution, Executions
  <2> QED BY <1>a, <2>1, SMT DEF NewTask, TaskRows
<1> HIDE DEF k, a, row
<1>d. d' \in DelegationRows /\ d'.agreement = a /\ d'.current = k /\ d'.status = "accepted"
  BY <1>a, <1>b, SMT DEF DelegationRows, DelegationStatus
<1>e. /\ task' \in [Assignments -> TaskRows] /\ task'[k] = row
      /\ \A j \in Assignments : j # k => task'[j] = task[j]
  BY <1>a, <1>b, <1>c DEF IInv, TypeOK
<1>f. msg' \in [Messages -> MessageRows] /\ MessagesFit'
  BY <1>a, <1>b, <1>d, SupersededFits
<1>1. TypeOK'
  BY <1>b, <1>d, <1>e, <1>f DEF IInv, TypeOK
<1>2. \A r \in Runs : RunFits(r)'
  <2> TAKE r \in Runs
  <2>1. run[r] \in RunRows /\ run' = run /\ RunFits(r)
    BY <1>b, RunRowTypes DEF IInv, RowsFit
  <2>2. run[r].task # 0 => /\ run[r].task <= d'.current
                           /\ task'[run[r].task] = task[run[r].task]
    <3>1. run[r].task # 0 => run[r].task \in Assignments /\ run[r].task <= d.current
      BY <2>1 DEF RunRows, RunFits
    <3> QED BY <3>1, <1>a, <1>d, <1>e, SMT DEF Assignments
  <2> QED BY <2>1, <2>2 DEF RunFits
<1>3. \A j \in Assignments : TaskFits(j)'
  <2> TAKE j \in Assignments
  <2>1. CASE j = k
    BY <2>1, <1>a, <1>c, <1>d, <1>e, SMT DEF TaskFits
  <2>2. CASE j # k
    <3>1. task'[j] = task[j] /\ task[j].agreement \in Nat /\ TaskFits(j)
      BY <2>2, <1>e, SMT DEF IInv, TypeOK, TaskRows, RowsFit
    <3>2. task[j].agreement <= a
      BY <3>1, <1>a, SMT DEF TaskFits
    <3> QED BY <3>1, <3>2, <1>d DEF TaskFits
  <2> QED BY <2>1, <2>2
<1>4. \A j \in Assignments : \A n \in 1..MaxAttempts : SessionFits(j, n)'
  <2> TAKE j \in Assignments
  <2> TAKE n \in 1..MaxAttempts
  <2>1. SessionFits(j, n) /\ working' = working
    BY <1>b DEF IInv, RowsFit
  <2>2. j <= d.current => j # k /\ j <= k
    BY <1>a, SMT DEF Assignments
  <2> QED BY <2>1, <2>2, <1>d, <1>e DEF SessionFits
<1>5. StatusFits'
  BY <1>c, <1>d, <1>e DEF StatusFits, Current
<1>6. AcceptedIsSettled'
  BY <1>d DEF AcceptedIsSettled
<1> QED BY <1>1, <1>2, <1>3, <1>4, <1>5, <1>6, <1>f DEF IInv, RowsFit

\* A step of an external agent: the row of its task, and who is at work.
LEMMA ExternalFits ==
  ASSUME IInv, NEW k \in Assignments, NEW row \in TaskRows, task[k].exec.status # "none",
         task' = [task EXCEPT ![k] = row], UNCHANGED <<run, msg>>,
         row.agreement = task[k].agreement, row.agent = task[k].agent,
         row.exec.attempt = task[k].exec.attempt, row.exec.status # "none",
         row.status = "completed" => row.exec.status = "completed",
         row.exec.status = "waiting_claim" => ~row.exec.acknowledged,
         working' \subseteq Assignments \X (1..MaxAttempts),
         \A j \in Assignments : \A n \in 1..MaxAttempts :
           <<j, n>> \in working' =>
             \/ j # k /\ <<j, n>> \in working
             \/ j = k /\ k <= d.current /\ n = row.exec.attempt /\ ~row.exec.acknowledged,
         d' \in DelegationRows, d'.current = d.current, d'.agreement = d.agreement,
         d'.status = "accepted_delivery" => d' = d,
         StatusFits'
  PROVE  IInv'
<1>1. /\ task' \in [Assignments -> TaskRows] /\ task'[k] = row
      /\ \A j \in Assignments : j # k => task'[j] = task[j]
  BY DEF IInv, TypeOK
<1>2. TypeOK'
  BY <1>1 DEF IInv, TypeOK
<1>3. \A r \in Runs : RunFits(r)'
  <2> TAKE r \in Runs
  <2>1. run[r] \in RunRows /\ RunFits(r) /\ run' = run
    BY RunRowTypes DEF IInv, RowsFit
  <2>2. run[r].task # 0 => task'[run[r].task] = task[run[r].task]
    BY <2>1, <1>1 DEF RunRows, RunFits
  <2> QED BY <2>1, <2>2 DEF RunFits
<1>4. \A j \in Assignments : TaskFits(j)'
  <2> TAKE j \in Assignments
  <2>1. TaskFits(j) /\ TaskFits(k)
    BY DEF IInv, RowsFit
  <2>2. CASE j = k
    BY <2>1, <2>2, <1>1 DEF TaskFits
  <2>3. CASE j # k
    BY <2>1, <2>3, <1>1 DEF TaskFits
  <2> QED BY <2>2, <2>3
<1>5. \A j \in Assignments : \A n \in 1..MaxAttempts : SessionFits(j, n)'
  BY <1>1 DEF IInv, RowsFit, SessionFits
<1>6. AcceptedIsSettled'
  BY DEF IInv, AcceptedIsSettled
<1>7. MessagesFit'
  BY MessagesKept
<1> QED BY <1>2, <1>3, <1>4, <1>5, <1>6, <1>7 DEF IInv, RowsFit

\* An external agent claims the task.
LEMMA ClaimExternalFits == ASSUME IInv, ClaimExternal PROVE IInv'
<1> DEFINE k == d.current
           e == [task[k].exec EXCEPT !.status = "running", !.session = TRUE]
           row == [task[k] EXCEPT !.status = "running", !.exec = e]
<1>1. /\ k \in Assignments /\ task[k] \in TaskRows /\ task[k].exec \in Executions
      /\ d \in DelegationRows /\ k \in Nat
  BY CurrentFacts, SMT DEF Current, TaskRows, Assignments
<1>2. /\ e \in Executions /\ e.status = "running" /\ e.attempt = task[k].exec.attempt
      /\ e.acknowledged = task[k].exec.acknowledged
  BY <1>1 DEF Executions
<1>3. /\ row \in TaskRows /\ row.agreement = task[k].agreement /\ row.agent = task[k].agent
      /\ row.exec = e /\ row.status = "running"
  <2> HIDE DEF e
  <2> QED BY <1>1, <1>2 DEF TaskRows
<1>4. /\ task' = [task EXCEPT ![k] = row] /\ UNCHANGED <<run, msg>>
      /\ task[k].exec.status = "waiting_claim" /\ ~task[k].exec.acknowledged /\ d.status = "accepted"
      /\ working' = working \cup {<<k, task[k].exec.attempt>>}
  BY <1>1, ZenonT(30) DEF ClaimExternal, IInv, TypeOK, RowsFit, TaskFits
<1>5. /\ d' \in DelegationRows /\ d'.current = d.current /\ d'.agreement = d.agreement
      /\ d'.status = "running"
  BY <1>1 DEF ClaimExternal, DelegationRows, DelegationStatus
<1> HIDE DEF row, e, k
<1>6. StatusFits'
  <2>1. Current' = row /\ Current.agreement = d.agreement /\ Current = task[k]
    BY <1>1, <1>4, <1>5 DEF IInv, TypeOK, StatusFits, Current, k
  <2> QED BY <2>1, <1>3, <1>5 DEF StatusFits
<1>7. task[k].exec.attempt \in 1..MaxAttempts
  <2>1. task[k].exec.attempt \in 0..MaxAttempts /\ task[k].exec.attempt # 0
    BY <1>1, <1>4 DEF IInv, RowsFit, TaskFits, Executions
  <2> QED BY <2>1, SMT
<1>8. \A j \in Assignments : \A n \in 1..MaxAttempts :
        <<j, n>> \in working' =>
          \/ j # k /\ <<j, n>> \in working
          \/ j = k /\ k <= d.current /\ n = row.exec.attempt /\ ~row.exec.acknowledged
  BY <1>1, <1>2, <1>3, <1>4, SMT DEF IInv, RowsFit, SessionFits, k
<1>9. working' \subseteq Assignments \X (1..MaxAttempts)
  BY <1>1, <1>4, <1>7, SMT DEF IInv, TypeOK
<1> QED BY <1>1, <1>2, <1>3, <1>4, <1>5, <1>6, <1>8, <1>9, ExternalFits

\* A session that reports is the only one of its task, and its report ends it.
LEMMA ReportFacts ==
  ASSUME IInv, NEW k \in Assignments, MayReport(k), working' = working \ {Session(k)}
  PROVE  /\ task[k] \in TaskRows /\ task[k].exec \in Executions
         /\ task[k].exec.status \in {"running", "stop_requested"}
         /\ task[k].status # "completed"
         /\ working' \subseteq Assignments \X (1..MaxAttempts)
         /\ \A j \in Assignments : \A n \in 1..MaxAttempts :
              <<j, n>> \in working' => j # k /\ <<j, n>> \in working
<1>1. task[k] \in TaskRows /\ task[k].exec \in Executions
  BY DEF IInv, TypeOK, TaskRows
<1>2. task[k].exec.status \in {"running", "stop_requested"} /\ task[k].status # "completed"
  BY DEF MayReport, IInv, RowsFit, TaskFits
<1>3. \A n \in 1..MaxAttempts : <<k, n>> \in working => <<k, n>> = Session(k)
  BY DEF IInv, RowsFit, SessionFits, Session
<1>4. working' \subseteq Assignments \X (1..MaxAttempts)
  BY DEF IInv, TypeOK
<1> QED BY <1>1, <1>2, <1>3, <1>4

\* The statuses still fit after a report gave the task of k another outcome.
LEMMA ReportStatusFits ==
  ASSUME IInv, NEW k \in Assignments, NEW row \in TaskRows,
         task' = [task EXCEPT ![k] = row], row.agreement = task[k].agreement,
         task[k].status # "completed",
         d'.current = d.current, d'.agreement = d.agreement,
         \/ d' = d /\ row.status = task[k].status
         \/ d' = d /\ d.status = "delivered" /\ row.status = "completed"
         \/ row.status = "failed" /\ d.status \in {"running", "accepted"} /\ d'.status = "failed"
         \/ row.status = "failed" /\ d.status \notin {"running", "accepted"} /\ d' = d
  PROVE  StatusFits'
<1>1. Current' = IF k = d.current THEN row ELSE Current
  BY CurrentFacts DEF IInv, TypeOK, Current
<1>2. StatusFits /\ d.status \in DelegationStatus
  BY CurrentFacts DEF IInv, DelegationRows
<1>3. CASE k # d.current
  <2>1. Current' = Current
    BY <1>1, <1>3
  <2> QED BY <1>2, <2>1 DEF StatusFits
<1>4. CASE k = d.current
  <2>1. Current' = row /\ Current = task[k]
    BY <1>1, <1>4 DEF Current
  <2> QED BY <1>2, <2>1 DEF StatusFits, DelegationStatus, Closed, Terminal
<1> QED BY <1>3, <1>4

\* A report that the work is complete.
LEMMA ReportCompletedFits ==
  ASSUME IInv, NEW k \in Assignments, ReportCompleted(k)
  PROVE  IInv'
<1> DEFINE e == [task[k].exec EXCEPT !.status = "completed"]
           row == [task[k] EXCEPT !.status = "completed", !.exec = e]
<1>1. MayReport(k) /\ working' = working \ {Session(k)} /\ UNCHANGED <<d, run, msg>>
      /\ d.status = "delivered" /\ task' = [task EXCEPT ![k] = row]
  BY DEF ReportCompleted, IInv, TypeOK
<1>2. e \in Executions /\ e.status = "completed" /\ e.attempt = task[k].exec.attempt
  BY <1>1, ReportFacts DEF Executions, Terminal
<1>3. /\ row \in TaskRows /\ row.status = "completed" /\ row.exec = e
      /\ row.agreement = task[k].agreement /\ row.agent = task[k].agent
  <2> HIDE DEF e
  <2> QED BY <1>1, <1>2, ReportFacts DEF TaskRows, Terminal
<1> HIDE DEF row, e
<1>4. StatusFits'
  BY <1>1, <1>3, ReportFacts, ReportStatusFits
<1> QED BY <1>1, <1>2, <1>3, <1>4, ReportFacts, ExternalFits, CurrentFacts

\* A report of failure.
LEMMA ReportFailedFits ==
  ASSUME IInv, NEW k \in Assignments, ReportFailed(k)
  PROVE  IInv'
<1> DEFINE e == [task[k].exec EXCEPT !.status = "failed"]
           row == [task[k] EXCEPT !.status = "failed", !.exec = e]
<1>1. MayReport(k) /\ working' = working \ {Session(k)} /\ UNCHANGED <<run, msg>>
      /\ task' = [task EXCEPT ![k] = row]
  BY DEF ReportFailed, IInv, TypeOK
<1>2. e \in Executions /\ e.status = "failed" /\ e.attempt = task[k].exec.attempt
  BY <1>1, ReportFacts DEF Executions, Terminal
<1>3. /\ row \in TaskRows /\ row.status = "failed" /\ row.exec = e
      /\ row.agreement = task[k].agreement /\ row.agent = task[k].agent
  <2> HIDE DEF e
  <2> QED BY <1>1, <1>2, ReportFacts DEF TaskRows, Terminal
<1> HIDE DEF row, e
<1>4. /\ d' \in DelegationRows /\ d'.current = d.current /\ d'.agreement = d.agreement
      /\ \/ d.status \in {"running", "accepted"} /\ d'.status = "failed"
         \/ d.status \notin {"running", "accepted"} /\ d' = d
  BY CurrentFacts DEF ReportFailed, DelegationRows, DelegationStatus
<1>5. StatusFits'
  BY <1>1, <1>3, <1>4, ReportFacts, ReportStatusFits
<1>6. d'.status = "accepted_delivery" => d' = d
  BY <1>4
<1> QED BY <1>1, <1>2, <1>3, <1>4, <1>5, <1>6, ReportFacts, ExternalFits

\* A confirmed stop.
LEMMA ReportStoppedFits ==
  ASSUME IInv, NEW k \in Assignments, NEW effect \in {"none", "known", "unknown"},
         ReportStopped(k, effect)
  PROVE  IInv'
<1> DEFINE e == [task[k].exec EXCEPT !.status = "cancelled", !.acknowledged = TRUE,
                                     !.effect = effect]
           row == [task[k] EXCEPT !.exec = e]
<1>1. MayReport(k) /\ working' = working \ {Session(k)} /\ UNCHANGED <<d, run, msg>>
      /\ task[k].status = "cancelled" /\ task' = [task EXCEPT ![k] = row]
  BY DEF ReportStopped, IInv, TypeOK
<1>2. e \in Executions /\ e.status = "cancelled" /\ e.attempt = task[k].exec.attempt
  BY <1>1, ReportFacts DEF Executions, Terminal
<1>3. /\ row \in TaskRows /\ row.status = "cancelled" /\ row.exec = e
      /\ row.agreement = task[k].agreement /\ row.agent = task[k].agent
  <2> HIDE DEF e
  <2> QED BY <1>1, <1>2, ReportFacts DEF TaskRows
<1> HIDE DEF row, e
<1>4. StatusFits'
  BY <1>1, <1>3, ReportFacts, ReportStatusFits
<1> QED BY <1>1, <1>2, <1>3, <1>4, ReportFacts, ExternalFits, CurrentFacts

\* A step that writes one message.
LEMMA MessageFits ==
  ASSUME IInv, UNCHANGED <<d, task, run, working>>, NEW m \in Messages, NEW row \in MessageRows,
         msg' = [msg EXCEPT ![m] = row],
         row.state = "unread" => row.agreement = d.agreement /\ row.to = d.current,
         row.by # NoRun => /\ run[row.by].agreement = row.agreement /\ run[row.by].task = row.to
                           /\ row.by # row.after /\ run[row.by].task # 0
  PROVE  IInv'
<1>1. /\ msg' \in [Messages -> MessageRows] /\ msg'[m] = row
      /\ \A q \in Messages : q # m => msg'[q] = msg[q]
  BY DEF IInv, TypeOK
<1>2. TypeOK' /\ RowsFit' /\ StatusFits' /\ AcceptedIsSettled'
  BY <1>1, ZenonT(30) DEF IInv, TypeOK, RowsFit, RunFits, TaskFits, SessionFits, StatusFits, Current,
              AcceptedIsSettled
<1>3. MessagesFit'
  BY <1>1 DEF IInv, MessagesFit, MessagesStayCurrent
<1> QED BY <1>2, <1>3 DEF IInv

\* A message is sent to the current receiver.
LEMMA SendFits ==
  ASSUME IInv, NEW m \in Messages, NEW nextRun \in BOOLEAN, Send(m, nextRun)
  PROVE  IInv'
<1>1. UNCHANGED <<d, task, run, working>>
  BY DEF Send
<1>2. PICK after \in {NoRun} \cup Runs :
        msg' = [msg EXCEPT ![m] = [state |-> "unread", agreement |-> d.agreement, to |-> d.current,
                                   after |-> after, launched |-> FALSE, by |-> NoRun]]
  BY DEF Send, OpenRunsOf
<1> DEFINE row == [state |-> "unread", agreement |-> d.agreement, to |-> d.current,
                   after |-> after, launched |-> FALSE, by |-> NoRun]
<1>3. row \in MessageRows /\ row.agreement = d.agreement /\ row.to = d.current /\ row.by = NoRun
  <2>1. d.agreement \in 0..MaxAgreement /\ d.current \in Assignments
    BY CurrentFacts, SMT
  <2> QED BY <2>1 DEF MessageRows
<1>4. msg' = [msg EXCEPT ![m] = row]
  BY <1>2
<1> HIDE DEF row
<1> QED BY <1>1, <1>3, <1>4, MessageFits

\* A run reads a message: both are about the agreement and the assignment in
\* force, and the run the message waited for has ended.
LEMMA ConsumeFits == ASSUME IInv, NEW r \in Runs, NEW m \in Messages, Consume(r, m) PROVE IInv'
<1> DEFINE row == [msg[m] EXCEPT !.state = "consumed", !.by = r, !.launched = FALSE]
<1>1. msg[m] \in MessageRows /\ r # NoRun
  BY SMT DEF IInv, TypeOK, Runs
<1>2. msg' = [msg EXCEPT ![m] = row] /\ UNCHANGED <<d, task, run, working>>
  BY DEF Consume, IInv, TypeOK
<1>3. /\ row \in MessageRows /\ row.state = "consumed" /\ row.by = r
      /\ row.agreement = msg[m].agreement /\ row.to = msg[m].to /\ row.after = msg[m].after
  BY <1>1 DEF MessageRows
<1>4. /\ run[r].agreement = msg[m].agreement /\ run[r].task = msg[m].to
      /\ run[r].status = "running"
  BY DEF Consume, Claimed, Ready
<1>5. r # msg[m].after
  BY <1>1, <1>4 DEF Consume, Ready, Terminal
<1>6. run[r].task # 0
  BY <1>4 DEF IInv, RowsFit, RunFits
<1> HIDE DEF row
<1> QED BY <1>2, <1>3, <1>4, <1>5, <1>6, MessageFits

\* An external agent acknowledges a message.
LEMMA AcknowledgeFits ==
  ASSUME IInv, NEW k \in Assignments, NEW m \in Messages, Acknowledge(k, m)
  PROVE  IInv'
<1>1. /\ Blank("consumed") \in MessageRows /\ Blank("consumed").state = "consumed"
      /\ Blank("consumed").by = NoRun
  BY SMT DEF Blank, MessageRows
<1>2. msg' = [msg EXCEPT ![m] = Blank("consumed")] /\ UNCHANGED <<d, task, run, working>>
  BY DEF Acknowledge
<1> QED BY <1>1, <1>2, MessageFits

-----------------------------------------------------------------------------
(* The theorems.                                                           *)

\* A delegation just made.
LEMMA InitFits == Init => IInv
<1> SUFFICES ASSUME Init PROVE IInv
  OBVIOUS
<1>1. PICK agent \in Agents :
        task = [k \in Assignments |->
                  IF k = 1
                  THEN NewTask(agent, 1, IF agent.external THEN Waiting(1) ELSE NoExecution)
                  ELSE [NewTask(agent, 0, NoExecution) EXCEPT !.status = "none"]]
  BY DEF Init
<1> DEFINE exec == IF agent.external THEN Waiting(1) ELSE NoExecution
           first == NewTask(agent, 1, exec)
           later == [NewTask(agent, 0, NoExecution) EXCEPT !.status = "none"]
<1>2. 1 \in Assignments /\ 1 \in 1..MaxAgreement /\ 1 \in 0..MaxAgreement /\ 0 \in 0..MaxAgreement
      /\ 1 \in 0..MaxAttempts /\ 0 \in 0..MaxAttempts
  BY SMT DEF Assignments
<1>3. /\ exec \in Executions /\ exec.status \in {"none", "waiting_claim"}
      /\ exec.status # "none" => agent.external /\ exec.attempt # 0
      /\ exec.acknowledged = FALSE
      /\ NoExecution \in Executions /\ NoExecution.status = "none"
      /\ NoExecution.acknowledged = FALSE
  <2>1. /\ NoExecution \in Executions /\ NoExecution.status = "none"
        /\ NoExecution.acknowledged = FALSE
    BY <1>2 DEF Executions, NoExecution
  <2>2. /\ Waiting(1) \in Executions /\ Waiting(1).status = "waiting_claim"
        /\ Waiting(1).acknowledged = FALSE /\ Waiting(1).attempt = 1
    BY <1>2 DEF Executions, Waiting, NoExecution
  <2> QED BY <2>1, <2>2, SMT
<1>4. /\ first \in TaskRows /\ first.status = "queued" /\ first.agreement = 1
      /\ first.agent = agent /\ first.exec = exec
  <2> HIDE DEF exec
  <2> QED BY <1>2, <1>3 DEF NewTask, TaskRows
<1>5. /\ later \in TaskRows /\ later.status = "none" /\ later.agreement = 0
      /\ later.exec = NoExecution
  BY <1>2, <1>3 DEF NewTask, TaskRows
<1>6. \A k \in Assignments : task[k] = IF k = 1 THEN first ELSE later
  BY <1>1
<1>7. task = [k \in Assignments |-> IF k = 1 THEN first ELSE later]
  BY <1>1
<1> HIDE DEF first, later, exec
<1>8. /\ d \in DelegationRows /\ d.agreement = 1 /\ d.current = 1 /\ d.status = "accepted"
      /\ working = {}
  BY <1>2 DEF Init, DelegationRows, DelegationStatus
<1>9. /\ run \in [Runs -> RunRows]
      /\ \A r \in Runs : run[r].status = "none" /\ run[r].task = 0 /\ run[r].unsettled = FALSE
  BY <1>2 DEF Init, RunRows
<1>10. /\ msg \in [Messages -> MessageRows]
       /\ \A m \in Messages : msg[m].state = "none" /\ msg[m].by = NoRun
  BY <1>2 DEF Init, Blank, MessageRows
<1>11. TypeOK
  BY <1>4, <1>5, <1>7, <1>8, <1>9, <1>10 DEF TypeOK
<1>12. RowsFit
  BY <1>2, <1>3, <1>4, <1>5, <1>6, <1>8, <1>9, SMT DEF RowsFit, RunFits, TaskFits, SessionFits
<1>13. StatusFits
  BY <1>2, <1>4, <1>6, <1>8 DEF StatusFits, Current
<1>14. AcceptedIsSettled /\ MessagesFit
  BY <1>8, <1>10 DEF AcceptedIsSettled, MessagesFit, MessagesStayCurrent
<1> QED BY <1>11, <1>12, <1>13, <1>14 DEF IInv

\* Every step keeps the rows fitting.
LEMMA NextFits == IInv /\ [Next]_vars => IInv'
<1> SUFFICES ASSUME IInv, [Next]_vars PROVE IInv'
  OBVIOUS
<1>1. CASE RunStep
  BY <1>1, LaunchFits, ClaimFits, BeginWriteFits, SettleFits, HoldFits, FinishFits, CancelRunFits,
     ResumeRunFits, ToggleQueuedTaskFits DEF RunStep
<1>2. CASE Decision
  BY <1>2, StopFits, ChangeAgreementFits, UpstreamChangedFits, ResumeFits, DeliverFits,
     AcceptDeliveryFits, TransferFits DEF Decision
<1>3. CASE PeerStep
  BY <1>3, ClaimExternalFits, ReportCompletedFits, ReportFailedFits, ReportStoppedFits,
     AcknowledgeFits, SendFits, ConsumeFits, LaunchForMessageFits DEF PeerStep
<1>4. CASE UNCHANGED vars
  BY <1>4 DEF vars, IInv, TypeOK, RowsFit, RunFits, TaskFits, SessionFits, StatusFits, Current,
              AcceptedIsSettled, MessagesFit, MessagesStayCurrent
<1> QED BY <1>1, <1>2, <1>3, <1>4 DEF Next

-----------------------------------------------------------------------------
(* Failure.  The rows that fit are given here, and kept apart from what is  *)
(* said of them: only few steps leave a delegation failed.                  *)

\* A failed delegation has a failed task, unless a former assignment's session
\* reported the failure; and only assignments made so far are external.
FailureFits ==
  /\ d.status = "failed" =>
       IF FailedBefore THEN Current.status \in {"queued", "running", "failed", "cancelled"}
                       ELSE Current.status = "failed"
  /\ \A k \in Assignments : task[k].exec.status # "none" => k <= d.current

\* No task becomes external, and no assignment is taken back.
Onward ==
  /\ d.current <= d'.current
  /\ \A k \in Assignments : task'[k].exec.status # "none" => task[k].exec.status # "none"

\* Such a step keeps external tasks among the assignments made.
LEMMA OnwardFits ==
  ASSUME IInv, IInv', FailureFits, Onward
  PROVE  \A k \in Assignments : task'[k].exec.status # "none" => k <= d'.current
<1> SUFFICES ASSUME NEW k \in Assignments, task'[k].exec.status # "none" PROVE k <= d'.current
  OBVIOUS
<1>1. k <= d.current /\ d.current <= d'.current
  BY DEF FailureFits, Onward
<1>2. d.current \in Assignments /\ d'.current \in Assignments
  BY DEF IInv, TypeOK, DelegationRows
<1> QED BY <1>1, <1>2, SMT DEF Assignments

\* A step after which the delegation has not failed.
LEMMA UnfailedFits ==
  ASSUME IInv, IInv', FailureFits, Onward, d'.status # "failed"
  PROVE  FailureFits'
BY OnwardFits DEF FailureFits

\* A step that leaves the current task and every failed execution as they are,
\* or is the one that fails.
LEMMA FailedFits ==
  ASSUME IInv, IInv', FailureFits, Onward, d'.current = d.current,
         \A k \in 1..(d.current - 1) :
           task[k].exec.status = "failed" => task'[k].exec.status = "failed",
         \/ Current'.status = "failed"
         \/ d.status = "failed" /\ Current'.status = Current.status
         \/ d.status = "failed" /\ Current.status \in {"queued", "running", "cancelled"}
              /\ Current'.status \in {"queued", "cancelled"}
         \/ FailedBefore' /\ Current.status \in {"queued", "running", "cancelled"}
              /\ Current'.status = Current.status
  PROVE  FailureFits'
<1>1. FailedBefore => FailedBefore'
  BY DEF FailedBefore
<1> QED BY <1>1, OnwardFits DEF FailureFits

\* A run that starts has a delegation at work.
LEMMA FailureAfterStart ==
  ASSUME IInv, IInv', FailureFits, NEW r \in Runs, Started(r)
  PROVE  FailureFits'
<1>1. d.current \in Assignments /\ d \in DelegationRows
  BY CurrentFacts
<1>2. task \in [Assignments -> TaskRows]
  BY DEF IInv, TypeOK
<1>3. d' = [d EXCEPT !.status = "running"]
      /\ task' = [task EXCEPT ![d.current].status = "running", ![d.current].run = r]
  BY DEF Started
<1>4. d'.status = "running" /\ d'.current = d.current
  BY <1>1, <1>3 DEF DelegationRows
<1>5. \A k \in Assignments : task'[k].exec = task[k].exec
  BY <1>1, <1>2, <1>3 DEF TaskRows
<1>6. d.current <= d'.current
  BY <1>1, <1>4, DelegationConstants, SMT DEF Assignments
<1>7. Onward
  BY <1>5, <1>6 DEF Onward
<1> QED BY <1>4, <1>7, UnfailedFits

\* The steps of a run and of its task.
LEMMA FailureAfterRunStep ==
  ASSUME IInv, IInv', FailureFits, RunStep
  PROVE  FailureFits'
<1>0. /\ d.current \in Assignments /\ d.current <= d.current /\ d \in DelegationRows
      /\ \A k \in Assignments : task[k] \in TaskRows
  <2>1. d.current \in Assignments /\ d \in DelegationRows
    BY CurrentFacts
  <2>2. \A k \in Assignments : task[k] \in TaskRows
    BY DEF IInv, TypeOK
  <2>3. d.current <= d.current
    BY <2>1, DelegationConstants, SMT DEF Assignments
  <2> QED BY <2>1, <2>2, <2>3
<1>1. CASE Launch
  <2>1. PICK r \in Runs : Started(r)
    BY <1>1 DEF Launch
  <2> QED BY <2>1, FailureAfterStart
<1>2. ASSUME NEW r \in Runs, Claim(r) \/ BeginWrite(r) \/ Settle(r) \/ Hold(r) PROVE FailureFits'
  BY <1>2 DEF Claim, BeginWrite, Settle, Hold, FailureFits, FailedBefore, Current
<1>3. ASSUME NEW r \in Runs, NEW outcome \in Terminal, EndRun(r, outcome),
             outcome = "cancelled" \/ d.status # "failed", run[r].status # "none"
      PROVE  FailureFits'
  <2> DEFINE k == run[r].task
  <2>1. /\ k \in Assignments /\ task[k].status = "running"
        /\ task' = [task EXCEPT ![k].status = outcome]
    BY <1>3, RunFacts DEF EndRun
  <2>2. \A j \in Assignments : task'[j].exec = task[j].exec
    BY <1>0, <2>1 DEF IInv, TypeOK, TaskRows
  <2>3. d'.current = d.current
    BY <1>0, <1>3 DEF EndRun, Followed, DelegationRows
  <2>4. Onward /\ \A j \in 1..(d.current - 1) : task'[j].exec = task[j].exec
    <3>1. \A j \in 1..(d.current - 1) : j \in Assignments
      BY <1>0, SMT DEF Assignments
    <3> QED BY <1>0, <2>2, <2>3, <3>1 DEF Onward
  <2>5. CASE d'.status # "failed"
    BY <2>4, <2>5, UnfailedFits
  <2>6. CASE d'.status = "failed" /\ d.current # k
    <3>1. d' = d /\ Current' = Current
      BY <1>0, <1>3, <2>1, <2>6 DEF EndRun, Followed, Current, IInv, TypeOK
    <3> QED BY <2>3, <2>4, <2>6, <3>1, FailedFits
  <2>7. CASE d'.status = "failed" /\ d.current = k
    <3>1. Current'.status = outcome /\ Current.status = "running"
      BY <1>0, <2>1, <2>3, <2>7 DEF Current, IInv, TypeOK, TaskRows
    <3>2. outcome = "failed" \/ (outcome = "cancelled" /\ d.status = "failed")
      <4>1. CASE d.status = "failed"
        BY <1>3, <4>1
      <4>2. CASE d.status # "failed"
        <5>1. outcome # "failed" => d'.status # "failed"
          BY <1>0, <1>3, <4>2 DEF EndRun, Followed, DelegationRows, Terminal
        <5> QED BY <2>7, <5>1
      <4> QED BY <4>1, <4>2
    <3> QED BY <2>3, <2>4, <3>1, <3>2, FailedFits
  <2> QED BY <2>5, <2>6, <2>7
<1>4. ASSUME NEW r \in Runs, NEW outcome \in {"completed", "failed"}, Finish(r, outcome)
      PROVE  FailureFits'
  BY <1>3, <1>4 DEF Finish, Claimed, Terminal
<1>5. ASSUME NEW r \in Runs, CancelRun(r) PROVE FailureFits'
  BY <1>3, <1>5 DEF CancelRun, OpenRun, Terminal
<1>6. ASSUME NEW r \in Runs, ResumeRun(r) PROVE FailureFits'
  BY <1>0, <1>6, UnfailedFits DEF ResumeRun, Onward, DelegationRows, TaskRows, IInv, TypeOK
<1>7. ASSUME NEW k \in Assignments, ToggleQueuedTask(k) PROVE FailureFits'
  <2>1. /\ UNCHANGED d /\ task[k].status \in {"queued", "cancelled"}
        /\ \A j \in Assignments : /\ task'[j].exec = task[j].exec
                                  /\ j # k => task'[j] = task[j]
        /\ task'[k].status \in {"queued", "cancelled"}
    <3>1. /\ UNCHANGED d /\ task[k].status \in {"queued", "cancelled"}
          /\ \E s \in {"queued", "cancelled"} :
               task' = [task EXCEPT ![k] = [task[k] EXCEPT !.status = s]]
      BY <1>7 DEF IInv, TypeOK, ToggleQueuedTask
    <3>2. PICK s \in {"queued", "cancelled"} :
               task' = [task EXCEPT ![k] = [task[k] EXCEPT !.status = s]]
      BY <3>1
    <3>3. /\ task'[k] = [task[k] EXCEPT !.status = s]
          /\ \A j \in Assignments : j # k => task'[j] = task[j]
      BY <3>2 DEF IInv, TypeOK
    <3>4. task'[k].status = s /\ task'[k].exec = task[k].exec
      BY <1>0, <3>3 DEF TaskRows
    <3> QED BY <3>1, <3>3, <3>4
  <2>2. Onward /\ \A j \in 1..(d.current - 1) : task'[j].exec = task[j].exec
    <3>1. \A j \in 1..(d.current - 1) : j \in Assignments
      BY <1>0, SMT DEF Assignments
    <3> QED BY <1>0, <2>1, <3>1 DEF Onward
  <2>3. CASE d.status # "failed"
    BY <2>1, <2>2, <2>3, UnfailedFits
  <2>4. CASE d.status = "failed"
    <3>1. \/ Current' = Current
          \/ Current.status \in {"queued", "cancelled"} /\ Current'.status \in {"queued", "cancelled"}
      BY <1>0, <2>1 DEF Current
    <3> QED BY <2>1, <2>2, <2>4, <3>1, FailedFits
  <2> QED BY <2>3, <2>4
<1> QED BY <1>1, <1>2, <1>4, <1>5, <1>6, <1>7 DEF RunStep

\* A decision leaves the delegation in a status other than failed.
LEMMA FailureAfterDecision ==
  ASSUME IInv, IInv', FailureFits, Decision
  PROVE  FailureFits'
<1>0. /\ d.current \in Assignments /\ d.current <= d.current /\ d \in DelegationRows
      /\ \A k \in Assignments : task[k] \in TaskRows
  <2>1. d.current \in Assignments /\ d \in DelegationRows
    BY CurrentFacts
  <2>2. \A k \in Assignments : task[k] \in TaskRows
    BY DEF IInv, TypeOK
  <2>3. d.current <= d.current
    BY <2>1, DelegationConstants, SMT DEF Assignments
  <2> QED BY <2>1, <2>2, <2>3
<1>1. ASSUME StopTask \/ UNCHANGED task, d'.current = d.current, d'.status # "failed"
      PROVE  FailureFits'
  <2>1. Onward
    BY <1>0, <1>1, StopTaskFacts DEF Onward
  <2> QED BY <1>1, <2>1, UnfailedFits
<1>2. ASSUME NEW status \in {"paused", "needs_changes", "cancelled", "rejected"}, Stop(status)
      PROVE  FailureFits'
  BY <1>0, <1>1, <1>2 DEF Stop, DelegationRows
<1>3. CASE ChangeAgreement \/ UpstreamChanged \/ Deliver \/ AcceptDelivery
  BY <1>0, <1>1, <1>3
     DEF ChangeAgreement, UpstreamChanged, Deliver, AcceptDelivery, DelegationRows
<1>4. ASSUME NEW new \in BOOLEAN, Resume(new) PROVE FailureFits'
  <2>1. d'.current = d.current /\ d'.status = "accepted"
    BY <1>0, <1>4 DEF Resume, DelegationRows
  <2>2. PICK a : task' = [task EXCEPT ![d.current] = Requeued(a)]
    BY <1>4 DEF Resume
  <2>3. Requeued(a).exec.status # "none" => task[d.current].exec.status # "none"
    BY <1>0 DEF Requeued, Current, External, TaskRows
  <2>4. Onward
    BY <1>0, <2>1, <2>2, <2>3 DEF Onward, IInv, TypeOK
  <2> QED BY <2>1, <2>4, UnfailedFits
<1>5. ASSUME NEW agent \in Agents, Transfer(agent) PROVE FailureFits'
  <2>1. /\ task' = [task EXCEPT ![d.current + 1] = NewTask(agent, d.agreement + 1, NoExecution)]
        /\ d'.current = d.current + 1 /\ d'.status = "accepted"
    BY <1>5 DEF Transfer
  <2>2. NewTask(agent, d.agreement + 1, NoExecution).exec.status = "none"
    BY DEF NewTask, NoExecution
  <2>3. d.current <= d.current + 1
    BY <1>0, SMT DEF Assignments
  <2>4. Onward
    BY <2>1, <2>2, <2>3 DEF Onward, IInv, TypeOK
  <2> QED BY <2>1, <2>4, UnfailedFits
<1> QED BY <1>2, <1>3, <1>4, <1>5 DEF Decision

\* What the report of a session writes.
ReportWrites(k, row) ==
  /\ MayReport(k) /\ task' = [task EXCEPT ![k] = row] /\ d'.current = d.current
  /\ \/ d' = d /\ row.status = task[k].status
     \/ d' = d /\ d.status # "failed"
     \/ /\ row.status = "failed" /\ row.exec.status = "failed"
        /\ d' = d \/ d.status \in {"running", "accepted"}

\* Every report is of that kind.
LEMMA ReportRow ==
  ASSUME IInv, NEW k \in Assignments
  PROVE  (\/ ReportCompleted(k) \/ ReportFailed(k)
          \/ \E effect \in {"none", "known", "unknown"} : ReportStopped(k, effect))
            => \E row : ReportWrites(k, row)
<1>0. d \in DelegationRows /\ task[k] \in TaskRows /\ task[k].exec \in Executions
  BY CurrentFacts DEF IInv, TypeOK, TaskRows
<1>1. ASSUME ReportCompleted(k) PROVE \E row : ReportWrites(k, row)
  <2> DEFINE e == [task[k].exec EXCEPT !.status = "completed"]
             row == [task[k] EXCEPT !.status = "completed", !.exec = e]
  <2>1. task' = [task EXCEPT ![k] = row] /\ MayReport(k) /\ d' = d /\ d.status = "delivered"
    BY <1>1 DEF ReportCompleted, IInv, TypeOK
  <2> HIDE DEF row, e
  <2> QED BY <2>1 DEF ReportWrites
<1>2. ASSUME ReportFailed(k) PROVE \E row : ReportWrites(k, row)
  <2> DEFINE e == [task[k].exec EXCEPT !.status = "failed"]
             row == [task[k] EXCEPT !.status = "failed", !.exec = e]
  <2>1. task' = [task EXCEPT ![k] = row] /\ MayReport(k)
    BY <1>2 DEF ReportFailed, IInv, TypeOK
  <2>2. d'.current = d.current /\ (d' = d \/ d.status \in {"running", "accepted"})
    BY <1>0, <1>2 DEF ReportFailed, DelegationRows
  <2>3. row.status = "failed" /\ row.exec.status = "failed"
    BY <1>0 DEF TaskRows, Executions
  <2> HIDE DEF row, e
  <2> QED BY <2>1, <2>2, <2>3 DEF ReportWrites
<1>3. ASSUME NEW effect \in {"none", "known", "unknown"}, ReportStopped(k, effect)
      PROVE  \E row : ReportWrites(k, row)
  <2> DEFINE e == [task[k].exec EXCEPT !.status = "cancelled", !.acknowledged = TRUE,
                                       !.effect = effect]
             row == [task[k] EXCEPT !.exec = e]
  <2>1. task' = [task EXCEPT ![k] = row] /\ MayReport(k) /\ d' = d
    <3>1. MayReport(k) /\ d' = d
      BY <1>3 DEF ReportStopped
    <3>2. task' = [task EXCEPT ![k] = row]
      BY <1>3 DEF ReportStopped, IInv, TypeOK
    <3> QED BY <3>1, <3>2
  <2>2. row.status = task[k].status
    BY <1>0 DEF TaskRows
  <2> HIDE DEF row, e
  <2> QED BY <2>1, <2>2 DEF ReportWrites
<1> QED BY <1>1, <1>2, <1>3

\* A report of failure fails the delegation: its own task, or a former one.
LEMMA FailureAfterPeerStep ==
  ASSUME IInv, IInv', FailureFits, PeerStep
  PROVE  FailureFits'
<1>0. /\ d.current \in Assignments /\ d.current <= d.current /\ d \in DelegationRows
      /\ \A k \in Assignments : task[k] \in TaskRows /\ task[k].exec \in Executions
  <2>1. d.current <= d.current
    BY CurrentFacts, SMT DEF Assignments
  <2> QED BY <2>1, CurrentFacts DEF IInv, TypeOK, TaskRows
<1>1. CASE ClaimExternal
  BY <1>0, <1>1, UnfailedFits
     DEF ClaimExternal, External, Onward, DelegationRows, TaskRows, IInv, TypeOK
<1>2. ASSUME NEW k \in Assignments, NEW row, ReportWrites(k, row)
      PROVE  FailureFits'
  <2>1. task[k].exec.status \in {"running", "stop_requested"}
    BY <1>2 DEF ReportWrites, MayReport
  <2>2. /\ task'[k] = row /\ \A j \in Assignments : j # k => task'[j] = task[j]
        /\ \A j \in 1..(d.current - 1) : j \in Assignments
    BY <1>0, <1>2, SMT DEF ReportWrites, IInv, TypeOK, Assignments
  <2>3. Onward /\ \A j \in 1..(d.current - 1) :
                    task[j].exec.status = "failed" => task'[j].exec.status = "failed"
    BY <1>0, <1>2, <2>1, <2>2 DEF ReportWrites, Onward
  <2>4. CASE d'.status # "failed"
    BY <2>3, <2>4, UnfailedFits
  <2>5. CASE d'.status = "failed" /\ k = d.current
    <3>1. Current' = row /\ Current = task[k]
      BY <1>2, <2>2, <2>5 DEF ReportWrites, Current
    <3> QED BY <1>2, <2>3, <2>5, <3>1, FailedFits DEF ReportWrites
  <2>6. CASE d'.status = "failed" /\ k # d.current
    <3>1. Current' = Current
      BY <1>0, <1>2, <2>2, <2>6 DEF ReportWrites, Current
    <3>2. CASE d' = d
      BY <1>2, <2>3, <2>6, <3>1, <3>2, FailedFits DEF ReportWrites
    <3>3. CASE row.exec.status = "failed" /\ d.status \in {"running", "accepted"}
      <4>1. k <= d.current
        BY <2>1 DEF FailureFits
      <4>2. k \in 1..(d.current - 1)
        BY <1>0, <2>6, <4>1, SMT DEF Assignments
      <4>3. FailedBefore'
        BY <1>2, <2>2, <3>3, <4>2 DEF ReportWrites, FailedBefore
      <4>4. Current.status \in {"queued", "running", "cancelled"}
        BY <3>3 DEF IInv, StatusFits
      <4> QED BY <1>2, <2>3, <3>1, <4>3, <4>4, FailedFits DEF ReportWrites
    <3> QED BY <1>2, <2>6, <3>2, <3>3 DEF ReportWrites
  <2> QED BY <2>4, <2>5, <2>6
<1>3. ASSUME NEW k \in Assignments,
             \/ ReportCompleted(k) \/ ReportFailed(k)
             \/ \E effect \in {"none", "known", "unknown"} : ReportStopped(k, effect)
      PROVE  FailureFits'
  <2>1. PICK row : ReportWrites(k, row)
    BY <1>3, ReportRow
  <2> QED BY <1>2, <2>1 DEF ReportWrites
<1>6. ASSUME UNCHANGED <<d, task>> PROVE FailureFits'
  BY <1>6 DEF FailureFits, FailedBefore, Current
<1>7. ASSUME NEW m \in Messages,
             \/ \E k \in Assignments : Acknowledge(k, m)
             \/ \E nextRun \in BOOLEAN : Send(m, nextRun)
             \/ \E r \in Runs : Consume(r, m)
      PROVE  FailureFits'
  BY <1>6, <1>7 DEF Acknowledge, Send, Consume
<1>8. ASSUME NEW m \in Messages, LaunchForMessage(m) PROVE FailureFits'
  <2>1. PICK r \in Runs : Started(r)
    BY <1>8 DEF LaunchForMessage
  <2> QED BY <2>1, FailureAfterStart
<1> QED BY <1>1, <1>3, <1>7, <1>8 DEF PeerStep

\* Every step keeps failed delegations with failed tasks.
LEMMA FailureNext == IInv /\ IInv' /\ FailureFits /\ [Next]_vars => FailureFits'
<1> SUFFICES ASSUME IInv, IInv', FailureFits, [Next]_vars PROVE FailureFits'
  OBVIOUS
<1>1. CASE UNCHANGED vars
  BY <1>1 DEF vars, FailureFits, FailedBefore, Current
<1> QED BY <1>1, FailureAfterRunStep, FailureAfterDecision, FailureAfterPeerStep DEF Next

\* A delegation just made has not failed, and only its first task is external.
LEMMA FailureInit == Init => FailureFits
<1> SUFFICES ASSUME Init PROVE FailureFits
  OBVIOUS
<1>1. d.status = "accepted" /\ d.current = 1
  BY DEF Init
<1>2. ASSUME NEW k \in Assignments, k # 1 PROVE task[k].exec.status = "none"
  <2>1. PICK agent \in Agents :
          task = [j \in Assignments |->
                    IF j = 1
                    THEN NewTask(agent, 1, IF agent.external THEN Waiting(1) ELSE NoExecution)
                    ELSE [NewTask(agent, 0, NoExecution) EXCEPT !.status = "none"]]
    BY DEF Init
  <2>2. task[k] = [NewTask(agent, 0, NoExecution) EXCEPT !.status = "none"]
    BY <1>2, <2>1
  <2>3. [NewTask(agent, 0, NoExecution) EXCEPT !.status = "none"].exec.status = "none"
    BY DEF NewTask, NoExecution
  <2> QED BY <2>2, <2>3
<1>3. 1 <= 1
  BY SMT
<1> QED BY <1>1, <1>2, <1>3 DEF FailureFits

\* The inductive invariant holds in every reachable state.
LEMMA RowsAlwaysFit == Spec => [](IInv /\ FailureFits)
BY InitFits, NextFits, FailureInit, FailureNext, PTL DEF Spec

\* Every row keeps the values the code can give it, through transfers, new
\* agreements and attempts.
THEOREM DelegationTypes == Spec => []TypeOK
<1>1. IInv => TypeOK
  BY DEF IInv
<1> QED BY <1>1, RowsAlwaysFit, PTL

\* The delegation row and the row of its current task agree, whichever of the
\* handlers write them and in whatever order, but for a failure that the
\* session of a former assignment reports late.
THEOREM TaskFollowsDelegation == Spec => []TaskMatchesDelegation
<1>1. IInv /\ FailureFits => TaskMatchesDelegation
  <2> SUFFICES ASSUME IInv, FailureFits PROVE TaskMatchesDelegation
    OBVIOUS
  <2>1. d.status \in DelegationStatus /\ StatusFits
    BY CurrentFacts DEF IInv, DelegationRows
  <2>2. Current.status \in {"none", "queued", "running"} \cup Terminal
    BY CurrentFacts DEF TaskRows
  <2> QED BY <2>1, <2>2
          DEF StatusFits, FailureFits, TaskMatchesDelegation, DelegationStatus, Closed, Terminal
<1> QED BY <1>1, RowsAlwaysFit, PTL

\* prepareDelegationHandoff suffices: as long as a delivery stays accepted no run
\* of any assignment can act and no write is in doubt.
THEOREM AcceptanceIsSettled == Spec => []AcceptedIsSettled
<1>1. IInv => AcceptedIsSettled
  BY DEF IInv
<1> QED BY <1>1, RowsAlwaysFit, PTL

\* No external task has two sessions at work, however often it is stopped,
\* tried again or transferred.
THEOREM SessionsExclude == Spec => []OneSessionPerTask
<1>1. IInv => OneSessionPerTask
  <2> SUFFICES ASSUME IInv, NEW k \in Assignments
               PROVE  Cardinality({n \in 1..MaxAttempts : <<k, n>> \in working}) <= 1
    BY DEF OneSessionPerTask
  <2> DEFINE a == task[k].exec.attempt
             S == {n \in 1..MaxAttempts : <<k, n>> \in working}
  <2>1. S \subseteq {a}
    BY DEF IInv, RowsFit, SessionFits
  <2>2. IsFiniteSet({a}) /\ Cardinality({a}) = 1
    BY FS_Singleton
  <2>3. Cardinality(S) <= Cardinality({a})
    BY <2>1, <2>2, FS_Subset
  <2> QED BY <2>2, <2>3
<1> QED BY <1>1, RowsAlwaysFit, PTL

\* supersedePeerMessages suffices: nobody reads a message about an agreement or
\* for an assignment other than their own.
THEOREM MessagesAlwaysCurrent == Spec => []MessagesStayCurrent
<1>1. IInv => MessagesStayCurrent
  BY DEF IInv, MessagesFit
<1> QED BY <1>1, RowsAlwaysFit, PTL

=============================================================================
