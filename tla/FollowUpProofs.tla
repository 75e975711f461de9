---------------------------- MODULE FollowUpProofs ----------------------------
(***************************************************************************)
(* The follow-up outbox holds exactly the events the outcomes of the       *)
(* windows call for, and is a fenced queue, for any plans, windows,        *)
(* observations and instances, and for any bounds.                         *)
(***************************************************************************)
EXTENDS FollowUp, TLAPS

USE Zenon

EventRows == [status : EventStatus, owner : Workers \cup {Nil}, fence : Nat, leased : BOOLEAN]
Calls == [pc : {"calling", "accepted", "refused"}, event : Events, fence : Nat]
PlanRows == [found : BOOLEAN, status : {"active", "completed"}, seen : Observations \cup {Nil}]
WindowRows == [run : RunStatus, asks : 0..MaxAsks, open : BOOLEAN]

\* The event ids the transactions make up are ids of the outbox.
LEMMA EventIds ==
  /\ \A w \in Windows : \A kind \in Kinds : Outcome(w, kind) \in Events
  /\ \A w \in Windows : \A n \in Asks : Question(w, n) \in Events
BY SMT DEF Events

\* A worker in the middle of a call is not idle.
LEMMA CallFacts ==
  ASSUME TypeOK, NEW i \in Workers, worker[i] # Idle
  PROVE  /\ worker[i] \in Calls /\ worker[i].event \in Events /\ worker[i].fence \in Nat
         /\ event[worker[i].event] \in EventRows
BY DEF TypeOK, Calls, EventRows

-----------------------------------------------------------------------------
(* Types.                                                                  *)

\* enqueueConversationFollowUpEvent keeps the tables' types.
LEMMA EnqueueType ==
  ASSUME TypeOK, NEW e \in Events, Enqueue(e)
  PROVE  event' \in [Events -> EventRows] /\ order' \in Seq(Events)
<1>1. [NoEvent EXCEPT !.status = "pending"] \in EventRows
  BY DEF NoEvent, EventRows, EventStatus
<1> DEFINE row == [NoEvent EXCEPT !.status = "pending"]
<1>2. event \in [Events -> EventRows] /\ order \in Seq(Events)
  BY DEF TypeOK, EventRows
<1>3. \/ event' = [event EXCEPT ![e] = row] /\ order' = Append(order, e)
      \/ event' = event /\ order' = order
  BY DEF Enqueue
<1> HIDE DEF row
<1>4. row \in EventRows
  BY <1>1 DEF row
<1> HIDE DEF EventRows
<1> QED BY <1>2, <1>3, <1>4, SMT

\* A report or a failure leaves a plan row and at most one event more.
LEMMA RecordType ==
  ASSUME TypeOK, NEW w \in Windows,
         (\E report \in Reports : RecordReport(w, report)) \/ RecordFailure(w)
  PROVE  /\ plan' \in [Plans -> PlanRows]
         /\ event' \in [Events -> EventRows] /\ order' \in Seq(Events)
<1>1. PlanOf[w] \in Plans
  BY FollowUpConstants
<1>2. ASSUME NEW kind \in Kinds \cup {Nil}, EnqueueKind(w, kind)
      PROVE  event' \in [Events -> EventRows] /\ order' \in Seq(Events)
  BY <1>2, EventIds, EnqueueType DEF EnqueueKind, TypeOK, EventRows
<1>3. ASSUME NEW report \in Reports, RecordReport(w, report) PROVE
         /\ plan' \in [Plans -> PlanRows]
         /\ event' \in [Events -> EventRows] /\ order' \in Seq(Events)
  <2>1. CASE PlanCompleted(PlanOf[w])
    BY <1>3, <2>1 DEF RecordReport, TypeOK, PlanRows, EventRows
  <2>2. CASE ~PlanCompleted(PlanOf[w])
    <3>1. \E kind \in Kinds \cup {Nil} : EnqueueKind(w, kind)
      BY <1>3, <2>2 DEF RecordReport, Kinds
    <3>2. Saved(PlanOf[w], report) \in PlanRows
      BY DEF Saved, PlanRows, Reports
    <3>3. plan' = [plan EXCEPT ![PlanOf[w]] = Saved(PlanOf[w], report)]
      BY <1>3, <2>2 DEF RecordReport
    <3> QED BY <1>1, <1>2, <3>1, <3>2, <3>3 DEF TypeOK, PlanRows
  <2> QED BY <2>1, <2>2
<1>4. ASSUME RecordFailure(w) PROVE
         /\ plan' \in [Plans -> PlanRows]
         /\ event' \in [Events -> EventRows] /\ order' \in Seq(Events)
  <2>1. CASE PlanCompleted(PlanOf[w])
    BY <1>4, <2>1 DEF RecordFailure, TypeOK, PlanRows, EventRows
  <2>2. CASE ~PlanCompleted(PlanOf[w])
    <3>1. EnqueueKind(w, "failed") /\ plan' = [plan EXCEPT ![PlanOf[w]].found = TRUE]
      BY <1>4, <2>2 DEF RecordFailure
    <3> DEFINE row == [plan[PlanOf[w]] EXCEPT !.found = TRUE]
    <3>2. plan \in [Plans -> PlanRows]
      BY DEF TypeOK, PlanRows
    <3>3. row \in PlanRows
      BY <1>1, <3>2 DEF PlanRows
    <3>4. plan' = [plan EXCEPT ![PlanOf[w]] = row]
      BY <3>1
    <3> HIDE DEF row
    <3>5. plan' \in [Plans -> PlanRows]
      BY <1>1, <3>2, <3>3, <3>4
    <3> QED BY <1>2, <3>1, <3>5 DEF Kinds
  <2> QED BY <2>1, <2>2
<1> QED BY <1>3, <1>4

\* Every transaction of a window's run keeps the types.
LEMMA WindowType ==
  ASSUME TypeOK, NEW w \in Windows, WindowStep(w)
  PROVE  TypeOK'
<1>1. ASSUME NEW run \in RunStatus, window' = [window EXCEPT ![w].run = run]
      PROVE  window' \in [Windows -> WindowRows]
  BY <1>1 DEF TypeOK, WindowRows
<1>2. ASSUME NEW run \in RunStatus, NEW open \in BOOLEAN,
             window' = [window EXCEPT ![w].run = run, ![w].open = open]
      PROVE  window' \in [Windows -> WindowRows]
  BY <1>2 DEF TypeOK, WindowRows
<1>3. ASSUME window' \in [Windows -> WindowRows], plan' \in [Plans -> PlanRows],
             event' \in [Events -> EventRows], order' \in Seq(Events),
             UNCHANGED <<worker, told, faults>>
      PROVE  TypeOK'
  BY <1>3 DEF TypeOK, WindowRows, PlanRows, EventRows
<1>4. /\ plan \in [Plans -> PlanRows] /\ event \in [Events -> EventRows]
      /\ order \in Seq(Events)
  BY DEF TypeOK, PlanRows, EventRows
<1>5. {"running", "waiting", "stopped", "ended"} \subseteq RunStatus
  BY DEF RunStatus
<1>6. ASSUME NEW report \in Reports, FinishWithReport(w, report) PROVE TypeOK'
  BY <1>1, <1>3, <1>5, <1>6, RecordType DEF FinishWithReport
<1>7. ASSUME NEW run \in {"stopped", "ended"}, FinishWithoutReport(w, run) PROVE TypeOK'
  BY <1>1, <1>3, <1>5, <1>7, RecordType DEF FinishWithoutReport
<1>8. CASE Wait(w)
  <2>1. PICK n \in Asks :
          /\ window' = [window EXCEPT ![w] = [run |-> "waiting", asks |-> n, open |-> TRUE]]
          /\ RecordWaiting(w, n)
    BY <1>8 DEF Wait
  <2>2. n \in 0..MaxAsks
    BY FollowUpConstants, SMT DEF Asks
  <2>3. window' \in [Windows -> WindowRows]
    BY <1>5, <2>1, <2>2 DEF TypeOK, WindowRows
  <2>4. event' \in [Events -> EventRows] /\ order' \in Seq(Events) /\ plan' = plan
    BY <1>4, <2>1, EventIds, EnqueueType DEF RecordWaiting
  <2> QED BY <1>3, <1>4, <1>8, <2>3, <2>4 DEF Wait
<1>9. ASSUME NEW open \in BOOLEAN, Continue(w, open) PROVE TypeOK'
  BY <1>2, <1>3, <1>4, <1>5, <1>9 DEF Continue
<1>10. CASE Lapse(w)
  BY <1>2, <1>3, <1>4, <1>5, <1>10 DEF Lapse
<1>11. CASE Cancel(w)
  <2>1. PICK run \in RunStatus : window' = [window EXCEPT ![w].run = run, ![w].open = FALSE]
    BY <1>5, <1>11 DEF Cancel
  <2> QED BY <1>2, <1>3, <1>4, <1>11, <2>1 DEF Cancel
<1>12. CASE Resume(w)
  BY <1>1, <1>3, <1>4, <1>5, <1>12 DEF Resume
<1> QED BY <1>6, <1>7, <1>8, <1>9, <1>10, <1>11, <1>12 DEF WindowStep

\* One event row and one worker change to values of their types.
LEMMA PublisherType ==
  ASSUME TypeOK, UNCHANGED <<plan, window, order>>,
         event' \in [Events -> EventRows], worker' \in [Workers -> Calls \cup {Idle}],
         told' \in SUBSET Events, faults' \in 0..MaxFaults
  PROVE  TypeOK'
BY DEF TypeOK, EventRows, Calls

\* A settled or abandoned event is an event row.
LEMMA SettledType ==
  ASSUME TypeOK, NEW e \in Events, NEW status \in EventStatus
  PROVE  Settled(e, status) \in [Events -> EventRows]
<1>1. event \in [Events -> EventRows] /\ event[e].fence \in Nat
  BY DEF TypeOK, EventRows
<1> DEFINE row == [status |-> status, owner |-> Nil, fence |-> event[e].fence, leased |-> FALSE]
<1>2. row \in EventRows
  BY <1>1 DEF EventRows
<1>3. Settled(e, status) = [event EXCEPT ![e] = row]
  BY DEF Settled
<1> HIDE DEF row
<1> QED BY <1>1, <1>2, <1>3

\* Every step of a publisher loop keeps the types.
LEMMA WorkerType ==
  ASSUME TypeOK, NEW i \in Workers, WorkerStep(i)
  PROVE  TypeOK'
<1>1. /\ event \in [Events -> EventRows] /\ worker \in [Workers -> Calls \cup {Idle}]
      /\ told \in SUBSET Events /\ faults \in 0..MaxFaults
  BY DEF TypeOK, EventRows, Calls
<1>2. Fault => faults' \in 0..MaxFaults
  BY <1>1, FollowUpConstants, SMT DEF Fault
<1>3. ASSUME NEW pc \in {"calling", "accepted", "refused"}, worker[i] # Idle,
             worker' = [worker EXCEPT ![i].pc = pc]
      PROVE  worker' \in [Workers -> Calls \cup {Idle}]
  BY <1>1, <1>3, CallFacts DEF Calls
<1>4. ASSUME worker' = [worker EXCEPT ![i] = Idle]
      PROVE  worker' \in [Workers -> Calls \cup {Idle}]
  BY <1>1, <1>4
<1>5. worker[i].pc \in {"calling", "accepted", "refused"} => worker[i] # Idle
  BY SMT DEF Idle
<1>6. CASE ClaimEvent(i)
  <2>1. PICK n \in DOMAIN order :
          /\ event' = [event EXCEPT ![order[n]] = Taken(order[n], i)]
          /\ worker' = [worker EXCEPT ![i] = [pc |-> "calling", event |-> order[n],
                                             fence |-> Taken(order[n], i).fence]]
    BY <1>6 DEF ClaimEvent
  <2>2. order[n] \in Events
    BY SMT DEF TypeOK
  <2>3. Taken(order[n], i) \in EventRows /\ Taken(order[n], i).fence \in Nat
    BY <1>1, <2>2, SMT DEF Taken, EventRows, EventStatus
  <2>4. event' \in [Events -> EventRows] /\ worker' \in [Workers -> Calls \cup {Idle}]
    BY <1>1, <2>1, <2>2, <2>3 DEF Calls
  <2> QED BY <1>1, <1>6, <2>4, PublisherType DEF ClaimEvent
<1>7. CASE PublishAccepted(i)
  <2>1. worker[i] # Idle /\ worker[i].event \in Events
    BY <1>5, <1>7, CallFacts DEF PublishAccepted
  <2> QED BY <1>1, <1>3, <1>7, <2>1, PublisherType DEF PublishAccepted
<1>8. CASE PublishRefused(i)
  <2>1. worker[i] # Idle /\ worker[i].event \in Events
    BY <1>5, <1>8, CallFacts DEF PublishRefused
  <2> QED BY <1>1, <1>2, <1>3, <1>8, <2>1, PublisherType DEF PublishRefused
<1>9. CASE CompleteEvent(i)
  <2>1. worker[i].event \in Events /\ "published" \in EventStatus
    BY <1>5, <1>9, CallFacts DEF CompleteEvent, EventStatus
  <2> QED BY <1>1, <1>4, <1>9, <2>1, SettledType, PublisherType DEF CompleteEvent
<1>10. CASE ReleaseEvent(i)
  <2>1. worker[i].event \in Events /\ "delayed" \in EventStatus
    BY <1>5, <1>10, CallFacts DEF ReleaseEvent, EventStatus
  <2> QED BY <1>1, <1>4, <1>10, <2>1, SettledType, PublisherType DEF ReleaseEvent
<1>11. CASE Abandon(i)
  BY <1>1, <1>2, <1>4, <1>11, PublisherType DEF Abandon
<1> QED BY <1>6, <1>7, <1>8, <1>9, <1>10, <1>11 DEF WorkerStep

\* So does the passing of a lease or of a retry delay.
LEMMA TimeType ==
  ASSUME TypeOK, NEW e \in Events, LeaseExpires(e) \/ Due(e)
  PROVE  TypeOK'
<1>1. /\ event \in [Events -> EventRows] /\ worker \in [Workers -> Calls \cup {Idle}]
      /\ told \in SUBSET Events /\ faults \in 0..MaxFaults
  BY DEF TypeOK, EventRows, Calls
<1>2. Fault => faults' \in 0..MaxFaults
  BY <1>1, FollowUpConstants, SMT DEF Fault
<1>3. [event[e] EXCEPT !.leased = FALSE] \in EventRows
  BY <1>1 DEF EventRows
<1>4. [event[e] EXCEPT !.status = "pending"] \in EventRows
  BY <1>1 DEF EventRows, EventStatus
<1>5. CASE LeaseExpires(e)
  <2>1. event' = [event EXCEPT ![e] = [event[e] EXCEPT !.leased = FALSE]]
    BY <1>5 DEF LeaseExpires
  <2>2. event' \in [Events -> EventRows]
    BY <1>1, <1>3, <2>1
  <2> QED BY <1>1, <1>2, <1>5, <2>2, PublisherType DEF LeaseExpires
<1>6. CASE Due(e)
  <2>1. event' = [event EXCEPT ![e] = [event[e] EXCEPT !.status = "pending"]]
    BY <1>6 DEF Due
  <2>2. event' \in [Events -> EventRows]
    BY <1>1, <1>4, <2>1
  <2> QED BY <1>1, <1>6, <2>2, PublisherType DEF Due
<1> QED BY <1>5, <1>6

\* The rows of the outbox, the plans, the windows and the publisher loops hold
\* values the code can give them.
THEOREM TypeCorrect == Spec => []TypeOK
<1>1. Init => TypeOK
  BY FollowUpConstants, SMT
     DEF Init, TypeOK, NoPlan, NoEvent, EventStatus, RunStatus
<1>2. TypeOK /\ [Next]_vars => TypeOK'
  <2> SUFFICES ASSUME TypeOK, [Next]_vars PROVE TypeOK'
    OBVIOUS
  <2>1. CASE UNCHANGED vars
    BY <2>1 DEF vars, TypeOK
  <2> QED BY <2>1, WindowType, WorkerType, TimeType DEF Next
<1> QED BY <1>1, <1>2, PTL DEF Spec

-----------------------------------------------------------------------------
(* The outbox and the outcomes of the windows.                             *)

\* An outcome or a question, as the history holds it.
Entries == [event : [window : Windows, kind : Kinds \cup {"active", "needs_action"}, ask : Nat],
            seen : Observations \cup {Nil}]

\* Expected, taken apart: entry i of h is a report, comes after no completion,
\* differs from the report before it, calls for event x.
IsReport(h, i) == h[i].event.kind \in {"active", "completed"}
Early(h, i) == \A j \in 1..(i - 1) : h[j].event.kind # "completed"
Changes(h, i) == \E j \in 1..(i - 1) :
  /\ IsReport(h, j) /\ h[j].seen # h[i].seen
  /\ \A k \in (j + 1)..(i - 1) : ~IsReport(h, k)
CallsFor(h, i, x) ==
  /\ Early(h, i)
  /\ \/ h[i].event.kind # "active" /\ x = h[i].event
     \/ h[i].event.kind = "active" /\ Changes(h, i) /\ x = Outcome(h[i].event.window, "changed")

\* The events of plan p in the outbox.
Recorded(p) == {e \in Events : PlanOf[e.window] = p /\ event[e].status # "none"}

\* The plan's state row says whether a window completed and, until then, what
\* the last report saw; the outbox holds what the history calls for.
PlanOK(p) ==
  LET h == history[p]
      Last(j) == IsReport(h, j) /\ \A k \in (j + 1)..Len(h) : ~IsReport(h, k) IN
  /\ plan[p].status = "completed" => plan[p].found
  /\ plan[p].status = "completed" <=> \E i \in DOMAIN h : h[i].event.kind = "completed"
  /\ plan[p].status # "completed" =>
       /\ plan[p].seen = Nil => \A j \in DOMAIN h : ~IsReport(h, j)
       /\ plan[p].seen # Nil =>
            plan[p].found /\ \E j \in DOMAIN h : Last(j) /\ h[j].seen = plan[p].seen
  /\ Recorded(p) = Expected(h)

HistoryInv ==
  history \in [Plans -> Seq(Entries)] /\ \A p \in Plans : PlanOK(p)

\* What the history calls for, entry by entry.
LEMMA ExpectedIs ==
  ASSUME NEW h PROVE \A x : x \in Expected(h) <=> \E i \in DOMAIN h : CallsFor(h, i, x)
BY DEF Expected, CallsFor, Early, Changes, IsReport

\* A sequence with one element more.
LEMMA AppendFacts ==
  ASSUME NEW S, NEW h \in Seq(S), NEW x \in S
  PROVE  LET g == Append(h, x)
             n == Len(h) + 1 IN
         /\ g \in Seq(S) /\ n \in Nat \ {0} /\ Len(h) \in Nat /\ Len(g) = n
         /\ DOMAIN h = 1..Len(h) /\ DOMAIN g = 1..n
         /\ g[n] = x /\ \A i \in 1..Len(h) : g[i] = h[i]
BY SMT

\* One outcome more calls for what it calls for, and for nothing else.
LEMMA ExpectedGrows ==
  ASSUME NEW h \in Seq(Entries), NEW x \in Entries
  PROVE  LET g == Append(h, x) IN
         \A e : e \in Expected(g) <=> e \in Expected(h) \/ CallsFor(g, Len(h) + 1, e)
<1> DEFINE g == Append(h, x)
           n == Len(h) + 1
<1>1. /\ n \in Nat \ {0} /\ Len(h) \in Nat /\ DOMAIN h = 1..Len(h) /\ DOMAIN g = 1..n
      /\ g[n] = x /\ \A i \in 1..Len(h) : g[i] = h[i]
  BY AppendFacts, SMT
<1> HIDE DEF g
<1>2. ASSUME NEW i \in 1..Len(h), NEW e PROVE CallsFor(g, i, e) <=> CallsFor(h, i, e)
  <2>1. \A j \in 1..i : j \in 1..Len(h) /\ g[j] = h[j]
    BY <1>1, SMT
  <2>2. Early(g, i) <=> Early(h, i)
    BY <1>1, <2>1, SMT DEF Early
  <2>3. Changes(g, i) <=> Changes(h, i)
    <3>1. \A j \in 1..(i - 1) : \A k \in (j + 1)..(i - 1) : g[k] = h[k]
      BY <1>1, <2>1, SMT
    <3>2. g[i] = h[i] /\ \A j \in 1..(i - 1) : g[j] = h[j]
      BY <1>1, <2>1, SMT
    <3> QED BY <3>1, <3>2 DEF Changes, IsReport
  <2>4. g[i] = h[i]
    BY <1>1
  <2> QED BY <2>2, <2>3, <2>4 DEF CallsFor
<1>3. \A i : i \in DOMAIN g <=> i \in 1..Len(h) \/ i = n
  BY <1>1, SMT
<1>4. ASSUME NEW e PROVE e \in Expected(g) <=> e \in Expected(h) \/ CallsFor(g, n, e)
  BY <1>1, <1>2, <1>3, ExpectedIs
<1> QED BY <1>4 DEF g

\* The events an outcome x calls for, in terms of the plan's state row.
DueEvents(row, x) ==
  IF row.status = "completed" THEN {}
  ELSE IF x.event.kind # "active" THEN {x.event}
  ELSE IF row.found /\ row.seen # Nil /\ row.seen # x.seen
  THEN {Outcome(x.event.window, "changed")} ELSE {}

\* The state row after outcome x.
Updated(row, new, x) ==
  IF row.status = "completed" THEN new = row
  ELSE /\ new.status = "completed" <=> x.event.kind = "completed"
       /\ new.status = "completed" => new.found
       /\ IF x.event.kind \in {"active", "completed"}
          THEN new.found /\ new.seen = x.seen /\ x.seen # Nil
          ELSE new.seen = row.seen /\ (row.found => new.found)

\* What the state row remembers is enough to tell what an outcome calls for.
LEMMA RowSuffices ==
  ASSUME NEW p \in Plans, history[p] \in Seq(Entries), PlanOK(p), NEW x \in Entries
  PROVE  \A e : CallsFor(Append(history[p], x), Len(history[p]) + 1, e) <=> e \in DueEvents(plan[p], x)
<1> DEFINE h == history[p]
           g == Append(h, x)
           n == Len(h) + 1
<1>1. /\ n \in Nat \ {0} /\ Len(h) \in Nat /\ DOMAIN h = 1..Len(h) /\ n - 1 = Len(h)
      /\ g[n] = x /\ \A i \in 1..Len(h) : g[i] = h[i]
  BY AppendFacts, SMT
<1> HIDE DEF g
<1>2. Early(g, n) <=> plan[p].status # "completed"
  BY <1>1 DEF Early, PlanOK
<1>3. ASSUME plan[p].status # "completed"
      PROVE  Changes(g, n) <=> plan[p].found /\ plan[p].seen # Nil /\ plan[p].seen # x.seen
  <2>1. Changes(g, n) <=> \E j \in 1..Len(h) :
          /\ IsReport(h, j) /\ h[j].seen # x.seen
          /\ \A k \in (j + 1)..Len(h) : ~IsReport(h, k)
    <3>1. \A j \in 1..Len(h) : \A k \in (j + 1)..Len(h) : k \in 1..Len(h)
      BY <1>1, SMT
    <3> QED BY <1>1, <3>1 DEF Changes, IsReport
  <2>2. CASE plan[p].seen = Nil
    <3>1. \A j \in 1..Len(h) : ~IsReport(h, j)
      BY <1>1, <1>3, <2>2 DEF PlanOK
    <3> QED BY <2>1, <2>2, <3>1
  <2>3. CASE plan[p].seen # Nil
    <3>1. PICK j \in 1..Len(h) :
            /\ IsReport(h, j) /\ h[j].seen = plan[p].seen
            /\ \A k \in (j + 1)..Len(h) : ~IsReport(h, k)
      BY <1>1, <1>3, <2>3 DEF PlanOK
    <3>2. plan[p].found
      BY <1>3, <2>3 DEF PlanOK
    <3>3. ASSUME NEW i \in 1..Len(h), IsReport(h, i),
                 \A k \in (i + 1)..Len(h) : ~IsReport(h, k)
          PROVE  i = j
      <4>1. i \notin (j + 1)..Len(h) /\ j \notin (i + 1)..Len(h)
        BY <3>1, <3>3
      <4> QED BY <1>1, <4>1, SMT
    <3> QED BY <2>1, <2>3, <3>1, <3>2, <3>3
  <2> QED BY <2>2, <2>3
<1>4. ASSUME NEW e PROVE CallsFor(g, n, e) <=> e \in DueEvents(plan[p], x)
  BY <1>1, <1>2, <1>3 DEF CallsFor, DueEvents
<1> QED BY <1>4 DEF g

\* One outcome of a window of plan p keeps row, history and outbox together.
LEMMA PlanKept ==
  ASSUME NEW p \in Plans, history[p] \in Seq(Entries), PlanOK(p), NEW x \in Entries,
         history'[p] = Append(history[p], x), Updated(plan[p], plan'[p], x),
         Recorded(p)' = Recorded(p) \cup DueEvents(plan[p], x)
  PROVE  PlanOK(p)'
<1> DEFINE h == history[p]
           g == Append(h, x)
           n == Len(h) + 1
           Last(s, j) == IsReport(s, j) /\ \A k \in (j + 1)..Len(s) : ~IsReport(s, k)
<1>1. /\ n \in Nat \ {0} /\ Len(h) \in Nat /\ DOMAIN h = 1..Len(h) /\ Len(g) = n
      /\ DOMAIN g = 1..n /\ g[n] = x /\ \A i \in 1..Len(h) : g[i] = h[i]
  BY AppendFacts, SMT
<1>2. Recorded(p)' = Expected(g)
  <2>1. \A e : e \in Expected(g) <=> e \in Expected(h) \/ e \in DueEvents(plan[p], x)
    BY RowSuffices, ExpectedGrows
  <2>2. Recorded(p) = Expected(h)
    BY DEF PlanOK
  <2> HIDE DEF g, h
  <2> QED BY <2>1, <2>2
<1> HIDE DEF g
<1>3. history'[p] = g /\ Len(g) = n
  BY <1>1 DEF g
<1>4. \A i \in 1..n : i \in 1..Len(h) \/ i = n
  BY <1>1, SMT
<1>5. /\ plan'[p].status = "completed" => plan'[p].found
      /\ plan'[p].status = "completed" <=> \E i \in DOMAIN g : g[i].event.kind = "completed"
  <2>1. /\ plan[p].status = "completed" => plan[p].found
        /\ plan[p].status = "completed" <=> \E i \in DOMAIN h : h[i].event.kind = "completed"
    BY DEF PlanOK
  <2>2. (\E i \in DOMAIN g : g[i].event.kind = "completed")
          <=> plan[p].status = "completed" \/ x.event.kind = "completed"
    BY <1>1, <1>4, <2>1, SMT
  <2> QED BY <2>1, <2>2 DEF Updated
<1>6. ASSUME plan'[p].status # "completed"
      PROVE  /\ plan'[p].seen = Nil => \A j \in DOMAIN g : ~IsReport(g, j)
             /\ plan'[p].seen # Nil =>
                  plan'[p].found /\ \E j \in DOMAIN g : Last(g, j) /\ g[j].seen = plan'[p].seen
  <2>1. plan[p].status # "completed"
    BY <1>6 DEF Updated
  <2>2. CASE IsReport(g, n)
    <3>1. plan'[p].found /\ plan'[p].seen = x.seen /\ x.seen # Nil
      BY <1>1, <2>1, <2>2 DEF Updated, IsReport
    <3>2. Last(g, n) /\ n \in DOMAIN g
      BY <1>1, <2>2, SMT
    <3> QED BY <1>1, <3>1, <3>2
  <2>3. CASE ~IsReport(g, n)
    <3>1. plan'[p].seen = plan[p].seen /\ (plan[p].found => plan'[p].found)
      BY <1>1, <2>1, <2>3 DEF Updated, IsReport
    <3>2. /\ plan[p].seen = Nil => \A j \in DOMAIN h : ~IsReport(h, j)
          /\ plan[p].seen # Nil =>
               plan[p].found /\ \E j \in DOMAIN h : Last(h, j) /\ h[j].seen = plan[p].seen
      BY <2>1 DEF PlanOK
    <3>3. \A j \in 1..Len(h) : (IsReport(g, j) <=> IsReport(h, j))
      BY <1>1 DEF IsReport
    <3>4. ASSUME NEW j \in DOMAIN h, Last(h, j) PROVE Last(g, j) /\ j \in DOMAIN g
      <4>1. ASSUME NEW k \in (j + 1)..Len(g) PROVE ~IsReport(g, k)
        <5>1. k = n \/ k \in ((j + 1)..Len(h)) \cap (1..Len(h))
          BY <1>1, <1>3, SMT
        <5> QED BY <2>3, <3>3, <3>4, <5>1
      <4>2. IsReport(g, j) /\ j \in DOMAIN g
        BY <1>1, <3>3, <3>4, SMT
      <4> QED BY <4>1, <4>2
    <3> QED BY <1>1, <1>4, <2>3, <3>1, <3>2, <3>3, <3>4
  <2> QED BY <2>2, <2>3
<1> QED BY <1>2, <1>3, <1>5, <1>6 DEF PlanOK

\* enqueueConversationFollowUpEvent adds at most this event.
LEMMA EnqueueRecords ==
  ASSUME TypeOK, NEW e \in Events, Enqueue(e)
  PROVE  \A f \in Events : event'[f].status # "none" <=> event[f].status # "none" \/ f = e
BY DEF TypeOK, Enqueue, NoEvent

\* A transaction that records outcome x of a window, as the plan's state row
\* wants it, keeps every plan in order.
LEMMA HistoryByLog ==
  ASSUME HistoryInv, NEW w \in Windows, NEW x \in Entries, x.event.window = w,
         history' = [history EXCEPT ![PlanOf[w]] = Append(@, x)],
         \A q \in Plans : q # PlanOf[w] => plan'[q] = plan[q],
         Updated(plan[PlanOf[w]], plan'[PlanOf[w]], x),
         DueEvents(plan[PlanOf[w]], x) \subseteq Events,
         \A f \in Events : event'[f].status # "none" <=>
           event[f].status # "none" \/ f \in DueEvents(plan[PlanOf[w]], x)
  PROVE  HistoryInv'
<1> DEFINE p == PlanOf[w]
           due == DueEvents(plan[p], x)
<1>1. p \in Plans
  BY FollowUpConstants
<1>2. history \in [Plans -> Seq(Entries)] /\ PlanOK(p)
  BY <1>1 DEF HistoryInv
<1>3. Append(history[p], x) \in Seq(Entries)
  BY <1>1, <1>2, AppendFacts
<1> HIDE DEF Entries
<1>4. /\ history' \in [Plans -> Seq(Entries)] /\ history'[p] = Append(history[p], x)
      /\ \A q \in Plans : q # p => history'[q] = history[q]
  BY <1>1, <1>2, <1>3
<1>5. \A e \in due : PlanOf[e.window] = p
  BY SMT DEF DueEvents, Outcome
<1>6. Recorded(p)' = Recorded(p) \cup due
  BY <1>5 DEF Recorded
<1>7. PlanOK(p)'
  BY <1>1, <1>2, <1>4, <1>6, PlanKept
<1>8. ASSUME NEW q \in Plans, q # p PROVE PlanOK(q)'
  <2>1. Recorded(q)' = Recorded(q)
    BY <1>5, <1>8 DEF Recorded
  <2>2. PlanOK(q) /\ plan'[q] = plan[q] /\ history'[q] = history[q]
    BY <1>4, <1>8 DEF HistoryInv
  <2> HIDE DEF p
  <2> QED BY <2>1, <2>2 DEF PlanOK
<1> QED BY <1>4, <1>7, <1>8 DEF HistoryInv

\* Nothing is recorded.
LEMMA HistoryStays ==
  ASSUME HistoryInv, UNCHANGED <<plan, history>>,
         \A f \in Events : event'[f].status # "none" <=> event[f].status # "none"
  PROVE  HistoryInv'
<1>1. \A p \in Plans : Recorded(p)' = Recorded(p)
  BY DEF Recorded
<1> QED BY <1>1 DEF HistoryInv, PlanOK

\* A report.
LEMMA ReportLogged ==
  ASSUME TypeOK, HistoryInv, NEW w \in Windows, NEW report \in Reports,
         FinishWithReport(w, report)
  PROVE  HistoryInv'
<1> DEFINE p == PlanOf[w]
           x == [event |-> Outcome(w, report.status), seen |-> report.seen]
<1>1. /\ p \in Plans /\ plan \in [Plans -> PlanRows] /\ PlanOK(p)
      /\ report.status \in {"active", "completed"} /\ report.seen \in Observations
      /\ report.seen # Nil
  BY FollowUpConstants DEF TypeOK, PlanRows, HistoryInv, Reports
<1>2. /\ x \in Entries /\ x.event.window = w /\ x.event.kind = report.status
      /\ x.event = Outcome(w, report.status) /\ x.seen = report.seen
  BY <1>1 DEF Entries, Outcome, Kinds
<1>3. PlanCompleted(p) <=> plan[p].status = "completed"
  BY <1>1 DEF PlanCompleted, PlanOK
<1>4. history' = [history EXCEPT ![p] = Append(@, x)] /\ RecordReport(w, report)
  BY DEF FinishWithReport, Log, Outcome
<1>5. Differs(p, report) <=> plan[p].found /\ plan[p].seen # Nil /\ plan[p].seen # x.seen
  BY <1>2 DEF Differs
<1> HIDE DEF x
<1>6. CASE plan[p].status = "completed"
  <2>1. UNCHANGED <<plan, event>> /\ DueEvents(plan[p], x) = {}
    BY <1>3, <1>4, <1>6 DEF RecordReport, DueEvents
  <2> QED BY <1>2, <1>4, <1>6, <2>1, HistoryByLog DEF Updated
<1>7. CASE plan[p].status # "completed"
  <2> DEFINE kind == IF report.status = "completed" THEN "completed"
                     ELSE IF Differs(p, report) THEN "changed" ELSE Nil
  <2>1. plan' = [plan EXCEPT ![p] = Saved(p, report)] /\ EnqueueKind(w, kind)
    BY <1>3, <1>4, <1>7 DEF RecordReport
  <2>2. /\ \A q \in Plans : q # p => plan'[q] = plan[q]
        /\ plan'[p].found /\ plan'[p].status = report.status /\ plan'[p].seen = report.seen
    BY <1>1, <2>1 DEF Saved
  <2>3. Updated(plan[p], plan'[p], x)
    BY <1>1, <1>2, <1>7, <2>2 DEF Updated
  <2>4. /\ kind = Nil => DueEvents(plan[p], x) = {}
        /\ kind # Nil => kind \in Kinds /\ DueEvents(plan[p], x) = {Outcome(w, kind)}
    BY <1>1, <1>2, <1>5, <1>7, FollowUpConstants DEF DueEvents, Kinds
  <2> HIDE DEF kind
  <2>5. CASE kind = Nil
    <3>1. event' = event
      BY <2>1, <2>5 DEF EnqueueKind
    <3> QED BY <1>2, <1>4, <2>2, <2>3, <2>4, <2>5, <3>1, HistoryByLog
  <2>6. CASE kind # Nil
    <3>1. Enqueue(Outcome(w, kind)) /\ Outcome(w, kind) \in Events
      BY <2>1, <2>4, <2>6, EventIds DEF EnqueueKind
    <3>2. \A f \in Events : event'[f].status # "none" <=>
            event[f].status # "none" \/ f \in DueEvents(plan[p], x)
      BY <2>4, <2>6, <3>1, EnqueueRecords
    <3>3. DueEvents(plan[p], x) \subseteq Events
      BY <2>4, <2>6, <3>1
    <3> QED BY <1>2, <1>4, <2>2, <2>3, <3>2, <3>3, HistoryByLog
  <2> QED BY <2>5, <2>6
<1> QED BY <1>6, <1>7

\* A failure, or a text that is no report.
LEMMA FailureLogged ==
  ASSUME TypeOK, HistoryInv, NEW w \in Windows, NEW run, FinishWithoutReport(w, run)
  PROVE  HistoryInv'
<1> DEFINE p == PlanOf[w]
           x == [event |-> Outcome(w, "failed"), seen |-> Nil]
<1>1. p \in Plans /\ plan \in [Plans -> PlanRows] /\ PlanOK(p)
  BY FollowUpConstants DEF TypeOK, PlanRows, HistoryInv
<1>2. /\ x \in Entries /\ x.event.window = w /\ x.event.kind = "failed"
      /\ x.event = Outcome(w, "failed")
  BY DEF Entries, Outcome, Kinds
<1>3. PlanCompleted(p) <=> plan[p].status = "completed"
  BY <1>1 DEF PlanCompleted, PlanOK
<1>4. history' = [history EXCEPT ![p] = Append(@, x)] /\ RecordFailure(w)
  BY DEF FinishWithoutReport, Log, Outcome
<1> HIDE DEF x
<1>5. CASE plan[p].status = "completed"
  <2>1. UNCHANGED <<plan, event>> /\ DueEvents(plan[p], x) = {}
    BY <1>3, <1>4, <1>5 DEF RecordFailure, DueEvents
  <2> QED BY <1>2, <1>4, <1>5, <2>1, HistoryByLog DEF Updated
<1>6. CASE plan[p].status # "completed"
  <2>1. plan' = [plan EXCEPT ![p].found = TRUE] /\ Enqueue(Outcome(w, "failed"))
    BY <1>3, <1>4, <1>6, FollowUpConstants DEF RecordFailure, EnqueueKind, Kinds
  <2>2. /\ \A q \in Plans : q # p => plan'[q] = plan[q]
        /\ plan'[p].found /\ plan'[p].status = plan[p].status /\ plan'[p].seen = plan[p].seen
    BY <1>1, <2>1 DEF PlanRows
  <2>3. Updated(plan[p], plan'[p], x)
    BY <1>2, <1>6, <2>2 DEF Updated
  <2>4. DueEvents(plan[p], x) = {Outcome(w, "failed")} /\ Outcome(w, "failed") \in Events
    BY <1>2, <1>6, EventIds DEF DueEvents, Kinds
  <2>5. \A f \in Events : event'[f].status # "none" <=>
          event[f].status # "none" \/ f \in DueEvents(plan[p], x)
    BY <2>1, <2>4, EnqueueRecords
  <2>6. DueEvents(plan[p], x) \subseteq Events
    BY <2>4
  <2> QED BY <1>2, <1>4, <2>2, <2>3, <2>5, <2>6, HistoryByLog
<1> QED BY <1>5, <1>6

\* A question, or the same reconciliation again.
LEMMA QuestionLogged ==
  ASSUME TypeOK, HistoryInv, NEW w \in Windows, Wait(w)
  PROVE  HistoryInv'
<1>1. PICK n \in Asks : RecordWaiting(w, n) /\ Log(Question(w, n), Nil)
  BY DEF Wait
<1> DEFINE p == PlanOf[w]
           x == [event |-> Question(w, n), seen |-> Nil]
<1>2. p \in Plans /\ PlanOK(p) /\ n \in Nat
  BY FollowUpConstants, SMT DEF HistoryInv, Asks
<1>3. /\ x \in Entries /\ x.event.window = w /\ x.event.kind = "needs_action"
      /\ x.event = Question(w, n)
  BY <1>2 DEF Entries, Question
<1>4. PlanCompleted(p) <=> plan[p].status = "completed"
  BY <1>2 DEF PlanCompleted, PlanOK
<1>5. history' = [history EXCEPT ![p] = Append(@, x)] /\ plan' = plan
  BY <1>1 DEF Log, Question, RecordWaiting
<1> HIDE DEF x
<1>6. Updated(plan[p], plan'[p], x)
  BY <1>2, <1>3, <1>5 DEF Updated, PlanOK
<1>7. CASE plan[p].status = "completed"
  <2>1. event' = event /\ DueEvents(plan[p], x) = {}
    BY <1>1, <1>4, <1>7 DEF RecordWaiting, DueEvents
  <2> QED BY <1>3, <1>5, <1>6, <2>1, HistoryByLog
<1>8. CASE plan[p].status # "completed"
  <2>1. Enqueue(Question(w, n)) /\ Question(w, n) \in Events
    BY <1>1, <1>4, <1>8, EventIds DEF RecordWaiting
  <2>2. DueEvents(plan[p], x) = {Question(w, n)}
    BY <1>3, <1>8 DEF DueEvents
  <2>3. \A f \in Events : event'[f].status # "none" <=>
          event[f].status # "none" \/ f \in DueEvents(plan[p], x)
    BY <2>1, <2>2, EnqueueRecords
  <2>4. DueEvents(plan[p], x) \subseteq Events
    BY <2>1, <2>2
  <2> QED BY <1>3, <1>5, <1>6, <2>3, <2>4, HistoryByLog
<1> QED BY <1>7, <1>8

\* The publisher loops and time withdraw no event and add none.
LEMMA PublisherRecordsNothing ==
  ASSUME TypeOK, (\E i \in Workers : WorkerStep(i)) \/ (\E e \in Events : LeaseExpires(e) \/ Due(e))
  PROVE  /\ UNCHANGED <<plan, history>>
         /\ \A f \in Events : event'[f].status # "none" <=> event[f].status # "none"
<1> DEFINE Kept == /\ UNCHANGED <<plan, history>>
                   /\ \A f \in Events : event'[f].status # "none" <=> event[f].status # "none"
<1>1. event \in [Events -> EventRows]
  BY DEF TypeOK, EventRows
<1>2. ASSUME NEW i \in Workers, WorkerStep(i) PROVE Kept
  <2>1. CASE ClaimEvent(i)
    <3>1. PICK n \in DOMAIN order :
            /\ Claimable(order[n])
            /\ event' = [event EXCEPT ![order[n]] = Taken(order[n], i)]
      BY <2>1 DEF ClaimEvent
    <3> QED BY <1>1, <2>1, <3>1 DEF ClaimEvent, Claimable, Taken
  <2>2. ASSUME NEW status \in {"published", "delayed"}, Settles(i),
               event' = Settled(worker[i].event, status), UNCHANGED <<plan, history>>
        PROVE  Kept
    BY <1>1, <2>2 DEF Settles, Settled
  <2>3. CASE CompleteEvent(i)
    BY <2>2, <2>3 DEF CompleteEvent
  <2>4. CASE ReleaseEvent(i)
    BY <2>2, <2>4 DEF ReleaseEvent
  <2>5. CASE PublishAccepted(i) \/ PublishRefused(i) \/ Abandon(i)
    BY <2>5 DEF PublishAccepted, PublishRefused, Abandon
  <2> QED BY <1>2, <2>1, <2>3, <2>4, <2>5 DEF WorkerStep
<1>3. ASSUME NEW e \in Events, LeaseExpires(e) \/ Due(e) PROVE Kept
  <2>1. CASE LeaseExpires(e)
    <3>1. event' = [event EXCEPT ![e].leased = FALSE] /\ UNCHANGED <<plan, history>>
      BY <2>1 DEF LeaseExpires
    <3>2. \A f \in Events : event'[f].status = event[f].status
      BY <1>1, <3>1 DEF EventRows
    <3> QED BY <3>1, <3>2
  <2>2. CASE Due(e)
    <3>1. /\ event[e].status = "delayed" /\ event' = [event EXCEPT ![e].status = "pending"]
          /\ UNCHANGED <<plan, history>>
      BY <2>2 DEF Due
    <3>2. event'[e].status = "pending" /\ \A f \in Events : f # e => event'[f] = event[f]
      BY <1>1, <3>1 DEF EventRows
    <3> QED BY <3>1, <3>2
  <2> QED BY <1>3, <2>1, <2>2
<1> QED BY <1>2, <1>3

\* The outbox holds exactly the events the outcomes of the windows call for:
\* what recordConversationFollowUpTerminal reads of the plan's state row is
\* enough to tell, whatever order overlapping windows end in.
THEOREM OutboxIsExact == Spec => []OutboxMatchesHistory
<1>1. Init => HistoryInv
  <2> SUFFICES ASSUME Init PROVE HistoryInv
    OBVIOUS
  <2>1. \A p \in Plans : /\ plan[p] = NoPlan /\ history[p] = <<>>
    BY DEF Init
  <2>2. history \in [Plans -> Seq(Entries)]
    BY SMT DEF Init
  <2>3. Expected(<<>>) = {}
    BY ExpectedIs, SMT
  <2>4. \A p \in Plans : Recorded(p) = {}
    BY DEF Init, Recorded, NoEvent
  <2>5. ASSUME NEW p \in Plans PROVE PlanOK(p)
    <3>1. plan[p].status = "active" /\ plan[p].seen = Nil /\ DOMAIN history[p] = {}
      BY <2>1, SMT DEF NoPlan
    <3>2. Recorded(p) = Expected(history[p])
      BY <2>1, <2>3, <2>4
    <3> HIDE DEF Recorded, Expected
    <3> QED BY <3>1, <3>2 DEF PlanOK
  <2> QED BY <2>2, <2>5 DEF HistoryInv
<1>2. TypeOK /\ HistoryInv /\ [Next]_vars => HistoryInv'
  <2> SUFFICES ASSUME TypeOK, HistoryInv, [Next]_vars PROVE HistoryInv'
    OBVIOUS
  <2>1. ASSUME NEW w \in Windows, WindowStep(w) PROVE HistoryInv'
    <3>1. CASE (\E open \in BOOLEAN : Continue(w, open)) \/ Lapse(w) \/ Cancel(w) \/ Resume(w)
      BY <3>1, HistoryStays DEF Continue, Lapse, Cancel, Resume
    <3> QED BY <2>1, <3>1, ReportLogged, FailureLogged, QuestionLogged DEF WindowStep
  <2>2. CASE UNCHANGED vars
    BY <2>2, HistoryStays DEF vars
  <2> QED BY <2>1, <2>2, PublisherRecordsNothing, HistoryStays DEF Next
<1>3. HistoryInv => OutboxMatchesHistory
  BY DEF HistoryInv, PlanOK, Recorded, OutboxMatchesHistory
<1> QED BY <1>1, <1>2, <1>3, TypeCorrect, PTL DEF Spec

-----------------------------------------------------------------------------
(* The refinement of FencedJob.                                            *)

\* The variables of the abstract queue, as the refinement maps them.
Queued == [e \in Events |-> [phase |-> Phase(event[e].status), fence |-> event[e].fence]]
Memory(call) == IF call = Idle THEN {} ELSE {[of |-> call.event, fence |-> call.fence]}
Memories == [i \in Workers |-> Memory(worker[i])]

\* The steps of the abstract queue, in terms of those two.
LEMMA IsOffer ==
  ASSUME NEW e \in Events, Queued[e].phase = "absent", Memories' = Memories,
         Queued' = [Queued EXCEPT ![e] = [phase |-> "ready", fence |-> 0]]
  PROVE  Outbox!Next
<1>1. Outbox!Offer(e)
  BY DEF Outbox!Offer, Outbox!Becomes, Queued, Memories, Memory
<1> QED BY <1>1 DEF Outbox!Next

\* A worker takes a job.
LEMMA IsTake ==
  ASSUME NEW e \in Events, NEW i \in Workers, Queued[e].phase \in {"ready", "held"},
         Memories' = [Memories EXCEPT ![i] = {[of |-> e, fence |-> Queued[e].fence + 1]}],
         Queued' = [Queued EXCEPT ![e] = [phase |-> "held", fence |-> Queued[e].fence + 1]]
  PROVE  Outbox!Next
<1>1. Outbox!Take(i, e)
  BY DEF Outbox!Take, Outbox!Becomes, Queued, Memories, Memory
<1> QED BY <1>1 DEF Outbox!Next

\* A worker puts down the job it holds.
LEMMA IsPutDown ==
  ASSUME NEW e \in Events, NEW i \in Workers, Queued[e].phase = "held",
         Queued[e].fence \in Nat, [of |-> e, fence |-> Queued[e].fence] \in Memories[i],
         Memories' = [Memories EXCEPT ![i] = {}], NEW phase \in {"ready", "parked", "done"},
         Queued' = [Queued EXCEPT ![e] = [phase |-> phase, fence |-> Queued[e].fence]]
  PROVE  Outbox!Next
<1>1. Outbox!Current(i, e)
  BY DEF Outbox!Current, Queued, Memories, Memory
<1>2. Queued[e].fence + 0 = Queued[e].fence
  BY SMT
<1>3. \E p \in {"ready", "parked", "done"}, n \in {0, 1} :
        Queued' = [Queued EXCEPT ![e] = [phase |-> p, fence |-> Queued[e].fence + n]]
  BY <1>2
<1>4. Outbox!PutDown(i, e)
  BY <1>1, <1>3 DEF Outbox!PutDown, Outbox!Becomes, Queued, Memories, Memory
<1> QED BY <1>4 DEF Outbox!Next

\* A worker forgets what it holds.
LEMMA IsForget ==
  ASSUME NEW i \in Workers, Memories' = [Memories EXCEPT ![i] = {}], Queued' = Queued
  PROVE  Outbox!Next
<1>1. Outbox!Forget(i)
  BY DEF Outbox!Forget, Queued, Memories, Memory
<1> QED BY <1>1 DEF Outbox!Next

\* Nothing changes.
LEMMA IsStutter ==
  ASSUME Queued' = Queued, Memories' = Memories PROVE UNCHANGED Outbox!vars
BY DEF Outbox!vars, Queued, Memories, Memory

\* What is not written does not show.
LEMMA Written ==
  /\ UNCHANGED event => Queued' = Queued
  /\ UNCHANGED worker => Memories' = Memories
BY DEF Queued, Memories

\* Writing one event row shows as the change of one entry.
LEMMA EventWritten ==
  ASSUME TypeOK, NEW e \in Events, NEW row, event' = [event EXCEPT ![e] = row]
  PROVE  Queued' = [Queued EXCEPT ![e] = [phase |-> Phase(row.status), fence |-> row.fence]]
BY DEF TypeOK, Queued

\* Writing one worker shows as the change of one entry.
LEMMA WorkerWritten ==
  ASSUME TypeOK, NEW i \in Workers, NEW call, worker' = [worker EXCEPT ![i] = call]
  PROVE  Memories' = [Memories EXCEPT ![i] = Memory(call)]
BY DEF TypeOK, Memories

\* A transaction of a window's run adds an event or leaves the outbox alone.
LEMMA WindowRefines ==
  ASSUME TypeOK, NEW w \in Windows, WindowStep(w)
  PROVE  Outbox!Next \/ UNCHANGED Outbox!vars
<1>1. ASSUME NEW e \in Events, Enqueue(e), UNCHANGED worker
      PROVE  Outbox!Next \/ UNCHANGED Outbox!vars
  <2>1. CASE event[e].status = "none"
    <3> DEFINE row == [NoEvent EXCEPT !.status = "pending"]
    <3>1. event' = [event EXCEPT ![e] = row]
      BY <1>1, <2>1 DEF Enqueue
    <3>2. Phase(row.status) = "ready" /\ row.fence = 0
      BY DEF NoEvent, Phase
    <3> HIDE DEF row
    <3>3. Queued' = [Queued EXCEPT ![e] = [phase |-> "ready", fence |-> 0]]
      BY <3>1, <3>2, EventWritten
    <3>4. Queued[e].phase = "absent"
      BY <2>1 DEF Queued, Phase
    <3> QED BY <1>1, <3>3, <3>4, Written, IsOffer
  <2>2. CASE event[e].status # "none"
    BY <1>1, <2>2, Written, IsStutter DEF Enqueue
  <2> QED BY <2>1, <2>2
<1>2. ASSUME UNCHANGED <<event, worker>> PROVE UNCHANGED Outbox!vars
  BY <1>2, Written, IsStutter
<1>3. UNCHANGED worker /\ (UNCHANGED event \/ \E e \in Events : Enqueue(e))
  <2>1. ASSUME NEW report \in Reports, FinishWithReport(w, report)
        PROVE  UNCHANGED worker /\ (UNCHANGED event \/ \E e \in Events : Enqueue(e))
    BY <2>1, EventIds DEF FinishWithReport, RecordReport, EnqueueKind, Kinds
  <2>2. ASSUME NEW run \in {"stopped", "ended"}, FinishWithoutReport(w, run)
        PROVE  UNCHANGED worker /\ (UNCHANGED event \/ \E e \in Events : Enqueue(e))
    BY <2>2, EventIds DEF FinishWithoutReport, RecordFailure, EnqueueKind, Kinds
  <2>3. ASSUME Wait(w)
        PROVE  UNCHANGED worker /\ (UNCHANGED event \/ \E e \in Events : Enqueue(e))
    BY <2>3, EventIds DEF Wait, RecordWaiting
  <2>4. ASSUME (\E open \in BOOLEAN : Continue(w, open)) \/ Lapse(w) \/ Cancel(w) \/ Resume(w)
        PROVE  UNCHANGED <<event, worker>>
    BY <2>4 DEF Continue, Lapse, Cancel, Resume
  <2> QED BY <2>1, <2>2, <2>3, <2>4 DEF WindowStep
<1> QED BY <1>1, <1>2, <1>3

\* A publisher loop takes a job, puts down the one it holds, or forgets it.
LEMMA WorkerRefines ==
  ASSUME TypeOK, NEW i \in Workers, WorkerStep(i)
  PROVE  Outbox!Next \/ UNCHANGED Outbox!vars
<1>1. worker[i].pc \in {"calling", "accepted", "refused"} => worker[i] # Idle
  BY SMT DEF Idle
<1>2. Memory(Idle) = {}
  BY DEF Memory
<1>3. ASSUME worker' = [worker EXCEPT ![i] = Idle], UNCHANGED event PROVE Outbox!Next
  <2>1. Memories' = [Memories EXCEPT ![i] = {}]
    BY <1>2, <1>3, WorkerWritten
  <2> QED BY <1>3, <2>1, Written, IsForget
<1>4. ASSUME worker[i] # Idle, Settles(i), NEW status \in {"delayed", "published"},
             event' = Settled(worker[i].event, status), worker' = [worker EXCEPT ![i] = Idle]
      PROVE  Outbox!Next
  <2> DEFINE e == worker[i].event
             row == [status |-> status, owner |-> Nil, fence |-> event[e].fence, leased |-> FALSE]
  <2>1. e \in Events /\ event[e].fence \in Nat
    BY <1>4, CallFacts DEF EventRows
  <2>2. event' = [event EXCEPT ![e] = row]
    BY <1>4 DEF Settled
  <2>3. row.status = status /\ row.fence = event[e].fence
    OBVIOUS
  <2> HIDE DEF row
  <2>4. Queued[e].phase = "held" /\ Queued[e].fence = event[e].fence
    BY <1>4, <2>1 DEF Queued, Settles, Phase
  <2>5. [of |-> e, fence |-> Queued[e].fence] \in Memories[i]
    BY <1>4, <2>4 DEF Memories, Memory, Settles
  <2>6. Queued' = [Queued EXCEPT ![e] = [phase |-> Phase(status), fence |-> Queued[e].fence]]
    <3> HIDE DEF e
    <3>1. Queued' = [Queued EXCEPT ![e] = [phase |-> Phase(row.status), fence |-> row.fence]]
      BY <2>1, <2>2, EventWritten
    <3> QED BY <2>3, <2>4, <3>1
  <2>7. Memories' = [Memories EXCEPT ![i] = {}]
    BY <1>2, <1>4, WorkerWritten
  <2>8. Phase(status) \in {"ready", "parked", "done"}
    BY <1>4 DEF Phase
  <2> HIDE DEF e
  <2> QED BY <2>1, <2>4, <2>5, <2>6, <2>7, <2>8, IsPutDown
<1>5. CASE ClaimEvent(i)
  <2>1. PICK n \in DOMAIN order :
          /\ Claimable(order[n])
          /\ event' = [event EXCEPT ![order[n]] = Taken(order[n], i)]
          /\ worker' = [worker EXCEPT ![i] = [pc |-> "calling", event |-> order[n],
                                             fence |-> Taken(order[n], i).fence]]
    BY <1>5 DEF ClaimEvent
  <2> DEFINE e == order[n]
             row == Taken(e, i)
             call == [pc |-> "calling", event |-> e, fence |-> row.fence]
  <2>2. e \in Events
    BY SMT DEF TypeOK
  <2>3. Queued[e].phase \in {"ready", "held"} /\ Queued[e].fence = event[e].fence
    BY <2>1, <2>2 DEF Queued, Claimable, Phase
  <2>4. Phase(row.status) = "held" /\ row.fence = Queued[e].fence + 1
    BY <2>3 DEF Taken, Phase
  <2>5. Queued' = [Queued EXCEPT ![e] = [phase |-> "held", fence |-> Queued[e].fence + 1]]
    <3> HIDE DEF row, e
    <3>1. event' = [event EXCEPT ![e] = row]
      BY <2>1 DEF row, e
    <3> QED BY <2>2, <2>4, <3>1, EventWritten
  <2>6. Memory(call) = {[of |-> e, fence |-> Queued[e].fence + 1]}
    <3> HIDE DEF row
    <3> QED BY <2>4 DEF Memory, Idle
  <2>7. Memories' = [Memories EXCEPT ![i] = {[of |-> e, fence |-> Queued[e].fence + 1]}]
    <3> HIDE DEF call, row, e
    <3>1. worker' = [worker EXCEPT ![i] = call]
      BY <2>1 DEF call, row, e
    <3> QED BY <2>6, <3>1, WorkerWritten
  <2> HIDE DEF e
  <2> QED BY <2>2, <2>3, <2>5, <2>7, IsTake
<1>6. ASSUME PublishAccepted(i) \/ PublishRefused(i) PROVE UNCHANGED Outbox!vars
  <2>1. PICK pc \in {"accepted", "refused"} : worker' = [worker EXCEPT ![i].pc = pc]
    BY <1>6 DEF PublishAccepted, PublishRefused
  <2>2. worker[i] \in Calls /\ worker[i] # Idle /\ UNCHANGED event
    BY <1>1, <1>6, CallFacts DEF PublishAccepted, PublishRefused
  <2> DEFINE call == [worker[i] EXCEPT !.pc = pc]
  <2>3. call.event = worker[i].event /\ call.fence = worker[i].fence /\ call # Idle
    BY <2>2 DEF Calls, Idle
  <2>4. worker' = [worker EXCEPT ![i] = call]
    BY <2>1
  <2> HIDE DEF call
  <2>5. Memory(call) = Memories[i]
    BY <2>2, <2>3 DEF Memory, Memories
  <2>6. Memories' = Memories
    BY <2>4, <2>5, WorkerWritten, SMT DEF Memories
  <2> QED BY <2>2, <2>6, Written, IsStutter
<1>7. CASE CompleteEvent(i)
  <2>1. worker[i] # Idle
    BY <1>1, <1>7 DEF CompleteEvent
  <2> QED BY <1>3, <1>4, <1>7, <2>1 DEF CompleteEvent
<1>8. CASE ReleaseEvent(i)
  <2>1. worker[i] # Idle
    BY <1>1, <1>8 DEF ReleaseEvent
  <2> QED BY <1>3, <1>4, <1>8, <2>1 DEF ReleaseEvent
<1>9. CASE Abandon(i)
  BY <1>3, <1>9 DEF Abandon
<1> QED BY <1>5, <1>6, <1>7, <1>8, <1>9 DEF WorkerStep

\* The passing of a lease or of a retry delay does not show.
LEMMA TimeRefines ==
  ASSUME TypeOK, NEW e \in Events, LeaseExpires(e) \/ Due(e)
  PROVE  UNCHANGED Outbox!vars
<1>1. UNCHANGED worker
  BY DEF LeaseExpires, Due
<1>2. ASSUME NEW f \in Events
      PROVE  /\ Phase(event'[f].status) = Phase(event[f].status)
             /\ event'[f].fence = event[f].fence
  <2>1. CASE f # e
    BY <2>1 DEF TypeOK, LeaseExpires, Due
  <2>2. CASE f = e /\ LeaseExpires(e)
    BY <2>2 DEF TypeOK, LeaseExpires
  <2>3. CASE f = e /\ Due(e)
    BY <2>3 DEF TypeOK, Due, Phase
  <2> QED BY <2>1, <2>2, <2>3
<1>3. Queued' = Queued
  BY <1>2 DEF Queued
<1> QED BY <1>1, <1>3, Written, IsStutter

\* Only the latest claim of an event settles it, and a published event is
\* never claimed again, whatever leases, instances and calls do: the outbox
\* implements the fenced queue.
THEOREM OutboxIsFenced == Spec => ImplementsFencedJob
<1>1. Init => Outbox!Init
  BY SMT DEF Init, Outbox!Init, NoEvent, Phase
<1>2. TypeOK /\ [Next]_vars => [Outbox!Next]_(Outbox!vars)
  <2> SUFFICES ASSUME TypeOK, [Next]_vars PROVE Outbox!Next \/ UNCHANGED Outbox!vars
    OBVIOUS
  <2>1. CASE UNCHANGED vars
    BY <2>1 DEF vars, Outbox!vars
  <2> QED BY <2>1, WindowRefines, WorkerRefines, TimeRefines DEF Next
<1> QED BY <1>1, <1>2, TypeCorrect, PTL DEF Spec, ImplementsFencedJob, Outbox!Spec

\* What FencedJobProofs shows of every fenced queue.
Fenced == INSTANCE FencedJobProofs WITH
  Jobs <- Events,
  Holders <- Workers,
  job <- [e \in Events |-> [phase |-> Phase(event[e].status), fence |-> event[e].fence]],
  held <- [i \in Workers |->
             IF worker[i] = Idle THEN {}
             ELSE {[of |-> worker[i].event, fence |-> worker[i].fence]}]

\* At most one instance can settle an event, although several may be calling
\* the notification service about it.
THEOREM OneSettler == Spec => []Outbox!OneCurrentHolder
<1>1. Outbox!Init => Fenced!Init
  BY DEF Outbox!Init, Fenced!Init
<1>2. [Outbox!Next]_(Outbox!vars) => [Fenced!Next]_(Fenced!vars)
  BY DEF Outbox!Next, Fenced!Next, Outbox!vars, Fenced!vars, Outbox!Forget, Fenced!Forget,
         Outbox!Remove, Fenced!Remove, Outbox!Offer, Fenced!Offer, Outbox!Interrupt,
         Fenced!Interrupt, Outbox!Take, Fenced!Take, Outbox!PutDown, Fenced!PutDown,
         Outbox!Becomes, Fenced!Becomes, Outbox!Current, Fenced!Current, Outbox!Live, Fenced!Live
<1>3. Fenced!OneCurrentHolder => Outbox!OneCurrentHolder
  BY DEF Outbox!OneCurrentHolder, Fenced!OneCurrentHolder, Outbox!Current, Fenced!Current
<1> QED BY <1>1, <1>2, <1>3, OutboxIsFenced, Fenced!Exclusion, PTL
        DEF ImplementsFencedJob, Outbox!Spec, Fenced!Spec

=============================================================================
