----------------------- MODULE ConversationToolsProofs -----------------------
(***************************************************************************)
(* The execution ledger and the tools leave the run's life cycle as        *)
(* ConversationRun describes it, so that every theorem about that module   *)
(* holds of the system with tools.  And the ledger keeps its promises, for *)
(* any script: a write takes effect at most once, after its approval and   *)
(* in order, what is on record happened, and what is unknown is held.      *)
(***************************************************************************)
EXTENDS ConversationTools, ConversationRunProofs

USE Zenon DEF NoRun

-----------------------------------------------------------------------------
(* Facts about the script, and about tables indexed by run and call.       *)

\* What the assumptions on the script say of single calls and of pairs.
LEMMA ScriptFacts ==
  /\ LastStep \in Nat
  /\ \A k \in Calls :
       /\ Script[k].step \in 0..LastStep /\ Script[k].batch \in Nat
       /\ Script[k].effect \in {"read", "write"} /\ Script[k].idem \in {"key", "reconcile"}
       /\ Script[k].gate \in {"none", "input", "confirmation"}
       /\ Script[k].gate = "input" => Script[k].effect = "read"
  /\ \A k \in Calls : ~Before(k, k)
  /\ \A j, k \in Calls : Before(j, k) => ~Before(k, j)
  /\ \A j, k \in Calls : j = k \/ Before(j, k) \/ Before(k, j) \/ Script[k].gate = "none"
<1> DEFINE Entries == [step : Nat, batch : Nat, effect : {"read", "write"},
                       idem : {"key", "reconcile"},
                       gate : {"none", "input", "confirmation"}]
<1>1. Script \in Seq(Entries)
  BY ScriptAssumption
<1>2. \A k \in Calls : Script[k] \in Entries
  <2> HIDE DEF Entries
  <2> QED BY <1>1, SMT DEF Calls
<1>3. Len(Script) \in Nat /\ (Script # <<>> => Len(Script) \in Calls)
  <2> HIDE DEF Entries
  <2> QED BY <1>1, SMT DEF Calls
<1>4. \A k \in Calls : k \in 1..Len(Script) /\ Script # <<>>
  <2> HIDE DEF Entries
  <2> QED BY <1>1, SMT DEF Calls
<1>5. \A k \in Calls :
        /\ Script[k].step \in Nat /\ Script[k].batch \in Nat
        /\ Script[k].effect \in {"read", "write"} /\ Script[k].idem \in {"key", "reconcile"}
        /\ Script[k].gate \in {"none", "input", "confirmation"}
        /\ Script[k].gate = "input" => Script[k].effect = "read"
  BY <1>2, ScriptAssumption
<1>6. LastStep \in Nat
  BY <1>3, <1>5 DEF LastStep
<1>7. \A k \in Calls : Script[k].step <= LastStep
  <2> SUFFICES ASSUME NEW k \in Calls PROVE Script[k].step <= LastStep
    OBVIOUS
  <2>1. LastStep = Script[Len(Script)].step /\ Len(Script) \in Calls
    BY <1>3, <1>4 DEF LastStep
  <2>2. k = Len(Script) \/ k < Len(Script)
    BY <1>3, <1>4, SMT
  <2>3. k < Len(Script) => Script[k].step <= Script[Len(Script)].step
    BY <1>5, <2>1, ScriptAssumption, SMT
  <2> QED BY <1>5, <2>1, <2>2, <2>3, SMT
<1>8. \A j, k \in Calls : j = k \/ Before(j, k) \/ Before(k, j) \/ Script[k].gate = "none"
  <2> SUFFICES ASSUME NEW j \in Calls, NEW k \in Calls, j # k, Script[k].gate # "none"
               PROVE  Before(j, k) \/ Before(k, j)
    OBVIOUS
  <2>1. ~(Script[k].step = Script[j].step /\ Script[k].batch = Script[j].batch)
    BY ScriptAssumption
  <2>2. \A a, b \in Nat : a = b \/ a < b \/ b < a
    BY SMT
  <2>3. Script[j].step \in Nat /\ Script[k].step \in Nat
        /\ Script[j].batch \in Nat /\ Script[k].batch \in Nat
    BY <1>5
  <2> QED BY <2>1, <2>2, <2>3 DEF Before
<1>9. \A j, k \in Calls : Before(j, k) => ~Before(k, j)
  BY <1>5, SMT DEF Before
<1> QED BY <1>5, <1>6, <1>7, <1>8, <1>9, SMT

\* No call belongs to a step before the first or after the last one.
LEMMA StepBounds == \A k \in Calls : ~(Script[k].step < 0) /\ Script[k].step < LastStep + 1
  BY ScriptFacts, SMT

\* One entry of a table is replaced, or one row of it.
LEMMA EntryReplaced ==
  ASSUME NEW A, NEW V, NEW f \in [A -> [Calls -> V]], NEW a \in A, NEW k \in Calls, NEW v \in V
  PROVE  LET g == [f EXCEPT ![a][k] = v] IN
         /\ g \in [A -> [Calls -> V]]
         /\ \A x \in A, y \in Calls : g[x][y] = IF x = a /\ y = k THEN v ELSE f[x][y]
OBVIOUS

\* A row of a table is replaced.
LEMMA RowReplaced ==
  ASSUME NEW A, NEW V, NEW f \in [A -> [Calls -> V]], NEW a \in A, NEW row \in [Calls -> V]
  PROVE  LET g == [f EXCEPT ![a] = row] IN
         /\ g \in [A -> [Calls -> V]]
         /\ \A x \in A, y \in Calls : g[x][y] = IF x = a THEN row[y] ELSE f[x][y]
OBVIOUS

-----------------------------------------------------------------------------
(* The inductive invariant of the ledger.                                  *)

\* The run's row is there, or was never created; its call k has been begun.
Live(r) == run[r].status # "deleted"
Begun(r, k) == ledger[r][k].state # "none"

\* A worker busy with a call has a claim, began the call (unless the run was
\* deleted behind its back), and took "ok" only from a host that applied it.
HandsOK ==
  \A w \in Workers, k \in Calls : hand[w][k] # "idle" =>
    /\ claim[w].run # NoRun
    /\ Live(claim[w].run) => Begun(claim[w].run, k)
    /\ hand[w][k] = "ok" /\ Script[k].effect = "write" => Applied(claim[w].run, k)

\* A call begins after its question was answered and all calls of earlier
\* batches have settled; a step is stored after the calls of those before it.
CallsOK ==
  \A r \in Runs, k \in Calls :
    /\ Begun(r, k) => GateOpen(r, k) /\ \A j \in Calls : Before(j, k) => Completed(r, j)
    /\ Script[k].step < steps[r] => Completed(r, k)

\* What reached the host was begun.
RequestsOK == \A q \in wire \cup done : Live(q.run) => Begun(q.run, q.call)

\* A tool without deduplication is invoked once; the host applies a key once.
Once ==
  /\ \A w \in Workers, k \in Calls : hand[w][k] = "invoke" /\ Script[k].idem = "reconcile" =>
       /\ \A q \in wire \cup done : ~(q.run = claim[w].run /\ q.call = k)
       /\ \A v \in Workers : hand[v][k] = "invoke" /\ claim[v].run = claim[w].run => v = w
  /\ \A p, q \in wire \cup done :
       p.run = q.run /\ p.call = q.call /\ Script[p.call].idem = "reconcile" => p = q
  /\ \A p, q \in done : p.run = q.run /\ p.call = q.call => p = q

\* The run's status and its calls agree; a run that waits for its user has no
\* call under way.
OutcomeOK(r) ==
  /\ run[r].status = "needs_reconciliation"
       => asked[r] \in Calls /\ ledger[r][asked[r]].state = "uncertain"
  /\ run[r].status = "completed" => \A k \in Calls : Completed(r, k)
  /\ run[r].status = "cancelled"
       => \A k \in Calls : Script[k].effect = "write" => ledger[r][k].state # "started"
  /\ run[r].status \in {"waiting_user", "waiting_confirmation"}
       => \A k \in Calls : ledger[r][k].state # "started"

\* The run's question and the record it is about agree.
AskedOK(r) ==
  run[r].inter.kind # "none" =>
    /\ asked[r] \in Calls
    /\ run[r].inter.status = IF run[r].inter.kind = "reconciliation"
                             THEN recon[r][asked[r]] ELSE gate[r][asked[r]]
QuestionsOK == \A r \in Runs : OutcomeOK(r) /\ AskedOK(r)
ToolsInv ==
  /\ ToolsTypeOK /\ HandsOK /\ CallsOK /\ RequestsOK /\ Once /\ QuestionsOK
  /\ SuccessMeansEffect

\* The sets the tables' entries are from.
CallRows == [state : {"none", "started", "uncertain", "completed"},
             result : {"none", "ok", "failed", "uncertain"}, fence : Nat]
GateStatus == {NoRecord, "pending", "answered", "approved"} \cup Closed
ReconStatus == {NoRecord, "pending", "cancelled", "resolved"}

\* The type invariant, table by table.
LEMMA ToolsTypes ==
  ToolsTypeOK <=>
    /\ steps \in [Runs -> 0..(LastStep + 1)]
    /\ ledger \in [Runs -> [Calls -> CallRows]]
    /\ gate \in [Runs -> [Calls -> GateStatus]]
    /\ recon \in [Runs -> [Calls -> ReconStatus]]
    /\ asked \in [Runs -> Calls \cup {0}]
    /\ hand \in [Workers -> [Calls -> Phases]]
    /\ wire \subseteq Requests
    /\ done \subseteq Requests
BY DEF ToolsTypeOK, CallRows, GateStatus, ReconStatus

-----------------------------------------------------------------------------
(* What steps leave alone.                                                 *)

\* No worker gets busy with another call or run, no ledger row of a run that
\* is still there is withdrawn, and the host sees nothing of the step.
Framed ==
  /\ \A w \in Workers, k \in Calls : hand'[w][k] # "idle" =>
       /\ hand[w][k] # "idle" /\ claim'[w].run = claim[w].run
       /\ hand'[w][k] = "invoke" => hand[w][k] = "invoke"
       /\ hand'[w][k] = "ok" => hand[w][k] = "ok" \/ Applied(claim[w].run, k)
  /\ \A r \in Runs, k \in Calls : Live(r)' => Live(r) /\ (Begun(r, k) => Begun(r, k)')
  /\ wire' = wire /\ done' = done

\* Such a step keeps what is said of hands, requests and invocations.
LEMMA FramedKeeps ==
  ASSUME Sound, ToolsTypeOK, HandsOK, RequestsOK, Once, Framed
  PROVE  HandsOK' /\ RequestsOK' /\ Once'
<1>1. \A w \in Workers : claim[w].run # NoRun => claim[w].run \in Runs
  BY DEF Sound, TypeOK, Claims
<1>2. \A q \in wire \cup done : q.run \in Runs /\ q.call \in Calls
  BY DEF ToolsTypeOK, Requests
<1>3. HandsOK'
  <2> SUFFICES ASSUME NEW w \in Workers, NEW k \in Calls, hand'[w][k] # "idle"
               PROVE  /\ claim'[w].run # NoRun
                      /\ Live(claim[w].run)' => Begun(claim[w].run, k)'
                      /\ hand'[w][k] = "ok" /\ Script[k].effect = "write"
                           => Applied(claim[w].run, k)'
    BY DEF HandsOK
  <2> DEFINE r == claim[w].run
  <2>1. hand[w][k] # "idle" /\ claim'[w].run = r
    BY DEF Framed
  <2>2. r \in Runs
    BY <1>1, <2>1 DEF HandsOK
  <2>3. /\ Live(r) => Begun(r, k)
        /\ hand[w][k] = "ok" /\ Script[k].effect = "write" => Applied(r, k)
    BY <2>1 DEF HandsOK
  <2>4. run'[r].status # "deleted" => ledger'[r][k].state # "none"
    BY <2>2, <2>3 DEF Framed, Live, Begun
  <2>5. hand'[w][k] = "ok" /\ Script[k].effect = "write" => \E p \in done' : p.run = r /\ p.call = k
    BY <2>3, SMT DEF Framed, Applied
  <2> QED BY <2>1, <2>2, <2>4, <2>5, SMT DEF Live, Begun, Applied, Runs
<1>4. RequestsOK'
  BY <1>2 DEF RequestsOK, Framed, Live, Begun
<1>5. Once'
  BY SMT DEF Once, Framed
<1> QED BY <1>3, <1>4, <1>5

\* Calls depend on ledger, questions and steps; a success on effects too.
LEMMA CallsKept ==
  ASSUME CallsOK, SuccessMeansEffect, UNCHANGED <<steps, ledger, gate>>, done \subseteq done'
  PROVE  CallsOK' /\ SuccessMeansEffect'
<1>1. CallsOK'
  BY DEF CallsOK, Begun, GateOpen, Completed
<1>2. SuccessMeansEffect'
  BY DEF SuccessMeansEffect, Applied
<1> QED BY <1>1, <1>2

\* The run rows keep status and question.
Alike(r) ==
  /\ run'[r].status = run[r].status
  /\ run'[r].inter.kind = run[r].inter.kind /\ run'[r].inter.status = run[r].inter.status

\* Then, with the same records, questions and outcomes stay in order, for
\* all runs or for all but one.
LEMMA QuestionsByRow ==
  ASSUME QuestionsOK, NEW r,
         \A q \in Runs : q # r =>
           /\ Alike(q) /\ ledger'[q] = ledger[q] /\ gate'[q] = gate[q]
           /\ recon'[q] = recon[q] /\ asked'[q] = asked[q],
         r \in Runs => OutcomeOK(r)' /\ AskedOK(r)'
  PROVE  QuestionsOK'
<1> SUFFICES ASSUME NEW q \in Runs, q # r PROVE OutcomeOK(q)' /\ AskedOK(q)'
  BY DEF QuestionsOK
<1>1. OutcomeOK(q) /\ AskedOK(q)
  BY DEF QuestionsOK
<1>2. OutcomeOK(q)'
  BY <1>1 DEF OutcomeOK, Alike, Completed
<1>3. AskedOK(q)'
  BY <1>1 DEF AskedOK, Alike
<1> QED BY <1>2, <1>3

\* No question and no outcome is touched.
LEMMA QuestionsKept ==
  ASSUME QuestionsOK, UNCHANGED <<ledger, gate, recon, asked>>, \A r \in Runs : Alike(r)
  PROVE  QuestionsOK'
<1>1. NoRun \notin Runs
  BY SMT DEF Runs
<1> QED BY <1>1, QuestionsByRow

-----------------------------------------------------------------------------
(* Steps between worker and host.                                          *)

\* The model's result is stored.
LEMMA CompleteExecutionStepKeeps ==
  ASSUME Sound, ToolsInv, NEW w \in Workers, CompleteExecutionStep(w)
  PROVE  ToolsInv'
<1> DEFINE r == claim[w].run
<1>1. /\ r \in Runs /\ steps[r] <= LastStep /\ ExecutionStep(r)
      /\ steps' = [steps EXCEPT ![r] = @ + 1]
      /\ UNCHANGED <<conv, run, task, claim, ledger, gate, recon, asked, hand, wire, done>>
  BY DEF CompleteExecutionStep, Claimed, vars
<1>2. /\ steps \in [Runs -> 0..(LastStep + 1)] /\ LastStep \in Nat
  BY ScriptFacts DEF ToolsInv, ToolsTypeOK
<1>3. ToolsTypeOK'
  <2>1. steps' \in [Runs -> 0..(LastStep + 1)]
    BY <1>1, <1>2, SMT
  <2> QED BY <1>1, <2>1 DEF ToolsInv, ToolsTypeOK
<1>4. CallsOK'
  <2> SUFFICES ASSUME NEW q \in Runs, NEW k \in Calls
               PROVE  /\ Begun(q, k)' => GateOpen(q, k)'
                                          /\ \A j \in Calls : Before(j, k) => Completed(q, j)'
                      /\ Script[k].step < steps'[q] => Completed(q, k)'
    BY DEF CallsOK
  <2>1. Begun(q, k) => GateOpen(q, k) /\ \A j \in Calls : Before(j, k) => Completed(q, j)
    BY DEF ToolsInv, CallsOK
  <2>2. Script[k].step < steps'[q] => Completed(q, k)
    <3>1. CASE q = r
      BY <1>1, <1>2, <3>1, ScriptFacts, SMT DEF ExecutionStep
    <3>2. CASE q # r
      BY <1>1, <1>2, <3>2 DEF ToolsInv, CallsOK
    <3> QED BY <3>1, <3>2
  <2> QED BY <1>1, <2>1, <2>2 DEF Begun, GateOpen, Completed
<1>5. Framed
  BY <1>1 DEF Framed, Live, Begun
<1>6. HandsOK' /\ RequestsOK' /\ Once'
  BY <1>5, FramedKeeps DEF ToolsInv
<1>7. QuestionsOK'
  BY <1>1, QuestionsKept DEF ToolsInv, Alike
<1>8. SuccessMeansEffect'
  BY <1>1 DEF ToolsInv, SuccessMeansEffect, Applied
<1> QED BY <1>3, <1>4, <1>6, <1>7, <1>8 DEF ToolsInv

\* A worker that is busy with a call has claimed a run.
LEMMA BusyHand ==
  ASSUME Sound, ToolsInv, NEW w \in Workers, NEW k \in Calls, hand[w][k] # "idle"
  PROVE  /\ claim[w].run \in Runs
         /\ Live(claim[w].run) => Begun(claim[w].run, k)
         /\ hand[w][k] = "ok" /\ Script[k].effect = "write" => Applied(claim[w].run, k)
BY DEF ToolsInv, HandsOK, Sound, TypeOK, Claims

\* Only the phase of a call in a worker's hand changes, after it left.
LEMMA PhaseKeeps ==
  ASSUME Sound, ToolsInv, NEW w \in Workers, NEW k \in Calls, hand[w][k] # "idle",
         NEW phase \in {"ok", "failed", "unknown"}, phase = "ok" => Applied(claim[w].run, k),
         hand' = [hand EXCEPT ![w][k] = phase],
         UNCHANGED <<conv, run, task, claim, steps, ledger, gate, recon, asked, wire, done>>
  PROVE  ToolsInv'
<1>1. hand \in [Workers -> [Calls -> Phases]] /\ phase \in Phases
  BY DEF ToolsInv, ToolsTypeOK, Phases
<1>2. /\ hand' \in [Workers -> [Calls -> Phases]]
      /\ \A v \in Workers, j \in Calls :
           hand'[v][j] = IF v = w /\ j = k THEN phase ELSE hand[v][j]
  BY <1>1, EntryReplaced, SMT
<1>3. ToolsTypeOK'
  BY <1>2 DEF ToolsInv, ToolsTypeOK
<1>4. Framed
  BY <1>2 DEF Framed, Live, Begun
<1>5. HandsOK' /\ RequestsOK' /\ Once'
  BY <1>4, FramedKeeps DEF ToolsInv
<1>6. CallsOK' /\ SuccessMeansEffect'
  BY CallsKept DEF ToolsInv
<1>7. QuestionsOK'
  BY QuestionsKept DEF ToolsInv, Alike
<1> QED BY <1>3, <1>5, <1>6, <1>7 DEF ToolsInv

\* A lost call, and an answer to a reconciliation.
LEMMA PhaseStepsKeep ==
  ASSUME Sound, ToolsInv, NEW w \in Workers, NEW k \in Calls,
         \/ CallLost(w, k)
         \/ \E answer \in {"ok", "failed", "unknown"} : ReconcileConversationTool(w, k, answer)
  PROVE  ToolsInv'
<1>1. CASE CallLost(w, k)
  <2> DEFINE phase == IF Script[k].effect = "write" THEN "unknown" ELSE "failed"
  <2>1. phase \in {"ok", "failed", "unknown"} /\ phase # "ok"
    OBVIOUS
  <2>2. /\ hand[w][k] # "idle" /\ hand' = [hand EXCEPT ![w][k] = phase]
        /\ UNCHANGED <<conv, run, task, claim, steps, ledger, gate, recon, asked, wire, done>>
    BY <1>1 DEF CallLost, vars
  <2> HIDE DEF phase
  <2> QED BY <2>1, <2>2, PhaseKeeps
<1>2. ASSUME NEW answer \in {"ok", "failed", "unknown"}, ReconcileConversationTool(w, k, answer)
      PROVE  ToolsInv'
  <2>1. /\ hand[w][k] # "idle" /\ hand' = [hand EXCEPT ![w][k] = answer]
        /\ answer = "ok" => Applied(claim[w].run, k)
        /\ UNCHANGED <<conv, run, task, claim, steps, ledger, gate, recon, asked, wire, done>>
    BY <1>2 DEF ReconcileConversationTool, vars
  <2> QED BY <2>1, PhaseKeeps
<1> QED BY <1>1, <1>2

\* A call is begun, or taken over from an earlier claim.
LEMMA BeginExecutionToolKeeps ==
  ASSUME Sound, ToolsInv, NEW w \in Workers, NEW k \in Calls, BeginExecutionTool(w, k)
  PROVE  ToolsInv'
<1> DEFINE r == claim[w].run
           old == ledger[r][k]
           new == [old EXCEPT !.state = IF old.state = "none" THEN "started" ELSE old.state,
                              !.fence = claim[w].fence]
           mode == Mode(k, old.state)
<1>1. /\ r \in Runs /\ run[r].status = "running"
      /\ hand[w][k] = "idle" /\ ~Completed(r, k) /\ GateOpen(r, k)
      /\ \A j \in Calls : Before(j, k) => Completed(r, j)
      /\ ledger' = [ledger EXCEPT ![r][k] = new]
      /\ hand' = [hand EXCEPT ![w][k] = mode]
      /\ UNCHANGED <<conv, run, task, claim, steps, gate, recon, asked, wire, done>>
  <2>1. ledger' = [ledger EXCEPT ![r][k] = new] /\ hand' = [hand EXCEPT ![w][k] = mode]
    BY DEF BeginExecutionTool
  <2>2. /\ hand[w][k] = "idle" /\ ~Completed(r, k) /\ GateOpen(r, k) /\ Reached(w, k)
        /\ UNCHANGED <<conv, run, task, claim, steps, gate, recon, asked, wire, done>>
    BY DEF BeginExecutionTool, vars
  <2> HIDE DEF new, mode
  <2> QED BY <2>1, <2>2 DEF Reached, Claimed
<1>2. /\ ledger \in [Runs -> [Calls -> CallRows]] /\ hand \in [Workers -> [Calls -> Phases]]
      /\ old \in CallRows /\ claim[w].fence \in Nat
  BY <1>1, ToolsTypes DEF ToolsInv, Sound, TypeOK, Claims
<1>3. /\ new \in CallRows /\ new.result = old.result
      /\ new.state = IF old.state = "none" THEN "started" ELSE old.state
  BY <1>2 DEF CallRows
<1>4. /\ mode \in {"ok", "invoke", "reconcile"}
      /\ mode = "ok" => Script[k].effect = "read"
      /\ mode = "invoke" /\ Script[k].idem = "reconcile" => old.state = "none"
  BY <1>1, <1>2, ScriptFacts DEF Mode, Completed, CallRows
<1> HIDE DEF new, mode
<1>5. /\ ledger' \in [Runs -> [Calls -> CallRows]]
      /\ \A q \in Runs, j \in Calls :
           ledger'[q][j] = IF q = r /\ j = k THEN new ELSE ledger[q][j]
  <2> HIDE DEF r
  <2> QED BY <1>1, <1>2, <1>3, ZenonT(40)
<1>6. /\ hand' \in [Workers -> [Calls -> Phases]]
      /\ \A v \in Workers, j \in Calls :
           hand'[v][j] = IF v = w /\ j = k THEN mode ELSE hand[v][j]
  <2>1. mode \in Phases
    BY <1>4 DEF Phases
  <2> QED BY <1>1, <1>2, <2>1, EntryReplaced, SMT
<1>7. /\ \A q \in Runs, j \in Calls : Completed(q, j)' <=> Completed(q, j)
      /\ \A q \in Runs, j \in Calls : Begun(q, j)' <=> Begun(q, j) \/ (q = r /\ j = k)
      /\ \A q \in Runs, j \in Calls : ledger'[q][j].result = ledger[q][j].result
  BY <1>1, <1>3, <1>5 DEF Completed, Begun
<1>8. ToolsTypeOK'
  <2>1. ToolsTypeOK' <=>
          /\ steps' \in [Runs -> 0..(LastStep + 1)]
          /\ ledger' \in [Runs -> [Calls -> CallRows]]
          /\ gate' \in [Runs -> [Calls -> GateStatus]]
          /\ recon' \in [Runs -> [Calls -> ReconStatus]]
          /\ asked' \in [Runs -> Calls \cup {0}]
          /\ hand' \in [Workers -> [Calls -> Phases]]
          /\ wire' \subseteq Requests
          /\ done' \subseteq Requests
    BY DEF ToolsTypeOK, CallRows, GateStatus, ReconStatus
  <2> QED BY <1>1, <1>5, <1>6, <2>1, ToolsTypes DEF ToolsInv
<1>9. CallsOK'
  <2> SUFFICES ASSUME NEW q \in Runs, NEW j \in Calls
               PROVE  /\ Begun(q, j)' => GateOpen(q, j)'
                                          /\ \A i \in Calls : Before(i, j) => Completed(q, i)'
                      /\ Script[j].step < steps'[q] => Completed(q, j)'
    BY DEF CallsOK
  <2>1. Begun(q, j)' => GateOpen(q, j) /\ \A i \in Calls : Before(i, j) => Completed(q, i)
    BY <1>1, <1>7, SMT DEF ToolsInv, CallsOK
  <2>2. Script[j].step < steps[q] => Completed(q, j)
    BY DEF ToolsInv, CallsOK
  <2>3. GateOpen(q, j)' <=> GateOpen(q, j)
    BY <1>1 DEF GateOpen
  <2> QED BY <1>1, <1>7, <2>1, <2>2, <2>3
<1>10. HandsOK'
  <2> SUFFICES ASSUME NEW v \in Workers, NEW j \in Calls, hand'[v][j] # "idle"
               PROVE  /\ claim'[v].run # NoRun
                      /\ Live(claim[v].run)' => Begun(claim[v].run, j)'
                      /\ hand'[v][j] = "ok" /\ Script[j].effect = "write"
                           => Applied(claim[v].run, j)'
    BY DEF HandsOK
  <2>1. CASE v = w /\ j = k
    <3>1. claim'[v].run = r /\ r # NoRun /\ Begun(r, k)' /\ claim[v].run = r
      BY <1>1, <1>7, <2>1, RunsExist
    <3>2. ~(hand'[v][j] = "ok" /\ Script[j].effect = "write")
      BY <1>1, <1>4, <1>6, <2>1
    <3> QED BY <2>1, <3>1, <3>2 DEF Begun
  <2>2. CASE ~(v = w /\ j = k)
    <3>1. hand[v][j] # "idle" /\ hand'[v][j] = hand[v][j]
      BY <1>6, <2>2
    <3>2. /\ claim[v].run \in Runs
          /\ Live(claim[v].run) => Begun(claim[v].run, j)
          /\ hand[v][j] = "ok" /\ Script[j].effect = "write" => Applied(claim[v].run, j)
      BY <3>1, BusyHand
    <3>3. Begun(claim[v].run, j) => ledger'[claim[v].run][j].state # "none"
      BY <1>7, <3>2 DEF Begun
    <3>4. claim' = claim /\ run' = run /\ done' = done /\ claim[v].run # NoRun
      BY <1>1, <3>2, RunsExist
    <3> QED BY <3>1, <3>2, <3>3, <3>4 DEF Live, Begun, Applied
  <2> QED BY <2>1, <2>2
<1>11. RequestsOK'
  <2>1. \A q \in wire \cup done : q.run \in Runs /\ q.call \in Calls
    BY DEF ToolsInv, ToolsTypeOK, Requests
  <2> QED BY <1>1, <1>7, <2>1 DEF ToolsInv, RequestsOK, Live
<1>12. Once'
  <2>1. ASSUME Script[k].idem = "reconcile", mode = "invoke"
        PROVE  /\ \A q \in wire \cup done : ~(q.run = r /\ q.call = k)
               /\ \A v \in Workers : ~(hand[v][k] = "invoke" /\ claim[v].run = r)
    <3>1. ~Begun(r, k) /\ Live(r)
      BY <1>1, <1>4, <2>1 DEF Begun, Live
    <3>2. \A q \in wire \cup done : ~(q.run = r /\ q.call = k)
      BY <3>1 DEF ToolsInv, RequestsOK
    <3>3. \A v \in Workers : ~(hand[v][k] = "invoke" /\ claim[v].run = r)
      BY <3>1 DEF ToolsInv, HandsOK
    <3> QED BY <3>2, <3>3
  <2> QED BY <1>1, <1>6, <2>1, SMT DEF ToolsInv, Once
<1>13. QuestionsOK'
  <2>1. \A q \in Runs : q # r => ledger'[q] = ledger[q]
    BY <1>1, <1>2
  <2>2. OutcomeOK(r)' /\ AskedOK(r)'
    BY <1>1 DEF ToolsInv, QuestionsOK, OutcomeOK, AskedOK
  <2> QED BY <1>1, <2>1, <2>2, QuestionsByRow DEF ToolsInv, Alike
<1>14. SuccessMeansEffect'
  <2>1. \A q \in Runs, j \in Calls : Applied(q, j) => Applied(q, j)'
    BY <1>1 DEF Applied
  <2>2. \A q \in Runs, j \in Calls :
          Script[j].effect = "write" /\ ledger'[q][j].result = "ok" => Applied(q, j)
    <3>1. SuccessMeansEffect
      BY DEF ToolsInv
    <3> QED BY <1>7, <3>1 DEF SuccessMeansEffect
  <2> QED BY <2>1, <2>2 DEF SuccessMeansEffect
<1> QED BY <1>8, <1>9, <1>10, <1>11, <1>12, <1>13, <1>14 DEF ToolsInv

\* A request leaves the worker.
LEMMA InvokeConversationToolKeeps ==
  ASSUME Sound, ToolsInv, NEW w \in Workers, NEW k \in Calls, InvokeConversationTool(w, k)
  PROVE  ToolsInv'
<1> DEFINE r == claim[w].run
           q == [run |-> r, call |-> k, fence |-> claim[w].fence]
<1>1. /\ hand[w][k] = "invoke" /\ hand' = [hand EXCEPT ![w][k] = "sent"]
      /\ wire' = wire \cup {q}
      /\ UNCHANGED <<conv, run, task, claim, steps, ledger, gate, recon, asked, done>>
  BY DEF InvokeConversationTool, vars
<1>2. r \in Runs /\ (Live(r) => Begun(r, k)) /\ claim[w].fence \in Nat
  BY <1>1, BusyHand DEF Sound, TypeOK, Claims
<1>3. q \in Requests /\ q.run = r /\ q.call = k
  BY <1>2 DEF Requests
<1> HIDE DEF q
<1>4. /\ hand' \in [Workers -> [Calls -> Phases]]
      /\ \A v \in Workers, j \in Calls :
           hand'[v][j] = IF v = w /\ j = k THEN "sent" ELSE hand[v][j]
  <2>1. hand \in [Workers -> [Calls -> Phases]] /\ "sent" \in Phases
    BY DEF ToolsInv, ToolsTypeOK, Phases
  <2> QED BY <1>1, <2>1, EntryReplaced, SMT
<1>5. ToolsTypeOK'
  BY <1>1, <1>3, <1>4 DEF ToolsInv, ToolsTypeOK
<1>6. HandsOK'
  BY <1>1, <1>2, <1>4, SMT DEF ToolsInv, HandsOK, Live, Begun, Applied
<1>7. RequestsOK'
  BY <1>1, <1>2, <1>3 DEF ToolsInv, RequestsOK, Live, Begun
<1>8. Once'
  <2>1. Script[k].idem = "reconcile" =>
          /\ \A p \in wire \cup done : ~(p.run = r /\ p.call = k)
          /\ \A v \in Workers : hand[v][k] = "invoke" /\ claim[v].run = r => v = w
    BY <1>1 DEF ToolsInv, Once
  <2>2. wire' \cup done' = (wire \cup done) \cup {q} /\ done' = done /\ claim' = claim
    BY <1>1
  <2>3. \A v \in Workers, j \in Calls : hand'[v][j] = "invoke" /\ Script[j].idem = "reconcile" =>
          /\ \A p \in wire \cup done : ~(p.run = claim[v].run /\ p.call = j)
          /\ ~(q.run = claim[v].run /\ q.call = j)
          /\ \A u \in Workers : hand'[u][j] = "invoke" /\ claim[u].run = claim[v].run => u = v
    BY <1>3, <1>4, <2>1, SMT DEF ToolsInv, Once
  <2>4. \A p, s \in (wire \cup done) \cup {q} :
          p.run = s.run /\ p.call = s.call /\ Script[p.call].idem = "reconcile" => p = s
    BY <1>3, <2>1 DEF ToolsInv, Once
  <2> QED BY <2>2, <2>3, <2>4, SMT DEF ToolsInv, Once
<1>9. CallsOK' /\ SuccessMeansEffect'
  BY <1>1, CallsKept DEF ToolsInv
<1>10. QuestionsOK'
  BY <1>1, QuestionsKept DEF ToolsInv, Alike
<1> QED BY <1>5, <1>6, <1>7, <1>8, <1>9, <1>10 DEF ToolsInv

\* The host executes a request.
LEMMA HostExecutesKeeps ==
  ASSUME Sound, ToolsInv, NEW q \in wire, NEW answer \in {"ok", "failed"},
         HostExecutes(q, answer)
  PROVE  ToolsInv'
<1> DEFINE served == answer = "failed"
                       \/ ((\E p \in done : p.run = q.run /\ p.call = q.call)
                            /\ Script[q.call].idem = "key")
           Waits(w) == claim[w].run = q.run /\ hand[w][q.call] = "sent"
<1>0. /\ wire \subseteq Requests /\ done \subseteq Requests
      /\ hand \in [Workers -> [Calls -> Phases]]
      /\ q \in Requests /\ q.run \in Runs /\ q.call \in Calls
  BY DEF ToolsInv, ToolsTypeOK, Requests
<1>1. /\ wire' = wire \ {q} /\ done' = IF served THEN done ELSE done \cup {q}
      /\ UNCHANGED <<conv, run, task, claim, steps, ledger, gate, recon, asked>>
  <2>1. \A p \in done : IdempotencyKey(p) = IdempotencyKey(q) <=> p.run = q.run /\ p.call = q.call
    BY DEF IdempotencyKey
  <2> QED BY <2>1 DEF HostExecutes, vars
<1>2. /\ hand' \in [Workers -> [Calls -> Phases]]
      /\ \A w \in Workers, k \in Calls :
           hand'[w][k] = hand[w][k] \/ (k = q.call /\ Waits(w) /\ hand'[w][k] = answer)
  <2>1. PICK waiting \in SUBSET Workers :
          /\ \A w \in waiting : Waits(w)
          /\ hand' = [w \in Workers |-> IF w \in waiting
                                        THEN [hand[w] EXCEPT ![q.call] = answer] ELSE hand[w]]
    <3> DEFINE waiting == {w \in Workers : /\ claim[w].run = q.run /\ claim[w].fence = q.fence
                                           /\ hand[w][q.call] = "sent"}
    <3>1. hand' = [w \in Workers |-> IF w \in waiting
                                     THEN [hand[w] EXCEPT ![q.call] = answer] ELSE hand[w]]
      BY DEF HostExecutes
    <3>2. waiting \in SUBSET Workers /\ \A w \in waiting : Waits(w)
      OBVIOUS
    <3> HIDE DEF waiting, Waits
    <3> QED BY <3>1, <3>2
  <2>2. answer \in Phases
    BY DEF Phases
  <2> DEFINE new(w) == [hand[w] EXCEPT ![q.call] = answer]
  <2>3. ASSUME NEW w \in Workers
        PROVE  /\ hand[w] \in [Calls -> Phases] /\ new(w) \in [Calls -> Phases]
               /\ \A k \in Calls : new(w)[k] = IF k = q.call THEN answer ELSE hand[w][k]
    BY <1>0, <2>2
  <2>4. hand' = [w \in Workers |-> IF w \in waiting THEN new(w) ELSE hand[w]]
    BY <2>1
  <2> HIDE DEF Waits, new
  <2>5. hand' \in [Workers -> [Calls -> Phases]]
    BY <2>3, <2>4
  <2>6. \A w \in Workers : hand'[w] = IF w \in waiting THEN new(w) ELSE hand[w]
    BY <2>4
  <2> QED BY <2>1, <2>3, <2>5, <2>6
<1>3. ~served => answer = "ok"
  OBVIOUS
<1>4. answer = "ok" => \E p \in done' : p.run = q.run /\ p.call = q.call
  BY <1>1
<1>5. (\E p \in done : p.run = q.run /\ p.call = q.call) /\ ~served
        => Script[q.call].idem = "reconcile"
  BY <1>0, ScriptFacts
<1>6. ~served => \A p \in done : p.run = q.run /\ p.call = q.call => p = q
  BY <1>5 DEF ToolsInv, Once
<1> HIDE DEF served
<1>7. done \subseteq done' /\ done' \subseteq done \cup {q} /\ (q \in done' => q \in done \/ ~served)
      /\ wire' \cup done' \subseteq wire \cup done
  BY <1>1
<1>8. ToolsTypeOK'
  BY <1>0, <1>1, <1>2, <1>7 DEF ToolsInv, ToolsTypeOK
<1>9. HandsOK'
  <2> SUFFICES ASSUME NEW w \in Workers, NEW k \in Calls, hand'[w][k] # "idle"
               PROVE  /\ claim'[w].run # NoRun
                      /\ Live(claim[w].run)' => Begun(claim[w].run, k)'
                      /\ hand'[w][k] = "ok" /\ Script[k].effect = "write"
                           => Applied(claim[w].run, k)'
    BY DEF HandsOK
  <2>1. hand[w][k] # "idle"
    BY <1>2
  <2>2. /\ claim[w].run \in Runs /\ (Live(claim[w].run) => Begun(claim[w].run, k))
        /\ hand[w][k] = "ok" /\ Script[k].effect = "write" => Applied(claim[w].run, k)
    BY <2>1, BusyHand
  <2>3. hand'[w][k] = "ok" /\ Script[k].effect = "write"
          => \E p \in done' : p.run = claim[w].run /\ p.call = k
    <3>1. CASE hand'[w][k] = hand[w][k]
      BY <1>7, <2>2, <3>1 DEF Applied
    <3>2. CASE k = q.call /\ Waits(w) /\ hand'[w][k] = answer
      BY <1>4, <3>2
    <3> QED BY <1>2, <3>1, <3>2
  <2> QED BY <1>1, <2>2, <2>3, SMT DEF Live, Begun, Applied, Runs
<1>10. RequestsOK'
  BY <1>1, <1>7 DEF ToolsInv, RequestsOK, Live, Begun
<1>11. Once'
  <2>1. \A w \in Workers, k \in Calls : hand'[w][k] = "invoke" => hand[w][k] = "invoke"
    BY <1>2
  <2>2. \A p, s \in done' : p.run = s.run /\ p.call = s.call => p = s
    BY <1>6, <1>7 DEF ToolsInv, Once
  <2> QED BY <1>1, <1>7, <2>1, <2>2, SMT DEF ToolsInv, Once
<1>12. CallsOK' /\ SuccessMeansEffect'
  BY <1>1, <1>7, CallsKept DEF ToolsInv
<1>13. QuestionsOK'
  BY <1>1, QuestionsKept DEF ToolsInv, Alike
<1> QED BY <1>8, <1>9, <1>10, <1>11, <1>12, <1>13 DEF ToolsInv

-----------------------------------------------------------------------------
(* Receipts.                                                               *)

\* What a receipt writes: the call's row and, if it settles the call the run
\* asks about, the question.
LEMMA FinishExecutionToolDoes ==
  ASSUME Sound, ToolsInv, NEW w \in Workers, NEW k \in Calls, FinishExecutionTool(w, k)
  PROVE  LET r == claim[w].run IN
         /\ r \in Runs /\ run[r].status \in {"running", "cancelled"}
         /\ hand[w][k] \in {"ok", "failed", "unknown"} /\ ~Completed(r, k) /\ Begun(r, k)
         /\ ledger' \in [Runs -> [Calls -> CallRows]]
         /\ \A q \in Runs, j \in Calls : ~(q = r /\ j = k) => ledger'[q][j] = ledger[q][j]
         /\ ledger'[r][k].state \in {"uncertain", "completed"}
         /\ ledger'[r][k].result = "ok" => hand[w][k] = "ok"
         /\ hand' \in [Workers -> [Calls -> Phases]]
         /\ \A v \in Workers, j \in Calls :
              hand'[v][j] \in (IF v = w /\ j = k THEN {"idle", "wait"} ELSE {hand[v][j]})
         /\ UNCHANGED <<steps, gate, asked, wire, done>>
<1> DEFINE r == claim[w].run
           phase == hand[w][k]
           result == Result(phase)
           settled == result # "uncertain"
           state == IF settled THEN "completed" ELSE "uncertain"
           new == [ledger[r][k] EXCEPT !.result = result, !.state = state]
           left == IF settled THEN "idle" ELSE "wait"
<1>1. phase \in {"ok", "failed", "unknown"} /\ ~Completed(r, k)
  BY DEF FinishExecutionTool
<1>2. Claimed(w) \/ CancelledReceipt(w)
  BY DEF FinishExecutionTool
<1>3. ledger' = [ledger EXCEPT ![r][k] = new] /\ hand' = [hand EXCEPT ![w][k] = left]
  BY DEF FinishExecutionTool
<1>4. UNCHANGED <<steps, gate, asked, wire, done>>
  BY DEF FinishExecutionTool
<1>5. r \in Runs /\ run[r].status \in {"running", "cancelled"}
  BY <1>2 DEF Claimed, CancelledReceipt
<1>6. Begun(r, k)
  BY <1>1, <1>5, BusyHand DEF Live
<1>7. /\ ledger \in [Runs -> [Calls -> CallRows]] /\ hand \in [Workers -> [Calls -> Phases]]
      /\ ledger[r][k] \in CallRows
  BY <1>5, ToolsTypes DEF ToolsInv
<1>8. /\ result \in {"ok", "failed", "uncertain"} /\ (result = "ok" => phase = "ok")
      /\ state \in {"uncertain", "completed"}
      /\ left \in {"idle", "wait"} /\ left \in Phases
  BY <1>1 DEF Result, Phases
<1>9. new \in CallRows /\ new.state = state /\ new.result = result
  <2> HIDE DEF state, result
  <2> QED BY <1>7, <1>8 DEF CallRows
<1> HIDE DEF new, left, state, result
<1>10. /\ ledger' \in [Runs -> [Calls -> CallRows]]
       /\ \A q \in Runs, j \in Calls :
            ledger'[q][j] = IF q = r /\ j = k THEN new ELSE ledger[q][j]
  BY <1>3, <1>5, <1>7, <1>9, EntryReplaced, SMT
<1>11. /\ hand' \in [Workers -> [Calls -> Phases]]
       /\ \A v \in Workers, j \in Calls :
            hand'[v][j] = IF v = w /\ j = k THEN left ELSE hand[v][j]
  BY <1>3, <1>7, <1>8, EntryReplaced, SMT
<1> QED BY <1>1, <1>4, <1>5, <1>6, <1>8, <1>9, <1>10, <1>11

-----------------------------------------------------------------------------
(* Steps that write one run's row, its records and its question.           *)

\* Workers go on with what they have in hand, or drop all of it.
HandsKept ==
  /\ hand' \in [Workers -> [Calls -> Phases]]
  /\ \A w \in Workers :
       hand'[w] = IdleHand \/ (hand'[w] = hand[w] /\ claim'[w].run = claim[w].run)

\* A call still in hand was so before, under the same claim.
LEMMA HandsKeptSays ==
  ASSUME HandsKept
  PROVE  \A w \in Workers, k \in Calls : hand'[w][k] # "idle" =>
           hand'[w][k] = hand[w][k] /\ claim'[w].run = claim[w].run
<1> SUFFICES ASSUME NEW w \in Workers, NEW k \in Calls, hand'[w][k] # "idle"
             PROVE  hand'[w][k] = hand[w][k] /\ claim'[w].run = claim[w].run
  OBVIOUS
<1>1. IdleHand[k] = "idle"
  BY DEF IdleHand
<1> QED BY <1>1 DEF HandsKept

\* Of run r alone, row and records are written; no call begins or settles.
RowStep(r) ==
  /\ run[r].status # "deleted"
  /\ \A q \in Runs : q # r =>
       /\ run'[q] = run[q] /\ ledger'[q] = ledger[q] /\ gate'[q] = gate[q]
       /\ recon'[q] = recon[q] /\ asked'[q] = asked[q]
  /\ ledger' \in [Runs -> [Calls -> CallRows]]
  /\ \A k \in Calls :
       /\ Begun(r, k)' <=> Begun(r, k)
       /\ Completed(r, k)' <=> Completed(r, k)
       /\ ledger'[r][k].result = "ok" => ledger[r][k].result = "ok"
       /\ Begun(r, k) => GateOpen(r, k)'
  /\ UNCHANGED <<steps, wire, done>>
  /\ HandsKept

\* It keeps the invariant if run r's question and outcome are in order after it.
LEMMA RowStepKeeps ==
  ASSUME Sound, ToolsInv, NEW r \in Runs, RowStep(r), OutcomeOK(r)', AskedOK(r)',
         gate' \in [Runs -> [Calls -> GateStatus]],
         recon' \in [Runs -> [Calls -> ReconStatus]], asked' \in [Runs -> Calls \cup {0}]
  PROVE  ToolsInv'
<1>1. ToolsTypeOK'
  <2>1. /\ steps' \in [Runs -> 0..(LastStep + 1)] /\ wire' \subseteq Requests
        /\ done' \subseteq Requests
    BY ToolsTypes DEF ToolsInv, RowStep
  <2> QED BY <2>1 DEF RowStep, HandsKept, ToolsTypeOK, CallRows, GateStatus, ReconStatus
<1>2. \A q \in Runs, k \in Calls :
        /\ Begun(q, k)' <=> Begun(q, k)
        /\ Completed(q, k)' <=> Completed(q, k)
        /\ ledger'[q][k].result = "ok" => ledger[q][k].result = "ok"
        /\ Begun(q, k) => GateOpen(q, k)'
  <2> SUFFICES ASSUME NEW q \in Runs, q # r, NEW k \in Calls
               PROVE  /\ Begun(q, k)' <=> Begun(q, k)
                      /\ Completed(q, k)' <=> Completed(q, k)
                      /\ ledger'[q][k].result = "ok" => ledger[q][k].result = "ok"
                      /\ Begun(q, k) => GateOpen(q, k)'
    BY DEF RowStep
  <2>1. ledger'[q] = ledger[q] /\ gate'[q] = gate[q] /\ (Begun(q, k) => GateOpen(q, k))
    BY DEF RowStep, ToolsInv, CallsOK
  <2> QED BY <2>1 DEF Begun, Completed, GateOpen
<1>3. CallsOK'
  BY <1>2 DEF CallsOK, ToolsInv, RowStep
<1>4. Framed
  <2>1. \A q \in Runs, k \in Calls : Live(q)' => Live(q) /\ (Begun(q, k) => Begun(q, k)')
    BY <1>2 DEF Live, RowStep
  <2>2. \A w \in Workers, k \in Calls : hand'[w][k] # "idle" =>
          hand'[w][k] = hand[w][k] /\ claim'[w].run = claim[w].run
    BY HandsKeptSays DEF RowStep
  <2> QED BY <2>1, <2>2 DEF Framed, RowStep
<1>5. HandsOK' /\ RequestsOK' /\ Once'
  BY <1>4, FramedKeeps DEF ToolsInv
<1>6. QuestionsOK'
  BY QuestionsByRow DEF ToolsInv, RowStep, Alike
<1>7. SuccessMeansEffect'
  BY <1>2 DEF SuccessMeansEffect, ToolsInv, RowStep, Applied
<1> QED BY <1>1, <1>3, <1>5, <1>6, <1>7 DEF ToolsInv

\* A pending question for input or confirmation is on record as pending, and
\* unless the call needs no answer it has not begun.
LEMMA PendingRecord ==
  ASSUME ToolsInv, NEW r \in Runs, run[r].inter.status = "pending",
         run[r].inter.kind \in {"input", "confirmation"}
  PROVE  /\ asked[r] \in Calls
         /\ gate[r][asked[r]] = "pending"
         /\ Begun(r, asked[r]) => Script[asked[r]].gate = "none"
<1>1. asked[r] \in Calls /\ gate[r][asked[r]] = "pending"
  BY DEF ToolsInv, QuestionsOK, AskedOK
<1>2. Begun(r, asked[r]) => GateOpen(r, asked[r])
  BY <1>1 DEF ToolsInv, CallsOK
<1>3. Script[asked[r]].gate \in {"none", "input", "confirmation"}
  BY <1>1, ScriptFacts
<1> QED BY <1>1, <1>2, <1>3 DEF GateOpen

\* The record of a pending question gets another status, and so may records
\* of calls that have not begun; nothing else of the ledger changes.
LEMMA RecordKeeps ==
  ASSUME Sound, ToolsInv, NEW r \in Runs, NEW status, Step(r, status),
         run[r].inter.status = "pending", run[r].inter.kind \in {"input", "confirmation"},
         NEW row \in [Calls -> GateStatus], gate' = [gate EXCEPT ![r] = row],
         \A j \in Calls : j = asked[r] \/ row[j] = gate[r][j] \/ ~Begun(r, j),
         run'[r].inter.kind = run[r].inter.kind, run'[r].inter.status = row[asked[r]],
         status = "cancelled" => run[r].status = "waiting_confirmation",
         status \in {"queued", "failed", "cancelled"},
         claim' = claim, UNCHANGED <<steps, ledger, recon, asked, hand, wire, done>>
  PROVE  ToolsInv'
<1>1. /\ asked[r] \in Calls /\ (Begun(r, asked[r]) => Script[asked[r]].gate = "none")
  BY PendingRecord
<1>2. /\ gate \in [Runs -> [Calls -> GateStatus]] /\ asked \in [Runs -> Calls \cup {0}]
      /\ recon \in [Runs -> [Calls -> ReconStatus]] /\ ledger \in [Runs -> [Calls -> CallRows]]
      /\ hand \in [Workers -> [Calls -> Phases]]
  BY ToolsTypes DEF ToolsInv
<1>3. /\ gate' \in [Runs -> [Calls -> GateStatus]] /\ gate'[r] = row
      /\ \A q \in Runs : q # r => gate'[q] = gate[q]
  BY <1>2
<1>4. RowStep(r)
  <2>1. \A j \in Calls : Begun(r, j) => GateOpen(r, j)'
    <3> SUFFICES ASSUME NEW j \in Calls, Begun(r, j) PROVE GateOpen(r, j)'
      OBVIOUS
    <3>1. CASE j = asked[r]
      BY <1>1, <3>1 DEF GateOpen
    <3>2. CASE j # asked[r]
      <4>1. gate'[r][j] = gate[r][j] /\ GateOpen(r, j)
        BY <1>3, <3>2 DEF ToolsInv, CallsOK
      <4> QED BY <4>1 DEF GateOpen
    <3> QED BY <3>1, <3>2
  <2>2. run[r].status # "deleted" /\ \A q \in Runs : q # r => run'[q] = run[q]
    BY DEF Step, Exists
  <2>3. HandsKept
    BY <1>2 DEF HandsKept
  <2> QED BY <1>2, <1>3, <2>1, <2>2, <2>3 DEF RowStep, Begun, Completed
<1>5. OutcomeOK(r)'
  <2>1. OutcomeOK(r) /\ run'[r].status = status
    BY DEF ToolsInv, QuestionsOK, Step
  <2> QED BY <2>1 DEF OutcomeOK
<1>6. AskedOK(r)'
  BY <1>1, <1>3 DEF AskedOK
<1> QED BY <1>2, <1>3, <1>4, <1>5, <1>6, RowStepKeeps

\* Cancel marks started writes uncertain.
LEMMA InterruptedDoes ==
  ASSUME ToolsInv, NEW r \in Runs
  PROVE  /\ Interrupted(r) \in [Calls -> CallRows]
         /\ \A k \in Calls :
              /\ Interrupted(r)[k].state # "none" <=> Begun(r, k)
              /\ Interrupted(r)[k].state = "completed" <=> Completed(r, k)
              /\ Interrupted(r)[k].result = "ok" => ledger[r][k].result = "ok"
              /\ Script[k].effect = "write" => Interrupted(r)[k].state # "started"
<1> DEFINE marked(row) == [row EXCEPT !.state = "uncertain", !.result = "uncertain"]
<1>1. ASSUME NEW row \in CallRows
      PROVE  /\ marked(row) \in CallRows
             /\ marked(row).state = "uncertain" /\ marked(row).result = "uncertain"
  BY DEF CallRows
<1>2. ledger[r] \in [Calls -> CallRows]
  BY ToolsTypes DEF ToolsInv
<1> HIDE DEF CallRows
<1>3. \A k \in Calls : Interrupted(r)[k] =
        IF ledger[r][k].state = "started" /\ Script[k].effect = "write"
        THEN marked(ledger[r][k]) ELSE ledger[r][k]
  BY DEF Interrupted
<1>4. Interrupted(r) \in [Calls -> CallRows]
  <2>1. \A k \in Calls : Interrupted(r)[k] \in CallRows
    BY <1>1, <1>2, <1>3
  <2>2. Interrupted(r) = [k \in Calls |-> Interrupted(r)[k]]
    BY DEF Interrupted
  <2> QED BY <2>1, <2>2
<1> HIDE DEF marked
<1>5. ASSUME NEW k \in Calls
      PROVE  /\ Interrupted(r)[k].state # "none" <=> Begun(r, k)
             /\ Interrupted(r)[k].state = "completed" <=> Completed(r, k)
             /\ Interrupted(r)[k].result = "ok" => ledger[r][k].result = "ok"
             /\ Script[k].effect = "write" => Interrupted(r)[k].state # "started"
  <2>1. ledger[r][k] \in CallRows
    BY <1>2
  <2> QED BY <1>1, <1>3, <2>1 DEF Begun, Completed
<1> QED BY <1>4, <1>5

-----------------------------------------------------------------------------
(* Steps that leave the ledger alone.                                      *)

\* Nothing but hands, claims and run rows changes, and these as far as
\* questions and outcomes go only for run r.
LEMMA QuietKeeps ==
  ASSUME Sound, ToolsInv, NEW r \in Runs, run[r].status # "deleted",
         \A q \in Runs : q # r => run'[q] = run[q],
         UNCHANGED <<steps, ledger, gate, recon, asked, wire, done>>, HandsKept,
         \/ run'[r].inter.kind = "none"
         \/ run'[r].inter.kind = run[r].inter.kind /\ run'[r].inter.status = run[r].inter.status,
         \/ run'[r].status \in {run[r].status, "queued", "running", "failed"}
         \/ run'[r].status = "completed" /\ Answered(r)
  PROVE  ToolsInv'
<1>1. /\ OutcomeOK(r) /\ AskedOK(r) /\ \A k \in Calls : Begun(r, k) => GateOpen(r, k)
      /\ \A k \in Calls : Script[k].step < steps[r] => Completed(r, k)
  BY DEF ToolsInv, QuestionsOK, CallsOK
<1>2. /\ gate \in [Runs -> [Calls -> GateStatus]] /\ asked \in [Runs -> Calls \cup {0}]
      /\ recon \in [Runs -> [Calls -> ReconStatus]] /\ ledger \in [Runs -> [Calls -> CallRows]]
  BY ToolsTypes DEF ToolsInv
<1>3. RowStep(r)
  BY <1>1, <1>2 DEF RowStep, Begun, Completed, GateOpen
<1>4. Answered(r) => \A k \in Calls : Completed(r, k)
  BY <1>1, StepBounds DEF Answered
<1>5. OutcomeOK(r)'
  BY <1>1, <1>4 DEF OutcomeOK, Completed
<1>6. AskedOK(r)'
  BY <1>1 DEF AskedOK
<1> QED BY <1>2, <1>3, <1>5, <1>6, RowStepKeeps

\* Nothing but hands, claims and run rows changes, and questions and outcomes
\* not at all.
LEMMA StillKeeps ==
  ASSUME Sound, ToolsInv, \A r \in Runs : Alike(r), HandsKept,
         UNCHANGED <<steps, ledger, gate, recon, asked, wire, done>>
  PROVE  ToolsInv'
<1>1. ToolsTypeOK'
  BY DEF ToolsInv, ToolsTypeOK, HandsKept
<1>2. Framed
  <2>1. \A w \in Workers, k \in Calls : hand'[w][k] # "idle" =>
          hand'[w][k] = hand[w][k] /\ claim'[w].run = claim[w].run
    BY DEF HandsKept, IdleHand
  <2> QED BY <2>1 DEF Framed, Alike, Live, Begun
<1>3. HandsOK' /\ RequestsOK' /\ Once'
  BY <1>2, FramedKeeps DEF ToolsInv
<1>4. CallsOK' /\ SuccessMeansEffect'
  BY CallsKept DEF ToolsInv
<1>5. QuestionsOK'
  BY QuestionsKept DEF ToolsInv
<1> QED BY <1>1, <1>3, <1>4, <1>5 DEF ToolsInv

\* A worker drops its claim and what it has in hand.
LEMMA HandsDropped ==
  ASSUME Sound, ToolsInv, NEW w \in Workers, claim' = [claim EXCEPT ![w] = NoClaim],
         hand' = [hand EXCEPT ![w] = IdleHand] \/ (hand' = hand /\ hand[w] = IdleHand)
  PROVE  HandsKept
<1>1. hand \in [Workers -> [Calls -> Phases]] /\ IdleHand \in [Calls -> Phases]
  BY DEF ToolsInv, ToolsTypeOK, IdleHand, Phases
<1>2. \A v \in Workers : v # w => claim'[v] = claim[v]
  BY DEF Sound, TypeOK
<1>3. /\ hand' \in [Workers -> [Calls -> Phases]] /\ hand'[w] = IdleHand
      /\ \A v \in Workers : v # w => hand'[v] = hand[v]
  BY <1>1
<1> QED BY <1>2, <1>3 DEF HandsKept

-----------------------------------------------------------------------------
(* The run queue with tools is the run queue.                              *)

\* A tool step of a worker writes run rows only as WaitExecution and
\* ResolveReconciliation do.
LEMMA ToolStepRefines ==
  ASSUME NEW w \in Workers, NEW k \in Calls, ToolStep(w, k)
  PROVE  [Next]_vars
<1>1. CASE BeginExecutionTool(w, k)
  BY <1>1 DEF BeginExecutionTool, vars
<1>2. CASE InvokeConversationTool(w, k)
  BY <1>2 DEF InvokeConversationTool, vars
<1>3. CASE CallLost(w, k)
  BY <1>3 DEF CallLost, vars
<1>4. ASSUME NEW answer, ReconcileConversationTool(w, k, answer) PROVE [Next]_vars
  BY <1>4 DEF ReconcileConversationTool, vars
<1>5. CASE FinishExecutionTool(w, k)
  <2>1. ResolveReconciliation(w) \/ UNCHANGED vars
    BY <1>5 DEF FinishExecutionTool, vars
  <2> QED BY <2>1 DEF Next, WorkerStep
<1>6. CASE AskUser(w, k)
  <2>1. WaitExecution(w, Script[k].gate) /\ Script[k].gate \in Kinds
    BY <1>6, ScriptFacts DEF AskUser, Kinds
  <2> QED BY <2>1 DEF Next, WorkerStep
<1>7. CASE AwaitReconciliation(w, k)
  <2>1. WaitExecution(w, "reconciliation") /\ "reconciliation" \in Kinds
    BY <1>7 DEF AwaitReconciliation, Kinds
  <2> QED BY <2>1 DEF Next, WorkerStep
<1> QED BY <1>1, <1>2, <1>3, <1>4, <1>5, <1>6, <1>7 DEF ToolStep

\* The end of a claim, with or without an answer.
LEMMA ClaimStepRefines ==
  ASSUME NEW w \in Workers, ClaimStep(w)
  PROVE  [Next]_vars
<1>1. CASE CompleteExecutionStep(w)
  BY <1>1 DEF CompleteExecutionStep, vars
<1>2. CASE ~CompleteExecutionStep(w)
  <2>1. WorkerStep(w)
    BY <1>2 DEF ClaimStep, StreamAnswer, CompleteRun, FailRun, AbandonCalls, WorkerStep
  <2> QED BY <2>1 DEF Next
<1> QED BY <1>1, <1>2

\* Answers, expiry, cancellation and resume.
LEMMA CallerStepRefines ==
  ASSUME NEW r \in Runs, CallerStep(r)
  PROVE  [Next]_vars
<1>1. RunStep(r)
  BY DEF CallerStep, RespondExecution, ExpireQuestion, CancelRun, RunStep
<1> QED BY <1>1 DEF Next

\* Every step with tools is a step of ConversationRun or leaves its rows alone.
LEMMA ToolsNextRefines == [ToolsNext]_allVars => [Next]_vars
<1> SUFFICES ASSUME [ToolsNext]_allVars PROVE [Next]_vars
  OBVIOUS
<1>1. ASSUME NEW c \in Conversations, DeleteAll(c) PROVE [Next]_vars
  BY <1>1 DEF DeleteAll, Next, ConversationStep
<1>2. ASSUME NEW q, NEW answer, HostExecutes(q, answer) PROVE [Next]_vars
  BY <1>2 DEF HostExecutes, vars
<1>3. CASE OtherStep
  BY <1>3 DEF OtherStep, Next, ConversationStep
<1>4. CASE UNCHANGED allVars
  BY <1>4 DEF allVars, vars
<1> QED BY <1>1, <1>2, <1>3, <1>4, ToolStepRefines, ClaimStepRefines, CallerStepRefines
        DEF ToolsNext

\* The run queue with ledger, tools and host implements the run queue alone.
THEOREM ToolsImplementRun == ToolsSpec => RefinesConversationRun
<1>1. ToolsInit => Init
  BY DEF ToolsInit
<1> QED BY <1>1, ToolsNextRefines, PTL DEF ToolsSpec, Spec, RefinesConversationRun

-----------------------------------------------------------------------------
(* The invariant at first, and what it says.                               *)

\* Nothing has been asked, begun, sent or done at first.
LEMMA ToolsInvInit == ToolsInit => ToolsInv
<1> SUFFICES ASSUME ToolsInit PROVE ToolsInv
  OBVIOUS
<1>1. /\ steps = [r \in Runs |-> 0] /\ ledger = [r \in Runs |-> [k \in Calls |-> NoCall]]
      /\ gate = [r \in Runs |-> [k \in Calls |-> NoRecord]]
      /\ recon = [r \in Runs |-> [k \in Calls |-> NoRecord]] /\ asked = [r \in Runs |-> 0]
      /\ hand = [w \in Workers |-> IdleHand] /\ wire = {} /\ done = {}
  BY DEF ToolsInit
<1>2. /\ NoCall \in CallRows /\ NoCall.state = "none" /\ NoCall.result = "none"
      /\ NoRecord \in GateStatus /\ NoRecord \in ReconStatus
      /\ LastStep \in Nat /\ 0 \in 0..(LastStep + 1)
      /\ IdleHand \in [Calls -> Phases] /\ \A k \in Calls : IdleHand[k] = "idle"
  BY ScriptFacts, SMT DEF NoCall, CallRows, GateStatus, ReconStatus, IdleHand, Phases
<1>3. \A r \in Runs : run[r].status = "none" /\ run[r].inter.kind = "none"
  BY DEF ToolsInit, Init, NoRow, NoInteraction
<1>4. ToolsTypeOK
  <2> HIDE DEF NoCall, NoRecord, CallRows, GateStatus, ReconStatus, IdleHand
  <2>1. steps \in [Runs -> 0..(LastStep + 1)] /\ ledger \in [Runs -> [Calls -> CallRows]]
    BY <1>1, <1>2
  <2>2. gate \in [Runs -> [Calls -> GateStatus]] /\ recon \in [Runs -> [Calls -> ReconStatus]]
    BY <1>1, <1>2
  <2>3. asked \in [Runs -> Calls \cup {0}] /\ hand \in [Workers -> [Calls -> Phases]]
    BY <1>1, <1>2
  <2> QED BY <1>1, <2>1, <2>2, <2>3, ToolsTypes
<1>5. HandsOK /\ RequestsOK /\ Once
  BY <1>1, <1>2 DEF HandsOK, RequestsOK, Once
<1>6. CallsOK /\ SuccessMeansEffect
  <2>1. \A r \in Runs, k \in Calls :
          /\ ~Begun(r, k) /\ ~(Script[k].step < steps[r]) /\ ledger[r][k].result # "ok"
    <3> SUFFICES ASSUME NEW r \in Runs, NEW k \in Calls
                 PROVE  /\ ~Begun(r, k) /\ ~(Script[k].step < steps[r])
                        /\ ledger[r][k].result # "ok"
      OBVIOUS
    <3>1. ledger[r][k] = NoCall /\ steps[r] = 0
      BY <1>1
    <3>2. ~(Script[k].step < 0)
      BY StepBounds
    <3> QED BY <1>2, <3>1, <3>2 DEF Begun
  <2> QED BY <2>1 DEF CallsOK, SuccessMeansEffect
<1>7. QuestionsOK
  BY <1>3 DEF QuestionsOK, OutcomeOK, AskedOK
<1> QED BY <1>4, <1>5, <1>6, <1>7 DEF ToolsInv

\* The invariant implies what the ledger promises.
LEMMA ToolsInvSays ==
  ToolsInv => /\ ToolsTypeOK /\ EffectAtMostOnce /\ NoEffectWithoutApproval
              /\ EffectsInOrder /\ SuccessMeansEffect
              /\ InteractionCopiesAgree /\ UnknownOutcomesAreHeld
<1> SUFFICES ASSUME ToolsInv
             PROVE  /\ EffectAtMostOnce /\ NoEffectWithoutApproval /\ EffectsInOrder
                    /\ InteractionCopiesAgree /\ UnknownOutcomesAreHeld
  BY DEF ToolsInv
<1>1. \A k \in Calls : k # 0
  BY ScriptAssumption, SMTT(30) DEF Calls
<1>2. \A q \in wire \cup done : q.run \in Runs /\ q.call \in Calls
  BY DEF ToolsInv, ToolsTypeOK, Requests
<1>3. EffectAtMostOnce
  BY DEF ToolsInv, Once, EffectAtMostOnce, IdempotencyKey
<1>4. NoEffectWithoutApproval
  <2> SUFFICES ASSUME NEW q \in wire \cup done, Script[q.call].gate = "confirmation",
                      run[q.run].status # "deleted"
               PROVE  gate[q.run][q.call] = "approved"
    BY DEF NoEffectWithoutApproval
  <2>1. GateOpen(q.run, q.call)
    BY <1>2 DEF ToolsInv, RequestsOK, CallsOK, Live
  <2> QED BY <2>1 DEF GateOpen
<1>5. EffectsInOrder
  <2> SUFFICES ASSUME NEW q \in wire \cup done, NEW j \in Calls, Before(j, q.call),
                      run[q.run].status # "deleted"
               PROVE  Completed(q.run, j)
    BY DEF EffectsInOrder
  <2> QED BY <1>2 DEF ToolsInv, RequestsOK, CallsOK, Live
<1>6. InteractionCopiesAgree
  BY <1>1 DEF ToolsInv, QuestionsOK, AskedOK, InteractionCopiesAgree
<1>7. UnknownOutcomesAreHeld
  BY <1>1 DEF ToolsInv, QuestionsOK, OutcomeOK, UnknownOutcomesAreHeld
<1> QED BY <1>3, <1>4, <1>5, <1>6, <1>7

-----------------------------------------------------------------------------
(* Receipts.                                                               *)

\* It leaves the run's status, and closes the question in both copies.
LEMMA FinishExecutionToolAsks ==
  ASSUME Sound, ToolsInv, NEW w \in Workers, NEW k \in Calls, FinishExecutionTool(w, k)
  PROVE  LET r == claim[w].run IN
         /\ claim' = claim /\ run'[r].status = run[r].status
         /\ recon' \in [Runs -> [Calls -> ReconStatus]]
         /\ \A q \in Runs : q # r => run'[q] = run[q] /\ recon'[q] = recon[q]
         /\ run'[r].inter.kind # "none" =>
              /\ asked'[r] \in Calls
              /\ run'[r].inter.status = IF run'[r].inter.kind = "reconciliation"
                                        THEN recon'[r][asked'[r]] ELSE gate'[r][asked'[r]]
<1> DEFINE r == claim[w].run
           closed == CloseInteraction(run[r].inter, "resolved")
<1>1. r \in Runs /\ asked' = asked /\ gate' = gate
  BY FinishExecutionToolDoes
<1>2. recon \in [Runs -> [Calls -> ReconStatus]] /\ AskedOK(r)
  BY <1>1, ToolsTypes DEF ToolsInv, QuestionsOK
<1>3. CASE UNCHANGED <<vars, recon>>
  <2>1. run' = run /\ claim' = claim /\ recon' = recon
    BY <1>3 DEF vars
  <2> QED BY <1>1, <1>2, <2>1 DEF AskedOK
<1>4. CASE /\ run[r].inter.kind = "reconciliation" /\ asked[r] = k /\ closed # run[r].inter
           /\ ResolveReconciliation(w) /\ recon' = [recon EXCEPT ![r][k] = "resolved"]
  <2>1. /\ \A q \in Runs : q # r => run'[q] = run[q]
        /\ run'[r].status = run[r].status /\ run'[r].inter = closed /\ claim' = claim
    BY <1>4, ResolveReconciliationDoes, ResolveReconciliationColumns
       DEF Step, Columns, ResolveReconciliation
  <2>2. closed.kind = "reconciliation" /\ closed.status = "resolved"
    <3>1. run[r].inter \in Interactions
      BY <1>1 DEF Sound, TypeOK, RunRows
    <3> QED BY <1>4, <3>1 DEF CloseInteraction, Interactions
  <2> HIDE DEF closed
  <2>3. /\ recon' \in [Runs -> [Calls -> ReconStatus]]
        /\ \A q \in Runs : q # r => recon'[q] = recon[q]
        /\ recon'[r][k] = "resolved"
    <3>1. "resolved" \in ReconStatus
      BY DEF ReconStatus
    <3>2. recon'[r][k] = "resolved" /\ recon' \in [Runs -> [Calls -> ReconStatus]]
      BY <1>1, <1>2, <1>4, <3>1, EntryReplaced, SMTT(30)
    <3> QED BY <1>1, <1>2, <1>4, <3>2
  <2> QED BY <1>1, <1>4, <2>1, <2>2, <2>3
<1> QED BY <1>3, <1>4 DEF FinishExecutionTool

\* A receipt keeps the invariant.
LEMMA FinishExecutionToolKeeps ==
  ASSUME Sound, ToolsInv, NEW w \in Workers, NEW k \in Calls, FinishExecutionTool(w, k)
  PROVE  ToolsInv'
<1> DEFINE r == claim[w].run
<1>1. /\ r \in Runs /\ run[r].status \in {"running", "cancelled"}
      /\ hand[w][k] \in {"ok", "failed", "unknown"} /\ ~Completed(r, k) /\ Begun(r, k)
      /\ ledger' \in [Runs -> [Calls -> CallRows]]
      /\ \A q \in Runs, j \in Calls : ~(q = r /\ j = k) => ledger'[q][j] = ledger[q][j]
      /\ ledger'[r][k].state \in {"uncertain", "completed"}
      /\ ledger'[r][k].result = "ok" => hand[w][k] = "ok"
      /\ hand' \in [Workers -> [Calls -> Phases]]
      /\ \A v \in Workers, j \in Calls :
           hand'[v][j] \in (IF v = w /\ j = k THEN {"idle", "wait"} ELSE {hand[v][j]})
      /\ UNCHANGED <<steps, gate, asked, wire, done>>
  BY FinishExecutionToolDoes
<1>2. /\ claim' = claim /\ run'[r].status = run[r].status
      /\ recon' \in [Runs -> [Calls -> ReconStatus]]
      /\ \A q \in Runs : q # r => run'[q] = run[q] /\ recon'[q] = recon[q]
      /\ run'[r].inter.kind # "none" =>
           /\ asked'[r] \in Calls
           /\ run'[r].inter.status = IF run'[r].inter.kind = "reconciliation"
                                     THEN recon'[r][asked'[r]] ELSE gate'[r][asked'[r]]
  BY FinishExecutionToolAsks
<1>3. /\ \A q \in Runs, j \in Calls : Completed(q, j) => Completed(q, j)'
      /\ \A q \in Runs, j \in Calls : Begun(q, j)' <=> Begun(q, j)
  BY <1>1 DEF Completed, Begun
<1>4. ToolsTypeOK'
  BY <1>1, <1>2 DEF ToolsInv, ToolsTypeOK, CallRows, ReconStatus
<1>5. CallsOK'
  <2> SUFFICES ASSUME NEW q \in Runs, NEW j \in Calls
               PROVE  /\ Begun(q, j)' => GateOpen(q, j)'
                                          /\ \A i \in Calls : Before(i, j) => Completed(q, i)'
                      /\ Script[j].step < steps'[q] => Completed(q, j)'
    BY DEF CallsOK
  <2>1. /\ Begun(q, j) => GateOpen(q, j) /\ \A i \in Calls : Before(i, j) => Completed(q, i)
        /\ Script[j].step < steps[q] => Completed(q, j)
    BY DEF ToolsInv, CallsOK
  <2>2. GateOpen(q, j)' <=> GateOpen(q, j)
    BY <1>1 DEF GateOpen
  <2> QED BY <1>1, <1>3, <2>1, <2>2
<1>6. Framed
  BY <1>1, <1>2, <1>3, ZenonT(30) DEF Framed, Live
<1>7. HandsOK' /\ RequestsOK' /\ Once'
  BY <1>6, FramedKeeps DEF ToolsInv
<1>8. QuestionsOK'
  <2>1. \A q \in Runs : q # r => ledger'[q] = ledger[q]
    <3> SUFFICES ASSUME NEW q \in Runs, q # r PROVE ledger'[q] = ledger[q]
      OBVIOUS
    <3>1. ledger[q] \in [Calls -> CallRows] /\ ledger'[q] \in [Calls -> CallRows]
      BY <1>1, ToolsTypes DEF ToolsInv
    <3>2. \A j \in Calls : ledger'[q][j] = ledger[q][j]
      BY <1>1
    <3> HIDE DEF CallRows
    <3> QED BY <3>1, <3>2, SMT
  <2>2. run'[r].status = "cancelled" =>
          \A j \in Calls : Script[j].effect = "write" => ledger'[r][j].state # "started"
    <3>1. OutcomeOK(r)
      BY <1>1 DEF ToolsInv, QuestionsOK
    <3>2. \A j \in Calls : j # k => ledger'[r][j].state = ledger[r][j].state
      BY <1>1
    <3> QED BY <1>1, <1>2, <3>1, <3>2 DEF OutcomeOK
  <2>3. PICK p \in Runs : p = r
    BY <1>1
  <2>4. OutcomeOK(p)' /\ AskedOK(p)'
    BY <1>1, <1>2, <2>2, <2>3 DEF OutcomeOK, AskedOK
  <2>5. \A q \in Runs : q # p =>
          /\ Alike(q) /\ ledger'[q] = ledger[q] /\ gate'[q] = gate[q]
          /\ recon'[q] = recon[q] /\ asked'[q] = asked[q]
    BY <1>1, <1>2, <2>1, <2>3 DEF Alike
  <2> QED BY <2>4, <2>5, QuestionsByRow DEF ToolsInv
<1>9. SuccessMeansEffect'
  <2>1. hand[w][k] = "ok" /\ Script[k].effect = "write" => Applied(r, k)
    BY <1>1, BusyHand
  <2> QED BY <1>1, <2>1, SMTT(30) DEF ToolsInv, SuccessMeansEffect, Applied
<1> QED BY <1>4, <1>5, <1>7, <1>8, <1>9 DEF ToolsInv

-----------------------------------------------------------------------------
(* Steps that write one run's row, its records and its question.           *)

\* A question is put to the user.
LEMMA AskUserKeeps ==
  ASSUME Sound, ToolsInv, NEW w \in Workers, NEW k \in Calls, AskUser(w, k)
  PROVE  ToolsInv'
<1>1. Script[k].gate \in {"input", "confirmation"}
  BY ScriptFacts DEF AskUser
<1>2. /\ Script[k].gate \in Kinds /\ WaitExecution(w, Script[k].gate)
      /\ WaitStatus(Script[k].gate) \in {"waiting_user", "waiting_confirmation"}
  BY <1>1 DEF AskUser, Kinds, WaitStatus
<1>3. PICK r \in Runs : r = claim[w].run
  BY <1>2, WaitExecutionDoes
<1>4. /\ Reached(w, k) /\ hand[w] = IdleHand /\ ledger[r][k].state = "none"
      /\ gate' = [gate EXCEPT ![r][k] = "pending"] /\ asked' = [asked EXCEPT ![r] = k]
      /\ claim' = [claim EXCEPT ![w] = NoClaim]
      /\ UNCHANGED <<steps, ledger, recon, hand, wire, done>>
  BY <1>3 DEF AskUser, WaitExecution
<1>5. Step(r, WaitStatus(Script[k].gate)) /\ run'[r].inter = Pending(Script[k].gate)
  BY <1>2, <1>3, WaitExecutionDoes, WaitExecutionColumns DEF Columns
<1>6. /\ gate \in [Runs -> [Calls -> GateStatus]] /\ asked \in [Runs -> Calls \cup {0}]
      /\ recon \in [Runs -> [Calls -> ReconStatus]] /\ ledger \in [Runs -> [Calls -> CallRows]]
      /\ hand \in [Workers -> [Calls -> Phases]] /\ "pending" \in GateStatus
  BY ToolsTypes DEF ToolsInv, GateStatus
<1>7. /\ gate' \in [Runs -> [Calls -> GateStatus]]
      /\ \A q \in Runs, j \in Calls :
           gate'[q][j] = IF q = r /\ j = k THEN "pending" ELSE gate[q][j]
      /\ \A q \in Runs : q # r => gate'[q] = gate[q]
  BY <1>4, <1>6, EntryReplaced, SMT
<1>8. asked' \in [Runs -> Calls \cup {0}] /\ asked'[r] = k /\ \A q \in Runs : q # r => asked'[q] = asked[q]
  BY <1>4, <1>6
<1>9. HandsKept
  <2>1. \A v \in Workers : v # w => claim'[v] = claim[v]
    BY <1>4 DEF Sound, TypeOK
  <2> QED BY <1>4, <1>6, <2>1 DEF HandsKept
<1>10. \A j \in Calls : Begun(r, j) => GateOpen(r, j) /\ \A i \in Calls : Before(i, j) => Completed(r, i)
  BY DEF ToolsInv, CallsOK
<1>11. RowStep(r)
  <2>1. \A j \in Calls : Begun(r, j) => GateOpen(r, j)'
    BY <1>4, <1>7, <1>10 DEF Begun, GateOpen
  <2>2. run[r].status # "deleted" /\ \A q \in Runs : q # r => run'[q] = run[q]
    BY <1>5 DEF Step, Exists
  <2> QED BY <1>4, <1>6, <1>7, <1>8, <1>9, <2>1, <2>2 DEF RowStep, Begun, Completed
<1>12. OutcomeOK(r)'
  <2>1. \A j \in Calls : ledger[r][j].state # "started"
    <3> SUFFICES ASSUME NEW j \in Calls PROVE ledger[r][j].state # "started"
      OBVIOUS
    <3>1. j = k \/ Before(j, k) \/ Before(k, j)
      BY <1>1, ScriptFacts
    <3>2. CASE Before(j, k)
      BY <1>3, <1>4, <3>2 DEF Reached, Completed
    <3>3. CASE Before(k, j)
      BY <1>4, <1>10, <3>3 DEF Begun, Completed
    <3> QED BY <1>4, <3>1, <3>2, <3>3
  <2>2. run'[r].status \in {"waiting_user", "waiting_confirmation"}
    BY <1>2, <1>5 DEF Step
  <2> QED BY <1>4, <2>1, <2>2 DEF OutcomeOK
<1>13. AskedOK(r)'
  BY <1>1, <1>5, <1>7, <1>8, SMT DEF AskedOK, Pending
<1> QED BY <1>4, <1>6, <1>7, <1>8, <1>11, <1>12, <1>13, RowStepKeeps

\* The run waits for the outcome of a call.
LEMMA AwaitReconciliationKeeps ==
  ASSUME Sound, ToolsInv, NEW w \in Workers, NEW k \in Calls, AwaitReconciliation(w, k)
  PROVE  ToolsInv'
<1>1. /\ "reconciliation" \in Kinds /\ WaitExecution(w, "reconciliation")
      /\ WaitStatus("reconciliation") = "needs_reconciliation"
  BY DEF AwaitReconciliation, Kinds, WaitStatus
<1>2. PICK r \in Runs : r = claim[w].run
  BY <1>1, WaitExecutionDoes
<1>3. /\ ledger[r][k].state = "uncertain"
      /\ recon' = [recon EXCEPT ![r][k] = "pending"] /\ asked' = [asked EXCEPT ![r] = k]
      /\ hand' = [hand EXCEPT ![w] = IdleHand] /\ claim' = [claim EXCEPT ![w] = NoClaim]
      /\ UNCHANGED <<steps, ledger, gate, wire, done>>
  BY <1>2 DEF AwaitReconciliation, WaitExecution
<1>4. Step(r, "needs_reconciliation") /\ run'[r].inter = Pending("reconciliation")
  BY <1>1, <1>2, WaitExecutionDoes, WaitExecutionColumns DEF Columns
<1>5. /\ gate \in [Runs -> [Calls -> GateStatus]] /\ asked \in [Runs -> Calls \cup {0}]
      /\ recon \in [Runs -> [Calls -> ReconStatus]] /\ ledger \in [Runs -> [Calls -> CallRows]]
      /\ hand \in [Workers -> [Calls -> Phases]] /\ "pending" \in ReconStatus
      /\ IdleHand \in [Calls -> Phases]
  BY ToolsTypes DEF ToolsInv, ReconStatus, IdleHand, Phases
<1>6. /\ recon' \in [Runs -> [Calls -> ReconStatus]]
      /\ recon'[r][k] = "pending"
      /\ \A q \in Runs : q # r => recon'[q] = recon[q]
  BY <1>3, <1>5, EntryReplaced, SMT
<1>7. asked' \in [Runs -> Calls \cup {0}] /\ asked'[r] = k /\ \A q \in Runs : q # r => asked'[q] = asked[q]
  BY <1>3, <1>5
<1>8. HandsKept
  <2>1. \A v \in Workers : v # w => claim'[v] = claim[v]
    BY <1>3 DEF Sound, TypeOK
  <2>2. hand' \in [Workers -> [Calls -> Phases]] /\ hand'[w] = IdleHand
        /\ \A v \in Workers : v # w => hand'[v] = hand[v]
    BY <1>3, <1>5
  <2> QED BY <2>1, <2>2 DEF HandsKept
<1>9. RowStep(r)
  <2>1. \A j \in Calls : Begun(r, j) => GateOpen(r, j)'
    BY <1>3 DEF ToolsInv, CallsOK, GateOpen
  <2>2. run[r].status # "deleted" /\ \A q \in Runs : q # r => run'[q] = run[q]
    BY <1>4 DEF Step, Exists
  <2> QED BY <1>3, <1>5, <1>6, <1>7, <1>8, <2>1, <2>2 DEF RowStep, Begun, Completed
<1>10. OutcomeOK(r)'
  BY <1>3, <1>4, <1>7 DEF OutcomeOK, Step
<1>11. AskedOK(r)'
  BY <1>4, <1>6, <1>7, SMT DEF AskedOK, Pending
<1> QED BY <1>3, <1>5, <1>6, <1>7, <1>9, <1>10, <1>11, RowStepKeeps

\* An answer, for the call or for all listed operations.
LEMMA RespondExecutionKeeps ==
  ASSUME Sound, Rows, ToolsInv, NEW r \in Runs, NEW decision \in Decisions,
         NEW listed \in BOOLEAN, RespondExecution(r, decision, listed)
  PROVE  ToolsInv'
<1> DEFINE k == asked[r]
           outcome == Outcome(run[r].inter.kind, decision)
           status == IF outcome = "rejected" THEN "cancelled" ELSE "queued"
           row == [j \in Calls |->
                     IF j = k \/ (listed /\ j \in Listed(k)) THEN outcome ELSE gate[r][j]]
<1>1. /\ Respond(r, decision)
      /\ listed => ListedApprovable(r, k)
      /\ UNCHANGED <<claim, steps, ledger, recon, asked, hand, wire, done>>
  BY DEF RespondExecution, Respond
<1>2. gate \in [Runs -> [Calls -> GateStatus]]
  BY ToolsTypes DEF ToolsInv
<1>3. gate' = [gate EXCEPT ![r] = row]
  BY <1>2 DEF RespondExecution
<1>4. /\ outcome \in {"answered", "approved", "rejected"}
      /\ run[r].inter.kind \in {"input", "confirmation"}
      /\ outcome = "rejected" => run[r].inter.kind = "confirmation"
      /\ run[r].inter.status = "pending" /\ run[r].status \in Waiting
  BY <1>1 DEF Respond, Outcome, AwaitsResponse
<1>5. outcome \in GateStatus
  BY <1>4 DEF GateStatus, Closed
<1>6. /\ row \in [Calls -> GateStatus]
      /\ \A j \in Calls : row[j] = IF j = k \/ (listed /\ j \in Listed(k))
                                   THEN outcome ELSE gate[r][j]
  BY <1>2, <1>5
<1>7. k \in Calls
  BY <1>4, PendingRecord
<1>8. /\ Step(r, status) /\ run'[r].inter = [run[r].inter EXCEPT !.status = outcome]
  BY <1>1, RespondDoes, RespondColumns DEF Columns
<1>9. run'[r].inter.kind = run[r].inter.kind /\ run'[r].inter.status = outcome
  <2>1. run[r].inter \in Interactions
    BY DEF Sound, TypeOK, RunRows
  <2> HIDE DEF outcome
  <2> QED BY <1>8, <2>1 DEF Interactions
<1>10. status = "cancelled" => run[r].status = "waiting_confirmation"
  <2>1. run[r].status = WaitStatus(run[r].inter.kind)
    BY <1>4 DEF Rows, RowOK, QuestionOK
  <2> QED BY <1>4, <2>1 DEF WaitStatus
<1>11. \A j \in Calls : j = k \/ row[j] = gate[r][j] \/ ~Begun(r, j)
  BY <1>1, <1>6 DEF ListedApprovable, Begun
<1>12. status \in {"queued", "failed", "cancelled"}
  OBVIOUS
<1>13. run'[r].inter.status = row[asked[r]]
  BY <1>6, <1>7, <1>9
<1>14. /\ row \in [Calls -> GateStatus] /\ Step(r, status) /\ claim' = claim
       /\ UNCHANGED <<steps, ledger, recon, asked, hand, wire, done>>
  BY <1>1, <1>6, <1>8
<1> HIDE DEF row, outcome, status
<1> QED BY <1>3, <1>4, <1>9, <1>10, <1>11, <1>12, <1>13, <1>14, RecordKeeps

\* The question expires.
LEMMA ExpireQuestionKeeps ==
  ASSUME Sound, Rows, ToolsInv, NEW r \in Runs, ExpireQuestion(r)
  PROVE  ToolsInv'
<1> DEFINE k == asked[r]
           row == [gate[r] EXCEPT ![k] = "expired"]
<1>1. /\ ExpireInteraction(r)
      /\ UNCHANGED <<claim, steps, ledger, recon, asked, hand, wire, done>>
  BY DEF ExpireQuestion, ExpireInteraction
<1>2. /\ run[r].inter.status = "pending" /\ run[r].inter.due
      /\ run[r].inter.kind \in {"input", "confirmation"}
  BY <1>1 DEF ExpireInteraction, AwaitsResponse, Rows, RowOK, QuestionOK
<1>3. /\ gate \in [Runs -> [Calls -> GateStatus]] /\ "expired" \in GateStatus /\ k \in Calls
  BY <1>2, PendingRecord, ToolsTypes DEF ToolsInv, GateStatus, Closed
<1>4. /\ row \in [Calls -> GateStatus] /\ row[k] = "expired"
      /\ \A j \in Calls : j # k => row[j] = gate[r][j]
      /\ gate' = [gate EXCEPT ![r] = row]
  BY <1>3 DEF ExpireQuestion
<1>5. Step(r, "failed") /\ run'[r].inter = CloseInteraction(run[r].inter, "expired")
  BY <1>1, ExpireInteractionDoes, ExpireInteractionColumns DEF Columns
<1>6. run'[r].inter.kind = run[r].inter.kind /\ run'[r].inter.status = "expired"
  <2>1. run[r].inter \in Interactions
    BY DEF Sound, TypeOK, RunRows
  <2> QED BY <1>2, <1>5, <2>1 DEF CloseInteraction, Interactions
<1> HIDE DEF row
<1> QED BY <1>1, <1>2, <1>4, <1>5, <1>6, RecordKeeps, ZenonT(40)

\* The records after a cancellation: the pending question's is closed.
LEMMA CancelRecords ==
  ASSUME Sound, Rows, ToolsInv, NEW r \in Runs, CancelRun(r)
  PROVE  /\ gate' \in [Runs -> [Calls -> GateStatus]]
         /\ recon' \in [Runs -> [Calls -> ReconStatus]]
         /\ \A q \in Runs : q # r => gate'[q] = gate[q] /\ recon'[q] = recon[q]
         /\ \A j \in Calls : Begun(r, j) => GateOpen(r, j)'
         /\ AskedOK(r)'
<1> DEFINE k == asked[r]
           inter == run[r].inter
           closed == CloseInteraction(inter, "cancelled")
<1>1. /\ gate \in [Runs -> [Calls -> GateStatus]] /\ recon \in [Runs -> [Calls -> ReconStatus]]
      /\ "cancelled" \in GateStatus /\ "cancelled" \in ReconStatus
  BY ToolsTypes DEF ToolsInv, GateStatus, ReconStatus, Closed
<1>2. /\ inter \in Interactions /\ (inter.status = "pending" => inter.kind \in Kinds)
      /\ AskedOK(r)
      /\ \A j \in Calls : Begun(r, j) => GateOpen(r, j)
  BY DEF Sound, TypeOK, RunRows, Rows, RowOK, QuestionOK, ToolsInv, QuestionsOK, CallsOK
<1>3. run'[r].inter = closed /\ asked' = asked
  BY CancelColumns DEF CancelRun, Columns
<1>4. /\ closed.kind = inter.kind
      /\ closed.status = IF inter.status = "pending" THEN "cancelled" ELSE inter.status
  BY <1>2 DEF CloseInteraction, Interactions
<1> HIDE DEF closed
<1>5. CASE inter.status # "pending"
  <2>1. gate' = gate /\ recon' = recon
    BY <1>5 DEF CancelRun
  <2>2. AskedOK(r)'
    BY <1>2, <1>3, <1>4, <1>5, <2>1 DEF AskedOK
  <2> QED BY <1>1, <1>2, <2>1, <2>2 DEF GateOpen
<1>6. CASE inter.status = "pending" /\ inter.kind = "reconciliation"
  <2>1. gate' = gate /\ recon' = [recon EXCEPT ![r][k] = "cancelled"] /\ k \in Calls
    BY <1>2, <1>6 DEF CancelRun, AskedOK
  <2>2. /\ recon' \in [Runs -> [Calls -> ReconStatus]] /\ recon'[r][k] = "cancelled"
        /\ \A q \in Runs : q # r => recon'[q] = recon[q]
    BY <1>1, <2>1, EntryReplaced, SMT
  <2>3. AskedOK(r)'
    BY <1>3, <1>4, <1>6, <2>1, <2>2 DEF AskedOK
  <2> QED BY <1>1, <1>2, <2>1, <2>2, <2>3 DEF GateOpen
<1>7. CASE inter.status = "pending" /\ inter.kind # "reconciliation"
  <2>1. /\ gate' = [gate EXCEPT ![r][k] = "cancelled"] /\ recon' = recon
        /\ inter.kind \in {"input", "confirmation"}
    BY <1>2, <1>7 DEF CancelRun, Kinds
  <2>2. k \in Calls /\ (Begun(r, k) => Script[k].gate = "none")
    BY <1>7, <2>1, PendingRecord
  <2>3. /\ gate' \in [Runs -> [Calls -> GateStatus]] /\ gate'[r][k] = "cancelled"
        /\ \A q \in Runs : q # r => gate'[q] = gate[q]
        /\ \A j \in Calls : j # k => gate'[r][j] = gate[r][j]
    BY <1>1, <2>1, <2>2, EntryReplaced, SMT
  <2>4. AskedOK(r)'
    BY <1>3, <1>4, <1>7, <2>2, <2>3 DEF AskedOK
  <2>5. \A j \in Calls : Begun(r, j) => GateOpen(r, j)'
    BY <1>2, <2>2, <2>3 DEF GateOpen
  <2> QED BY <1>1, <2>1, <2>3, <2>4, <2>5
<1> QED BY <1>5, <1>6, <1>7

\* A cancellation.
LEMMA CancelRunKeeps ==
  ASSUME Sound, Rows, ToolsInv, NEW r \in Runs, CancelRun(r)
  PROVE  ToolsInv'
<1>1. /\ Cancel(r) /\ ledger' = [ledger EXCEPT ![r] = Interrupted(r)]
      /\ UNCHANGED <<claim, steps, asked, hand, wire, done>>
  BY DEF CancelRun, Cancel
<1>2. /\ gate' \in [Runs -> [Calls -> GateStatus]]
      /\ recon' \in [Runs -> [Calls -> ReconStatus]]
      /\ \A q \in Runs : q # r => gate'[q] = gate[q] /\ recon'[q] = recon[q]
      /\ \A j \in Calls : Begun(r, j) => GateOpen(r, j)'
      /\ AskedOK(r)'
  BY CancelRecords
<1>3. Step(r, "cancelled")
  BY <1>1, CancelDoes
<1>4. /\ ledger \in [Runs -> [Calls -> CallRows]] /\ asked \in [Runs -> Calls \cup {0}]
      /\ hand \in [Workers -> [Calls -> Phases]]
  BY ToolsTypes DEF ToolsInv
<1>5. /\ ledger' \in [Runs -> [Calls -> CallRows]] /\ ledger'[r] = Interrupted(r)
      /\ \A q \in Runs : q # r => ledger'[q] = ledger[q]
  BY <1>1, <1>4, InterruptedDoes
<1>6. \A k \in Calls :
        /\ Begun(r, k)' <=> Begun(r, k)
        /\ Completed(r, k)' <=> Completed(r, k)
        /\ ledger'[r][k].result = "ok" => ledger[r][k].result = "ok"
        /\ Script[k].effect = "write" => ledger'[r][k].state # "started"
  BY <1>5, InterruptedDoes, ZenonT(30) DEF Begun, Completed
<1>7. RowStep(r)
  <2>1. run[r].status # "deleted" /\ \A q \in Runs : q # r => run'[q] = run[q]
    BY <1>3 DEF Step, Exists
  <2>2. HandsKept
    BY <1>1, <1>4 DEF HandsKept
  <2> QED BY <1>1, <1>2, <1>5, <1>6, <2>1, <2>2 DEF RowStep
<1>8. OutcomeOK(r)'
  BY <1>3, <1>6 DEF OutcomeOK, Step
<1> QED BY <1>1, <1>2, <1>4, <1>7, <1>8, RowStepKeeps

-----------------------------------------------------------------------------
(* Deletion, and steps that leave the ledger alone.                        *)

\* A conversation is deleted with its runs and their ledgers.
LEMMA DeleteAllKeeps ==
  ASSUME Sound, ToolsInv, NEW c \in Conversations, DeleteAll(c)
  PROVE  ToolsInv'
<1> DEFINE gone == {r \in Runs : Exists(r) /\ run[r].conv = c}
<1>1. /\ Delete(c) /\ UNCHANGED <<claim, hand, wire, done>>
      /\ steps' = [r \in Runs |-> IF r \in gone THEN 0 ELSE steps[r]]
      /\ ledger' = [r \in Runs |-> IF r \in gone THEN [k \in Calls |-> NoCall] ELSE ledger[r]]
      /\ gate' = [r \in Runs |-> IF r \in gone THEN [k \in Calls |-> NoRecord] ELSE gate[r]]
      /\ recon' = [r \in Runs |-> IF r \in gone THEN [k \in Calls |-> NoRecord] ELSE recon[r]]
      /\ asked' = [r \in Runs |-> IF r \in gone THEN 0 ELSE asked[r]]
  BY DEF DeleteAll, Delete
<1>2. /\ \A r \in gone : run'[r].status = "deleted" /\ run'[r].inter.kind = "none"
      /\ \A r \in Runs \ gone : run'[r] = run[r]
  BY <1>1, DeleteColumns, SMT DEF Removes, NoInteraction
<1>3. /\ steps \in [Runs -> 0..(LastStep + 1)] /\ ledger \in [Runs -> [Calls -> CallRows]]
      /\ gate \in [Runs -> [Calls -> GateStatus]] /\ recon \in [Runs -> [Calls -> ReconStatus]]
      /\ asked \in [Runs -> Calls \cup {0}] /\ hand \in [Workers -> [Calls -> Phases]]
      /\ wire \subseteq Requests /\ done \subseteq Requests
  BY ToolsTypes DEF ToolsInv
<1>4. /\ NoCall \in CallRows /\ NoCall.state = "none" /\ NoCall.result = "none"
      /\ NoRecord \in GateStatus /\ NoRecord \in ReconStatus
      /\ LastStep \in Nat /\ 0 \in 0..(LastStep + 1)
  BY ScriptFacts, SMT DEF NoCall, CallRows, GateStatus, ReconStatus
<1> HIDE DEF gone
<1>5. /\ \A r \in Runs, k \in Calls : r \in gone =>
           steps'[r] = 0 /\ ledger'[r][k] = NoCall
      /\ \A r \in Runs : r \notin gone =>
           /\ steps'[r] = steps[r] /\ ledger'[r] = ledger[r] /\ gate'[r] = gate[r]
           /\ recon'[r] = recon[r] /\ asked'[r] = asked[r] /\ run'[r] = run[r]
  BY <1>1, <1>2
<1>6. ToolsTypeOK'
  <2> HIDE DEF CallRows, GateStatus, ReconStatus, NoCall, NoRecord
  <2>1. steps' \in [Runs -> 0..(LastStep + 1)] /\ asked' \in [Runs -> Calls \cup {0}]
    BY <1>1, <1>3, <1>4
  <2>2. ledger' \in [Runs -> [Calls -> CallRows]]
    BY <1>1, <1>3, <1>4
  <2>3. gate' \in [Runs -> [Calls -> GateStatus]] /\ recon' \in [Runs -> [Calls -> ReconStatus]]
    BY <1>1, <1>3, <1>4
  <2>4. hand' \in [Workers -> [Calls -> Phases]] /\ wire' \subseteq Requests /\ done' \subseteq Requests
    BY <1>1, <1>3
  <2> QED BY <2>1, <2>2, <2>3, <2>4 DEF ToolsTypeOK, CallRows, GateStatus, ReconStatus
<1>7. CallsOK'
  <2> SUFFICES ASSUME NEW r \in Runs, NEW k \in Calls
               PROVE  /\ Begun(r, k)' => GateOpen(r, k)'
                                          /\ \A j \in Calls : Before(j, k) => Completed(r, j)'
                      /\ Script[k].step < steps'[r] => Completed(r, k)'
    BY DEF CallsOK
  <2>1. CASE r \in gone
    BY <1>4, <1>5, <2>1, ScriptFacts, SMT DEF Begun
  <2>2. CASE r \notin gone
    BY <1>5, <2>2, ZenonT(40) DEF ToolsInv, CallsOK, Begun, GateOpen, Completed
  <2> QED BY <2>1, <2>2
<1>8. Framed
  <2>1. ASSUME NEW r \in Runs, Live(r)' PROVE r \notin gone
    BY <1>2, <2>1 DEF Live
  <2>2. \A r \in Runs, k \in Calls : Live(r)' => Live(r) /\ (Begun(r, k) => Begun(r, k)')
    BY <1>5, <2>1 DEF Live, Begun
  <2> QED BY <1>1, <2>2 DEF Framed
<1>9. HandsOK' /\ RequestsOK' /\ Once'
  BY <1>8, FramedKeeps DEF ToolsInv
<1>10. QuestionsOK'
  <2> SUFFICES ASSUME NEW r \in Runs PROVE OutcomeOK(r)' /\ AskedOK(r)'
    BY DEF QuestionsOK
  <2>1. CASE r \in gone
    BY <1>2, <2>1 DEF OutcomeOK, AskedOK
  <2>2. CASE r \notin gone
    <3>1. OutcomeOK(r) /\ AskedOK(r)
      BY DEF ToolsInv, QuestionsOK
    <3>2. OutcomeOK(r)'
      BY <1>5, <2>2, <3>1 DEF OutcomeOK, Completed
    <3>3. AskedOK(r)'
      BY <1>5, <2>2, <3>1 DEF AskedOK
    <3> QED BY <3>2, <3>3
  <2> QED BY <2>1, <2>2
<1>11. SuccessMeansEffect'
  BY <1>1, <1>4, <1>5 DEF ToolsInv, SuccessMeansEffect, Applied
<1> QED BY <1>6, <1>7, <1>9, <1>10, <1>11 DEF ToolsInv

\* Steps of a worker with its claim.
LEMMA ClaimStepKeeps ==
  ASSUME Sound, ToolsInv, NEW w \in Workers, ClaimStep(w)
  PROVE  ToolsInv'
<1>a. hand \in [Workers -> [Calls -> Phases]]
  BY DEF ToolsInv, ToolsTypeOK
<1>1. CASE Claim(w) /\ UNCHANGED toolVars
  <2>1. PICK r \in Runs :
          /\ Step(r, "running") /\ claim[w] = NoClaim
          /\ claim' = [claim EXCEPT ![w] = [run |-> r, fence |-> run[r].fence + 1, sent |-> 0]]
    BY <1>1, ClaimDoes
  <2>2. PICK q \in Runs :
          /\ Columns(q, run[q].inter, <<>>, run[q].input)
          /\ claim' = [claim EXCEPT ![w] = [run |-> q, fence |-> run[q].fence + 1, sent |-> 0]]
    BY <1>1, ClaimColumns
  <2>3. q = r
    <3>1. claim'[w].run = r
      BY <2>1 DEF Sound, TypeOK
    <3>2. claim'[w].run = q
      BY <2>2 DEF Sound, TypeOK
    <3> QED BY <3>1, <3>2
  <2>4. hand[w] = IdleHand
    <3>1. \A k \in Calls : hand[w][k] = "idle"
      BY <2>1, SMT DEF ToolsInv, HandsOK, NoClaim
    <3> QED BY <1>a, <3>1 DEF IdleHand
  <2>5. HandsKept
    <3>1. \A v \in Workers : v # w => claim'[v] = claim[v]
      BY <2>1 DEF Sound, TypeOK
    <3> QED BY <1>1, <1>a, <2>4, <3>1 DEF HandsKept, toolVars
  <2>6. /\ UNCHANGED <<steps, ledger, gate, recon, asked, wire, done>>
        /\ run[r].status # "deleted" /\ run'[r].status = "running"
        /\ \A p \in Runs : p # r => run'[p] = run[p]
        /\ run'[r].inter = run[r].inter
    BY <1>1, <2>1, <2>2, <2>3 DEF toolVars, Step, Exists, Columns
  <2> QED BY <2>5, <2>6, QuietKeeps
<1>2. CASE Heartbeat(w) /\ UNCHANGED toolVars
  <2>1. PICK r \in Runs : r = claim[w].run
    BY <1>2, HeartbeatDoes
  <2>2. Step(r, run[r].status) /\ run'[r].inter = run[r].inter /\ claim' = claim
    BY <1>2, <2>1, HeartbeatDoes, HeartbeatColumns DEF Columns, Heartbeat
  <2>3. HandsKept
    BY <1>2, <1>a, <2>2 DEF HandsKept, toolVars
  <2>4. /\ UNCHANGED <<steps, ledger, gate, recon, asked, wire, done>>
        /\ run[r].status # "deleted" /\ run'[r].status = run[r].status
        /\ \A p \in Runs : p # r => run'[p] = run[p]
    BY <1>2, <2>2 DEF toolVars, Step, Exists
  <2> QED BY <2>2, <2>3, <2>4, QuietKeeps
<1>3. CASE CompleteExecutionStep(w)
  BY <1>3, CompleteExecutionStepKeeps
<1>4. CASE StreamAnswer(w)
  <2>1. AppendDelta(w) /\ UNCHANGED toolVars
    BY <1>4 DEF StreamAnswer
  <2>2. PICK r \in Runs : r = claim[w].run
    BY <2>1, AppendDeltaDoes
  <2>3. /\ Step(r, run[r].status) /\ run'[r].inter = run[r].inter
        /\ \A v \in Workers : claim'[v].run = claim[v].run
    BY <2>1, <2>2, AppendDeltaDoes, AppendDeltaColumns DEF Columns
  <2>4. HandsKept
    BY <1>a, <2>1, <2>3 DEF HandsKept, toolVars
  <2>5. /\ UNCHANGED <<steps, ledger, gate, recon, asked, wire, done>>
        /\ run[r].status # "deleted" /\ run'[r].status = run[r].status
        /\ \A p \in Runs : p # r => run'[p] = run[p]
    BY <2>1, <2>3 DEF toolVars, Step, Exists
  <2> QED BY <2>3, <2>4, <2>5, QuietKeeps
<1>5. CASE CompleteRun(w)
  <2>1. FinishCompleted(w) /\ UNCHANGED toolVars /\ hand[w] = IdleHand
        /\ Answered(claim[w].run) /\ claim' = [claim EXCEPT ![w] = NoClaim]
    BY <1>5 DEF CompleteRun, FinishCompleted
  <2>2. PICK r \in Runs : r = claim[w].run
    BY <2>1, FinishCompletedDoes
  <2>3. Step(r, "completed") /\ run'[r].inter = run[r].inter
    BY <2>1, <2>2, FinishCompletedDoes, FinishCompletedColumns DEF Columns
  <2>4. HandsKept
    <3>1. hand' = hand
      BY <2>1 DEF toolVars
    <3> QED BY <2>1, <3>1, HandsDropped
  <2>5. /\ UNCHANGED <<steps, ledger, gate, recon, asked, wire, done>> /\ Answered(r)
        /\ run[r].status # "deleted" /\ run'[r].status = "completed"
        /\ \A p \in Runs : p # r => run'[p] = run[p]
    BY <2>1, <2>2, <2>3 DEF toolVars, Step, Exists
  <2> QED BY <2>3, <2>4, <2>5, QuietKeeps
<1>6. CASE FailRun(w)
  <2>1. /\ FinishFailed(w) /\ hand' = [hand EXCEPT ![w] = IdleHand]
        /\ claim' = [claim EXCEPT ![w] = NoClaim]
        /\ UNCHANGED <<steps, ledger, gate, recon, asked, wire, done>>
    BY <1>6 DEF FailRun, FinishFailed
  <2>2. PICK r \in Runs : r = claim[w].run
    BY <2>1, FinishFailedDoes
  <2>3. Step(r, "failed") /\ run'[r].inter = run[r].inter
    BY <2>1, <2>2, FinishFailedDoes, FinishFailedColumns DEF Columns
  <2>4. HandsKept
    BY <2>1, HandsDropped
  <2>5. /\ run[r].status # "deleted" /\ run'[r].status = "failed"
        /\ \A p \in Runs : p # r => run'[p] = run[p]
    BY <2>3 DEF Step, Exists
  <2> QED BY <2>1, <2>3, <2>4, <2>5, QuietKeeps
<1>7. CASE AbandonCalls(w)
  <2>1. /\ hand' = [hand EXCEPT ![w] = IdleHand] /\ claim' = [claim EXCEPT ![w] = NoClaim]
        /\ UNCHANGED <<run, steps, ledger, gate, recon, asked, wire, done>>
    BY <1>7 DEF AbandonCalls, Abandon
  <2>2. HandsKept
    BY <2>1, HandsDropped
  <2> QED BY <2>1, <2>2, StillKeeps DEF Alike
<1> QED BY <1>1, <1>2, <1>3, <1>4, <1>5, <1>6, <1>7 DEF ClaimStep

\* Steps of a caller with a run.
LEMMA CallerStepKeeps ==
  ASSUME Sound, Rows, ToolsInv, NEW r \in Runs, CallerStep(r)
  PROVE  ToolsInv'
<1>1. CASE InteractionDue(r) /\ UNCHANGED toolVars
  <2>1. /\ Step(r, run[r].status) /\ run'[r].inter = [run[r].inter EXCEPT !.due = TRUE]
        /\ claim' = claim
    BY <1>1, InteractionDueDoes, InteractionDueColumns DEF Columns, InteractionDue
  <2>2. run'[r].inter.kind = run[r].inter.kind /\ run'[r].inter.status = run[r].inter.status
    <3>1. run[r].inter \in Interactions
      BY DEF Sound, TypeOK, RunRows
    <3> QED BY <2>1, <3>1 DEF Interactions
  <2>3. HandsKept
    BY <1>1, <2>1 DEF HandsKept, toolVars, ToolsInv, ToolsTypeOK
  <2>4. /\ UNCHANGED <<steps, ledger, gate, recon, asked, wire, done>>
        /\ run[r].status # "deleted" /\ run'[r].status = run[r].status
        /\ \A p \in Runs : p # r => run'[p] = run[p]
    BY <1>1, <2>1 DEF toolVars, Step, Exists
  <2> QED BY <2>2, <2>3, <2>4, QuietKeeps
<1>2. CASE Resume(r) /\ UNCHANGED toolVars
  <2>1. Step(r, "queued") /\ run'[r].inter = run[r].inter /\ claim' = claim
    BY <1>2, ResumeDoes, ResumeColumns DEF Columns, Resume
  <2>2. HandsKept
    BY <1>2, <2>1 DEF HandsKept, toolVars, ToolsInv, ToolsTypeOK
  <2>3. /\ UNCHANGED <<steps, ledger, gate, recon, asked, wire, done>>
        /\ run[r].status # "deleted" /\ run'[r].status = "queued"
        /\ \A p \in Runs : p # r => run'[p] = run[p]
    BY <1>2, <2>1 DEF toolVars, Step, Exists
  <2> QED BY <2>1, <2>2, <2>3, QuietKeeps
<1> QED BY <1>1, <1>2, RespondExecutionKeeps, ExpireQuestionKeeps, CancelRunKeeps DEF CallerStep

\* Sends, updates, background tasks and time.
LEMMA OtherStepKeeps ==
  ASSUME Sound, ToolsInv, OtherStep
  PROVE  ToolsInv'
<1>1. UNCHANGED <<steps, ledger, gate, recon, asked, hand, wire, done>>
  BY DEF OtherStep, toolVars
<1>2. claim' = claim => HandsKept
  BY <1>1 DEF HandsKept, ToolsInv, ToolsTypeOK
<1>3. ASSUME NEW r \in Runs, NEW c, NEW t, NEW m, Inserts(r, c, t), Inserted(r, c, m),
             claim' = claim
      PROVE  ToolsInv'
  <2>1. /\ run[r].status # "deleted" /\ run'[r].status = "queued"
        /\ \A p \in Runs : p # r => run'[p] = run[p]
        /\ run'[r].inter.kind = "none"
    BY <1>3, SMT DEF Inserts, Inserted, NoInteraction
  <2> QED BY <1>1, <1>2, <1>3, <2>1, QuietKeeps
<1>4. ASSUME NEW c \in Conversations, NEW m \in ClientIDs, Enqueue(c, m) PROVE ToolsInv'
  BY <1>3, <1>4, EnqueueColumns, ZenonT(30) DEF Enqueue
<1>5. ASSUME NEW c \in Conversations, NEW b \in BOOLEAN, Update(c, b) PROVE ToolsInv'
  BY <1>1, <1>2, <1>5, StillKeeps DEF Update, Alike
<1>6. ASSUME NEW t \in Tasks, TaskStep(t) PROVE ToolsInv'
  <2>1. CASE LaunchTask(t)
    BY <1>3, <2>1, LaunchTaskColumns DEF LaunchTask
  <2>2. CASE ~LaunchTask(t)
    <3>1. run' = run /\ claim' = claim
      BY <1>6, <2>2 DEF TaskStep, StartTask, CancelQueuedTask, ResumeQueuedTask
    <3> QED BY <1>1, <1>2, <3>1, StillKeeps DEF Alike
  <2> QED BY <2>1, <2>2
<1>7. CASE Tick
  <2>1. \A r \in Runs : Alike(r)
    BY <1>7, TickDoes, TickColumns DEF Alike, Same, Columns
  <2>2. claim' = claim
    BY <1>7 DEF Tick
  <2> QED BY <1>1, <1>2, <2>1, <2>2, StillKeeps
<1> QED BY <1>4, <1>5, <1>6, <1>7 DEF OtherStep

-----------------------------------------------------------------------------
(* The run queue with tools is as safe as the run queue.                   *)

\* So the claimed check excludes a second worker while tools are executed, and
\* a conversation's active run is its open run, whatever the tools do.
THEOREM ToolsKeepRunsSafe == ToolsSpec => [](SingleHolder /\ ActiveRunIsTheOpenRun)
BY ToolsImplementRun, MutualExclusion, OneForegroundRun, PTL DEF RefinesConversationRun

-----------------------------------------------------------------------------
(* The ledger's safety.                                                    *)

\* Every step keeps the invariant.
LEMMA ToolsInvNext == Sound /\ Rows /\ ToolsInv /\ [ToolsNext]_allVars => ToolsInv'
<1> SUFFICES ASSUME Sound, Rows, ToolsInv, [ToolsNext]_allVars PROVE ToolsInv'
  OBVIOUS
<1>1. ASSUME NEW w \in Workers, NEW k \in Calls, ToolStep(w, k) PROVE ToolsInv'
  BY <1>1, BeginExecutionToolKeeps, InvokeConversationToolKeeps, PhaseStepsKeep,
     FinishExecutionToolKeeps, AskUserKeeps, AwaitReconciliationKeeps DEF ToolStep
<1>2. ASSUME NEW q \in wire, NEW answer \in {"ok", "failed"}, HostExecutes(q, answer)
      PROVE  ToolsInv'
  BY <1>2, HostExecutesKeeps
<1>3. CASE UNCHANGED allVars
  <2>1. HandsKept
    BY <1>3 DEF allVars, HandsKept, ToolsInv, ToolsTypeOK
  <2> QED BY <1>3, <2>1, StillKeeps DEF allVars, Alike
<1> QED BY <1>1, <1>2, <1>3, ClaimStepKeeps, CallerStepKeeps, DeleteAllKeeps, OtherStepKeeps
        DEF ToolsNext

\* The life cycle's invariant and the ledger's.
LEMMA ToolsInvariant == ToolsSpec => [](Sound /\ ToolsInv)
<1>1. ToolsSpec => [](Sound /\ Rows)
  BY ToolsImplementRun, RowsInvariant, PTL DEF RefinesConversationRun
<1> QED BY <1>1, ToolsInvInit, ToolsInvNext, PTL DEF ToolsSpec

\* Every ledger row, record, request and worker's progress stays of its type.
THEOREM ToolsTypeCorrect == ToolsSpec => []ToolsTypeOK
BY ToolsInvSays, ToolsInvariant, PTL

\* A write takes effect at most once, whatever crashes, replays and late
\* requests do: BeginExecutionTool invokes a tool without deduplication once,
\* and the host serves the others once per key.
THEOREM AtMostOneEffect == ToolsSpec => []EffectAtMostOnce
BY ToolsInvSays, ToolsInvariant, PTL

\* A request for a confirmed write reaches the host only after approval, which
\* is never withdrawn: a record is closed only while its call has not begun.
THEOREM EffectsAreApproved == ToolsSpec => []NoEffectWithoutApproval
BY ToolsInvSays, ToolsInvariant, PTL

\* What reached the host left no call of an earlier batch unsettled.
THEOREM EffectsFollowTheScript == ToolsSpec => []EffectsInOrder
BY ToolsInvSays, ToolsInvariant, PTL

\* A success on record is an effect the host applied, also when the receipt
\* comes from a reconciliation or after a cancellation.
THEOREM SuccessIsReal == ToolsSpec => []SuccessMeansEffect
BY ToolsInvSays, ToolsInvariant, PTL

\* The question in the run row and its record never disagree, so closing one
\* with the other cannot fail.
THEOREM CopiesAgree == ToolsSpec => []InteractionCopiesAgree
BY ToolsInvSays, ToolsInvariant, PTL

\* A run waits for reconciliation only of an uncertain call, completes with
\* every call settled, and once cancelled has no write marked started.
THEOREM OutcomesAreHeld == ToolsSpec => []UnknownOutcomesAreHeld
BY ToolsInvSays, ToolsInvariant, PTL

\* No step but a deletion rewrites a completed receipt.
LEMMA ReceiptKept ==
  ASSUME Sound, ToolsInv, [ToolsNext]_allVars, NEW r \in Runs, NEW k \in Calls,
         Completed(r, k), run'[r].status # "deleted"
  PROVE  ledger'[r][k] = ledger[r][k]
<1>1. ledger \in [Runs -> [Calls -> CallRows]]
  BY ToolsTypes DEF ToolsInv
<1> USE DEF Completed
<1> HIDE DEF CallRows
<1>2. ASSUME NEW q, NEW j, NEW row, ledger' = [ledger EXCEPT ![q][j] = row],
             ledger[q][j].state # "completed"
      PROVE  ledger'[r][k] = ledger[r][k]
  BY <1>1, <1>2
<1>3. ASSUME NEW w \in Workers, NEW j \in Calls, ToolStep(w, j)
      PROVE  ledger'[r][k] = ledger[r][k]
  <2>1. CASE BeginExecutionTool(w, j)
    <3> DEFINE q == claim[w].run
               row == [ledger[q][j] EXCEPT
                         !.state = IF ledger[q][j].state = "none" THEN "started"
                                   ELSE ledger[q][j].state,
                         !.fence = claim[w].fence]
    <3>1. ledger' = [ledger EXCEPT ![q][j] = row] /\ ledger[q][j].state # "completed"
      BY <2>1 DEF BeginExecutionTool
    <3> HIDE DEF q, row
    <3> QED BY <1>2, <3>1
  <2>2. CASE FinishExecutionTool(w, j)
    <3>1. \A q \in Runs, i \in Calls :
            ~(q = claim[w].run /\ i = j) => ledger'[q][i] = ledger[q][i]
      BY <2>2, FinishExecutionToolDoes, SMTT(30)
    <3> QED BY <2>2, <3>1 DEF FinishExecutionTool
  <2>3. CASE ~BeginExecutionTool(w, j) /\ ~FinishExecutionTool(w, j)
    <3>1. ledger' = ledger
      BY <1>3, <2>3 DEF ToolStep, InvokeConversationTool, CallLost, ReconcileConversationTool,
         AskUser, AwaitReconciliation
    <3> QED BY <3>1
  <2> QED BY <2>1, <2>2, <2>3
<1>4. ASSUME NEW q \in Runs, CancelRun(q) PROVE ledger'[r][k] = ledger[r][k]
  <2>1. ledger' = [ledger EXCEPT ![q] = Interrupted(q)]
    BY <1>4 DEF CancelRun
  <2>2. Interrupted(r)[k] = ledger[r][k]
    BY DEF Interrupted
  <2> QED BY <1>1, <2>1, <2>2
<1>5. ASSUME NEW c \in Conversations, DeleteAll(c) PROVE ledger'[r][k] = ledger[r][k]
  <2>1. ~(Exists(r) /\ run[r].conv = c)
    BY <1>5, DeleteDoes DEF DeleteAll, Removes
  <2> QED BY <1>5, <2>1 DEF DeleteAll
<1>6. ASSUME NEW w \in Workers, ClaimStep(w) PROVE ledger' = ledger
  BY <1>6 DEF ClaimStep, CompleteExecutionStep, StreamAnswer, CompleteRun, FailRun,
     AbandonCalls, toolVars
<1>7. ASSUME NEW q \in Runs, CallerStep(q), ~CancelRun(q) PROVE ledger' = ledger
  BY <1>7 DEF CallerStep, RespondExecution, ExpireQuestion, toolVars
<1>8. OtherStep => ledger' = ledger
  BY DEF OtherStep, toolVars
<1>9. ASSUME NEW q, NEW answer, HostExecutes(q, answer) PROVE ledger' = ledger
  BY <1>9 DEF HostExecutes
<1>10. UNCHANGED allVars => ledger' = ledger
  BY DEF allVars
<1> QED BY <1>3, <1>4, <1>5, <1>6, <1>7, <1>8, <1>9, <1>10 DEF ToolsNext

\* FinishExecutionTool, Begin and Cancel never rewrite a completed receipt.
THEOREM CompletedReceiptsStay == ToolsSpec => ReceiptsAreFinal
<1>1. Sound /\ ToolsInv /\ [ToolsNext]_allVars =>
        [\A r \in Runs, k \in Calls :
           Completed(r, k) /\ run'[r].status # "deleted" => ledger'[r][k] = ledger[r][k]]_allVars
  BY ReceiptKept
<1> QED BY <1>1, ToolsInvariant, PTL DEF ToolsSpec, ReceiptsAreFinal

=============================================================================
