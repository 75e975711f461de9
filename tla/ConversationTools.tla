-------------------------- MODULE ConversationTools --------------------------
(***************************************************************************)
(* The execution ledger of a conversation run and the external tools it    *)
(* drives: model steps, tool calls with their receipts, the questions put  *)
(* to the user, and the host that applies the effects.  The module extends *)
(* ConversationRun: each action here that touches a run row is the action  *)
(* of ConversationRun with the ledger part of the same transaction added.  *)
(*                                                                         *)
(* Script is the sequence of tool calls the model asks for; every run gets *)
(* the same one.  A call belongs to a step and, within it, to a batch:     *)
(* calls of one batch may overlap (parallel reads), batches follow one     *)
(* another.                                                                *)
(***************************************************************************)
EXTENDS ConversationRun

CONSTANTS
  Script      \* sequence of [step, batch, effect, idem, gate]

Calls == 1..Len(Script)

ASSUME ScriptAssumption ==
  /\ Script \in Seq([step : Nat, batch : Nat, effect : {"read", "write"},
                     idem : {"key", "reconcile"},
                     gate : {"none", "input", "confirmation"}])
  /\ \A j, k \in Calls : j < k =>
       \/ Script[j].step < Script[k].step
       \/ Script[j].step = Script[k].step /\ Script[j].batch <= Script[k].batch
  /\ \A j, k \in Calls :
       j # k /\ Script[j].step = Script[k].step /\ Script[j].batch = Script[k].batch
         => Script[j].effect = "read" /\ Script[j].gate = "none"
  /\ \A k \in Calls : Script[k].gate = "input" => Script[k].effect = "read"

VARIABLES
  steps,    \* steps[r]: model steps of r with a stored result
  ledger,   \* ledger[r][k]: the tool call row
  gate,     \* gate[r][k]: status of the call's input or confirmation record
  recon,    \* recon[r][k]: status of the call's reconciliation record
  asked,    \* asked[r]: the call of the run row's current interaction
  hand,     \* hand[w][k]: how far worker w has got with call k of its claim
  wire,     \* requests sent to the host and not yet executed
  done      \* effects the host has applied: one record per execution

toolVars == <<steps, ledger, gate, recon, asked, hand, wire, done>>
allVars == <<conv, run, task, claim, steps, ledger, gate, recon, asked, hand, wire, done>>

LastStep == IF Script = <<>> THEN 0 ELSE Script[Len(Script)].step
NoCall == [state |-> "none", result |-> "none", fence |-> 0]
NoRecord == "none"
Phases == {"idle", "invoke", "reconcile", "sent", "ok", "failed", "unknown", "wait"}
Requests == [run : Runs, call : Calls, fence : Nat]

\* Every ledger row, record and request holds the values the code stores: a
\* call's state and result, an interaction's status, a worker's progress.
ToolsTypeOK ==
  /\ steps \in [Runs -> 0..(LastStep + 1)]
  /\ ledger \in [Runs -> [Calls ->
       [state : {"none", "started", "uncertain", "completed"},
        result : {"none", "ok", "failed", "uncertain"}, fence : Nat]]]
  /\ gate \in [Runs -> [Calls -> {NoRecord, "pending", "answered", "approved"} \cup Closed]]
  /\ recon \in [Runs -> [Calls -> {NoRecord, "pending", "cancelled", "resolved"}]]
  /\ asked \in [Runs -> Calls \cup {0}]
  /\ hand \in [Workers -> [Calls -> Phases]]
  /\ wire \subseteq Requests
  /\ done \subseteq Requests

IdleHand == [k \in Calls |-> "idle"]

ToolsInit ==
  /\ Init
  /\ steps = [r \in Runs |-> 0]
  /\ ledger = [r \in Runs |-> [k \in Calls |-> NoCall]]
  /\ gate = [r \in Runs |-> [k \in Calls |-> NoRecord]]
  /\ recon = [r \in Runs |-> [k \in Calls |-> NoRecord]]
  /\ asked = [r \in Runs |-> 0]
  /\ hand = [w \in Workers |-> IdleHand]
  /\ wire = {}
  /\ done = {}

-----------------------------------------------------------------------------
(* Model steps.                                                            *)

Completed(r, k) == ledger[r][k].state = "completed"

\* (mutant) a call of unknown outcome does not hold the next step back.
NoCallStarted(r) ==
  \A k \in Calls : Script[k].step <= steps[r] => ledger[r][k].state \notin {"none", "started"}

\* ExecutionStep inserts the next step only when every call of the previous
\* one is completed.
ExecutionStep(r) == \A k \in Calls : Script[k].step <= steps[r] => Completed(r, k)

\* CompleteExecutionStep stores the model's result: the calls of the next
\* step or, after the last, the final answer.
CompleteExecutionStep(w) ==
  LET r == claim[w].run IN
  /\ Claimed(w)
  /\ hand[w] = IdleHand
  /\ steps[r] <= LastStep
  /\ ExecutionStep(r)
  /\ steps' = [steps EXCEPT ![r] = @ + 1]
  /\ UNCHANGED <<vars, ledger, gate, recon, asked, hand, wire, done>>

Answered(r) == steps[r] = LastStep + 1

-----------------------------------------------------------------------------
(* Tool calls.                                                             *)

\* Call j belongs to an earlier batch than call k.
Before(j, k) ==
  \/ Script[j].step < Script[k].step
  \/ Script[j].step = Script[k].step /\ Script[j].batch < Script[k].batch

\* (mutant) the calls of a step start without regard to their order.
Offered(w, k) == Claimed(w) /\ Script[k].step <= steps[claim[w].run]

\* A call is offered by the stored result of its step, to a worker that has
\* come to its batch.
Reached(w, k) ==
  /\ Claimed(w)
  /\ Script[k].step <= steps[claim[w].run]
  /\ \A j \in Calls : Before(j, k) => Completed(claim[w].run, j) /\ hand[w][j] = "idle"

\* (mutant) only an open question holds the call back.
NothingPending(r, k) == gate[r][k] # "pending"

\* The write tool's confirmation, or ask_user's answer, is there.
GateOpen(r, k) ==
  CASE Script[k].gate = "none" -> TRUE
    [] Script[k].gate = "confirmation" -> gate[r][k] = "approved"
    [] Script[k].gate = "input" -> gate[r][k] = "answered"

\* (mutant) every replay is invoked again.
AlwaysInvoke(k, state) == IF Script[k].gate = "input" THEN "ok" ELSE "invoke"

\* ask_user returns the stored answer without leaving the process.  Of the
\* others, only a call that was never invoked, or a replay the host deduplicates by
\* key, is invoked; anything else asks the host what happened.
Mode(k, state) ==
  IF Script[k].gate = "input" THEN "ok"
  ELSE IF state = "uncertain" \/ (state = "started" /\ Script[k].idem = "reconcile")
  THEN "reconcile" ELSE "invoke"

\* BeginExecutionTool: reserve the call, or take over an unfinished one.
BeginExecutionTool(w, k) ==
  LET r == claim[w].run
      row == ledger[r][k] IN
  /\ Reached(w, k)
  /\ hand[w][k] = "idle"
  /\ ~Completed(r, k)
  /\ GateOpen(r, k)
  /\ ledger' = [ledger EXCEPT ![r][k] =
       [row EXCEPT !.state = IF row.state = "none" THEN "started" ELSE row.state,
                   !.fence = claim[w].fence]]
  /\ hand' = [hand EXCEPT ![w][k] = Mode(k, row.state)]
  /\ UNCHANGED <<vars, steps, gate, recon, asked, wire, done>>

\* InvokeConversationTool leaves the process.  The request names the call, by
\* its idempotency key, and the claim.
InvokeConversationTool(w, k) ==
  /\ hand[w][k] = "invoke"
  /\ hand' = [hand EXCEPT ![w][k] = "sent"]
  /\ wire' = wire \cup {[run |-> claim[w].run, call |-> k, fence |-> claim[w].fence]}
  /\ UNCHANGED <<vars, steps, ledger, gate, recon, asked, done>>

\* IdempotencyKey: derived from run, step and call, the same for every attempt.
IdempotencyKey(q) == <<q.run, q.call>>

\* The host executes a request, at once or long after the worker gave up; a
\* tool with idempotency "key" recognises a key it has served.  The answer
\* reaches the worker if it still waits for this request.
HostExecutes(q, answer) ==
  LET known == \E p \in done : IdempotencyKey(p) = IdempotencyKey(q)
      waiting == {w \in Workers : /\ claim[w].run = q.run /\ claim[w].fence = q.fence
                                  /\ hand[w][q.call] = "sent"} IN
  /\ q \in wire
  /\ wire' = wire \ {q}
  /\ done' = IF answer = "failed" \/ (known /\ Script[q.call].idem = "key")
             THEN done ELSE done \cup {q}
  /\ hand' = [w \in Workers |-> IF w \in waiting
                                THEN [hand[w] EXCEPT ![q.call] = answer] ELSE hand[w]]
  /\ UNCHANGED <<vars, steps, ledger, gate, recon, asked>>

\* The call times out, is interrupted, or its reply is lost or invalid.
CallLost(w, k) ==
  /\ hand[w][k] = "sent"
  /\ hand' = [hand EXCEPT ![w][k] = IF Script[k].effect = "write"
                                    THEN "unknown" ELSE "failed"]
  /\ UNCHANGED <<vars, steps, ledger, gate, recon, asked, wire, done>>

Applied(r, k) == \E p \in done : p.run = r /\ p.call = k

\* ReconcileConversationTool asks for the actual result.  The host reports
\* success only of an effect it applied, and failure only when it knows of
\* neither an effect nor a request under way; or nothing is learnt.
ReconcileConversationTool(w, k, answer) ==
  LET r == claim[w].run IN
  /\ hand[w][k] = "reconcile"
  /\ answer = "ok" => Applied(r, k)
  /\ answer = "failed" => ~Applied(r, k) /\ \A q \in wire : q.run # r \/ q.call # k
  /\ answer = "unknown" => Script[k].effect = "write"
  /\ hand' = [hand EXCEPT ![w][k] = answer]
  /\ UNCHANGED <<vars, steps, ledger, gate, recon, asked, wire, done>>

\* (mutants) the phase is stored as it is; a lost reply is taken for success.
RawResult(phase) == phase
HopefulResult(phase) == IF phase = "unknown" THEN "ok" ELSE phase

\* The result FinishExecutionTool stores.
Result(phase) == IF phase = "unknown" THEN "uncertain" ELSE phase

\* FinishExecutionTool: the receipt is accepted from the live claim or, once
\* the run is cancelled, from the invocation the cancellation interrupted.  A
\* definite result resolves the run's reconciliation of this very call.
FinishExecutionTool(w, k) ==
  LET r == claim[w].run
      result == Result(hand[w][k])
      settled == result # "uncertain"
      resolves == settled /\ run[r].inter.kind = "reconciliation" /\ asked[r] = k
      closed == CloseInteraction(run[r].inter, "resolved") IN
  /\ hand[w][k] \in {"ok", "failed", "unknown"}
  /\ Claimed(w) \/ (CancelledReceipt(w) /\ ledger[r][k].fence = claim[w].fence)
  /\ ~Completed(r, k)
  /\ ledger' = [ledger EXCEPT ![r][k] =
       [ledger[r][k] EXCEPT !.result = result,
                            !.state = IF settled THEN "completed" ELSE "uncertain"]]
  /\ hand' = [hand EXCEPT ![w][k] = IF settled THEN "idle" ELSE "wait"]
  /\ IF resolves /\ closed # run[r].inter
     THEN ResolveReconciliation(w) /\ recon' = [recon EXCEPT ![r][k] = "resolved"]
     ELSE UNCHANGED <<vars, recon>>
  /\ UNCHANGED <<steps, gate, asked, wire, done>>

-----------------------------------------------------------------------------
(* Questions.                                                              *)

\* A call that needs the user's answer or approval parks the run; a record
\* still pending from an earlier attempt is used again.
AskUser(w, k) ==
  LET r == claim[w].run IN
  /\ Reached(w, k)
  /\ hand[w] = IdleHand
  /\ Script[k].gate # "none"
  /\ ledger[r][k].state = "none"
  /\ gate[r][k] \in {NoRecord, "pending"}
  /\ WaitExecution(w, Script[k].gate)
  /\ gate' = [gate EXCEPT ![r][k] = "pending"]
  /\ asked' = [asked EXCEPT ![r] = k]
  /\ UNCHANGED <<steps, ledger, recon, hand, wire, done>>

\* After an uncertain receipt the run waits for reconciliation; a record that
\* a cancellation closed is opened again.
AwaitReconciliation(w, k) ==
  LET r == claim[w].run IN
  /\ hand[w][k] = "wait"
  /\ ledger[r][k].state = "uncertain"
  /\ recon[r][k] \in {NoRecord, "pending", "cancelled"}
  /\ WaitExecution(w, "reconciliation")
  /\ recon' = [recon EXCEPT ![r][k] = "pending"]
  /\ asked' = [asked EXCEPT ![r] = k]
  /\ hand' = [hand EXCEPT ![w] = IdleHand]
  /\ UNCHANGED <<steps, ledger, gate, wire, done>>

\* The calls a confirmation of k may cover: k and the later calls of its step
\* that need one too.
Listed(k) ==
  {j \in Calls : j >= k /\ Script[j].step = Script[k].step /\ Script[j].effect = "write"
                        /\ Script[j].gate = "confirmation"}

\* approveListedOperations: none of them has started, the others have no
\* record of their own.
ListedApprovable(r, k) ==
  \A j \in Listed(k) : ledger[r][j].state = "none" /\ (j # k => gate[r][j] = NoRecord)

\* RespondExecution, for the call asked about or for all listed operations.
RespondExecution(r, decision, listed) ==
  LET k == asked[r]
      outcome == Outcome(run[r].inter.kind, decision) IN
  /\ Respond(r, decision)
  /\ listed => decision = "approve" /\ Cardinality(Listed(k)) > 1 /\ ListedApprovable(r, k)
  /\ gate' = [gate EXCEPT ![r] = [j \in Calls |->
       IF j = k \/ (listed /\ j \in Listed(k)) THEN outcome ELSE @[j]]]
  /\ UNCHANGED <<steps, ledger, recon, asked, hand, wire, done>>

\* (mutant) only the run row is closed.
ExpireRunOnly(r) == ExpireInteraction(r) /\ UNCHANGED toolVars

\* expireInteraction also closes the record of the question.
ExpireQuestion(r) ==
  /\ ExpireInteraction(r)
  /\ gate' = [gate EXCEPT ![r][asked[r]] = "expired"]
  /\ UNCHANGED <<steps, ledger, recon, asked, hand, wire, done>>

\* (mutant) settled receipts are marked too.
InterruptedAll(r) ==
  [k \in Calls |-> IF ledger[r][k].state # "none" /\ Script[k].effect = "write"
                   THEN [ledger[r][k] EXCEPT !.state = "uncertain", !.result = "uncertain"]
                   ELSE ledger[r][k]]

\* Cancel: interruptConversationWrites marks the started writes uncertain,
\* and the run's pending question is closed.
Interrupted(r) ==
  [k \in Calls |-> IF ledger[r][k].state = "started" /\ Script[k].effect = "write"
                   THEN [ledger[r][k] EXCEPT !.state = "uncertain", !.result = "uncertain"]
                   ELSE ledger[r][k]]

\* Cancel closes the interaction record with the run row.
CancelRun(r) ==
  LET pending == run[r].inter.status = "pending"
      kind == run[r].inter.kind IN
  /\ Cancel(r)
  /\ ledger' = [ledger EXCEPT ![r] = Interrupted(r)]
  /\ gate' = IF pending /\ kind # "reconciliation"
             THEN [gate EXCEPT ![r][asked[r]] = "cancelled"] ELSE gate
  /\ recon' = IF pending /\ kind = "reconciliation"
              THEN [recon EXCEPT ![r][asked[r]] = "cancelled"] ELSE recon
  /\ UNCHANGED <<steps, asked, hand, wire, done>>

-----------------------------------------------------------------------------
(* The end of a claim, and of a conversation.                              *)

\* execute finishes with the stored answer once every step is done.
CompleteRun(w) ==
  /\ Claimed(w)
  /\ Answered(claim[w].run)
  /\ hand[w] = IdleHand
  /\ FinishCompleted(w)
  /\ UNCHANGED toolVars

StreamAnswer(w) ==
  /\ Claimed(w)
  /\ Answered(claim[w].run)
  /\ AppendDelta(w)
  /\ UNCHANGED toolVars

\* execute returns with an error while no call is at the host: before one left
\* the process, after its receipt was recorded, or because it could not be.
FailRun(w) ==
  /\ \A k \in Calls : hand[w][k] # "sent"
  /\ FinishFailed(w)
  /\ hand' = [hand EXCEPT ![w] = IdleHand]
  /\ UNCHANGED <<steps, ledger, gate, recon, asked, wire, done>>

AbandonCalls(w) ==
  /\ Abandon(w)
  /\ hand' = [hand EXCEPT ![w] = IdleHand]
  /\ UNCHANGED <<steps, ledger, gate, recon, asked, wire, done>>

DeleteAll(c) ==
  LET gone == {r \in Runs : Exists(r) /\ run[r].conv = c} IN
  /\ Delete(c)
  /\ steps' = [r \in Runs |-> IF r \in gone THEN 0 ELSE steps[r]]
  /\ ledger' = [r \in Runs |-> IF r \in gone THEN [k \in Calls |-> NoCall] ELSE ledger[r]]
  /\ gate' = [r \in Runs |-> IF r \in gone THEN [k \in Calls |-> NoRecord] ELSE gate[r]]
  /\ recon' = [r \in Runs |-> IF r \in gone THEN [k \in Calls |-> NoRecord] ELSE recon[r]]
  /\ asked' = [r \in Runs |-> IF r \in gone THEN 0 ELSE asked[r]]
  /\ UNCHANGED <<hand, wire, done>>

-----------------------------------------------------------------------------
ToolStep(w, k) ==
  \/ BeginExecutionTool(w, k)
  \/ InvokeConversationTool(w, k)
  \/ CallLost(w, k)
  \/ \E answer \in {"ok", "failed", "unknown"} : ReconcileConversationTool(w, k, answer)
  \/ FinishExecutionTool(w, k)
  \/ AskUser(w, k)
  \/ AwaitReconciliation(w, k)

ClaimStep(w) ==
  \/ (Claim(w) \/ Heartbeat(w)) /\ UNCHANGED toolVars
  \/ CompleteExecutionStep(w)
  \/ StreamAnswer(w)
  \/ CompleteRun(w)
  \/ FailRun(w)
  \/ AbandonCalls(w)

CallerStep(r) ==
  \/ \E decision \in Decisions, listed \in BOOLEAN : RespondExecution(r, decision, listed)
  \/ ExpireQuestion(r)
  \/ CancelRun(r)
  \/ (InteractionDue(r) \/ Resume(r)) /\ UNCHANGED toolVars

OtherStep ==
  /\ \/ \E c \in Conversations, m \in ClientIDs : Enqueue(c, m)
     \/ \E c \in Conversations, b \in BOOLEAN : Update(c, b)
     \/ \E t \in Tasks : TaskStep(t)
     \/ Tick
  /\ UNCHANGED toolVars

ToolsNext ==
  \/ \E w \in Workers, k \in Calls : ToolStep(w, k)
  \/ \E w \in Workers : ClaimStep(w)
  \/ \E r \in Runs : CallerStep(r)
  \/ \E c \in Conversations : DeleteAll(c)
  \/ \E q \in wire, answer \in {"ok", "failed"} : HostExecutes(q, answer)
  \/ OtherStep

ToolsSpec == ToolsInit /\ [][ToolsNext]_allVars

-----------------------------------------------------------------------------
(* Safety.                                                                 *)

\* A write takes effect at most once, through crashes, lost replies, late
\* requests, reclaims, cancellations and resumes: a replay is deduplicated by
\* its key or asks for the result instead of invoking again.
EffectAtMostOnce ==
  \A p, q \in done :
    IdempotencyKey(p) = IdempotencyKey(q) /\ Script[p.call].effect = "write" => p = q

\* A write that needs the user's confirmation reaches the host only after the
\* user approved this very call, alone or in a listed scope.
NoEffectWithoutApproval ==
  \A q \in wire \cup done :
    Script[q.call].gate = "confirmation" /\ run[q.run].status # "deleted"
      => gate[q.run][q.call] = "approved"

\* Effects follow the order of the model's calls: nothing reaches the host
\* while a call of an earlier batch is unsettled.
EffectsInOrder ==
  \A q \in wire \cup done : \A j \in Calls :
    Before(j, q.call) /\ run[q.run].status # "deleted" => Completed(q.run, j)

\* A write's success on record is an effect the host applied.
SuccessMeansEffect ==
  \A r \in Runs, k \in Calls :
    Script[k].effect = "write" /\ ledger[r][k].result = "ok" => Applied(r, k)

\* The interaction in the run row and the record in the interaction table
\* agree, so that closing a question never fails with interaction_closed.
InteractionCopiesAgree ==
  \A r \in Runs : run[r].inter.kind # "none" =>
    /\ asked[r] # 0
    /\ run[r].inter.status = IF run[r].inter.kind = "reconciliation"
                             THEN recon[r][asked[r]] ELSE gate[r][asked[r]]

\* No outcome is taken for known: a run waits for reconciliation only while the
\* call it asks about is of unknown outcome, a completed run leaves no call
\* unsettled, and a cancelled one no write marked started, also if a receipt
\* arrives late.
UnknownOutcomesAreHeld ==
  \A r \in Runs :
    /\ run[r].status = "needs_reconciliation"
         => asked[r] # 0 /\ ledger[r][asked[r]].state = "uncertain"
    /\ run[r].status = "completed" => \A k \in Calls : Completed(r, k)
    /\ run[r].status = "cancelled"
         => \A k \in Calls : Script[k].effect = "write" => ledger[r][k].state # "started"

\* A completed receipt never changes while its run exists.
ReceiptsAreFinal ==
  [][\A r \in Runs, k \in Calls :
       Completed(r, k) /\ run'[r].status # "deleted" => ledger'[r][k] = ledger[r][k]]_allVars

\* The ledger changes nothing about the run's life cycle: every behaviour with
\* tools is a behaviour of ConversationRun.
RefinesConversationRun == Spec

=============================================================================
