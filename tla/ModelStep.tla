------------------------------ MODULE ModelStep ------------------------------
(***************************************************************************)
(* The model calls of delegated runs: the work budget the delegations of   *)
(* one root conversation share (its ledger row, with reservations and      *)
(* allocations), the model attempts recorded on each run, and the loop of  *)
(* generateConversationExecution that ties them together.  A worker makes  *)
(* one transaction after another (reserve, begin, start, fail, release,    *)
(* save), each refused once its claim is lost; between any two of them the *)
(* lease may expire, the run may be cancelled, another worker may reclaim  *)
(* it, or the process may stop.                                            *)
(*                                                                         *)
(* A claim is known by its number, which is run.Attempt as well as what    *)
(* the fence compares.  A reservation asks for the same bounds every time; *)
(* the model cost is one more sum of the same kind and left out.  A run    *)
(* has one reservation at a time, as its key is the run and the step.      *)
(***************************************************************************)
EXTENDS Integers, Sequences, FiniteSets, FiniteSetsExt

CONSTANTS
  Runs,                \* runs of delegated tasks of one root conversation
  Workers,             \* worker goroutines of all instances
  Tokens,              \* token upper bound of one call
  Time,                \* MaxDurationMilliseconds of one call, in ticks
  BudgetTokens,        \* ConversationWorkBudget, tokens
  BudgetTime,          \* ConversationWorkBudget, ticks
  MaxModelAttempts,    \* ConversationOptions.MaxModelAttempts
  MaxSteps,            \* bound: steps of one run
  MaxClaims            \* bound: claims of one run

ASSUME ModelStepConstants ==
  /\ IsFiniteSet(Runs)
  /\ {Tokens, Time, BudgetTokens, BudgetTime} \subseteq Nat \ {0}
  /\ {MaxModelAttempts, MaxSteps, MaxClaims} \subseteq Nat \ {0}

VARIABLES
  run,       \* run rows: status, claim number, lease, results of finished steps
  attempt,   \* run.ModelAttempts
  ledger,    \* usage, and the allocation of each delegation
  hold,      \* ledger.Reservations
  worker     \* each worker's claim and place in the loop

vars == <<run, attempt, ledger, hold, worker>>

Idle == [pc |-> "idle"]
NoHold == [claim |-> 0, counted |-> FALSE]
NoUse == [tokens |-> 0, time |-> 0, calls |-> 0]
Uses == [tokens : Nat, time : Nat, calls : Nat]
Steps == 1..MaxSteps
Working == {"top", "reserved", "begun", "calling", "answered", "failed", "refused",
            "waiting", "stopping"}
Attempts == [step : Steps, claim : Nat, number : Nat,
             status : {"started", "failed", "retry_scheduled", "completed"}, due : BOOLEAN]

\* Every row and every worker holds values the code can give it.
TypeOK ==
  /\ run \in [Runs -> [status : {"queued", "running", "ended"}, claim : 0..MaxClaims,
                       leased : BOOLEAN, results : Seq(0..Tokens)]]
  /\ attempt \in [Runs -> Seq(Attempts)]
  /\ ledger.usage \in Uses /\ ledger.alloc \in [Runs -> Uses]
  /\ hold \in [Runs -> [claim : 0..MaxClaims, counted : BOOLEAN]]
  /\ worker \in [Workers -> {Idle} \cup [pc : Working, run : Runs, claim : 1..MaxClaims,
                                         window : Nat]]

Init ==
  /\ run = [r \in Runs |-> [status |-> "queued", claim |-> 0, leased |-> FALSE,
                            results |-> <<>>]]
  /\ attempt = [r \in Runs |-> <<>>]
  /\ ledger = [usage |-> NoUse, alloc |-> [r \in Runs |-> NoUse]]
  /\ hold = [r \in Runs |-> NoHold]
  /\ worker = [w \in Workers |-> Idle]

-----------------------------------------------------------------------------
(* Claims.                                                                 *)

\* claimed: the row still carries this claim and a live lease.
Claimed(w) ==
  /\ worker[w] # Idle
  /\ LET row == run[worker[w].run] IN
       row.status = "running" /\ row.leased /\ row.claim = worker[w].claim

At(w, pc) == worker[w].pc = pc /\ Claimed(w)
Go(w, pc) == worker' = [worker EXCEPT ![w].pc = pc]
StepOf(r) == Len(run[r].results) + 1

\* conversationModelAttemptIndex and latestConversationModelAttempt: the last
\* attempt of this step made under this claim, or 0.
LatestAttempt(r, step, claim) ==
  Max({0} \cup {i \in DOMAIN attempt[r] :
                  attempt[r][i].step = step /\ attempt[r][i].claim = claim})

\* The retry window a worker finds in the run it claimed, or 0.
RetryWindow(r, claim) ==
  LET i == LatestAttempt(r, StepOf(r), claim) IN
  IF i # 0 /\ attempt[r][i].status = "retry_scheduled" THEN i ELSE 0

\* With this many results stored, the loop goes on or has the final answer.
Resumed(results) == IF results = MaxSteps THEN "stopping" ELSE "top"

\* Claim of a queued run, or of one whose lease has expired; either way it is
\* the run's next attempt.
Claim(w, r) ==
  LET n == run[r].claim + 1 IN
  /\ worker[w] = Idle
  /\ run[r].status = "queued" \/ (run[r].status = "running" /\ ~run[r].leased)
  /\ run' = [run EXCEPT ![r].status = "running", ![r].leased = TRUE, ![r].claim = n]
  /\ worker' = [worker EXCEPT ![w] = [pc |-> Resumed(Len(run[r].results)), run |-> r,
                                      claim |-> n, window |-> RetryWindow(r, n)]]
  /\ UNCHANGED <<attempt, ledger, hold>>

-----------------------------------------------------------------------------
(* The ledger.                                                             *)

Plus(u, tokens, time, calls) ==
  [tokens |-> u.tokens + tokens, time |-> u.time + time, calls |-> u.calls + calls]

\* The same amount on the ledger's usage and on the delegation's allocation.
Charge(l, r, tokens, time, calls) ==
  [usage |-> Plus(l.usage, tokens, time, calls),
   alloc |-> [l.alloc EXCEPT ![r] = Plus(@, tokens, time, calls)]]

Held(r) == hold[r] # NoHold

\* (mutant) a reservation whose call was not counted yet is dropped too.
StaleUncounted(r) ==
  Held(r) /\ ~(run[r].status = "running" /\ hold[r].counted /\ run[r].claim = hold[r].claim)

\* pruneConversationWorkReservations: the run behind it is over, was reclaimed
\* or lost its lease.
Stale(r) ==
  Held(r) /\ ~(run[r].status = "running" /\ run[r].leased /\ run[r].claim = hold[r].claim)

\* (mutant) an abandoned call is charged to the ledger only.
AbandonedUnallocated(l, r, time) ==
  IF hold[r].counted THEN [l EXCEPT !.usage = Plus(@, 0, time, 0)] ELSE l

\* settleAbandonedConversationWork: a call that was started costs its time.
Abandoned(l, r, time) == IF hold[r].counted THEN Charge(l, r, 0, time, 0) ELSE l

\* The ledger after the prune, when the abandoned calls took these times.
Pruned(time) ==
  LET spent == [r \in Runs |-> IF Stale(r) /\ hold[r].counted THEN time[r] ELSE 0] IN
  [usage |-> Plus(ledger.usage, 0, SumFunction(spent), 0),
   alloc |-> [r \in Runs |-> Plus(ledger.alloc[r], 0, spent[r], 0)]]

Live(r) == Held(r) /\ ~Stale(r)

\* (mutant) the reservations of the other runs are not counted.
FitsAlone(l, r) ==
  l.usage.tokens + Tokens <= BudgetTokens /\ l.usage.time + Time <= BudgetTime

\* What is used, what the other runs hold and this reservation stay within
\* the budget.
Fits(l, r) ==
  LET others == Cardinality({q \in Runs \ {r} : Live(q)}) IN
  /\ l.usage.tokens + (others + 1) * Tokens <= BudgetTokens
  /\ l.usage.time + (others + 1) * Time <= BudgetTime

\* ReserveConversationWorkStep, after waitPendingConversationModelRetry: a
\* reservation this claim already has is returned as it is, and nothing is
\* saved; one that does not fit ends the run.
Reserve(w) ==
  LET r == worker[w].run IN
  /\ At(w, "top")
  /\ worker[w].window # 0 => attempt[r][worker[w].window].due
  /\ IF Live(r)
     THEN Go(w, "reserved") /\ UNCHANGED <<ledger, hold>>
     ELSE \E time \in [Runs -> 1..Time] :
            LET l == Pruned(time) IN
            IF Fits(l, r)
            THEN /\ Go(w, "reserved")
                 /\ ledger' = l
                 /\ hold' = [q \in Runs |->
                      IF q = r THEN [claim |-> worker[w].claim, counted |-> FALSE]
                      ELSE IF Stale(q) THEN NoHold ELSE hold[q]]
            ELSE Go(w, "stopping") /\ UNCHANGED <<ledger, hold>>
  /\ UNCHANGED <<run, attempt>>

\* The reservation this claim made is still there.
Reserved(w) == hold[worker[w].run].claim = worker[w].claim

\* A call under this reservation was counted before.
Counted(w) == hold[worker[w].run].counted

\* StartConversationWorkStep counts the call before it is made.
Start(w) ==
  LET r == worker[w].run IN
  /\ At(w, "begun")
  /\ IF Reserved(w)
     THEN /\ Go(w, "calling")
          /\ hold' = [hold EXCEPT ![r].counted = TRUE]
          /\ ledger' = IF Counted(w) THEN ledger ELSE Charge(ledger, r, 0, 0, 1)
     ELSE Go(w, "refused") /\ UNCHANGED <<ledger, hold>>
  /\ UNCHANGED <<run, attempt>>

-----------------------------------------------------------------------------
(* The attempts.                                                           *)

Latest(w) == LatestAttempt(worker[w].run, StepOf(worker[w].run), worker[w].claim)

Begun(r, claim, number) ==
  attempt' = [attempt EXCEPT ![r] = Append(@,
    [step |-> StepOf(r), claim |-> claim, number |-> number, status |-> "started", due |-> FALSE])]

\* BeginConversationModelAttempt: the first attempt, one that is under way, or
\* the next one once the retry is due; otherwise an error.
Begin(w) ==
  LET r == worker[w].run  i == Latest(w)  last == attempt[r][i] IN
  /\ At(w, "reserved")
  /\ \/ i = 0 /\ Begun(r, worker[w].claim, 1) /\ Go(w, "begun")
     \/ /\ i # 0
        /\ \/ last.status = "started" /\ Go(w, "begun") /\ UNCHANGED attempt
           \/ /\ last.status = "retry_scheduled" /\ last.due
              /\ Begun(r, worker[w].claim, last.number + 1) /\ Go(w, "begun")
           \/ /\ last.status = "retry_scheduled" => ~last.due
              /\ last.status # "started"
              /\ Go(w, "refused") /\ UNCHANGED attempt
  /\ UNCHANGED <<run, ledger, hold>>

\* (mutant) off by one.
MayRetryOnceMore(number) == number <= MaxModelAttempts

MayRetry(number) == number < MaxModelAttempts

\* failConversationModelAttempt: the lifecycle policy refused the call
\* ("begun"), or the call failed ("calling"); only the latter is repeated.
FailAttempt(w, retry) ==
  LET r == worker[w].run IN
  /\ At(w, "begun") \/ At(w, "calling")
  /\ retry => MayRetry(attempt[r][Latest(w)].number)
  /\ attempt' = [attempt EXCEPT ![r][Latest(w)].status =
                   IF retry THEN "retry_scheduled" ELSE "failed"]
  /\ Go(w, IF retry /\ worker[w].pc = "calling" THEN "failed" ELSE "refused")
  /\ UNCHANGED <<run, ledger, hold>>

\* The provider answers.
Answer(w) ==
  /\ worker[w].pc = "calling"
  /\ Go(w, "answered")
  /\ UNCHANGED <<run, attempt, ledger, hold>>

\* completeConversationWorkStep.  Without a reservation, as for callers that
\* never reserve, the call is charged as it comes.
ChargeResult(w, tokens, time) ==
  Charge(ledger, worker[w].run, tokens, time, IF Counted(w) THEN 0 ELSE 1)

\* (mutant) the provider's usage is not compared with the bound.
UsableUnchecked == 0..(Tokens + 1)

\* What the provider may report without exceeding the bound.
Usable == 0..Tokens

\* CompleteExecutionStep charges the call, drops its reservation, stores the
\* result and completes the attempt in one transaction.
Save(w) ==
  LET r == worker[w].run IN
  /\ At(w, "answered")
  /\ hold[r].claim \in {0, worker[w].claim}
  /\ \E tokens \in Usable, time \in 1..(IF Reserved(w) THEN Time ELSE 1) :
       LET l == ChargeResult(w, tokens, time) IN
       /\ l.usage.tokens <= BudgetTokens /\ l.usage.time <= BudgetTime
       /\ ledger' = l
       /\ run' = [run EXCEPT ![r].results = Append(@, tokens)]
  /\ hold' = [hold EXCEPT ![r] = NoHold]
  /\ attempt' = [attempt EXCEPT ![r][Latest(w)].status = "completed"]
  /\ Go(w, Resumed(StepOf(r)))

\* CompleteExecutionStep refuses: the result is invalid, the provider used
\* more than the bound, or the call took too long.
SaveRefused(w) ==
  /\ At(w, "answered")
  /\ Go(w, "refused")
  /\ UNCHANGED <<run, attempt, ledger, hold>>

\* ReleaseConversationWorkStep, after a failure.  Its own error is ignored.
Release(w, done) ==
  LET r == worker[w].run IN
  /\ At(w, "failed") \/ At(w, "refused")
  /\ IF done /\ Reserved(w)
     THEN /\ \E time \in 1..Time : ledger' = Abandoned(ledger, r, time)
          /\ hold' = [hold EXCEPT ![r] = NoHold]
     ELSE UNCHANGED <<ledger, hold>>
  /\ Go(w, IF worker[w].pc = "failed" THEN "waiting" ELSE "stopping")
  /\ UNCHANGED <<run, attempt>>

\* waitConversationModelRetry returns and the loop starts over.
Retry(w) ==
  /\ At(w, "waiting")
  /\ attempt[worker[w].run][Latest(w)].due
  /\ Go(w, "top")
  /\ UNCHANGED <<run, attempt, ledger, hold>>

\* Finish.
Finish(w) ==
  /\ At(w, "stopping")
  /\ run' = [run EXCEPT ![worker[w].run].status = "ended", ![worker[w].run].leased = FALSE]
  /\ worker' = [worker EXCEPT ![w] = Idle]
  /\ UNCHANGED <<attempt, ledger, hold>>

\* The worker gives up: it lost its claim, or the process stops.
Abandon(w) ==
  /\ worker[w] # Idle
  /\ Claimed(w) => worker[w].claim < MaxClaims
  /\ worker' = [worker EXCEPT ![w] = Idle]
  /\ UNCHANGED <<run, attempt, ledger, hold>>

-----------------------------------------------------------------------------
(* Callers and time.                                                       *)

Cancel(r) ==
  /\ run[r].status \in {"queued", "running"}
  /\ run' = [run EXCEPT ![r].status = "ended", ![r].leased = FALSE]
  /\ UNCHANGED <<attempt, ledger, hold, worker>>

LeaseExpires(r) ==
  /\ run[r].leased
  /\ run[r].claim < MaxClaims
  /\ run' = [run EXCEPT ![r].leased = FALSE]
  /\ UNCHANGED <<attempt, ledger, hold, worker>>

\* The RetryAt of an attempt passes.
RetryDue(r, i) ==
  /\ attempt[r][i].status = "retry_scheduled" /\ ~attempt[r][i].due
  /\ attempt' = [attempt EXCEPT ![r][i].due = TRUE]
  /\ UNCHANGED <<run, ledger, hold, worker>>

WorkerStep(w) ==
  \/ \E r \in Runs : Claim(w, r)
  \/ Reserve(w)
  \/ Begin(w)
  \/ Start(w)
  \/ Answer(w)
  \/ \E retry \in BOOLEAN : FailAttempt(w, retry)
  \/ Save(w)
  \/ SaveRefused(w)
  \/ \E done \in BOOLEAN : Release(w, done)
  \/ Retry(w)
  \/ Finish(w)
  \/ Abandon(w)

Next ==
  \/ \E w \in Workers : WorkerStep(w)
  \/ \E r \in Runs : Cancel(r) \/ LeaseExpires(r) \/ \E i \in DOMAIN attempt[r] : RetryDue(r, i)

Spec == Init /\ [][Next]_vars

-----------------------------------------------------------------------------
(* Properties.                                                             *)

Total(field) == SumFunction([r \in Runs |-> ledger.alloc[r][field]])

\* What the delegations used and what they hold never exceed the budget they
\* share, whichever runs reserve at once, fail, crash or come back late.
BudgetNeverOvercommitted ==
  LET held == Cardinality({r \in Runs : Held(r)}) IN
  /\ ledger.usage.tokens + held * Tokens <= BudgetTokens
  /\ ledger.usage.time + held * Time <= BudgetTime

\* The ledger adds up: the shared usage is the sum of the allocations, and a
\* delegation is charged the tokens of each result its run stored, once, and
\* no others.
LedgerMatchesResults ==
  /\ ledger.usage.tokens = Total("tokens")
  /\ ledger.usage.time = Total("time")
  /\ ledger.usage.calls = Total("calls")
  /\ \A r \in Runs : ledger.alloc[r].tokens = SumFunction(run[r].results)

\* A worker that still has its claim also has its reservation from Reserve
\* until it saves or releases, whatever the other runs prune meanwhile, and
\* the provider is called only under a counted one: a call is never refused
\* as reservation_lost and never charged as if it had not been reserved.
ReservationSurvives ==
  \A w \in Workers : Claimed(w) /\ worker[w].pc \in {"reserved", "begun", "calling", "answered"}
    => /\ Reserved(w)
       /\ worker[w].pc \in {"calling", "answered"} => Counted(w)

\* The attempts one claim makes at one step are numbered from 1 up to the
\* limit, one at a time; and a stored result has one completed attempt.
AttemptsInOrder ==
  \A r \in Runs :
    /\ \A i \in DOMAIN attempt[r] :
         LET a == attempt[r][i]
             before == {j \in 1..(i - 1) : attempt[r][j].step = a.step /\ attempt[r][j].claim = a.claim} IN
         /\ a.number = Cardinality(before) + 1 /\ a.number <= MaxModelAttempts
         /\ \A j \in before : attempt[r][j].status = "retry_scheduled" /\ attempt[r][j].due
    /\ \A n \in Steps :
         Cardinality({i \in DOMAIN attempt[r] : attempt[r][i].step = n /\ attempt[r][i].status = "completed"})
           = IF n <= Len(run[r].results) THEN 1 ELSE 0

=============================================================================
