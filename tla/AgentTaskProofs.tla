--------------------------- MODULE AgentTaskProofs ---------------------------
(***************************************************************************)
(* Proofs about AgentTask, for any number of workers, gateways, operator   *)
(* keys and tools, and any limits.                                         *)
(***************************************************************************)
EXTENDS AgentTask, WellFoundedInduction, TLAPS

USE Zenon

-----------------------------------------------------------------------------
(* The cost of a ledger.  UsedCost is a loop; what it returns is shown by  *)
(* the totals it goes through, one for each entry.                         *)

Entries == [cost : Costs, done : BOOLEAN]

\* f is the sequence of totals of ledger l.
Totals(l, f) ==
  /\ f \in [0..Len(l) -> Nat]
  /\ f[0] = 0
  /\ \A n \in 1..Len(l) : f[n] = f[n - 1] + l[n].cost

\* The totals as the loop defines them.
Loop(l, f) ==
  f = [n \in 0..Len(l) |-> IF n = 0 THEN 0 ELSE f[n - 1] + l[n].cost]

\* A non-empty set of naturals has a least element.
LEMMA LeastNatural ==
  ASSUME NEW T, T \subseteq Nat, T # {}
  PROVE  \E n \in T : \A m \in T : ~(m < n)
<1>1. IsWellFoundedOn(OpToRel(<, Nat), Nat)
  BY NatLessThanWellFounded
<1>2. \E n \in T : \A m \in T : ~(<<m, n>> \in OpToRel(<, Nat))
  BY <1>1, WFMin
<1> QED BY <1>2 DEF OpToRel

\* A loop over naturals has at most one sequence of totals.
LEMMA LoopIsUnique ==
  ASSUME NEW l \in Seq(Entries), NEW f, NEW g, Loop(l, f), Loop(l, g)
  PROVE  f = g
<1>1. Len(l) \in Nat
  BY SMT
<1>2. /\ DOMAIN f = 0..Len(l) /\ DOMAIN g = 0..Len(l)
      /\ f = [n \in 0..Len(l) |-> f[n]] /\ g = [n \in 0..Len(l) |-> g[n]]
      /\ \A n \in 0..Len(l) : f[n] = IF n = 0 THEN 0 ELSE f[n - 1] + l[n].cost
      /\ \A n \in 0..Len(l) : g[n] = IF n = 0 THEN 0 ELSE g[n - 1] + l[n].cost
  BY SMT DEF Loop
<1> DEFINE T == {n \in 0..Len(l) : f[n] # g[n]}
<1>3. CASE T = {}
  <2>1. \A n \in 0..Len(l) : f[n] = g[n]
    BY <1>3
  <2> QED BY <1>2, <2>1
<1>4. CASE T # {}
  <2>1. T \subseteq Nat
    BY <1>1, SMT
  <2>2. PICK n \in T : \A m \in T : ~(m < n)
    BY <2>1, <1>4, LeastNatural
  <2>3. n # 0
    BY <1>1, <1>2, SMT
  <2>4. n - 1 \in 0..Len(l) /\ n - 1 < n
    BY <1>1, <2>3, SMT
  <2>5. f[n - 1] = g[n - 1]
    BY <2>2, <2>4
  <2> QED BY <1>2, <2>3, <2>5
<1> QED BY <1>3, <1>4

\* Whoever has the totals of a ledger has its cost.
LEMMA CostFromTotals ==
  ASSUME NEW l \in Seq(Entries), NEW f, Totals(l, f)
  PROVE  UsedCost(l) = f[Len(l)]
<1> DEFINE u == CHOOSE u : Loop(l, u)
<1>1. Loop(l, f)
  <2>1. \A n \in 0..Len(l) : n # 0 => n \in 1..Len(l)
    BY SMT
  <2>2. f = [n \in 0..Len(l) |-> f[n]]
    BY DEF Totals
  <2>3. \A n \in 0..Len(l) : f[n] = IF n = 0 THEN 0 ELSE f[n - 1] + l[n].cost
    BY <2>1 DEF Totals
  <2> QED BY <2>2, <2>3 DEF Loop
<1>2. Loop(l, u)
  BY <1>1
<1>3. u = f
  BY <1>1, <1>2, LoopIsUnique
<1>4. UsedCost(l) = u[Len(l)]
  BY DEF UsedCost, Loop
<1> QED BY <1>3, <1>4

\* The entries of a ledger have a cost.
LEMMA EntryCosts ==
  ASSUME NEW l \in Seq(Entries)
  PROVE  Len(l) \in Nat /\ \A n \in 1..Len(l) : l[n] \in Entries /\ l[n].cost \in Nat
<1>1. Len(l) \in Nat /\ \A n \in 1..Len(l) : l[n] \in Entries
  BY SMT
<1>2. \A e \in Entries : e.cost \in Costs
  BY DEF Entries
<1> QED BY <1>1, <1>2, AgentTaskAssumption

\* Every ledger has totals.
LEMMA TotalsExist ==
  ASSUME NEW l \in Seq(Entries)
  PROVE  \E f : Totals(l, f)
<1> DEFINE Up(k) == \E f \in [0..k -> Nat] : f[0] = 0 /\ \A n \in 1..k : f[n] = f[n - 1] + l[n].cost
           T == {k \in 0..Len(l) : ~Up(k)}
<1>1. Len(l) \in Nat /\ \A n \in 1..Len(l) : l[n].cost \in Nat
  BY EntryCosts
<1>2. Up(0)
  <2>1. [n \in 0..0 |-> 0] \in [0..0 -> Nat]
    BY SMT
  <2>2. [n \in 0..0 |-> 0][0] = 0 /\ 1..0 = {}
    BY SMT
  <2> QED BY <2>1, <2>2
<1>3. ASSUME NEW k \in 0..Len(l), k # 0, Up(k - 1)
      PROVE  Up(k)
  <2>1. PICK f \in [0..(k - 1) -> Nat] :
          f[0] = 0 /\ \A n \in 1..(k - 1) : f[n] = f[n - 1] + l[n].cost
    BY <1>3
  <2> DEFINE g == [n \in 0..k |-> IF n = k THEN f[k - 1] + l[k].cost ELSE f[n]]
  <2>2. k \in 1..Len(l) /\ k - 1 \in 0..(k - 1) /\ 0 \in 0..k /\ k \in 0..k
    BY <1>1, <1>3, SMT
  <2>3. \A n \in 0..k : n # k => n \in 0..(k - 1)
    BY <1>1, SMT
  <2>4. f[k - 1] + l[k].cost \in Nat
    <3>1. f[k - 1] \in Nat /\ l[k].cost \in Nat
      BY <1>1, <2>2
    <3> HIDE DEF g
    <3> QED BY <3>1, SMT
  <2>5. g \in [0..k -> Nat]
    BY <2>3, <2>4
  <2>6. g[0] = 0
    BY <1>3, <2>1, <2>2
  <2>7. ASSUME NEW n \in 1..k
        PROVE  g[n] = g[n - 1] + l[n].cost
    <3>1. n \in 0..k /\ n - 1 \in 0..k /\ n - 1 # k
      BY <1>1, SMT
    <3>2. g[n - 1] = f[n - 1]
      BY <3>1
    <3>3. CASE n = k
      BY <3>1, <3>2, <3>3
    <3>4. CASE n # k
      <4>1. n \in 1..(k - 1)
        BY <1>1, <3>4, SMT
      <4> QED BY <2>1, <3>1, <3>2, <3>4, <4>1
    <3> QED BY <3>3, <3>4
  <2> HIDE DEF g
  <2> QED BY <2>5, <2>6, <2>7
<1> HIDE DEF Up
<1>4. T = {}
  <2> SUFFICES ASSUME T # {} PROVE FALSE
    OBVIOUS
  <2>1. T \subseteq Nat
    BY <1>1, SMT
  <2>2. PICK n \in T : \A m \in T : ~(m < n)
    BY <2>1, LeastNatural
  <2>3. n \in 0..Len(l) /\ ~Up(n) /\ n # 0
    BY <1>2
  <2>4. n - 1 \in 0..Len(l) /\ n - 1 < n
    BY <1>1, <2>3, SMT
  <2>5. Up(n - 1)
    BY <2>2, <2>4
  <2> QED BY <1>3, <2>3, <2>5
<1>5. Up(Len(l))
  <2>1. Len(l) \in 0..Len(l)
    BY <1>1, SMT
  <2> QED BY <1>4, <2>1
<1> QED BY <1>5 DEF Up, Totals

\* What the loop returns: nothing for the empty ledger, one cost more for a
\* longer one, and the same when an entry is closed.
LEMMA CostOfEmpty ==
  UsedCost(<<>>) = 0
<1>1. <<>> \in Seq(Entries) /\ Len(<<>>) = 0 /\ 1..0 = {}
  BY SMT
<1>2. [n \in 0..0 |-> 0] \in [0..0 -> Nat] /\ 0 \in 0..0
  BY SMT
<1>3. Totals(<<>>, [n \in 0..0 |-> 0])
  BY <1>1, <1>2 DEF Totals
<1>4. UsedCost(<<>>) = [n \in 0..0 |-> 0][Len(<<>>)]
  BY <1>1, <1>3, CostFromTotals
<1> QED BY <1>1, <1>2, <1>4

\* A reservation adds its cost to the ledger.
LEMMA CostOfAppend ==
  ASSUME NEW l \in Seq(Entries), NEW e \in Entries
  PROVE  UsedCost(Append(l, e)) = UsedCost(l) + e.cost /\ UsedCost(l) \in Nat
<1> DEFINE m == Append(l, e)
<1>1. m \in Seq(Entries)
  BY SMT
<1>2. Len(m) = Len(l) + 1 /\ m[Len(m)] = e
      /\ \A n \in 1..Len(l) : m[n] = l[n] /\ n \in 1..Len(m)
  BY SMT
<1>3. /\ Len(l) \in Nat /\ Len(m) \in 1..Len(m) /\ Len(m) - 1 = Len(l)
      /\ Len(l) \in 0..Len(l) /\ 0 \in 0..Len(l)
      /\ 0..Len(l) \subseteq 0..Len(m)
      /\ \A n \in 1..Len(l) : n - 1 \in 0..Len(l) /\ n \in 0..Len(l)
  <2> HIDE DEF m
  <2> QED BY <1>2, EntryCosts, SMT
<1> HIDE DEF m
<1>4. PICK f : Totals(m, f)
  BY <1>1, TotalsExist
<1> DEFINE g == [n \in 0..Len(l) |-> f[n]]
<1>5. Totals(l, g)
  BY <1>2, <1>3, <1>4 DEF Totals
<1>6. UsedCost(l) = f[Len(l)] /\ UsedCost(m) = f[Len(m)]
  <2>1. g[Len(l)] = f[Len(l)]
    BY <1>3
  <2> HIDE DEF g
  <2>2. UsedCost(l) = g[Len(l)]
    BY <1>5, CostFromTotals
  <2>3. UsedCost(m) = f[Len(m)]
    BY <1>1, <1>4, CostFromTotals
  <2> QED BY <2>1, <2>2, <2>3
<1>7. f[Len(l)] \in Nat
  <2>1. Len(l) \in 0..Len(m) /\ f \in [0..Len(m) -> Nat]
    BY <1>3, <1>4 DEF Totals
  <2> QED BY <2>1
<1>8. f[Len(m)] = f[Len(l)] + e.cost
  <2>1. \A n \in 1..Len(m) : f[n] = f[n - 1] + m[n].cost
    BY <1>4 DEF Totals
  <2>2. f[Len(m)] = f[Len(m) - 1] + m[Len(m)].cost
    BY <1>3, <2>1
  <2> QED BY <1>2, <1>3, <2>2
<1> QED BY <1>6, <1>7, <1>8 DEF m

\* Closing an entry of the ledger changes no cost.
LEMMA CostOfClosed ==
  ASSUME NEW l \in Seq(Entries), NEW ref \in DOMAIN l
  PROVE  LET m == [l EXCEPT ![ref].done = TRUE]
         IN  m \in Seq(Entries) /\ Len(m) = Len(l) /\ UsedCost(m) = UsedCost(l)
<1> DEFINE m == [l EXCEPT ![ref].done = TRUE]
<1>1. DOMAIN l = 1..Len(l)
  BY SMT
<1>2. l[ref] \in Entries /\ [l[ref] EXCEPT !.done = TRUE] \in Entries
      /\ [l[ref] EXCEPT !.done = TRUE].cost = l[ref].cost
  BY <1>1, EntryCosts DEF Entries
<1>3. m = [l EXCEPT ![ref] = [l[ref] EXCEPT !.done = TRUE]]
  OBVIOUS
<1>4. ASSUME NEW e \in Entries
      PROVE  [l EXCEPT ![ref] = e] \in Seq(Entries) /\ Len([l EXCEPT ![ref] = e]) = Len(l)
  BY <1>1, SMT
<1>5. m \in Seq(Entries) /\ Len(m) = Len(l)
  BY <1>2, <1>3, <1>4
<1>6. \A n \in 1..Len(l) : m[n].cost = l[n].cost
  BY <1>1, <1>2, <1>3
<1> HIDE DEF m
<1>7. PICK f : Totals(l, f)
  BY TotalsExist
<1>8. Totals(m, f)
  BY <1>5, <1>6, <1>7 DEF Totals
<1>9. UsedCost(m) = UsedCost(l)
  BY <1>5, <1>7, <1>8, CostFromTotals
<1> QED BY <1>5, <1>9 DEF m

-----------------------------------------------------------------------------
(* The inductive invariants.                                               *)

\* The payloads that processes hold: the row's and every copy read from it.
Copies ==
  ( (IF run = None THEN {} ELSE {run.doc})
    \cup {job[w] : w \in Workers}
    \cup {beat[w].doc : w \in {v \in Workers : beat[v] # None}}
    \cup {call[g].doc : g \in {h \in Gateways : call[h] # None}}
    \cup (IF cancel # None /\ cancel.phase = "save" THEN {cancel.doc} ELSE {}) )
  \ {None}

\* Nothing is under way before the run is created.
Present ==
  run = None =>
    /\ \A w \in Workers : job[w] = None /\ beat[w] = None
    /\ \A g \in Gateways : call[g] = None
    /\ cancel = None /\ notes = {} /\ told = {}

\* The ledger of a payload is in step with its counter and within budget.
LedgerOK(d) ==
  /\ d.calls = Len(d.ledger)
  /\ d.calls <= MaxToolCalls
  /\ UsedCost(d.ledger) <= MaxCostUnits

StatusFits ==
  (run # None /\ run.status # "running") => run.doc.status = run.status

Told == \A n \in notes : n.phase = "mark" => n.status \in told

\* What holds whatever was saved over what.
Ledgers ==
  /\ TypeOK
  /\ Present
  /\ StatusFits
  /\ \A d \in Copies : LedgerOK(d)
  /\ Told

\* A copy is no newer than the row: it is of an earlier claim, or agrees with
\* the claim that has the run now.
CopyFits(d) ==
  /\ d.updated <= clock
  /\ d.fence <= run.fence
  /\ d.attempt = d.fence
  /\ (d.fence = run.fence /\ run.status = "running") =>
       d.status = "running" /\ d.owner = run.owner /\ d.keys = run.doc.keys

BeatFits(b) ==
  /\ b.at <= clock
  /\ b.fence <= run.fence
  /\ b.doc # None => b.fence <= b.doc.fence

\* A cancellation that will find its updated_at unchanged saves what is there.
CancelFits(c) == c.doc.updated = run.updated => Unmoved(c.doc)

\* What holds until a cancellation is saved over a row it had not read.
Fits ==
  (run # None /\ ~run.lost) =>
    /\ ColumnsMatchPayload
    /\ run.updated <= clock
    /\ \A d \in Copies : CopyFits(d)
    /\ \A w \in Workers : beat[w] # None => BeatFits(beat[w])
    /\ (cancel # None /\ cancel.phase = "save") => CancelFits(cancel)

-----------------------------------------------------------------------------
(* Types.                                                                  *)

\* A stamp is a natural number later than the clock.
LEMMA Stamps ==
  ASSUME TypeOK, NEW now \in Now
  PROVE  now \in Nat /\ clock <= now /\ clock < now
<1>1. clock \in Nat
  BY DEF TypeOK
<1>2. now = clock + 1
  BY DEF Now
<1> QED BY <1>1, <1>2, SMT

\* What the variables hold when they hold something.
LEMMA HeldTypes ==
  ASSUME TypeOK
  PROVE  /\ run # None => run \in Rows /\ run.doc \in Docs /\ run.doc # None
         /\ \A w \in Workers : job[w] # None => job[w] \in Docs
         /\ \A w \in Workers : beat[w] # None =>
              beat[w] \in Beats /\ (beat[w].doc # None => beat[w].doc \in Docs)
         /\ \A g \in Gateways : call[g] # None => call[g] \in Calls /\ call[g].doc \in Docs
         /\ (cancel # None /\ cancel.phase = "save") =>
              /\ cancel \in [phase: {"save"}, doc: Docs]
              /\ cancel.doc \in Docs
<1>1. None \notin Docs
  BY AgentTaskAssumption
<1>2. run # None => run \in Rows /\ run.doc \in Docs
  BY DEF TypeOK, Rows
<1>3. \A w \in Workers : job[w] # None => job[w] \in Docs
  BY DEF TypeOK
<1>4. \A w \in Workers : beat[w] # None =>
        beat[w] \in Beats /\ (beat[w].doc # None => beat[w].doc \in Docs)
  BY DEF TypeOK, Beats
<1>5. \A g \in Gateways : call[g] # None => call[g] \in Calls /\ call[g].doc \in Docs
  BY DEF TypeOK, Calls
<1>6. (cancel # None /\ cancel.phase = "save") =>
              /\ cancel \in [phase: {"save"}, doc: Docs]
              /\ cancel.doc \in Docs
  <2>1. "save" # "resolve"
    OBVIOUS
  <2> QED BY <2>1 DEF TypeOK, Cancels
<1> QED BY <1>1, <1>2, <1>3, <1>4, <1>5, <1>6

\* Touched changes the revision and the time only.
LEMMA TouchedDoc ==
  ASSUME NEW d \in Docs, NEW now \in Nat
  PROVE  LET e == Touched(d, now)
         IN  /\ e \in Docs
             /\ e.rev = d.rev + 1 /\ e.updated = now
             /\ e.status = d.status /\ e.owner = d.owner /\ e.fence = d.fence
             /\ e.attempt = d.attempt /\ e.cancelled = d.cancelled /\ e.calls = d.calls
             /\ e.ledger = d.ledger /\ e.proposal = d.proposal
             /\ e.decision = d.decision /\ e.retryable = d.retryable
             /\ e.recon = d.recon /\ e.keys = d.keys
<1>1. d.rev + 1 \in Nat
  BY SMT DEF Docs
<1>2. Touched(d, now) \in Docs
  BY <1>1 DEF Touched, Docs
<1> QED BY <1>2 DEF Touched, Docs

\* A row a payload is put into.
LEMMA PutRow ==
  ASSUME NEW d \in Docs, run \in Rows, Put(d)
  PROVE  /\ run' \in Rows
         /\ run'.status = d.status /\ run'.doc = d /\ run'.updated = d.updated
         /\ run'.owner = run.owner /\ run'.fence = run.fence /\ run'.lost = run.lost
<1>1. d.status \in Status /\ d.updated \in Nat
  BY DEF Docs
<1> QED BY <1>1 DEF Put, Rows

\* A row saved by the worker that has the lease.
LEMMA SavedRow ==
  ASSUME NEW d \in Docs, TypeOK, SaveRunning(d)
  PROVE  /\ Merged(d) \in Docs
         /\ run \in Rows /\ run.status = "running" /\ run.owner = d.owner /\ run.fence = d.fence
         /\ run' \in Rows
         /\ run'.status = d.status /\ run'.doc = Merged(d) /\ run'.updated = d.updated
         /\ run'.owner = run.owner /\ run'.fence = run.fence /\ run'.lost = run.lost
<1>1. /\ run \in Rows /\ run.status = "running" /\ run.owner = d.owner /\ run.fence = d.fence
      /\ run.doc \in Docs
  BY HeldTypes DEF SaveRunning, Leased
<1>2. run.doc.rev + 1 \in Nat
  <2>1. run.doc.rev \in Nat
    BY <1>1 DEF Docs
  <2>2. \A n \in Nat : n + 1 \in Nat
    BY SMT
  <2> QED BY <2>1, <2>2
<1>3. Merged(d) \in Docs
  <2>1. run.doc.calls \in Nat /\ run.doc.ledger \in Seq([cost: Costs, done: BOOLEAN]) /\ d.rev \in Nat
    BY <1>1 DEF Docs
  <2>2. (IF d.rev <= run.doc.rev THEN run.doc.rev + 1 ELSE d.rev) \in Nat
    BY <1>2, <2>1
  <2> QED BY <2>1, <2>2 DEF Merged, Docs
<1>4. d.status \in Status /\ d.updated \in Nat /\ (d.status # "retry_scheduled") \in BOOLEAN
  BY DEF Docs
<1> QED BY <1>1, <1>3, <1>4 DEF SaveRunning, Rows

-----------------------------------------------------------------------------
(* The shapes of the steps.                                                *)

\* No process gets a copy of the payload that it did not have.
Quiet ==
  /\ \A w \in Workers : job'[w] \in {None, job[w]}
  /\ \A w \in Workers : beat'[w] \in {None, beat[w]}
  /\ \A g \in Gateways : call'[g] # None => call[g] # None /\ call'[g].doc = call[g].doc
  /\ (cancel' # None /\ cancel'.phase = "save") => cancel' = cancel
  /\ told' = told

\* The row stays; somebody may read it.
Rests ==
  /\ run # None /\ run' # None
  /\ run'.doc = run.doc /\ run'.status = run.status /\ run'.updated = run.updated
  /\ run'.owner = run.owner /\ run'.fence = run.fence /\ run'.lost = run.lost
  /\ clock <= clock'
  /\ told' = told \/ notes # {}
  /\ \A w \in Workers : job'[w] \in {None, job[w]}
  /\ \A w \in Workers : \/ beat'[w] \in {None, beat[w]}
                        \/ beat[w] # None /\ beat'[w] = [beat[w] EXCEPT !.doc = run.doc]
  /\ \A g \in Gateways : call'[g] # None =>
       call'[g].doc = run.doc \/ (call[g] # None /\ call'[g].doc = call[g].doc)
  /\ (cancel' # None /\ cancel'.phase = "save") =>
       cancel' = cancel \/ cancel'.doc = run.doc

\* The payload is written with a new stamp, and the columns with it.
Stamped ==
  /\ run # None /\ run' # None
  /\ clock' \in Now
  /\ run'.updated = clock' /\ run'.doc.updated = clock'
  /\ run'.status = run'.doc.status /\ run'.lost = run.lost
  /\ LedgerOK(run.doc)'

\* How an edited payload e follows d: what becomes of a claim, of the end of
\* the run, of its callback and of the operators' keys.
Follows(d, e) ==
  /\ (e.status = "running") = (d.status = "running")
  /\ d.keys \subseteq e.keys
  /\ d.status = "running" => e.keys = d.keys
  /\ d.status \in Terminal =>
       /\ e.status = d.status \/ e.keys # d.keys
       /\ \/ e.recon \in {d.recon, "manually_resolved", "force_restart"}
          \/ e.recon = "workflow_callback_delivered" /\ \E n \in notes : n.phase = "mark"
  /\ (WorkflowTask /\ d.status \notin Terminal /\ e.status \in Terminal) =>
       e.recon = "workflow_callback_pending"

\* The callback of an attempt that ends.
Reported(d) ==
  (WorkflowTask /\ d.status \in Terminal) =>
    \/ d.recon = "workflow_callback_pending"
    \/ d.status = "dead_letter" /\ d.retryable /\ d.attempt < MaxAttempts

\* The row's own payload is edited; a run that has a worker keeps its status.
Edits ==
  /\ Quiet /\ Stamped
  /\ run'.owner = run.owner /\ run'.fence = run.fence
  /\ run'.doc.owner = run.doc.owner /\ run'.doc.fence = run.doc.fence
  /\ run'.doc.attempt = run.doc.attempt
  /\ run'.doc.rev = run.doc.rev + 1
  /\ Follows(run.doc, run'.doc)

\* A copy is saved under the lease, and ends the claim.
Saves ==
  /\ Quiet /\ Stamped
  /\ run.status = "running" /\ run'.status # "running"
  /\ run'.owner = run.owner /\ run'.fence = run.fence
  /\ run'.doc.owner = run.owner /\ run'.doc.fence = run.fence
  /\ \E c \in Copies : /\ run'.doc.attempt = c.attempt /\ run'.doc.fence = c.fence
                       /\ run'.doc.keys = c.keys
  /\ Reported(run'.doc)

\* A worker takes the run with a fence of its own.
Takes(w) ==
  /\ Stamped
  /\ run.status \in Waiting \cup {"running"}
  /\ run'.status = "running" /\ run'.owner = w /\ run'.fence = run.fence + 1
  /\ run'.doc.owner = w /\ run'.doc.fence = run.fence + 1
  /\ run'.doc.attempt = run.doc.attempt + 1 /\ run'.doc.keys = run.doc.keys
  /\ run'.doc.rev = run.doc.rev + 1
  /\ \A v \in Workers : job'[v] \in {job[v], run'.doc}
  /\ UNCHANGED <<beat, call, cancel, told>>

\* A heartbeat stamps the row and not its payload.
Extends(w) ==
  /\ run # None /\ run' # None
  /\ run'.doc = run.doc /\ run'.status = run.status
  /\ run'.owner = run.owner /\ run'.fence = run.fence /\ run'.lost = run.lost
  /\ run.status = "running"
  /\ clock' \in Now /\ run'.updated = clock'
  /\ job[w] # None
  /\ \A v \in Workers : beat'[v] = beat[v] \/
       /\ beat'[v] # None /\ beat'[v].doc = None
       /\ beat'[v].at = clock' /\ beat'[v].fence = job[w].fence
  /\ UNCHANGED <<job, call, cancel, told>>

\* A heartbeat saves the payload it read, under the lease.
Overwrites(w) ==
  /\ Quiet
  /\ run # None /\ run' # None
  /\ run.status = "running" /\ run.fence = beat[w].fence
  /\ run'.status = run.status /\ run'.updated = run.updated
  /\ run'.owner = run.owner /\ run'.fence = run.fence /\ run'.lost = run.lost
  /\ beat[w] # None /\ beat[w].doc # None
  /\ run'.doc = Touched(beat[w].doc, beat[w].at)
  /\ clock' = clock

\* A cancellation saves the payload it read, in the millisecond it read.
CancelsRun ==
  /\ Quiet
  /\ run # None /\ run' # None
  /\ cancel # None /\ cancel.phase = "save"
  /\ Millisecond(run.updated) = Millisecond(cancel.doc.updated)
  /\ \E now \in Now : clock' = now /\ run'.doc = CancelledDoc(cancel.doc, now)
  /\ run'.status = run'.doc.status /\ run'.updated = clock'
  /\ run'.owner = run.owner /\ run'.fence = run.fence
  /\ run'.lost = (run.lost \/ ~Unmoved(cancel.doc))
  /\ ~(cancel' # None /\ cancel'.phase = "save")

-----------------------------------------------------------------------------
(* Workers.                                                                *)

\* Whoever holds a copy holds one of the Copies.
LEMMA CopiesHeld ==
  ASSUME TypeOK
  PROVE  /\ run # None => run.doc \in Copies
         /\ \A w \in Workers : job[w] # None => job[w] \in Copies
         /\ \A w \in Workers : (beat[w] # None /\ beat[w].doc # None) => beat[w].doc \in Copies
         /\ \A g \in Gateways : call[g] # None => call[g].doc \in Copies
         /\ (cancel # None /\ cancel.phase = "save") => cancel.doc \in Copies
         /\ Copies \subseteq Docs
<1>1. None \notin Docs
  BY AgentTaskAssumption
<1>2. run # None => run.doc \in Copies
  BY <1>1, HeldTypes DEF Copies
<1>3. \A w \in Workers : job[w] # None => job[w] \in Copies
  BY DEF Copies
<1>4. \A w \in Workers : (beat[w] # None /\ beat[w].doc # None) => beat[w].doc \in Copies
  BY DEF Copies
<1>5. \A g \in Gateways : call[g] # None => call[g].doc \in Copies
  BY <1>1, HeldTypes DEF Copies
<1>6. (cancel # None /\ cancel.phase = "save") => cancel.doc \in Copies
  BY <1>1, HeldTypes DEF Copies
<1>7. Copies \subseteq Docs
  <2> SUFFICES ASSUME NEW d \in Copies PROVE d \in Docs
    OBVIOUS
  <2> QED BY HeldTypes DEF Copies
<1> QED BY <1>2, <1>3, <1>4, <1>5, <1>6, <1>7

\* A lapsed time, and a heartbeat or a crash that only drops what a worker has.
LEMMA IdleStep ==
  ASSUME Ledgers, NEW w,
         \/ LeaseExpires \/ RetryDue
         \/ w \in Workers /\ (HeartbeatRead(w) \/ HeartbeatFails(w) \/ Crash(w))
  PROVE  TypeOK' /\ Rests
<1>1. TypeOK /\ Present /\ clock \in Nat /\ clock <= clock
  <2>1. TypeOK /\ Present /\ clock \in Nat
    BY DEF Ledgers, TypeOK
  <2> QED BY <2>1, SMT
<1>2. CASE LeaseExpires \/ RetryDue
  <2>1. /\ run \in Rows /\ run # None
        /\ UNCHANGED <<clock, job, beat, call, cancel, notes, drafts, invoked, told>>
    BY <1>1, <1>2, HeldTypes DEF LeaseExpires, RetryDue
  <2>2. /\ run' \in Rows /\ run'.doc = run.doc /\ run'.status = run.status
        /\ run'.updated = run.updated /\ run'.owner = run.owner /\ run'.fence = run.fence
        /\ run'.lost = run.lost
    BY <1>2, <2>1 DEF LeaseExpires, RetryDue, Rows
  <2>3. run' # None
    BY <2>2, AgentTaskAssumption
  <2>4. TypeOK'
    BY <1>1, <2>1, <2>2 DEF TypeOK
  <2>5. Rests
    BY <1>1, <2>1, <2>2, <2>3 DEF Rests
  <2> QED BY <2>4, <2>5
<1>3. CASE w \in Workers /\ (HeartbeatRead(w) \/ HeartbeatFails(w) \/ Crash(w))
  <2>1. UNCHANGED <<run, clock, call, cancel, notes, drafts, invoked, told>>
    BY <1>3 DEF HeartbeatRead, HeartbeatFails, Crash
  <2>2. run # None
    BY <1>1, <1>3 DEF HeartbeatRead, HeartbeatFails, Crash, Present
  <2>3. /\ job' \in [Workers -> Docs \cup {None}]
        /\ \A v \in Workers : job'[v] \in {None, job[v]}
    BY <1>1, <1>3 DEF HeartbeatRead, HeartbeatFails, Crash, TypeOK
  <2>4. /\ beat' \in [Workers -> Beats \cup {None}]
        /\ \A v \in Workers : \/ beat'[v] \in {None, beat[v]}
                              \/ beat[v] # None /\ beat'[v] = [beat[v] EXCEPT !.doc = run.doc]
    <3>1. CASE HeartbeatRead(w)
      <4>1. beat[w] # None /\ beat' = [beat EXCEPT ![w] = [beat[w] EXCEPT !.doc = run.doc]]
        BY <3>1 DEF HeartbeatRead
      <4>2. beat[w] \in Beats /\ run.doc \in Docs
        BY <1>1, <1>3, <2>2, <4>1, HeldTypes
      <4>3. [beat[w] EXCEPT !.doc = run.doc] \in Beats
        BY <4>2 DEF Beats
      <4> QED BY <1>1, <4>1, <4>3 DEF TypeOK
    <3>2. CASE HeartbeatFails(w) \/ Crash(w)
      BY <1>1, <3>2 DEF HeartbeatFails, Crash, TypeOK
    <3> QED BY <1>3, <3>1, <3>2
  <2>5. TypeOK'
    BY <1>1, <2>1, <2>3, <2>4 DEF TypeOK
  <2>6. Rests
    BY <1>1, <2>1, <2>2, <2>3, <2>4 DEF Rests
  <2> QED BY <2>5, <2>6
<1> QED BY <1>2, <1>3

\* A callback is about the end of a run, and starts with the call.
LEMMA NoteIsCall ==
  \A s : /\ Note(s) \subseteq [status: Terminal, phase: {"call", "mark"}]
         /\ \A n \in Note(s) : n.phase = "call"
<1> SUFFICES ASSUME NEW s, NEW n \in Note(s)
             PROVE  n \in [status: Terminal, phase: {"call", "mark"}] /\ n.phase = "call"
  OBVIOUS
<1>1. s \in Terminal /\ n = [status |-> s, phase |-> "call"]
  BY DEF Note
<1> QED BY <1>1

\* What a terminal run is left with to reconcile.
LEMMA ReconFacts ==
  /\ \A r \in Recon : TerminalRecon(r) \in Recon
  /\ \A r : WorkflowTask => TerminalRecon(r) = "workflow_callback_pending"
  /\ "none" \in Recon
BY DEF TerminalRecon, Recon

\* The payload an attempt of worker w ends with.
Ending(w) ==
  {d \in Docs :
     /\ d.updated \in Now
     /\ d.owner = job[w].owner /\ d.fence = job[w].fence
     /\ d.attempt = job[w].attempt /\ d.keys = job[w].keys
     /\ d.status \in Terminal \cup {"retry_scheduled"}
     /\ Reported(d)}

\* The end of an attempt: the save under the fence, or nothing.
LEMMA EndAttemptStep ==
  ASSUME Ledgers, NEW w \in Workers, job[w] # None, NEW d \in Ending(w), EndAttempt(w, d)
  PROVE  TypeOK' /\ (Rests \/ Saves)
<1>0. /\ d \in Docs /\ d.updated \in Now /\ d.owner = job[w].owner /\ d.fence = job[w].fence
      /\ d.attempt = job[w].attempt /\ d.keys = job[w].keys
      /\ d.status \in Terminal \cup {"retry_scheduled"} /\ Reported(d)
  BY DEF Ending
<1>1. TypeOK /\ Present /\ run # None /\ run.doc \in Docs /\ job[w] \in Docs
  BY HeldTypes DEF Ledgers, Present
<1>2. d.updated \in Nat /\ clock <= d.updated
  BY <1>0, <1>1, Stamps
<1>3. d.status \in Status /\ d.status # "running"
  BY <1>0 DEF Status, Terminal, Waiting
<1>4. /\ clock' = d.updated /\ clock' \in Nat /\ clock <= clock'
      /\ job' \in [Workers -> Docs \cup {None}]
      /\ \A v \in Workers : job'[v] \in {None, job[v]}
      /\ UNCHANGED <<beat, call, cancel, drafts, invoked, told>>
  BY <1>0, <1>1, <1>2 DEF EndAttempt, TypeOK
<1>5. CASE SaveRunning(d) /\ notes' = notes \cup Note(d.status)
  <2>1. /\ Merged(d) \in Docs
        /\ run \in Rows /\ run.status = "running" /\ run.owner = d.owner /\ run.fence = d.fence
        /\ run' \in Rows
        /\ run'.status = d.status /\ run'.doc = Merged(d) /\ run'.updated = d.updated
        /\ run'.owner = run.owner /\ run'.fence = run.fence /\ run'.lost = run.lost
    BY <1>0, <1>1, <1>5, SavedRow
  <2>2. /\ Merged(d).status = d.status /\ Merged(d).recon = d.recon
        /\ Merged(d).retryable = d.retryable
        /\ Merged(d).updated = d.updated /\ Merged(d).keys = d.keys
        /\ Merged(d).owner = d.owner /\ Merged(d).fence = d.fence /\ Merged(d).attempt = d.attempt
        /\ Merged(d).calls = run.doc.calls /\ Merged(d).ledger = run.doc.ledger
    BY <1>0 DEF Merged, Docs
  <2>3. TypeOK'
    BY <1>1, <1>4, <1>5, <2>1, NoteIsCall DEF TypeOK
  <2>4. run' # None
    BY <2>1, AgentTaskAssumption
  <2>5. LedgerOK(run.doc)
    BY <1>1, CopiesHeld DEF Ledgers
  <2>6. LedgerOK(run.doc)'
    BY <2>1, <2>2, <2>5 DEF LedgerOK
  <2>7. Reported(run'.doc)
    BY <1>0, <2>1, <2>2 DEF Reported
  <2>8. Stamped
    BY <1>0, <1>1, <1>4, <2>1, <2>2, <2>4, <2>6 DEF Stamped
  <2>9. Quiet
    BY <1>4 DEF Quiet
  <2>10. job[w] \in Copies
    BY <1>1, CopiesHeld
  <2>11. Saves
    BY <1>0, <1>3, <2>1, <2>2, <2>7, <2>8, <2>9, <2>10 DEF Saves
  <2> QED BY <2>3, <2>11
<1>6. CASE UNCHANGED <<run, notes>>
  <2>1. TypeOK'
    BY <1>1, <1>4, <1>6 DEF TypeOK
  <2>2. Rests
    BY <1>1, <1>4, <1>6 DEF Rests
  <2> QED BY <2>1, <2>2
<1> QED BY <1>5, <1>6 DEF EndAttempt

\* executeClaim in its three endings.
LEMMA AttemptEnds ==
  ASSUME Ledgers, NEW w \in Workers, Complete(w) \/ FailClaim(w) \/ CancelClaim(w)
  PROVE  job[w] # None /\ \E d \in Ending(w) : EndAttempt(w, d)
<1>1. TypeOK /\ job[w] # None /\ job[w] \in Docs
  BY HeldTypes DEF Ledgers, Complete, FailClaim, CancelClaim, Executing
<1>2. ASSUME NEW now \in Now
      PROVE  LET e == Touched(job[w], now)
             IN  /\ e \in Docs /\ e.updated = now
                 /\ e.owner = job[w].owner /\ e.fence = job[w].fence
                 /\ e.attempt = job[w].attempt /\ e.keys = job[w].keys
                 /\ e.recon = job[w].recon
  <2>1. now \in Nat
    BY <1>1, Stamps
  <2> QED BY <1>1, <2>1, TouchedDoc
<1>3. Terminal \subseteq Status /\ "retry_scheduled" \in Status
      /\ "dead_letter" \in Terminal /\ "retry_scheduled" \notin Terminal
  BY DEF Status, Terminal, Waiting
<1>4. ASSUME NEW now \in Now, NEW st \in Terminal,
             EndAttempt(w, [Touched(job[w], now) EXCEPT
                              !.status = st, !.recon = TerminalRecon("none")])
      PROVE  \E d \in Ending(w) : EndAttempt(w, d)
  <2> DEFINE e == Touched(job[w], now)
             d == [e EXCEPT !.status = st, !.recon = TerminalRecon("none")]
  <2>1. /\ e \in Docs /\ e.updated = now /\ e.owner = job[w].owner /\ e.fence = job[w].fence
        /\ e.attempt = job[w].attempt /\ e.keys = job[w].keys
    BY <1>2
  <2>2. EndAttempt(w, d)
    BY <1>4
  <2> HIDE DEF e
  <2>3. TerminalRecon("none") \in Recon
    BY ReconFacts
  <2>4. /\ d \in Docs /\ d.updated = now /\ d.owner = job[w].owner /\ d.fence = job[w].fence
        /\ d.attempt = job[w].attempt /\ d.keys = job[w].keys
        /\ d.status = st /\ d.recon = TerminalRecon("none")
    BY <1>3, <2>1, <2>3 DEF Docs
  <2> HIDE DEF d
  <2>5. Reported(d)
    BY <2>4, ReconFacts DEF Reported
  <2>6. d \in Ending(w)
    BY <2>4, <2>5 DEF Ending
  <2> QED BY <2>2, <2>6
<1>5. CASE Complete(w)
  BY <1>1, <1>4, <1>5, AgentTaskAssumption DEF Complete
<1>6. CASE FailClaim(w)
  <2> DEFINE again(retryable) == retryable /\ job[w].attempt < MaxAttempts
             st(retryable, late) ==
               IF again(retryable) /\ ~late THEN "retry_scheduled" ELSE "dead_letter"
             rc(retryable, old) == IF again(retryable) THEN old ELSE TerminalRecon(old)
  <2>1. PICK now \in Now, retryable \in BOOLEAN, late \in BOOLEAN :
          EndAttempt(w, [Touched(job[w], now) EXCEPT
                           !.status = st(retryable, late), !.retryable = retryable,
                           !.recon = rc(retryable, @)])
    BY <1>6 DEF FailClaim
  <2> DEFINE e == Touched(job[w], now)
             d == [e EXCEPT !.status = st(retryable, late), !.retryable = retryable,
                            !.recon = rc(retryable, e.recon)]
  <2>2. /\ e \in Docs /\ e.updated = now /\ e.owner = job[w].owner /\ e.fence = job[w].fence
        /\ e.attempt = job[w].attempt /\ e.keys = job[w].keys
    BY <1>2
  <2>3. EndAttempt(w, d)
    BY <2>1
  <2> HIDE DEF e
  <2>4. rc(retryable, e.recon) \in Recon /\ st(retryable, late) \in Status
    BY <1>3, <2>2, ReconFacts DEF Docs
  <2>5. /\ ~again(retryable) =>
             (WorkflowTask => rc(retryable, e.recon) = "workflow_callback_pending")
        /\ again(retryable) => retryable /\ job[w].attempt < MaxAttempts
        /\ st(retryable, late) \in {"dead_letter", "retry_scheduled"}
    BY ReconFacts
  <2> HIDE DEF st, rc, again
  <2>6. /\ d \in Docs /\ d.updated = now /\ d.owner = job[w].owner /\ d.fence = job[w].fence
        /\ d.attempt = job[w].attempt /\ d.keys = job[w].keys
        /\ d.status = st(retryable, late) /\ d.recon = rc(retryable, e.recon)
        /\ d.retryable = retryable
    BY <2>2, <2>4 DEF Docs
  <2> HIDE DEF d
  <2>7. Reported(d)
    BY <1>3, <2>5, <2>6 DEF Reported
  <2>8. d.status \in Terminal \cup {"retry_scheduled"}
    BY <1>3, <2>5, <2>6
  <2>9. d \in Ending(w)
    BY <2>6, <2>7, <2>8 DEF Ending
  <2> QED BY <1>1, <2>3, <2>9
<1>7. CASE CancelClaim(w)
  <2>1. "cancelled" \in Terminal
    BY DEF Terminal
  <2> QED BY <1>1, <1>4, <1>7, <2>1 DEF CancelClaim
<1> QED BY <1>1, <1>5, <1>6, <1>7

\* An attempt that ends.
LEMMA AttemptStep ==
  ASSUME Ledgers, NEW w \in Workers, Complete(w) \/ FailClaim(w) \/ CancelClaim(w)
  PROVE  TypeOK' /\ (Rests \/ Saves)
BY AttemptEnds, EndAttemptStep

\* A claim.
LEMMA ClaimStep ==
  ASSUME Ledgers, NEW w \in Workers, Claim(w)
  PROVE  TypeOK' /\ Takes(w)
<1>1. TypeOK /\ run # None /\ run \in Rows /\ run.doc \in Docs
  BY HeldTypes DEF Ledgers, Claim
<1> DEFINE doc(now) == [Touched(run.doc, now) EXCEPT
                          !.status = "running", !.owner = w, !.fence = run.fence + 1,
                          !.attempt = @ + 1, !.retryable = FALSE]
<1>2. PICK now \in Now :
        /\ run' = [run EXCEPT !.status = "running", !.owner = w, !.fence = run.fence + 1,
                              !.live = TRUE, !.doc = doc(now), !.updated = now]
        /\ job' = [job EXCEPT ![w] = doc(now)]
        /\ clock' = now
  BY DEF Claim
<1>3. now \in Nat
  BY <1>1, Stamps
<1> DEFINE e == Touched(run.doc, now)
           d == doc(now)
<1>4. /\ e \in Docs /\ e.rev = run.doc.rev + 1 /\ e.updated = now /\ e.attempt = run.doc.attempt
      /\ e.calls = run.doc.calls /\ e.ledger = run.doc.ledger /\ e.keys = run.doc.keys
  BY <1>1, <1>3, TouchedDoc
<1>5. d = [e EXCEPT !.status = "running", !.owner = w, !.fence = run.fence + 1,
                    !.attempt = e.attempt + 1, !.retryable = FALSE]
  OBVIOUS
<1>6. run.fence + 1 \in Nat
  BY <1>1, SMT DEF Rows
<1>7. e.attempt + 1 \in Nat
  <2>1. e.attempt \in Nat
    BY <1>4 DEF Docs
  <2> HIDE DEF e
  <2> QED BY <2>1, SMT
<1> HIDE DEF e
<1>8. "running" \in Status /\ "running" \notin Terminal
  BY DEF Status, Terminal
<1>9. d \in Docs
  BY <1>4, <1>5, <1>6, <1>7, <1>8 DEF Docs
<1>10. /\ d.status = "running" /\ d.owner = w /\ d.fence = run.fence + 1
       /\ d.attempt = run.doc.attempt + 1 /\ d.rev = run.doc.rev + 1 /\ d.updated = now
       /\ d.calls = run.doc.calls /\ d.ledger = run.doc.ledger /\ d.keys = run.doc.keys
  BY <1>4, <1>5 DEF Docs
<1>11. /\ run' = [run EXCEPT !.status = "running", !.owner = w, !.fence = run.fence + 1,
                             !.live = TRUE, !.doc = d, !.updated = now]
       /\ job' = [job EXCEPT ![w] = d]
  BY <1>2
<1> HIDE DEF d, doc
<1>12. /\ run' \in Rows /\ run'.status = "running" /\ run'.owner = w
       /\ run'.fence = run.fence + 1 /\ run'.doc = d /\ run'.updated = now
       /\ run'.lost = run.lost
  BY <1>1, <1>3, <1>6, <1>8, <1>9, <1>11 DEF Rows
<1>13. run' # None
  BY <1>12, AgentTaskAssumption
<1>14. /\ job' \in [Workers -> Docs \cup {None}]
       /\ \A v \in Workers : job'[v] \in {job[v], d}
  BY <1>1, <1>9, <1>11 DEF TypeOK
<1>15. TypeOK'
  BY <1>1, <1>2, <1>3, <1>12, <1>14 DEF TypeOK, Claim
<1>16. LedgerOK(run.doc)'
  <2>1. LedgerOK(run.doc)
    BY <1>1, CopiesHeld DEF Ledgers
  <2> QED BY <1>10, <1>12, <2>1 DEF LedgerOK
<1>17. Stamped
  BY <1>1, <1>2, <1>10, <1>12, <1>13, <1>16 DEF Stamped
<1>18. run.status \in Waiting \cup {"running"}
  BY DEF Claim, Eligible
<1> QED BY <1>10, <1>12, <1>14, <1>15, <1>17, <1>18 DEF Takes, Claim

\* The first statement of a heartbeat.
LEMMA HeartbeatLeaseStep ==
  ASSUME Ledgers, NEW w \in Workers, HeartbeatLease(w)
  PROVE  TypeOK' /\ Extends(w)
<1>1. TypeOK /\ job[w] # None /\ run # None /\ run.status = "running"
  BY DEF Ledgers, HeartbeatLease, Executing, Leased
<1>2. run \in Rows /\ job[w] \in Docs
  BY <1>1, HeldTypes
<1>3. PICK now \in Now :
        /\ run' = [run EXCEPT !.updated = now]
        /\ beat' = [beat EXCEPT ![w] = [fence |-> job[w].fence, at |-> now, doc |-> None]]
        /\ clock' = now
  BY DEF HeartbeatLease
<1>4. now \in Nat
  BY <1>1, Stamps
<1>5. /\ run' \in Rows /\ run'.doc = run.doc /\ run'.status = run.status
      /\ run'.owner = run.owner /\ run'.fence = run.fence /\ run'.updated = now
      /\ run'.lost = run.lost
  BY <1>2, <1>3, <1>4 DEF Rows
<1>6. run' # None
  BY <1>5, AgentTaskAssumption
<1> DEFINE b == [fence |-> job[w].fence, at |-> now, doc |-> None]
<1>7. b \in Beats /\ b.fence = job[w].fence /\ b.at = now /\ b.doc = None
  BY <1>2, <1>4 DEF Beats, Docs
<1>8. b # None
  BY <1>7, AgentTaskAssumption
<1>9. beat' = [beat EXCEPT ![w] = b]
  BY <1>3
<1> HIDE DEF b
<1>10. /\ beat' \in [Workers -> Beats \cup {None}]
       /\ \A v \in Workers : beat'[v] = beat[v] \/ beat'[v] = b
  BY <1>1, <1>7, <1>9 DEF TypeOK
<1>11. TypeOK'
  BY <1>1, <1>3, <1>4, <1>5, <1>10 DEF TypeOK, HeartbeatLease
<1>12. Extends(w)
  BY <1>1, <1>3, <1>5, <1>6, <1>7, <1>8, <1>10 DEF Extends, HeartbeatLease
<1> QED BY <1>11, <1>12

\* The last statement of a heartbeat.
LEMMA HeartbeatSaveStep ==
  ASSUME Ledgers, NEW w \in Workers, HeartbeatSave(w)
  PROVE  TypeOK' /\ (Rests \/ Overwrites(w))
<1>1. TypeOK /\ Present /\ clock \in Nat /\ clock <= clock
  <2>1. TypeOK /\ Present /\ clock \in Nat
    BY DEF Ledgers, TypeOK
  <2> QED BY <2>1, SMT
<1>2. beat[w] # None /\ beat[w].doc # None /\ run # None
  BY <1>1 DEF HeartbeatSave, Present
<1>3. run \in Rows /\ beat[w] \in Beats /\ beat[w].doc \in Docs
  BY <1>1, <1>2, HeldTypes
<1>4. /\ beat' \in [Workers -> Beats \cup {None}]
      /\ \A v \in Workers : beat'[v] \in {None, beat[v]}
  BY <1>1 DEF HeartbeatSave, TypeOK
<1>5. UNCHANGED <<clock, job, call, cancel, notes, drafts, invoked, told>>
  BY DEF HeartbeatSave
<1>6. CASE Leased(w, beat[w].fence)
  <2> DEFINE d == Touched(beat[w].doc, beat[w].at)
  <2>1. d \in Docs
    <3>1. beat[w].at \in Nat
      BY <1>3 DEF Beats
    <3> QED BY <1>3, <3>1, TouchedDoc
  <2>2. run' = [run EXCEPT !.doc = d] /\ run.status = "running" /\ run.fence = beat[w].fence
    BY <1>6 DEF HeartbeatSave, Leased
  <2> HIDE DEF d
  <2>3. /\ run' \in Rows /\ run'.doc = d /\ run'.status = run.status
        /\ run'.owner = run.owner /\ run'.fence = run.fence /\ run'.updated = run.updated
        /\ run'.lost = run.lost
    BY <1>3, <2>1, <2>2 DEF Rows
  <2>4. run' # None
    BY <2>3, AgentTaskAssumption
  <2>5. TypeOK'
    BY <1>1, <1>4, <1>5, <2>3 DEF TypeOK
  <2>6. Quiet
    BY <1>4, <1>5 DEF Quiet
  <2>7. Overwrites(w)
    BY <1>2, <1>5, <2>2, <2>3, <2>4, <2>6 DEF Overwrites, d
  <2> QED BY <2>5, <2>7
<1>7. CASE ~Leased(w, beat[w].fence)
  <2>1. run' = run
    BY <1>7 DEF HeartbeatSave
  <2>2. TypeOK'
    BY <1>1, <1>4, <1>5, <2>1 DEF TypeOK
  <2>3. Rests
    BY <1>1, <1>2, <1>4, <1>5, <2>1 DEF Rests
  <2> QED BY <2>2, <2>3
<1> QED BY <1>6, <1>7

-----------------------------------------------------------------------------
(* Edits of the row's payload.                                             *)

\* A payload follows one that has its status, callback and keys.
LEMMA SameFollows ==
  ASSUME NEW d, NEW e, e.status = d.status, e.recon = d.recon, e.keys = d.keys
  PROVE  Follows(d, e)
BY DEF Follows

\* A payload put into the row is an edit if it continues the row's.
LEMMA EditStep ==
  ASSUME Ledgers, run # None, NEW d \in Docs, Put(d), clock' \in Now, d.updated = clock',
         d.owner = run.doc.owner, d.fence = run.doc.fence, d.attempt = run.doc.attempt,
         d.rev = run.doc.rev + 1, Follows(run.doc, d), LedgerOK(d), Quiet
  PROVE  Edits /\ run' \in Rows /\ clock' \in Nat
<1>1. TypeOK /\ run \in Rows
  BY HeldTypes DEF Ledgers
<1>2. /\ run' \in Rows
      /\ run'.status = d.status /\ run'.doc = d /\ run'.updated = d.updated
      /\ run'.owner = run.owner /\ run'.fence = run.fence /\ run'.lost = run.lost
  BY <1>1, PutRow
<1>3. run' # None
  BY <1>2, AgentTaskAssumption
<1>4. LedgerOK(run.doc)'
  BY <1>2 DEF LedgerOK
<1>5. Stamped
  BY <1>2, <1>3, <1>4 DEF Stamped
<1>6. Edits
  BY <1>2, <1>5 DEF Edits
<1>7. clock' \in Nat
  BY <1>1, Stamps
<1> QED BY <1>2, <1>6, <1>7

\* Reading the row for a tool call, or losing the call.
LEMMA CallIdleStep ==
  ASSUME Ledgers, NEW g \in Gateways, ToolGet(g) \/ ToolCallLost(g)
  PROVE  TypeOK' /\ Rests
<1>1. TypeOK /\ Present /\ clock \in Nat /\ clock <= clock
  <2>1. TypeOK /\ Present /\ clock \in Nat
    BY DEF Ledgers, TypeOK
  <2> QED BY <2>1, SMT
<1>2. UNCHANGED <<run, clock, job, beat, cancel, notes, drafts, invoked, told>>
  BY DEF ToolGet, ToolCallLost
<1>3. run # None /\ run.doc \in Docs
  BY <1>1, HeldTypes DEF ToolGet, ToolCallLost, Present
<1> DEFINE c == [phase |-> "begin", doc |-> run.doc, ref |-> 0, proposal |-> 0]
<1>4. c \in Calls /\ c.doc = run.doc
  <2>1. 0 \in Nat
    BY SMT
  <2> QED BY <1>3, <2>1 DEF Calls
<1>5. call' = [call EXCEPT ![g] = c] \/ call' = [call EXCEPT ![g] = None]
  BY DEF ToolGet, ToolCallLost
<1> HIDE DEF c
<1>6. /\ call' \in [Gateways -> Calls \cup {None}]
      /\ \A h \in Gateways : call'[h] \in {call[h], None, c}
  BY <1>1, <1>4, <1>5 DEF TypeOK
<1>7. TypeOK'
  BY <1>1, <1>2, <1>6 DEF TypeOK
<1>8. Rests
  BY <1>1, <1>2, <1>3, <1>4, <1>6 DEF Rests
<1> QED BY <1>7, <1>8

\* A call is charged to the run, or refused.
LEMMA BeginStep ==
  ASSUME Ledgers, NEW g \in Gateways, BeginToolCall(g)
  PROVE  TypeOK' /\ (Rests \/ Edits)
<1>1. TypeOK /\ Present /\ clock \in Nat /\ clock <= clock
  <2>1. TypeOK /\ Present /\ clock \in Nat
    BY DEF Ledgers, TypeOK
  <2> QED BY <2>1, SMT
<1>2. call[g] # None /\ run # None
  BY <1>1 DEF BeginToolCall, Present
<1>3. call[g] \in Calls /\ run \in Rows /\ run.doc \in Docs
  BY <1>1, <1>2, HeldTypes
<1>4. UNCHANGED <<job, beat, cancel, notes, drafts, told>>
  BY DEF BeginToolCall
<1>5. ASSUME NEW cost \in Costs, NEW now \in Now, CanReserve(run.doc, cost),
             Put(Reserved(Touched(run.doc, now), cost)), clock' = now,
             call' = [call EXCEPT ![g].phase = "host", ![g].ref = run.doc.calls + 1],
             invoked' = invoked + 1
      PROVE  TypeOK' /\ Edits
  <2> DEFINE e == Touched(run.doc, now)
             d == Reserved(e, cost)
             x == [cost |-> cost, done |-> FALSE]
             c == [call[g] EXCEPT !.phase = "host", !.ref = run.doc.calls + 1]
  <2>1. now \in Nat
    BY <1>1, Stamps
  <2>2. /\ e \in Docs /\ e.rev = run.doc.rev + 1 /\ e.updated = now
        /\ e.status = run.doc.status /\ e.owner = run.doc.owner /\ e.fence = run.doc.fence
        /\ e.attempt = run.doc.attempt /\ e.cancelled = run.doc.cancelled
        /\ e.calls = run.doc.calls /\ e.ledger = run.doc.ledger /\ e.recon = run.doc.recon
        /\ e.keys = run.doc.keys
    BY <1>3, <2>1, TouchedDoc
  <2> HIDE DEF e
  <2>3. x \in Entries /\ x.cost = cost
    BY DEF Entries
  <2>4. run.doc.ledger \in Seq(Entries) /\ run.doc.calls \in Nat
    BY <1>3 DEF Docs, Entries
  <2>5. d = [e EXCEPT !.calls = e.calls + 1, !.ledger = Append(e.ledger, x)]
    BY DEF Reserved
  <2> HIDE DEF d, x
  <2>6. run.doc.calls + 1 \in Nat /\ e.calls + 1 \in Nat
    BY <2>2, <2>4, SMT
  <2>7. Append(e.ledger, x) \in Seq(Entries) /\ Len(Append(e.ledger, x)) = Len(run.doc.ledger) + 1
    BY <2>2, <2>3, <2>4, SMT
  <2>8. /\ d \in Docs /\ d.rev = run.doc.rev + 1 /\ d.updated = now
        /\ d.status = run.doc.status /\ d.owner = run.doc.owner /\ d.fence = run.doc.fence
        /\ d.attempt = run.doc.attempt /\ d.cancelled = run.doc.cancelled
        /\ d.recon = run.doc.recon /\ d.keys = run.doc.keys
        /\ d.calls = run.doc.calls + 1 /\ d.ledger = Append(run.doc.ledger, x)
    BY <2>2, <2>5, <2>6, <2>7 DEF Docs, Entries
  <2>9. LedgerOK(run.doc)
    BY <1>1, <1>2, CopiesHeld DEF Ledgers
  <2>10. LedgerOK(d)
    <3>1. /\ UsedCost(Append(run.doc.ledger, x)) = UsedCost(run.doc.ledger) + cost
          /\ UsedCost(run.doc.ledger) + cost <= MaxCostUnits
      BY <1>5, <2>3, <2>4, CostOfAppend DEF CanReserve
    <3>2. /\ run.doc.calls = Len(run.doc.ledger) /\ run.doc.calls < MaxToolCalls
      BY <1>5, <2>9 DEF LedgerOK, CanReserve
    <3>3. run.doc.calls + 1 <= MaxToolCalls
      BY <2>4, <3>2, AgentTaskAssumption, SMT
    <3> QED BY <2>2, <2>7, <2>8, <3>1, <3>2, <3>3 DEF LedgerOK
  <2>11. Follows(run.doc, d)
    BY <2>8, SameFollows
  <2>12. c \in Calls /\ c.doc = call[g].doc
    BY <1>3, <2>6 DEF Calls
  <2>13. c # None
    BY <2>12, AgentTaskAssumption
  <2>14. call' = [call EXCEPT ![g] = c]
    BY <1>5
  <2> HIDE DEF c
  <2>15. /\ call' \in [Gateways -> Calls \cup {None}]
         /\ \A h \in Gateways : call'[h] # None => call[h] # None /\ call'[h].doc = call[h].doc
    BY <1>1, <1>2, <2>12, <2>14 DEF TypeOK
  <2>16. Quiet
    BY <1>4, <2>15 DEF Quiet
  <2>17. Put(d)
    BY <1>5 DEF d, e
  <2>18. Edits /\ run' \in Rows /\ clock' \in Nat
    BY <1>2, <1>5, <2>8, <2>10, <2>11, <2>16, <2>17, EditStep
  <2>19. invoked' \in Nat
    <3>1. invoked \in Nat
      BY <1>1 DEF TypeOK
    <3> QED BY <1>5, <3>1, SMT
  <2>20. TypeOK'
    BY <1>1, <1>4, <2>15, <2>18, <2>19 DEF TypeOK
  <2> QED BY <2>18, <2>20
<1>6. CASE call' = [call EXCEPT ![g] = None] /\ UNCHANGED <<run, clock, invoked>>
  <2>1. /\ call' \in [Gateways -> Calls \cup {None}]
        /\ \A h \in Gateways : call'[h] \in {call[h], None}
    BY <1>1, <1>6 DEF TypeOK
  <2>2. TypeOK'
    BY <1>1, <1>4, <1>6, <2>1 DEF TypeOK
  <2>3. Rests
    BY <1>1, <1>2, <1>4, <1>6, <2>1 DEF Rests
  <2> QED BY <2>2, <2>3
<1> QED BY <1>5, <1>6 DEF BeginToolCall

\* The host's answer closes the call, or finds it closed or its run lost.
LEMMA FinishStep ==
  ASSUME Ledgers, NEW g \in Gateways, FinishToolCall(g)
  PROVE  TypeOK' /\ (Rests \/ Edits)
<1>1. TypeOK /\ Present /\ clock \in Nat /\ clock <= clock
  <2>1. TypeOK /\ Present /\ clock \in Nat
    BY DEF Ledgers, TypeOK
  <2> QED BY <2>1, SMT
<1>2. call[g] # None /\ run # None
  BY <1>1 DEF FinishToolCall, Present
<1>3. call[g] \in Calls /\ run \in Rows /\ run.doc \in Docs
  BY <1>1, <1>2, HeldTypes
<1>4. UNCHANGED <<job, beat, cancel, notes, invoked, told>>
  BY DEF FinishToolCall
<1> DEFINE ref == call[g].ref
           found == /\ Leased(call[g].doc.owner, call[g].doc.fence)
                    /\ ref \in DOMAIN run.doc.ledger
           c == [call[g] EXCEPT !.phase = "wait", !.proposal = drafts + 1]
<1>5. /\ \/ /\ found
            /\ \E now \in Now :
                 /\ Put([Touched(run.doc, now) EXCEPT !.ledger[ref].done = TRUE])
                 /\ clock' = now
         \/ UNCHANGED <<run, clock>>
      /\ drafts' = drafts + 1 \/ drafts' = drafts
      /\ call' = [call EXCEPT ![g] = c] \/ call' = [call EXCEPT ![g] = None]
  BY DEF FinishToolCall
<1>6. drafts + 1 \in Nat /\ drafts' \in Nat
  <2>1. drafts \in Nat
    BY <1>1 DEF TypeOK
  <2>2. drafts + 1 \in Nat
    BY <2>1, SMT
  <2> QED BY <1>5, <2>1, <2>2
<1>7. c \in Calls /\ c.doc = call[g].doc
  BY <1>3, <1>6 DEF Calls
<1> HIDE DEF c, found
<1>8. /\ call' \in [Gateways -> Calls \cup {None}]
      /\ \A h \in Gateways : call'[h] # None => call[h] # None /\ call'[h].doc = call[h].doc
  BY <1>1, <1>2, <1>5, <1>7 DEF TypeOK
<1>9. ASSUME NEW now \in Now, found, clock' = now,
             Put([Touched(run.doc, now) EXCEPT !.ledger[ref].done = TRUE])
      PROVE  TypeOK' /\ Edits
  <2> DEFINE e == Touched(run.doc, now)
             m == [e.ledger EXCEPT ![ref].done = TRUE]
             d == [e EXCEPT !.ledger = m]
  <2>1. now \in Nat
    BY <1>1, Stamps
  <2>2. /\ e \in Docs /\ e.rev = run.doc.rev + 1 /\ e.updated = now
        /\ e.status = run.doc.status /\ e.owner = run.doc.owner /\ e.fence = run.doc.fence
        /\ e.attempt = run.doc.attempt /\ e.cancelled = run.doc.cancelled
        /\ e.calls = run.doc.calls /\ e.ledger = run.doc.ledger /\ e.recon = run.doc.recon
        /\ e.keys = run.doc.keys
    BY <1>3, <2>1, TouchedDoc
  <2>3. Put(d)
    BY <1>9
  <2> HIDE DEF e
  <2>4. run.doc.ledger \in Seq(Entries) /\ ref \in DOMAIN run.doc.ledger
    <3>1. run.doc.ledger \in Seq(Entries)
      BY <1>3 DEF Docs, Entries
    <3>2. ref \in DOMAIN run.doc.ledger
      BY <1>9 DEF found
    <3> QED BY <3>1, <3>2
  <2>5. /\ m \in Seq(Entries) /\ Len(m) = Len(run.doc.ledger)
        /\ UsedCost(m) = UsedCost(run.doc.ledger)
    BY <2>2, <2>4, CostOfClosed
  <2> HIDE DEF m
  <2>6. /\ d \in Docs /\ d.rev = run.doc.rev + 1 /\ d.updated = now
        /\ d.status = run.doc.status /\ d.owner = run.doc.owner /\ d.fence = run.doc.fence
        /\ d.attempt = run.doc.attempt /\ d.cancelled = run.doc.cancelled
        /\ d.recon = run.doc.recon /\ d.keys = run.doc.keys
        /\ d.calls = run.doc.calls /\ d.ledger = m
    BY <2>2, <2>5 DEF Docs, Entries
  <2> HIDE DEF d
  <2>7. LedgerOK(run.doc)
    BY <1>1, <1>2, CopiesHeld DEF Ledgers
  <2>8. LedgerOK(d)
    BY <2>5, <2>6, <2>7 DEF LedgerOK
  <2>9. Follows(run.doc, d)
    BY <2>6, SameFollows
  <2>10. Quiet
    BY <1>4, <1>8 DEF Quiet
  <2>11. Edits /\ run' \in Rows /\ clock' \in Nat
    BY <1>2, <1>9, <2>3, <2>6, <2>8, <2>9, <2>10, EditStep
  <2>12. TypeOK'
    BY <1>1, <1>4, <1>6, <1>8, <2>11 DEF TypeOK
  <2> QED BY <2>11, <2>12
<1>10. CASE UNCHANGED <<run, clock>>
  <2>1. TypeOK'
    BY <1>1, <1>4, <1>6, <1>8, <1>10 DEF TypeOK
  <2>2. Rests
    BY <1>1, <1>2, <1>4, <1>8, <1>10 DEF Rests
  <2> QED BY <2>1, <2>2
<1> QED BY <1>5, <1>9, <1>10

\* The run is parked for an approval, or the lease was lost.
LEMMA WaitStep ==
  ASSUME Ledgers, NEW g \in Gateways, WaitForApproval(g)
  PROVE  TypeOK' /\ (Rests \/ Saves)
<1>1. TypeOK /\ Present
  BY DEF Ledgers
<1>2. call[g] # None /\ run # None
  BY <1>1 DEF WaitForApproval, Present
<1>3. call[g] \in Calls /\ call[g].doc \in Docs /\ call[g].doc \in Copies /\ run.doc \in Copies
  BY <1>1, <1>2, HeldTypes, CopiesHeld
<1>4. /\ UNCHANGED <<job, beat, cancel, notes, drafts, invoked, told>>
      /\ call' = [call EXCEPT ![g] = None]
  BY DEF WaitForApproval
<1> DEFINE doc(now) == [Touched(call[g].doc, now) EXCEPT
                          !.status = "waiting_approval",
                          !.proposal = call[g].proposal, !.decision = "none"]
<1>5. PICK now \in Now :
        /\ SaveRunning(doc(now)) \/ UNCHANGED run
        /\ clock' = now
  BY DEF WaitForApproval
<1>6. now \in Nat /\ clock <= now
  BY <1>1, Stamps
<1> DEFINE e == Touched(call[g].doc, now)
           d == doc(now)
<1>7. /\ e \in Docs /\ e.updated = now /\ e.owner = call[g].doc.owner
      /\ e.fence = call[g].doc.fence /\ e.attempt = call[g].doc.attempt
      /\ e.keys = call[g].doc.keys
  BY <1>3, <1>6, TouchedDoc
<1>8. d = [e EXCEPT !.status = "waiting_approval",
                    !.proposal = call[g].proposal, !.decision = "none"]
  OBVIOUS
<1> HIDE DEF d, doc, e
<1>9. /\ "waiting_approval" \in Status /\ "waiting_approval" \notin Terminal
      /\ "none" \in Decision /\ call[g].proposal \in Nat
  BY <1>3 DEF Status, Decision, Calls, Terminal
<1>10. /\ d \in Docs /\ d.updated = now /\ d.status = "waiting_approval"
       /\ d.owner = call[g].doc.owner
       /\ d.fence = call[g].doc.fence /\ d.attempt = call[g].doc.attempt
       /\ d.keys = call[g].doc.keys
  BY <1>7, <1>8, <1>9 DEF Docs
<1>11. /\ call' \in [Gateways -> Calls \cup {None}]
       /\ \A h \in Gateways : call'[h] \in {call[h], None}
  BY <1>1, <1>4 DEF TypeOK
<1>12. CASE SaveRunning(d)
  <2>1. /\ Merged(d) \in Docs
        /\ run \in Rows /\ run.status = "running" /\ run.owner = d.owner /\ run.fence = d.fence
        /\ run' \in Rows
        /\ run'.status = d.status /\ run'.doc = Merged(d) /\ run'.updated = d.updated
        /\ run'.owner = run.owner /\ run'.fence = run.fence /\ run'.lost = run.lost
    BY <1>1, <1>10, <1>12, SavedRow
  <2>2. /\ Merged(d).status = d.status /\ Merged(d).updated = now /\ Merged(d).keys = d.keys
        /\ Merged(d).owner = d.owner /\ Merged(d).fence = d.fence /\ Merged(d).attempt = d.attempt
        /\ Merged(d).calls = run.doc.calls /\ Merged(d).ledger = run.doc.ledger
    BY <1>10 DEF Merged, Docs
  <2>3. TypeOK'
    BY <1>1, <1>4, <1>5, <1>6, <1>11, <2>1 DEF TypeOK
  <2>4. run' # None
    BY <2>1, AgentTaskAssumption
  <2>5. LedgerOK(run.doc)'
    <3>1. LedgerOK(run.doc)
      BY <1>3 DEF Ledgers
    <3> QED BY <2>1, <2>2, <3>1 DEF LedgerOK
  <2>6. Reported(run'.doc)
    BY <1>9, <1>10, <2>1, <2>2 DEF Reported
  <2>7. Stamped
    BY <1>2, <1>5, <1>10, <2>1, <2>2, <2>4, <2>5 DEF Stamped
  <2>8. Quiet
    BY <1>4, <1>11 DEF Quiet
  <2>9. Saves
    BY <1>3, <1>10, <2>1, <2>2, <2>6, <2>7, <2>8 DEF Saves
  <2> QED BY <2>3, <2>9
<1>13. CASE UNCHANGED run
  <2>1. TypeOK'
    BY <1>1, <1>4, <1>5, <1>6, <1>11, <1>13 DEF TypeOK
  <2>2. Rests
    BY <1>2, <1>4, <1>5, <1>6, <1>11, <1>13 DEF Rests
  <2> QED BY <2>1, <2>2
<1> QED BY <1>5, <1>12, <1>13 DEF d

-----------------------------------------------------------------------------
(* Approvals, cancellation, the callback and the operator.                 *)

\* Every decision ends the run.
LEMMA SettledEnds ==
  \A x : Settled(x) \in Terminal /\ Settled(x) \in Status /\ Settled(x) # "running"
<1> TAKE x
<1>1. Settled(x) \in {"succeeded", "rejected", "cancelled", "failed"}
  BY DEF Settled
<1> QED BY <1>1 DEF Terminal, Status

\* A decision on the run that waits for it.
LEMMA ResolveStep ==
  ASSUME Ledgers, run # None, run.doc.status = "waiting_approval",
         NEW x \in Decision, NEW now \in Now, ResolveApproval(x, now), clock' = now, Quiet
  PROVE  Edits /\ run' \in Rows /\ clock' \in Nat
<1> DEFINE e == Touched(run.doc, now)
           d == [e EXCEPT !.status = Settled(x), !.decision = x,
                          !.recon = TerminalRecon(e.recon)]
<1>1. TypeOK /\ run.doc \in Docs /\ run.doc \in Copies
  BY HeldTypes, CopiesHeld DEF Ledgers
<1>2. now \in Nat
  BY <1>1, Stamps
<1>3. /\ e \in Docs /\ e.rev = run.doc.rev + 1 /\ e.updated = now
      /\ e.owner = run.doc.owner /\ e.fence = run.doc.fence
      /\ e.attempt = run.doc.attempt /\ e.keys = run.doc.keys
      /\ e.calls = run.doc.calls /\ e.ledger = run.doc.ledger
  BY <1>1, <1>2, TouchedDoc
<1>4. Put(d)
  BY DEF ResolveApproval
<1> HIDE DEF e
<1>5. Settled(x) \in Status /\ Settled(x) \in Terminal /\ Settled(x) # "running"
  BY SettledEnds
<1>6. TerminalRecon(e.recon) \in Recon
  BY <1>3, ReconFacts DEF Docs
<1>7. /\ d \in Docs /\ d.rev = run.doc.rev + 1 /\ d.updated = now /\ d.status = Settled(x)
      /\ d.owner = run.doc.owner /\ d.fence = run.doc.fence
      /\ d.attempt = run.doc.attempt /\ d.recon = TerminalRecon(e.recon)
      /\ d.calls = run.doc.calls /\ d.ledger = run.doc.ledger /\ d.keys = run.doc.keys
  BY <1>3, <1>5, <1>6 DEF Docs
<1> HIDE DEF d
<1>8. LedgerOK(d)
  <2>1. LedgerOK(run.doc)
    BY <1>1 DEF Ledgers
  <2> QED BY <1>7, <2>1 DEF LedgerOK
<1>9. run.doc.status # "running" /\ run.doc.status \notin Terminal
  BY DEF Terminal
<1>10. Follows(run.doc, d)
  BY <1>5, <1>7, <1>9, ReconFacts DEF Follows
<1> QED BY <1>4, <1>7, <1>8, <1>10, EditStep

\* A proposal is decided or expires, or a cancellation withdraws it.
LEMMA ApprovalStep ==
  ASSUME Ledgers, ResolveProposal \/ ExpireApproval \/ CancelResolve
  PROVE  TypeOK' /\ (Rests \/ Edits)
<1>1. TypeOK /\ Present /\ clock \in Nat /\ clock <= clock
  <2>1. TypeOK /\ Present /\ clock \in Nat
    BY DEF Ledgers, TypeOK
  <2> QED BY <2>1, SMT
<1>2. /\ run # None
      /\ UNCHANGED <<job, beat, call, drafts, invoked, told>>
      /\ cancel' = cancel \/ cancel' = None
  BY <1>1 DEF ResolveProposal, ExpireApproval, CancelResolve, Present
<1>3. notes' = notes \/ \E s : notes' = notes \cup Note(s)
  BY DEF ResolveProposal, ExpireApproval, CancelResolve
<1>4. notes' \subseteq [status: Terminal, phase: {"call", "mark"}]
  BY <1>1, <1>3, NoteIsCall DEF TypeOK
<1>5. \/ UNCHANGED <<run, clock>>
      \/ /\ run.doc.status = "waiting_approval"
         /\ \E x \in Decision, now \in Now : ResolveApproval(x, now) /\ clock' = now
  <2>1. {"approved", "approved_failed", "rejected", "timed_out", "cancelled"} \subseteq Decision
    BY DEF Decision
  <2>2. CASE ResolveProposal
    BY <2>1, <2>2 DEF ResolveProposal, AwaitsApproval
  <2>3. CASE ExpireApproval
    BY <2>1, <2>3 DEF ExpireApproval
  <2>4. CASE CancelResolve
    BY <2>1, <2>4 DEF CancelResolve, AwaitsApproval
  <2> QED BY <2>2, <2>3, <2>4
<1>6. CASE UNCHANGED <<run, clock>>
  <2>1. TypeOK'
    BY <1>1, <1>2, <1>4, <1>6 DEF TypeOK
  <2>2. Rests
    BY <1>1, <1>2, <1>6 DEF Rests
  <2> QED BY <2>1, <2>2
<1>7. ASSUME run.doc.status = "waiting_approval", NEW x \in Decision, NEW now \in Now,
             ResolveApproval(x, now), clock' = now
      PROVE  TypeOK' /\ Edits
  <2>1. Quiet
    BY <1>2 DEF Quiet
  <2>2. Edits /\ run' \in Rows /\ clock' \in Nat
    BY <1>2, <1>7, <2>1, ResolveStep
  <2>3. TypeOK'
    BY <1>1, <1>2, <1>4, <2>2 DEF TypeOK
  <2> QED BY <2>2, <2>3
<1> QED BY <1>5, <1>6, <1>7

\* What the service keeps of a cancelled run is a proposal to withdraw.
LEMMA AfterCancelType ==
  ASSUME NEW d \in Docs
  PROVE  /\ AfterCancel(d) \in Cancels \cup {None}
         /\ AfterCancel(d) # None => AfterCancel(d).phase = "resolve"
<1>1. d.proposal \in Nat
  BY DEF Docs
<1> QED BY <1>1 DEF AfterCancel, Cancels

\* The store reads the run for a cancellation.
LEMMA CancelGetStep ==
  ASSUME Ledgers, CancelGet
  PROVE  TypeOK' /\ Rests
<1>1. TypeOK /\ run # None /\ run.doc \in Docs /\ clock \in Nat
  BY HeldTypes DEF Ledgers, CancelGet, TypeOK
<1>2. UNCHANGED <<run, clock, job, beat, call, notes, drafts, invoked, told>> /\ clock <= clock
  <2>1. clock <= clock
    BY <1>1, SMT
  <2> QED BY <2>1 DEF CancelGet
<1>3. /\ cancel' \in Cancels \cup {None}
      /\ (cancel' # None /\ cancel'.phase = "save") => cancel'.doc = run.doc
  <2>1. CASE cancel' = AfterCancel(run.doc)
    <3>1. "resolve" # "save"
      OBVIOUS
    <3> QED BY <1>1, <2>1, <3>1, AfterCancelType
  <2>2. CASE cancel' = [phase |-> "save", doc |-> run.doc]
    BY <1>1, <2>2 DEF Cancels
  <2> QED BY <2>1, <2>2 DEF CancelGet
<1>4. TypeOK'
  BY <1>1, <1>2, <1>3 DEF TypeOK
<1>5. Rests
  BY <1>1, <1>2, <1>3 DEF Rests
<1> QED BY <1>4, <1>5

\* The payload a cancellation saves.
LEMMA CancelledFacts ==
  ASSUME NEW c \in Docs, NEW now \in Nat
  PROVE  LET d == CancelledDoc(c, now)
         IN  /\ d \in Docs
             /\ d.rev = c.rev + 1 /\ d.updated = now
             /\ d.owner = c.owner /\ d.fence = c.fence /\ d.attempt = c.attempt
             /\ d.calls = c.calls /\ d.ledger = c.ledger
             /\ d.recon = c.recon /\ d.keys = c.keys
             /\ d.status = IF c.status \in Waiting THEN "cancelled" ELSE c.status
<1> DEFINE t == Touched(c, now)
           d == [t EXCEPT !.cancelled = TRUE,
                          !.status = IF t.status \in Waiting THEN "cancelled" ELSE t.status]
<1>1. /\ t \in Docs /\ t.rev = c.rev + 1 /\ t.updated = now
      /\ t.owner = c.owner /\ t.fence = c.fence /\ t.attempt = c.attempt
      /\ t.calls = c.calls /\ t.ledger = c.ledger
      /\ t.recon = c.recon /\ t.keys = c.keys /\ t.status = c.status
  BY TouchedDoc
<1>2. CancelledDoc(c, now) = d
  BY DEF CancelledDoc
<1> HIDE DEF t
<1>3. (IF t.status \in Waiting THEN "cancelled" ELSE t.status) \in Status
  BY <1>1 DEF Docs, Status, Terminal
<1> QED BY <1>1, <1>2, <1>3 DEF Docs

\* The store saves the cancellation, or finds the run changed.
LEMMA CancelSaveStep ==
  ASSUME Ledgers, CancelSave
  PROVE  TypeOK' /\ (Rests \/ CancelsRun)
<1>1. TypeOK /\ Present /\ clock \in Nat /\ clock <= clock
  <2>1. TypeOK /\ Present /\ clock \in Nat
    BY DEF Ledgers, TypeOK
  <2> QED BY <2>1, SMT
<1>2. cancel # None /\ cancel.phase = "save" /\ run # None
  BY <1>1 DEF CancelSave, Present
<1>3. cancel.doc \in Docs /\ run \in Rows /\ run.doc \in Docs
  BY <1>1, <1>2, HeldTypes
<1>4. UNCHANGED <<job, beat, call, notes, drafts, invoked, told>> /\ "resolve" # "save"
  BY DEF CancelSave
<1>5. ASSUME Millisecond(run.updated) = Millisecond(cancel.doc.updated), NEW now \in Now,
             run' = [run EXCEPT !.status = CancelledDoc(cancel.doc, now).status,
                                !.doc = CancelledDoc(cancel.doc, now), !.updated = now,
                                !.lost = @ \/ ~Unmoved(cancel.doc)],
             cancel' = AfterCancel(CancelledDoc(cancel.doc, now)), clock' = now
      PROVE  TypeOK' /\ CancelsRun
  <2> DEFINE d == CancelledDoc(cancel.doc, now)
             l == run.lost \/ ~Unmoved(cancel.doc)
  <2>1. now \in Nat
    BY <1>1, Stamps
  <2>2. d \in Docs
    BY <1>3, <2>1, CancelledFacts
  <2>3. run' = [run EXCEPT !.status = d.status, !.doc = d, !.updated = now, !.lost = l]
    BY <1>5
  <2>4. l \in BOOLEAN
    BY <1>3 DEF Rows
  <2>5. d.status \in Status
    BY <2>2 DEF Docs
  <2>6. cancel' = AfterCancel(d)
    BY <1>5
  <2> HIDE DEF d
  <2>7. /\ run' \in Rows /\ run'.status = d.status /\ run'.doc = d /\ run'.updated = now
        /\ run'.owner = run.owner /\ run'.fence = run.fence /\ run'.lost = l
    <3> HIDE DEF l
    <3> QED BY <1>3, <2>1, <2>2, <2>3, <2>4, <2>5 DEF Rows
  <2>8. run' # None
    BY <2>7, AgentTaskAssumption
  <2>9. /\ cancel' \in Cancels \cup {None}
        /\ ~(cancel' # None /\ cancel'.phase = "save")
    BY <1>4, <2>2, <2>6, AfterCancelType
  <2>10. TypeOK'
    BY <1>1, <1>4, <1>5, <2>1, <2>7, <2>9 DEF TypeOK
  <2>11. Quiet
    BY <1>4, <2>9 DEF Quiet
  <2>12. CancelsRun
    BY <1>2, <1>5, <2>7, <2>8, <2>9, <2>11 DEF CancelsRun, d
  <2> QED BY <2>10, <2>12
<1>6. CASE cancel' = AfterCancel(run.doc) /\ UNCHANGED <<run, clock>>
  <2>1. /\ cancel' \in Cancels \cup {None}
        /\ ~(cancel' # None /\ cancel'.phase = "save")
    BY <1>3, <1>4, <1>6, AfterCancelType
  <2>2. TypeOK'
    BY <1>1, <1>4, <1>6, <2>1 DEF TypeOK
  <2>3. Rests
    BY <1>1, <1>2, <1>4, <1>6, <2>1 DEF Rests
  <2> QED BY <2>2, <2>3
<1> QED BY <1>5, <1>6 DEF CancelSave

\* The callback is sent, accepted or lost.
LEMMA CallbackStep ==
  ASSUME Ledgers, NEW n,
         Redeliver \/ (n \in notes /\ (CompleteWorkflowTask(n) \/ LoseCallback(n)))
  PROVE  TypeOK' /\ Rests
<1>1. TypeOK /\ Present /\ clock \in Nat /\ clock <= clock
  <2>1. TypeOK /\ Present /\ clock \in Nat
    BY DEF Ledgers, TypeOK
  <2> QED BY <2>1, SMT
<1>2. run # None
  BY <1>1 DEF Present, Redeliver
<1>3. UNCHANGED <<run, clock, job, beat, call, cancel, drafts, invoked>>
  BY DEF Redeliver, CompleteWorkflowTask, LoseCallback
<1>4. n \in notes => n \in [status: Terminal, phase: {"call", "mark"}]
  BY <1>1 DEF TypeOK
<1>5. n \in notes =>
        [n EXCEPT !.phase = "mark"] \in [status: Terminal, phase: {"call", "mark"}]
  BY <1>4
<1>6. (told' = told \/ notes # {}) /\ told' \subseteq Terminal
  BY <1>1, <1>4 DEF Redeliver, CompleteWorkflowTask, LoseCallback, TypeOK
<1>7. notes' \subseteq [status: Terminal, phase: {"call", "mark"}]
  <2>1. notes \subseteq [status: Terminal, phase: {"call", "mark"}]
    BY <1>1 DEF TypeOK
  <2>2. CASE Redeliver
    BY <2>1, <2>2, NoteIsCall DEF Redeliver
  <2>3. CASE n \in notes /\ CompleteWorkflowTask(n)
    BY <1>5, <2>1, <2>3 DEF CompleteWorkflowTask
  <2>4. CASE LoseCallback(n)
    BY <2>1, <2>4 DEF LoseCallback
  <2> QED BY <2>2, <2>3, <2>4
<1>8. TypeOK'
  BY <1>1, <1>3, <1>6, <1>7 DEF TypeOK
<1>9. Rests
  BY <1>1, <1>2, <1>3, <1>6 DEF Rests
<1> QED BY <1>8, <1>9

\* An edit that changes at most how and why the run ended.
LEMMA EndEdit ==
  ASSUME Ledgers, run # None, run.doc.status \in Terminal, NEW now \in Now, clock' = now, Quiet,
         NEW d, d \in Docs, Put(d), d.updated = now, d.rev = run.doc.rev + 1,
         d.owner = run.doc.owner, d.fence = run.doc.fence, d.attempt = run.doc.attempt,
         d.calls = run.doc.calls, d.ledger = run.doc.ledger, Follows(run.doc, d)
  PROVE  Edits /\ run' \in Rows /\ clock' \in Nat
<1>1. LedgerOK(d)
  <2>1. LedgerOK(run.doc)
    BY CopiesHeld DEF Ledgers
  <2> QED BY <2>1 DEF LedgerOK
<1> QED BY <1>1, EditStep

\* The run is marked delivered, if it has ended and is not yet.
LEMMA MarkStep ==
  ASSUME Ledgers, NEW n \in notes, MarkDelivered(n)
  PROVE  TypeOK' /\ (Rests \/ Edits)
<1>1. TypeOK /\ Present /\ clock \in Nat /\ clock <= clock
  <2>1. TypeOK /\ Present /\ clock \in Nat
    BY DEF Ledgers, TypeOK
  <2> QED BY <2>1, SMT
<1>2. run # None /\ n.phase = "mark"
  BY <1>1 DEF Present, MarkDelivered
<1>3. UNCHANGED <<job, beat, call, cancel, drafts, invoked, told>>
  BY DEF MarkDelivered
<1>4. notes' \subseteq [status: Terminal, phase: {"call", "mark"}]
  BY <1>1 DEF MarkDelivered, TypeOK
<1>5. CASE UNCHANGED <<run, clock>>
  <2>1. TypeOK'
    BY <1>1, <1>3, <1>4, <1>5 DEF TypeOK
  <2>2. Rests
    BY <1>1, <1>2, <1>3, <1>5 DEF Rests
  <2> QED BY <2>1, <2>2
<1>6. ASSUME run.doc.status \in Terminal, NEW now \in Now, clock' = now,
             Put([Touched(run.doc, now) EXCEPT !.recon = "workflow_callback_delivered"])
      PROVE  TypeOK' /\ Edits
  <2> DEFINE e == Touched(run.doc, now)
             d == [e EXCEPT !.recon = "workflow_callback_delivered"]
  <2>1. run.doc \in Docs /\ now \in Nat
    BY <1>1, <1>2, HeldTypes, Stamps
  <2>2. /\ e \in Docs /\ e.rev = run.doc.rev + 1 /\ e.updated = now
        /\ e.status = run.doc.status /\ e.owner = run.doc.owner /\ e.fence = run.doc.fence
        /\ e.attempt = run.doc.attempt /\ e.keys = run.doc.keys
        /\ e.calls = run.doc.calls /\ e.ledger = run.doc.ledger
    BY <2>1, TouchedDoc
  <2>3. Put(d)
    BY <1>6
  <2> HIDE DEF e
  <2>4. "workflow_callback_delivered" \in Recon
    BY DEF Recon
  <2>5. /\ d \in Docs /\ d.rev = run.doc.rev + 1 /\ d.updated = now
        /\ d.status = run.doc.status /\ d.owner = run.doc.owner /\ d.fence = run.doc.fence
        /\ d.attempt = run.doc.attempt /\ d.recon = "workflow_callback_delivered"
        /\ d.calls = run.doc.calls /\ d.ledger = run.doc.ledger /\ d.keys = run.doc.keys
    BY <2>2, <2>4 DEF Docs
  <2> HIDE DEF d
  <2>6. Follows(run.doc, d)
    BY <1>2, <1>6, <2>5 DEF Follows
  <2>7. Quiet
    BY <1>3 DEF Quiet
  <2>8. Edits /\ run' \in Rows /\ clock' \in Nat
    BY <1>2, <1>6, <2>3, <2>5, <2>6, <2>7, EndEdit
  <2>9. TypeOK'
    BY <1>1, <1>3, <1>4, <2>8 DEF TypeOK
  <2> QED BY <2>8, <2>9
<1> QED BY <1>5, <1>6 DEF MarkDelivered

\* An operator's action: a new status and reconciliation, with the key.
LEMMA OperateStep ==
  ASSUME Ledgers, run # None, run.doc.status \in Terminal, NEW k \in Keys, k \notin run.doc.keys,
         NEW st \in Status \ {"running"}, NEW cn \in BOOLEAN,
         NEW rc \in {"manually_resolved", "force_restart"},
         Operate(k, [run.doc EXCEPT !.status = st, !.cancelled = cn, !.recon = rc])
  PROVE  TypeOK' /\ Edits
<1>1. TypeOK /\ run.doc \in Docs /\ rc \in Recon /\ run.doc.status # "running"
  BY HeldTypes DEF Ledgers, Recon, Terminal
<1> DEFINE b == [run.doc EXCEPT !.status = st, !.cancelled = cn, !.recon = rc]
<1>2. /\ b \in Docs /\ b.rev = run.doc.rev /\ b.status = st /\ b.recon = rc
      /\ b.owner = run.doc.owner /\ b.fence = run.doc.fence /\ b.attempt = run.doc.attempt
      /\ b.calls = run.doc.calls /\ b.ledger = run.doc.ledger /\ b.keys = run.doc.keys
  BY <1>1 DEF Docs
<1>3. /\ UNCHANGED <<job, beat, call, cancel, notes, drafts, invoked, told>>
      /\ \E now \in Now : /\ Put([Touched(b, now) EXCEPT !.keys = @ \cup {k}])
                          /\ clock' = now
  BY DEF Operate
<1> HIDE DEF b
<1>4. PICK now \in Now : Put([Touched(b, now) EXCEPT !.keys = @ \cup {k}]) /\ clock' = now
  BY <1>3
<1>5. now \in Nat
  BY <1>1, Stamps
<1> DEFINE e == Touched(b, now)
           d == [e EXCEPT !.keys = e.keys \cup {k}]
<1>6. /\ e \in Docs /\ e.rev = run.doc.rev + 1 /\ e.updated = now /\ e.status = st /\ e.recon = rc
      /\ e.owner = run.doc.owner /\ e.fence = run.doc.fence /\ e.attempt = run.doc.attempt
      /\ e.calls = run.doc.calls /\ e.ledger = run.doc.ledger /\ e.keys = run.doc.keys
  <2>1. /\ e \in Docs /\ e.rev = b.rev + 1 /\ e.updated = now
        /\ e.status = b.status /\ e.recon = b.recon
        /\ e.owner = b.owner /\ e.fence = b.fence /\ e.attempt = b.attempt
        /\ e.calls = b.calls /\ e.ledger = b.ledger /\ e.keys = b.keys
    BY <1>2, <1>5, TouchedDoc
  <2> HIDE DEF e
  <2> QED BY <1>2, <2>1
<1>7. Put(d)
  BY <1>4
<1> HIDE DEF e
<1>8. /\ d \in Docs /\ d.rev = run.doc.rev + 1 /\ d.updated = now /\ d.status = st /\ d.recon = rc
      /\ d.owner = run.doc.owner /\ d.fence = run.doc.fence /\ d.attempt = run.doc.attempt
      /\ d.calls = run.doc.calls /\ d.ledger = run.doc.ledger
      /\ d.keys = run.doc.keys \cup {k}
  BY <1>6 DEF Docs
<1> HIDE DEF d
<1>9. d.keys # run.doc.keys /\ run.doc.keys \subseteq d.keys
  BY <1>8
<1>10. Follows(run.doc, d)
  BY <1>1, <1>8, <1>9 DEF Follows
<1>11. Quiet
  BY <1>3 DEF Quiet
<1>12. Edits /\ run' \in Rows /\ clock' \in Nat
  BY <1>4, <1>7, <1>8, <1>10, <1>11, EndEdit
<1>13. TypeOK'
  BY <1>1, <1>3, <1>12 DEF TypeOK
<1> QED BY <1>12, <1>13

\* The operator's retry and resolution.
LEMMA OperatorStep ==
  ASSUME Ledgers, NEW k \in Keys, OperatorRetry(k) \/ OperatorResolve(k)
  PROVE  TypeOK' /\ Edits
<1>1. TypeOK /\ run # None /\ run.doc \in Docs /\ k \notin run.doc.keys
  BY HeldTypes DEF Ledgers, OperatorRetry, OperatorResolve
<1>2. run.doc.status \in Terminal
  BY DEF OperatorRetry, OperatorResolve, Terminal
<1>3. CASE OperatorRetry(k)
  <2>1. Operate(k, [run.doc EXCEPT !.status = "pending", !.cancelled = FALSE,
                                   !.recon = "force_restart"])
    BY <1>3 DEF OperatorRetry
  <2>2. "pending" \in Status \ {"running"} /\ FALSE \in BOOLEAN
    BY DEF Status, Waiting
  <2> QED BY <1>1, <1>2, <2>1, <2>2, OperateStep
<1>4. CASE OperatorResolve(k)
  <2>1. [run.doc EXCEPT !.status = "manual_review", !.cancelled = run.doc.cancelled,
                        !.recon = "manually_resolved"]
        = [run.doc EXCEPT !.status = "manual_review", !.recon = "manually_resolved"]
    BY <1>1 DEF Docs
  <2>2. Operate(k, [run.doc EXCEPT !.status = "manual_review",
                                   !.cancelled = run.doc.cancelled,
                                   !.recon = "manually_resolved"])
    BY <1>4, <2>1 DEF OperatorResolve
  <2>3. "manual_review" \in Status \ {"running"} /\ run.doc.cancelled \in BOOLEAN
    BY <1>1 DEF Status, Terminal, Docs
  <2> QED BY <1>1, <1>2, <2>2, <2>3, OperateStep
<1> QED BY <1>3, <1>4

\* An override of the output.
LEMMA OverrideStep ==
  ASSUME Ledgers, OverrideOutput
  PROVE  TypeOK' /\ Edits
<1>1. TypeOK /\ run # None /\ run.doc \in Docs /\ run.doc.status \in Terminal
  BY HeldTypes DEF Ledgers, OverrideOutput
<1>2. UNCHANGED <<job, beat, call, cancel, notes, drafts, invoked, told>>
  BY DEF OverrideOutput
<1>3. PICK now \in Now : Put(Touched(run.doc, now)) /\ clock' = now
  BY DEF OverrideOutput
<1>4. now \in Nat
  BY <1>1, Stamps
<1> DEFINE d == Touched(run.doc, now)
<1>5. /\ d \in Docs /\ d.rev = run.doc.rev + 1 /\ d.updated = now
      /\ d.status = run.doc.status /\ d.recon = run.doc.recon /\ d.keys = run.doc.keys
      /\ d.owner = run.doc.owner /\ d.fence = run.doc.fence /\ d.attempt = run.doc.attempt
      /\ d.calls = run.doc.calls /\ d.ledger = run.doc.ledger
  BY <1>1, <1>4, TouchedDoc
<1>6. Put(d)
  BY <1>3
<1> HIDE DEF d
<1>7. Follows(run.doc, d)
  BY <1>5, SameFollows
<1>8. Quiet
  BY <1>2 DEF Quiet
<1>9. Edits /\ run' \in Rows /\ clock' \in Nat
  BY <1>1, <1>3, <1>5, <1>6, <1>7, <1>8, EndEdit
<1>10. TypeOK'
  BY <1>1, <1>2, <1>9 DEF TypeOK
<1> QED BY <1>9, <1>10

-----------------------------------------------------------------------------
(* Ledgers is an invariant.                                                *)

Shaped ==
  \/ Rests \/ Edits \/ Saves \/ CancelsRun
  \/ \E w \in Workers : Takes(w) \/ Extends(w) \/ Overwrites(w)

\* Every step of a run that exists has one of the shapes.
LEMMA ShapedNext ==
  ASSUME Ledgers, Next, run # None
  PROVE  TypeOK' /\ Shaped
<1>1. CASE LeaseExpires \/ RetryDue
  BY <1>1, IdleStep DEF Shaped
<1>2. ASSUME NEW w \in Workers,
             \/ Claim(w) \/ Complete(w) \/ FailClaim(w) \/ CancelClaim(w)
             \/ HeartbeatLease(w) \/ HeartbeatRead(w) \/ HeartbeatSave(w)
             \/ HeartbeatFails(w) \/ Crash(w)
      PROVE  TypeOK' /\ Shaped
  BY <1>2, IdleStep, ClaimStep, AttemptStep, HeartbeatLeaseStep, HeartbeatSaveStep DEF Shaped
<1>3. ASSUME NEW g \in Gateways,
             \/ ToolGet(g) \/ BeginToolCall(g) \/ FinishToolCall(g) \/ WaitForApproval(g)
             \/ ToolCallLost(g)
      PROVE  TypeOK' /\ Shaped
  BY <1>3, CallIdleStep, BeginStep, FinishStep, WaitStep DEF Shaped
<1>4. CASE ResolveProposal \/ ExpireApproval \/ CancelGet \/ CancelSave \/ CancelResolve
  BY <1>4, ApprovalStep, CancelGetStep, CancelSaveStep DEF Shaped
<1>5. ASSUME NEW n, Redeliver \/ (n \in notes /\ (CompleteWorkflowTask(n) \/ LoseCallback(n)))
      PROVE  TypeOK' /\ Shaped
  BY <1>5, CallbackStep DEF Shaped
<1>6. ASSUME NEW n \in notes, MarkDelivered(n) PROVE TypeOK' /\ Shaped
  BY <1>6, MarkStep DEF Shaped
<1>7. ASSUME NEW k \in Keys, OperatorRetry(k) \/ OperatorResolve(k) PROVE TypeOK' /\ Shaped
  BY <1>7, OperatorStep DEF Shaped
<1>8. CASE OverrideOutput
  BY <1>8, OverrideStep DEF Shaped
<1>9. ~Create
  BY DEF Create
<1> QED BY <1>1, <1>2, <1>3, <1>4, <1>5, <1>6, <1>7, <1>8, <1>9 DEF Next

\* Copies come from the row.
Held ==
  /\ \A w \in Workers : job'[w] \in {None, job[w], run'.doc}
  /\ \A w \in Workers : beat'[w] # None =>
       \/ beat'[w].doc \in {None, run.doc}
       \/ beat[w] # None /\ beat'[w].doc = beat[w].doc
  /\ \A g \in Gateways : call'[g] # None =>
       call'[g].doc = run.doc \/ (call[g] # None /\ call'[g].doc = call[g].doc)
  /\ (cancel' # None /\ cancel'.phase = "save") => cancel' = cancel \/ cancel'.doc = run.doc

\* The only copy that a step can add is the row's new payload.
LEMMA CopiesGrow ==
  ASSUME TypeOK, run # None, Held
  PROVE  Copies' \subseteq Copies \cup {run'.doc}
<1> SUFFICES ASSUME NEW d \in Copies' PROVE d \in Copies \cup {run'.doc}
  OBVIOUS
<1>1. /\ run.doc \in Copies
      /\ \A w \in Workers : job[w] # None => job[w] \in Copies
      /\ \A w \in Workers : (beat[w] # None /\ beat[w].doc # None) => beat[w].doc \in Copies
      /\ \A g \in Gateways : call[g] # None => call[g].doc \in Copies
      /\ (cancel # None /\ cancel.phase = "save") => cancel.doc \in Copies
  BY CopiesHeld
<1>2. /\ d # None
      /\ \/ d = run'.doc
         \/ \E w \in Workers : d = job'[w]
         \/ \E w \in Workers : beat'[w] # None /\ d = beat'[w].doc
         \/ \E g \in Gateways : call'[g] # None /\ d = call'[g].doc
         \/ cancel' # None /\ cancel'.phase = "save" /\ d = cancel'.doc
  BY DEF Copies
<1>3. ASSUME NEW w \in Workers, d = job'[w] PROVE d \in Copies \cup {run'.doc}
  BY <1>1, <1>2, <1>3 DEF Held
<1>4. ASSUME NEW w \in Workers, beat'[w] # None, d = beat'[w].doc
      PROVE  d \in Copies \cup {run'.doc}
  BY <1>1, <1>2, <1>4 DEF Held
<1>5. ASSUME NEW g \in Gateways, call'[g] # None, d = call'[g].doc
      PROVE  d \in Copies \cup {run'.doc}
  BY <1>1, <1>2, <1>5 DEF Held
<1>6. ASSUME cancel' # None, cancel'.phase = "save", d = cancel'.doc
      PROVE  d \in Copies \cup {run'.doc}
  BY <1>1, <1>2, <1>6 DEF Held
<1> QED BY <1>2, <1>3, <1>4, <1>5, <1>6

\* A step of any shape keeps the run.
LEMMA ShapesHold ==
  ASSUME TypeOK, Shaped
  PROVE  run # None /\ run' # None /\ Held /\ (told' = told \/ notes # {})
<1>1. CASE Rests
  <2>1. ASSUME NEW w \in Workers, beat[w] # None, beat'[w] = [beat[w] EXCEPT !.doc = run.doc]
        PROVE  beat'[w].doc = run.doc
    BY <2>1, HeldTypes DEF Beats
  <2>2. Held
    BY <1>1, <2>1 DEF Rests, Held
  <2> QED BY <1>1, <2>2 DEF Rests
<1>2. ASSUME Quiet PROVE Held /\ (told' = told \/ notes # {})
  BY <1>2 DEF Quiet, Held
<1>3. CASE Edits
  BY <1>2, <1>3 DEF Edits, Stamped
<1>4. CASE Saves
  BY <1>2, <1>4 DEF Saves, Stamped
<1>5. CASE CancelsRun
  BY <1>2, <1>5 DEF CancelsRun
<1>6. ASSUME NEW w \in Workers, Overwrites(w) PROVE run # None /\ run' # None /\ Held /\ (told' = told \/ notes # {})
  BY <1>2, <1>6 DEF Overwrites
<1>7. ASSUME NEW w \in Workers, Takes(w) PROVE run # None /\ run' # None /\ Held /\ (told' = told \/ notes # {})
  BY <1>7 DEF Takes, Stamped, Held
<1>8. ASSUME NEW w \in Workers, Extends(w) PROVE run # None /\ run' # None /\ Held /\ (told' = told \/ notes # {})
  BY <1>8 DEF Extends, Held
<1> QED BY <1>1, <1>3, <1>4, <1>5, <1>6, <1>7, <1>8 DEF Shaped

\* The payload in the row stays within its budget.
LEMMA PayloadOK ==
  ASSUME Ledgers, Shaped
  PROVE  LedgerOK(run.doc)'
<1>1. TypeOK /\ run # None
  BY ShapesHold DEF Ledgers
<1>2. ASSUME NEW d \in Copies, NEW e, e.calls = d.calls, e.ledger = d.ledger, run'.doc = e
      PROVE  LedgerOK(run.doc)'
  <2>1. LedgerOK(d)
    BY DEF Ledgers
  <2> QED BY <1>2, <2>1 DEF LedgerOK
<1>3. run.doc \in Copies
  BY <1>1, CopiesHeld
<1>4. CASE Rests \/ \E w \in Workers : Extends(w)
  <2>1. run'.doc = run.doc
    BY <1>4 DEF Rests, Extends
  <2> QED BY <1>2, <1>3, <2>1
<1>5. CASE Stamped
  BY <1>5 DEF Stamped
<1>6. ASSUME NEW w \in Workers, Overwrites(w) PROVE LedgerOK(run.doc)'
  <2>1. /\ beat[w].doc \in Copies /\ beat[w].doc \in Docs /\ beat[w] \in Beats
        /\ run'.doc = Touched(beat[w].doc, beat[w].at)
    BY <1>1, <1>6, CopiesHeld, HeldTypes DEF Overwrites
  <2>2. beat[w].at \in Nat
    BY <2>1 DEF Beats
  <2> DEFINE e == Touched(beat[w].doc, beat[w].at)
  <2>3. e.calls = beat[w].doc.calls /\ e.ledger = beat[w].doc.ledger
    BY <2>1, <2>2, TouchedDoc
  <2> HIDE DEF e
  <2> QED BY <1>2, <2>1, <2>3 DEF e
<1>7. CASE CancelsRun
  <2>1. cancel.doc \in Copies /\ cancel.doc \in Docs
    BY <1>1, <1>7, CopiesHeld, HeldTypes DEF CancelsRun
  <2>2. PICK now \in Now : run'.doc = CancelledDoc(cancel.doc, now)
    BY <1>7 DEF CancelsRun
  <2>3. run'.doc.calls = cancel.doc.calls /\ run'.doc.ledger = cancel.doc.ledger
    <3>1. now \in Nat
      BY <1>1, Stamps
    <3>2. /\ CancelledDoc(cancel.doc, now).calls = cancel.doc.calls
          /\ CancelledDoc(cancel.doc, now).ledger = cancel.doc.ledger
      BY <2>1, <3>1, CancelledFacts
    <3> QED BY <2>2, <3>2
  <2> QED BY <1>2, <2>1, <2>3
<1> QED BY <1>4, <1>5, <1>6, <1>7 DEF Shaped, Edits, Saves, Takes

\* A callback is marked only after the workflow accepted one of its status.
LEMMA ToldNext ==
  ASSUME Ledgers, Next
  PROVE  Told'
<1>1. Told
  BY DEF Ledgers
<1>2. ASSUME told' = told, notes' = notes \/ (\E s : notes' = notes \cup Note(s)) \/ notes' \subseteq notes
      PROVE  Told'
  <2>1. \A n \in notes' : n.phase = "mark" => n \in notes
    <3>1. "call" # "mark"
      OBVIOUS
    <3> QED BY <1>2, <3>1, NoteIsCall
  <2> QED BY <1>1, <1>2, <2>1 DEF Told
<1>3. ASSUME UNCHANGED <<notes, told>> PROVE Told'
  BY <1>1, <1>3 DEF Told
<1>4. CASE Create \/ LeaseExpires \/ RetryDue
  BY <1>3, <1>4 DEF Create, LeaseExpires, RetryDue
<1>5. ASSUME NEW w \in Workers,
             \/ Claim(w) \/ HeartbeatLease(w) \/ HeartbeatRead(w) \/ HeartbeatSave(w)
             \/ HeartbeatFails(w) \/ Crash(w)
      PROVE  Told'
  BY <1>3, <1>5 DEF Claim, HeartbeatLease, HeartbeatRead, HeartbeatSave, HeartbeatFails, Crash
<1>6. ASSUME NEW w \in Workers, Complete(w) \/ FailClaim(w) \/ CancelClaim(w)
      PROVE  Told'
  <2>1. \E d : EndAttempt(w, d)
    BY <1>6 DEF Complete, FailClaim, CancelClaim
  <2> QED BY <1>2, <2>1 DEF EndAttempt
<1>7. ASSUME NEW g \in Gateways,
             \/ ToolGet(g) \/ BeginToolCall(g) \/ FinishToolCall(g) \/ WaitForApproval(g)
             \/ ToolCallLost(g)
      PROVE  Told'
  BY <1>3, <1>7 DEF ToolGet, BeginToolCall, FinishToolCall, WaitForApproval, ToolCallLost
<1>8. CASE ResolveProposal \/ Redeliver
  BY <1>2, <1>8 DEF ResolveProposal, Redeliver
<1>9. CASE ExpireApproval \/ CancelGet \/ CancelSave \/ CancelResolve \/ OverrideOutput
  BY <1>3, <1>9 DEF ExpireApproval, CancelGet, CancelSave, CancelResolve, OverrideOutput
<1>10. ASSUME NEW n \in notes, MarkDelivered(n) \/ LoseCallback(n) PROVE Told'
  BY <1>2, <1>10 DEF MarkDelivered, LoseCallback
<1>11. ASSUME NEW n \in notes, CompleteWorkflowTask(n) PROVE Told'
  <2>1. /\ notes' = (notes \ {n}) \cup {[n EXCEPT !.phase = "mark"]}
        /\ told' = told \cup {n.status}
    BY <1>11 DEF CompleteWorkflowTask
  <2>2. [n EXCEPT !.phase = "mark"].status = n.status
    BY DEF Ledgers, TypeOK
  <2> QED BY <1>1, <2>1, <2>2 DEF Told
<1>12. ASSUME NEW k \in Keys, OperatorRetry(k) \/ OperatorResolve(k) PROVE Told'
  BY <1>3, <1>12 DEF OperatorRetry, OperatorResolve, Operate
<1> QED BY <1>4, <1>5, <1>6, <1>7, <1>8, <1>9, <1>10, <1>11, <1>12 DEF Next

\* A run is created with an empty ledger and nothing under way.
LEMMA CreateStep ==
  ASSUME Ledgers, Create
  PROVE  /\ TypeOK' /\ Present' /\ StatusFits' /\ run' # None /\ Copies' = {run'.doc}
         /\ LedgerOK(run.doc)' /\ ~run'.lost
         /\ ColumnsMatchPayload' /\ run'.updated = clock' /\ run'.doc.updated = clock'
         /\ run'.status # "running"
<1>1. TypeOK /\ Present /\ run = None /\ clock \in Nat
  BY DEF Ledgers, Create, TypeOK
<1>2. UNCHANGED <<clock, job, beat, call, cancel, notes, drafts, invoked, told>>
  BY DEF Create
<1> DEFINE d == [status |-> "pending", owner |-> None, fence |-> 0,
                 attempt |-> 0, rev |-> 1, updated |-> clock,
                 cancelled |-> FALSE, calls |-> 0, ledger |-> <<>>,
                 proposal |-> 0, decision |-> "none",
                 retryable |-> FALSE, recon |-> "none", keys |-> {}]
           r == [status |-> "pending", owner |-> None, fence |-> 0,
                 live |-> FALSE, due |-> TRUE, updated |-> clock, doc |-> d,
                 lost |-> FALSE]
<1>3. run' = r
  BY DEF Create
<1>4. /\ 0 \in Nat /\ 1 \in Nat /\ <<>> \in Seq([cost: Costs, done: BOOLEAN])
      /\ Len(<<>>) = 0 /\ 0 <= MaxToolCalls /\ 0 <= MaxCostUnits
  BY AgentTaskAssumption, SMT
<1>5. "pending" \in Status /\ "pending" \notin Terminal /\ "none" \in Decision /\ "none" \in Recon
  BY DEF Status, Waiting, Terminal, Decision, Recon
<1>6. d \in Docs
  BY <1>1, <1>4, <1>5 DEF Docs
<1>7. /\ d.status = "pending" /\ d.calls = 0 /\ d.ledger = <<>> /\ d.owner = None /\ d.fence = 0
      /\ d.attempt = 0 /\ d.updated = clock
  OBVIOUS
<1> HIDE DEF d
<1>8. r \in Rows
  BY <1>1, <1>4, <1>5, <1>6 DEF Rows
<1>9. /\ r.doc = d /\ r.status = "pending" /\ r.owner = None /\ r.fence = 0 /\ r.updated = clock
      /\ ~r.lost
  OBVIOUS
<1> HIDE DEF r
<1>10. run' # None /\ None \notin Docs
  BY <1>3, <1>8, AgentTaskAssumption
<1>11. TypeOK'
  BY <1>1, <1>2, <1>3, <1>8 DEF TypeOK
<1>12. LedgerOK(run.doc)' /\ ~run'.lost
  BY <1>3, <1>4, <1>7, <1>9, CostOfEmpty DEF LedgerOK
<1>13. /\ \A w \in Workers : job'[w] = None /\ beat'[w] = None
       /\ \A g \in Gateways : call'[g] = None
       /\ cancel' = None
  BY <1>1, <1>2 DEF Present
<1>14. Copies' = {run'.doc}
  <2>1. run'.doc # None
    BY <1>3, <1>6, <1>9, <1>10
  <2> QED BY <1>10, <1>13, <2>1 DEF Copies
<1>15. Present' /\ StatusFits'
  BY <1>3, <1>7, <1>9, <1>10 DEF Present, StatusFits
<1>16. ColumnsMatchPayload' /\ run'.updated = clock' /\ run'.doc.updated = clock'
       /\ run'.status # "running"
  BY <1>2, <1>3, <1>7, <1>9 DEF ColumnsMatchPayload
<1> QED BY <1>10, <1>11, <1>12, <1>14, <1>15, <1>16

\* Before the run exists only its creation is possible.
LEMMA OnlyCreate ==
  ASSUME Ledgers, Next, run = None
  PROVE  Create
<1>1. Present
  BY DEF Ledgers
<1>2. /\ \A w \in Workers : job[w] = None /\ beat[w] = None
      /\ \A g \in Gateways : call[g] = None
      /\ cancel = None /\ notes = {}
  BY <1>1 DEF Present
<1> QED BY <1>2 DEF Next, LeaseExpires, RetryDue, Claim, Complete, FailClaim,
          CancelClaim, HeartbeatLease, HeartbeatRead, HeartbeatSave, HeartbeatFails, Crash,
          Executing, ToolGet, BeginToolCall, FinishToolCall, WaitForApproval, ToolCallLost,
          ResolveProposal, ExpireApproval, CancelGet, CancelSave, CancelResolve, Redeliver,
          OperatorRetry, OperatorResolve, OverrideOutput

\* Ledgers holds before the run exists.
LEMMA LedgersInit == Init => Ledgers
<1> SUFFICES ASSUME Init PROVE Ledgers
  OBVIOUS
<1>1. 0 \in Nat /\ clock \in Nat
  <2>1. clock \in 0..(Resolution - 1)
    BY DEF Init
  <2> QED BY <2>1, AgentTaskAssumption, SMT
<1>2. TypeOK
  BY <1>1 DEF Init, TypeOK
<1>3. Copies = {}
  BY DEF Init, Copies
<1> QED BY <1>2, <1>3 DEF Init, Ledgers, Present, StatusFits, Told

\* Every step preserves Ledgers.
LEMMA LedgersNext == Ledgers /\ [Next]_vars => Ledgers'
<1>1. ASSUME Ledgers, Next PROVE Ledgers'
  <2>1. Told'
    BY <1>1, ToldNext
  <2>2. ASSUME Copies' \subseteq Copies \cup {run'.doc}, LedgerOK(run.doc)'
        PROVE  (\A d \in Copies : LedgerOK(d))'
    <3> SUFFICES ASSUME NEW d \in Copies' PROVE LedgerOK(d)'
      OBVIOUS
    <3>1. CASE d \in Copies
      <4>1. LedgerOK(d)
        BY <1>1, <3>1 DEF Ledgers
      <4> QED BY <4>1 DEF LedgerOK
    <3>2. CASE d = run'.doc
      BY <2>2, <3>2 DEF LedgerOK
    <3> QED BY <2>2, <3>1, <3>2
  <2>3. CASE run = None
    <3>1. Create
      BY <1>1, <2>3, OnlyCreate
    <3> QED BY <1>1, <2>1, <2>2, <3>1, CreateStep DEF Ledgers
  <2>4. CASE run # None
    <3>1. TypeOK /\ TypeOK' /\ Shaped
      BY <1>1, <2>4, ShapedNext DEF Ledgers
    <3>2. run' # None /\ Held
      BY <3>1, ShapesHold
    <3>3. (\A d \in Copies : LedgerOK(d))'
      BY <1>1, <2>2, <2>4, <3>1, <3>2, CopiesGrow, PayloadOK
    <3>4. StatusFits'
      <4>1. StatusFits
        BY <1>1 DEF Ledgers
      <4> QED BY <3>1, <4>1 DEF Shaped, StatusFits, Rests, Edits, Saves, CancelsRun, Takes,
                Extends, Overwrites, Stamped
    <3> QED BY <2>1, <3>1, <3>2, <3>3, <3>4 DEF Ledgers, Present
  <2> QED BY <2>3, <2>4
<1>2. ASSUME Ledgers, UNCHANGED vars PROVE Ledgers'
  <2>1. Copies' = Copies
    BY <1>2 DEF vars, Copies
  <2>2. \A d \in Copies : LedgerOK(d)
    BY <1>2 DEF Ledgers
  <2>3. (\A d \in Copies : LedgerOK(d))'
    BY <1>2, <2>1, <2>2 DEF vars, LedgerOK
  <2>4. TypeOK' /\ Present' /\ StatusFits' /\ Told'
    BY <1>2 DEF Ledgers, vars, TypeOK, Present, StatusFits, Told
  <2> QED BY <2>3, <2>4 DEF Ledgers
<1> QED BY <1>1, <1>2

-----------------------------------------------------------------------------
(* Fits is an invariant.                                                   *)

\* What Fits says of a run that exists, and the numbers it compares.
LEMMA FitFacts ==
  ASSUME Ledgers, Fits, run # None, ~run.lost
  PROVE  /\ TypeOK /\ clock \in Nat
         /\ run.updated \in Nat /\ run.fence \in Nat /\ run.updated <= clock
         /\ run.doc \in Copies /\ run.doc \in Docs
         /\ ColumnsMatchPayload
         /\ run.status = run.doc.status /\ run.owner = run.doc.owner /\ run.fence = run.doc.fence
         /\ run.doc.attempt = run.fence
         /\ \A d \in Copies : d \in Docs /\ d.updated \in Nat /\ d.fence \in Nat /\ CopyFits(d)
         /\ \A w \in Workers : beat[w] # None =>
              beat[w] \in Beats /\ beat[w].at \in Nat /\ beat[w].fence \in Nat /\ BeatFits(beat[w])
         /\ (cancel # None /\ cancel.phase = "save") =>
              /\ CancelFits(cancel)
              /\ cancel.doc \in Copies /\ cancel.doc.updated \in Nat
<1>1. TypeOK /\ clock \in Nat /\ run \in Rows /\ run.doc \in Docs /\ run.doc \in Copies
  BY HeldTypes, CopiesHeld DEF Ledgers, TypeOK
<1>2. run.updated \in Nat /\ run.fence \in Nat /\ run.updated <= clock /\ ColumnsMatchPayload
  BY <1>1 DEF Rows, Fits
<1>3. \A d \in Copies : d \in Docs
  BY <1>1, CopiesHeld
<1>4. \A d \in Copies : d.updated \in Nat /\ d.fence \in Nat /\ CopyFits(d)
  BY <1>3 DEF Docs, Fits
<1>5. \A w \in Workers : beat[w] # None =>
        beat[w] \in Beats /\ beat[w].at \in Nat /\ beat[w].fence \in Nat /\ BeatFits(beat[w])
  <2>1. \A w \in Workers : beat[w] # None => beat[w] \in Beats
    BY <1>1, HeldTypes
  <2> QED BY <2>1 DEF Beats, Fits
<1>6. (cancel # None /\ cancel.phase = "save") =>
        /\ CancelFits(cancel)
        /\ cancel.doc \in Copies /\ cancel.doc.updated \in Nat
  BY <1>1, <1>4, HeldTypes, CopiesHeld DEF Fits
<1>7. run.status = run.doc.status /\ run.owner = run.doc.owner /\ run.fence = run.doc.fence
      /\ run.doc.attempt = run.fence
  BY <1>2 DEF ColumnsMatchPayload
<1> QED BY <1>1, <1>2, <1>3, <1>4, <1>5, <1>6, <1>7

\* A copy fits on while the claim, its status and its keys stay.
LEMMA CopyFitsOn ==
  ASSUME NEW d, CopyFits(d), d.updated \in Nat, clock \in Nat, clock' \in Nat, clock <= clock',
         run'.fence = run.fence, run'.owner = run.owner,
         run'.status = "running" => run.status = "running" /\ run'.doc.keys = run.doc.keys
  PROVE  CopyFits(d)'
<1>1. d.updated <= clock'
  <2>1. d.updated <= clock
    BY DEF CopyFits
  <2> QED BY <2>1, SMT
<1> QED BY <1>1 DEF CopyFits

\* A heartbeat's copy still fits when the clock moves on under the same fence.
LEMMA BeatFitsOn ==
  ASSUME NEW b, BeatFits(b), b.at \in Nat, clock \in Nat, clock' \in Nat, clock <= clock',
         run'.fence = run.fence
  PROVE  BeatFits(b)'
<1>1. b.at <= clock'
  <2>1. b.at <= clock
    BY DEF BeatFits
  <2> QED BY <2>1, SMT
<1> QED BY <1>1 DEF BeatFits

\* A new stamp is one no cancellation has read.
LEMMA CancelFitsStamped ==
  ASSUME NEW c, c.doc.updated \in Nat, c.doc.updated <= clock,
         clock \in Nat, clock' \in Nat, clock < clock', run'.updated = clock'
  PROVE  CancelFits(c)'
<1>1. c.doc.updated # clock'
  BY SMT
<1> QED BY <1>1 DEF CancelFits

\* The row stays.
LEMMA FitsRests ==
  ASSUME Ledgers, Fits, Rests, TypeOK', ~run'.lost
  PROVE  Fits'
<1>1. run # None /\ ~run.lost /\ clock' \in Nat /\ clock <= clock' /\ Shaped
  BY DEF Rests, TypeOK, Shaped
<1>2. /\ TypeOK /\ clock \in Nat
      /\ run.updated \in Nat /\ run.updated <= clock /\ run.doc \in Copies
      /\ ColumnsMatchPayload /\ run.fence = run.doc.fence
      /\ \A d \in Copies : d.updated \in Nat /\ CopyFits(d)
      /\ \A w \in Workers : beat[w] # None =>
           beat[w] \in Beats /\ beat[w].at \in Nat /\ beat[w].fence \in Nat /\ BeatFits(beat[w])
      /\ (cancel # None /\ cancel.phase = "save") => CancelFits(cancel)
  BY <1>1, FitFacts
<1>3. /\ run'.doc = run.doc /\ run'.status = run.status /\ run'.updated = run.updated
      /\ run'.owner = run.owner /\ run'.fence = run.fence
  BY DEF Rests
<1>4. ColumnsMatchPayload'
  BY <1>1, <1>2, <1>3 DEF ColumnsMatchPayload
<1>5. run'.updated <= clock' /\ clock' <= clock'
  BY <1>1, <1>2, <1>3, SMT
<1>6. \A d \in Copies' : CopyFits(d)'
  <2> SUFFICES ASSUME NEW d \in Copies' PROVE CopyFits(d)'
    OBVIOUS
  <2>1. d \in Copies
    BY <1>1, <1>2, <1>3, ShapesHold, CopiesGrow
  <2> QED BY <1>1, <1>2, <1>3, <2>1, CopyFitsOn
<1>7. ASSUME NEW w \in Workers, beat'[w] # None PROVE BeatFits(beat[w])'
  <2>1. CASE beat'[w] = beat[w]
    <3>1. BeatFits(beat[w])
      BY <1>2, <1>7, <2>1
    <3>2. PICK b : b = beat[w]
      OBVIOUS
    <3>3. BeatFits(b)'
      BY <1>1, <1>2, <1>3, <1>7, <2>1, <3>1, <3>2, BeatFitsOn
    <3> QED BY <2>1, <3>2, <3>3 DEF BeatFits
  <2>2. CASE beat[w] # None /\ beat'[w] = [beat[w] EXCEPT !.doc = run.doc]
    <3>1. beat[w] \in Beats /\ BeatFits(beat[w]) /\ beat[w].at \in Nat
      BY <1>2, <2>2
    <3>2. beat'[w].at = beat[w].at /\ beat'[w].fence = beat[w].fence /\ beat'[w].doc = run.doc
      BY <2>2, <3>1 DEF Beats
    <3>3. beat[w].at <= clock /\ beat[w].fence <= run.fence
      BY <3>1 DEF BeatFits
    <3>4. beat[w].at <= clock'
      BY <1>1, <1>2, <3>1, <3>3, SMT
    <3> QED BY <1>2, <1>3, <3>2, <3>3, <3>4 DEF BeatFits
  <2> QED BY <1>7, <2>1, <2>2 DEF Rests
<1>8. ASSUME cancel' # None, cancel'.phase = "save" PROVE CancelFits(cancel)'
  <2>1. CASE cancel' = cancel
    <3>1. CancelFits(cancel)
      BY <1>2, <1>8, <2>1
    <3> QED BY <1>3, <2>1, <3>1 DEF CancelFits, Unmoved
  <2>2. CASE cancel'.doc = run.doc
    BY <1>1, <1>2, <1>3, <2>2 DEF CancelFits, Unmoved, ColumnsMatchPayload
  <2> QED BY <1>8, <2>1, <2>2 DEF Rests
<1> QED BY <1>4, <1>5, <1>6, <1>7, <1>8 DEF Fits

\* The payload is written with a new stamp, under the claim that has the run.
LEMMA FitsStamped ==
  ASSUME Ledgers, Fits, Edits \/ Saves, TypeOK', ~run'.lost
  PROVE  Fits'
<1>1. /\ run # None /\ ~run.lost /\ clock' \in Now /\ Shaped /\ Quiet
      /\ run'.updated = clock' /\ run'.doc.updated = clock'
      /\ run'.status = run'.doc.status /\ run'.owner = run.owner /\ run'.fence = run.fence
  BY DEF Edits, Saves, Stamped, Shaped
<1>2. /\ TypeOK /\ clock \in Nat /\ run.doc \in Copies
      /\ run.status = run.doc.status /\ run.owner = run.doc.owner /\ run.fence = run.doc.fence
      /\ run.doc.attempt = run.fence
      /\ \A d \in Copies : d.updated \in Nat /\ CopyFits(d)
      /\ \A w \in Workers : beat[w] # None => beat[w].at \in Nat /\ BeatFits(beat[w])
      /\ (cancel # None /\ cancel.phase = "save") =>
           /\ CancelFits(cancel)
           /\ cancel.doc \in Copies /\ cancel.doc.updated \in Nat
  BY <1>1, FitFacts
<1>3. clock' \in Nat /\ clock < clock'
  BY <1>1, <1>2, Stamps
<1>4. clock <= clock' /\ clock' <= clock' /\ run.fence <= run.fence
  <2>1. run.fence \in Nat
    BY <1>1, FitFacts
  <2> QED BY <1>2, <1>3, <2>1, SMT
<1>5. run'.status = "running" => run.status = "running" /\ run'.doc.keys = run.doc.keys
  BY <1>1, <1>2 DEF Edits, Saves, Follows
<1>6. /\ run'.doc.owner = run.owner /\ run'.doc.fence = run.fence
      /\ run'.doc.attempt = run.fence
  <2>1. CASE Edits
    BY <1>2, <2>1 DEF Edits
  <2>2. CASE Saves
    <3>1. PICK c \in Copies : run'.doc.attempt = c.attempt /\ run'.doc.fence = c.fence
      BY <2>2 DEF Saves
    <3>2. c.attempt = c.fence
      BY <1>2 DEF CopyFits
    <3> QED BY <2>2, <3>1, <3>2 DEF Saves
  <2> QED BY <2>1, <2>2
<1>7. ColumnsMatchPayload'
  BY <1>1, <1>6 DEF ColumnsMatchPayload
<1>8. ASSUME NEW d \in Copies' PROVE CopyFits(d)'
  <2>1. d \in Copies \/ d = run'.doc
    BY <1>1, <1>2, ShapesHold, CopiesGrow
  <2>2. CASE d \in Copies
    BY <1>1, <1>2, <1>3, <1>4, <1>5, <2>2, CopyFitsOn
  <2>3. CASE d = run'.doc
    BY <1>1, <1>4, <1>6, <2>3 DEF CopyFits
  <2> QED BY <2>1, <2>2, <2>3
<1>9. ASSUME NEW w \in Workers, beat'[w] # None PROVE BeatFits(beat[w])'
  <2>1. beat'[w] = beat[w]
    BY <1>1, <1>9 DEF Quiet
  <2>2. PICK b : b = beat[w]
    OBVIOUS
  <2>3. BeatFits(b) /\ b.at \in Nat
    BY <1>2, <1>9, <2>1, <2>2
  <2>4. BeatFits(b)'
    BY <1>1, <1>2, <1>3, <1>4, <2>3, BeatFitsOn
  <2> QED BY <2>1, <2>2, <2>4 DEF BeatFits
<1>10. ASSUME cancel' # None, cancel'.phase = "save" PROVE CancelFits(cancel)'
  <2>1. cancel' = cancel
    BY <1>1, <1>10 DEF Quiet
  <2>2. PICK c : c = cancel
    OBVIOUS
  <2>3. c.doc \in Copies /\ c.doc.updated \in Nat
    BY <1>2, <1>10, <2>1, <2>2
  <2>4. c.doc.updated <= clock
    BY <1>2, <2>3 DEF CopyFits
  <2>5. CancelFits(c)'
    BY <1>1, <1>2, <1>3, <2>3, <2>4, CancelFitsStamped
  <2> QED BY <2>1, <2>2, <2>5 DEF CancelFits
<1> QED BY <1>1, <1>4, <1>7, <1>8, <1>9, <1>10 DEF Fits

\* What the workers' heartbeats hold fits on while fences only grow.
LEMMA BeatsFitOn ==
  ASSUME Ledgers, Fits, run # None, ~run.lost,
         NEW w \in Workers, beat'[w] # None, beat'[w] = beat[w],
         clock' \in Nat, clock <= clock', run'.fence \in Nat, run.fence <= run'.fence
  PROVE  BeatFits(beat[w])'
<1>1. /\ clock \in Nat /\ run.fence \in Nat
      /\ beat[w].at \in Nat /\ beat[w].fence \in Nat /\ BeatFits(beat[w])
  BY FitFacts
<1>2. /\ beat[w].at <= clock /\ beat[w].fence <= run.fence
      /\ beat[w].doc # None => beat[w].fence <= beat[w].doc.fence
  BY <1>1 DEF BeatFits
<1>3. beat[w].at <= clock' /\ beat[w].fence <= run'.fence
  BY <1>1, <1>2, SMT
<1> QED BY <1>2, <1>3 DEF BeatFits

\* A cancellation in flight does not find its updated_at after a new stamp.
LEMMA CancelMissesStamp ==
  ASSUME Ledgers, Fits, run # None, ~run.lost,
         cancel' = cancel, cancel' # None, cancel'.phase = "save",
         clock' \in Nat, clock < clock', run'.updated = clock'
  PROVE  CancelFits(cancel)'
<1>1. PICK c : c = cancel
  OBVIOUS
<1>2. /\ clock \in Nat
      /\ c.doc \in Copies /\ c.doc.updated \in Nat
      /\ \A d \in Copies : CopyFits(d)
  BY <1>1, FitFacts
<1>3. c.doc.updated <= clock
  BY <1>2 DEF CopyFits
<1>4. CancelFits(c)'
  BY <1>2, <1>3, CancelFitsStamped
<1> QED BY <1>1, <1>4 DEF CancelFits

\* A claim leaves every earlier copy behind its fence.
LEMMA FitsTakes ==
  ASSUME Ledgers, Fits, NEW w \in Workers, Takes(w), TypeOK', ~run'.lost
  PROVE  Fits'
<1>1. /\ run # None /\ ~run.lost /\ clock' \in Now /\ Shaped
      /\ run'.updated = clock' /\ run'.doc.updated = clock'
      /\ run'.status = "running" /\ run'.status = run'.doc.status
      /\ run'.owner = w /\ run'.fence = run.fence + 1
      /\ run'.doc.owner = w /\ run'.doc.fence = run.fence + 1
      /\ run'.doc.attempt = run.doc.attempt + 1
      /\ beat' = beat /\ cancel' = cancel
  BY DEF Takes, Stamped, Shaped
<1>2. /\ TypeOK /\ clock \in Nat /\ run.fence \in Nat /\ run.doc.attempt = run.fence
      /\ \A d \in Copies : d.updated \in Nat /\ d.fence \in Nat /\ CopyFits(d)
  BY <1>1, FitFacts
<1>3. clock' \in Nat /\ clock < clock'
  BY <1>1, <1>2, Stamps
<1>4. /\ clock <= clock' /\ clock' <= clock' /\ run'.fence \in Nat
      /\ run.fence <= run'.fence /\ run'.fence <= run'.fence
  BY <1>1, <1>2, <1>3, SMT
<1>5. ColumnsMatchPayload'
  BY <1>1, <1>2 DEF ColumnsMatchPayload
<1>6. ASSUME NEW d \in Copies' PROVE CopyFits(d)'
  <2>1. d \in Copies \/ d = run'.doc
    BY <1>1, <1>2, ShapesHold, CopiesGrow
  <2>2. CASE d \in Copies
    <3>1. d.updated \in Nat /\ d.fence \in Nat /\ d.updated <= clock /\ d.fence <= run.fence
          /\ d.attempt = d.fence
      BY <1>2, <2>2 DEF CopyFits
    <3>2. d.updated <= clock' /\ d.fence <= run'.fence /\ d.fence # run'.fence
      BY <1>1, <1>2, <1>3, <3>1, SMT
    <3> QED BY <3>1, <3>2 DEF CopyFits
  <2>3. CASE d = run'.doc
    BY <1>1, <1>2, <1>4, <2>3 DEF CopyFits
  <2> QED BY <2>1, <2>2, <2>3
<1>7. ASSUME NEW v \in Workers, beat'[v] # None PROVE BeatFits(beat[v])'
  BY <1>1, <1>3, <1>4, <1>7, BeatsFitOn
<1>8. ASSUME cancel' # None, cancel'.phase = "save" PROVE CancelFits(cancel)'
  BY <1>1, <1>3, <1>8, CancelMissesStamp
<1> QED BY <1>1, <1>4, <1>5, <1>6, <1>7, <1>8 DEF Fits

\* A heartbeat that extends the lease carries the fence of its job.
LEMMA FitsExtends ==
  ASSUME Ledgers, Fits, NEW w \in Workers, Extends(w), TypeOK', ~run'.lost
  PROVE  Fits'
<1>1. /\ run # None /\ ~run.lost /\ clock' \in Now /\ Shaped
      /\ run'.doc = run.doc /\ run'.status = run.status
      /\ run'.owner = run.owner /\ run'.fence = run.fence
      /\ run'.updated = clock' /\ cancel' = cancel /\ job[w] # None
  BY DEF Extends, Shaped
<1>2. /\ TypeOK /\ clock \in Nat /\ run.fence \in Nat /\ ColumnsMatchPayload /\ run.doc \in Copies
      /\ \A d \in Copies : d.updated \in Nat /\ CopyFits(d)
  BY <1>1, FitFacts
<1>3. clock' \in Nat /\ clock < clock'
  BY <1>1, <1>2, Stamps
<1>4. clock <= clock' /\ clock' <= clock' /\ run'.fence \in Nat /\ run.fence <= run'.fence
  BY <1>1, <1>2, <1>3, SMT
<1>5. ColumnsMatchPayload'
  BY <1>1, <1>2 DEF ColumnsMatchPayload
<1>6. ASSUME NEW d \in Copies' PROVE CopyFits(d)'
  <2>1. d \in Copies
    BY <1>1, <1>2, ShapesHold, CopiesGrow
  <2> QED BY <1>1, <1>2, <1>3, <1>4, <2>1, CopyFitsOn
<1>7. ASSUME NEW v \in Workers, beat'[v] # None PROVE BeatFits(beat[v])'
  <2>1. CASE beat'[v] = beat[v]
    BY <1>1, <1>3, <1>4, <1>7, <2>1, BeatsFitOn
  <2>2. CASE beat'[v].doc = None /\ beat'[v].at = clock' /\ beat'[v].fence = job[w].fence
    <3>1. job[w] \in Copies
      BY <1>1, <1>2, CopiesHeld
    <3>2. job[w].fence <= run.fence
      BY <1>2, <3>1 DEF CopyFits
    <3> QED BY <1>1, <1>4, <2>2, <3>2 DEF BeatFits
  <2> QED BY <2>1, <2>2 DEF Extends
<1>8. ASSUME cancel' # None, cancel'.phase = "save" PROVE CancelFits(cancel)'
  BY <1>1, <1>3, <1>8, CancelMissesStamp
<1> QED BY <1>1, <1>4, <1>5, <1>6, <1>7, <1>8 DEF Fits

\* A payload a heartbeat read under the fence it still has is of the claim
\* that has the run.
LEMMA BeatReadIt ==
  ASSUME Ledgers, Fits, NEW w \in Workers, Overwrites(w), ~run'.lost
  PROVE  /\ run'.doc.status = "running" /\ run'.doc.owner = run.owner
         /\ run'.doc.fence = run.fence /\ run'.doc.attempt = run.fence
         /\ run'.doc.keys = run.doc.keys
         /\ run'.doc.updated = beat[w].at /\ beat[w].at <= clock
<1>1. /\ run # None /\ ~run.lost
      /\ run.status = "running" /\ run.fence = beat[w].fence
      /\ beat[w] # None /\ beat[w].doc # None
      /\ run'.doc = Touched(beat[w].doc, beat[w].at)
  BY DEF Overwrites
<1>2. /\ TypeOK /\ clock \in Nat /\ run.fence \in Nat
      /\ \A d \in Copies : d \in Docs /\ d.fence \in Nat /\ CopyFits(d)
      /\ beat[w].at \in Nat /\ BeatFits(beat[w])
  BY <1>1, FitFacts
<1>3. PICK e : e = beat[w].doc
  OBVIOUS
<1>4. e \in Copies /\ e \in Docs /\ e.fence \in Nat
  BY <1>1, <1>2, <1>3, CopiesHeld
<1>5. run.fence <= e.fence /\ e.fence <= run.fence /\ beat[w].at <= clock
  <2>1. beat[w].fence <= e.fence /\ beat[w].at <= clock
    BY <1>1, <1>2, <1>3 DEF BeatFits
  <2>2. e.fence <= run.fence
    BY <1>2, <1>4 DEF CopyFits
  <2> QED BY <1>1, <2>1, <2>2
<1>6. e.fence = run.fence
  BY <1>2, <1>4, <1>5, SMT
<1>7. /\ e.status = "running" /\ e.owner = run.owner /\ e.attempt = run.fence
      /\ e.keys = run.doc.keys
  BY <1>1, <1>2, <1>4, <1>6 DEF CopyFits
<1> DEFINE t == Touched(e, beat[w].at)
<1>8. /\ t.status = e.status /\ t.owner = e.owner /\ t.fence = e.fence
      /\ t.attempt = e.attempt /\ t.updated = beat[w].at /\ t.keys = e.keys
  BY <1>2, <1>4, TouchedDoc
<1>9. run'.doc = t
  BY <1>1, <1>3
<1> HIDE DEF t
<1> QED BY <1>5, <1>6, <1>7, <1>8, <1>9

\* A heartbeat that saves its payload leaves the columns in step.
LEMMA FitsOverwrites ==
  ASSUME Ledgers, Fits, NEW w \in Workers, Overwrites(w), TypeOK', ~run'.lost
  PROVE  Fits'
<1>1. /\ run # None /\ ~run.lost /\ Shaped /\ Quiet
      /\ run.status = "running"
      /\ run'.status = run.status /\ run'.updated = run.updated
      /\ run'.owner = run.owner /\ run'.fence = run.fence /\ clock' = clock
  BY DEF Overwrites, Shaped
<1>2. /\ TypeOK /\ clock \in Nat /\ run.fence \in Nat
      /\ run.updated \in Nat /\ run.updated <= clock
      /\ \A d \in Copies : d.updated \in Nat /\ CopyFits(d)
      /\ (cancel # None /\ cancel.phase = "save") => CancelFits(cancel)
  BY <1>1, FitFacts
<1>3. /\ run'.doc.status = "running" /\ run'.doc.owner = run.owner
      /\ run'.doc.fence = run.fence /\ run'.doc.attempt = run.fence
      /\ run'.doc.keys = run.doc.keys
      /\ run'.doc.updated = beat[w].at /\ beat[w].at <= clock
  BY BeatReadIt
<1>4. clock <= clock' /\ run.fence <= run'.fence
  BY <1>1, <1>2, SMT
<1>5. ColumnsMatchPayload'
  BY <1>1, <1>3 DEF ColumnsMatchPayload
<1>6. ASSUME NEW d \in Copies' PROVE CopyFits(d)'
  <2>1. d \in Copies \/ d = run'.doc
    BY <1>1, <1>2, ShapesHold, CopiesGrow
  <2>2. CASE d \in Copies
    BY <1>1, <1>2, <1>3, <1>4, <2>2, CopyFitsOn
  <2>3. CASE d = run'.doc
    BY <1>1, <1>3, <1>4, <2>3 DEF CopyFits
  <2> QED BY <2>1, <2>2, <2>3
<1>7. ASSUME NEW v \in Workers, beat'[v] # None PROVE BeatFits(beat[v])'
  <2>1. beat'[v] = beat[v]
    BY <1>1, <1>7 DEF Quiet
  <2> QED BY <1>1, <1>2, <1>4, <1>7, <2>1, BeatsFitOn
<1>8. ASSUME cancel' # None, cancel'.phase = "save" PROVE CancelFits(cancel)'
  <2>1. cancel' = cancel /\ CancelFits(cancel)
    BY <1>1, <1>2, <1>8 DEF Quiet
  <2> QED BY <1>1, <2>1 DEF CancelFits, Unmoved
<1> QED BY <1>1, <1>2, <1>5, <1>6, <1>7, <1>8 DEF Fits

\* What a cancellation that loses nothing has read and what it saves.
LEMMA CancelReadIt ==
  ASSUME Ledgers, Fits, CancelsRun, ~run'.lost
  PROVE  /\ run'.doc.updated = clock' /\ run'.doc.owner = run.owner
         /\ run'.doc.fence = run.fence /\ run'.doc.attempt = run.fence
         /\ run'.doc.keys = run.doc.keys
         /\ run.status # "running" => run'.doc.recon = run.doc.recon
         /\ run'.status = run'.doc.status
         /\ run'.status = IF run.status \in Waiting THEN "cancelled" ELSE run.status
<1>1. /\ run # None /\ ~run.lost /\ Unmoved(cancel.doc)
      /\ cancel # None /\ cancel.phase = "save"
      /\ run'.status = run'.doc.status
  BY DEF CancelsRun
<1>2. /\ TypeOK /\ cancel.doc \in Copies
      /\ \A d \in Copies : d \in Docs /\ CopyFits(d)
  BY <1>1, FitFacts
<1>3. PICK now \in Now : clock' = now /\ run'.doc = CancelledDoc(cancel.doc, now)
  BY DEF CancelsRun
<1>4. PICK c : c = cancel.doc
  OBVIOUS
<1>5. /\ c \in Docs /\ CopyFits(c) /\ c.status = run.status
      /\ c.owner = run.owner /\ c.fence = run.fence
      /\ run.status # "running" => c = run.doc
  BY <1>1, <1>2, <1>4 DEF Unmoved
<1>6. c.attempt = run.fence /\ c.keys = run.doc.keys
  BY <1>5 DEF CopyFits
<1>7. /\ run'.doc.updated = clock' /\ run'.doc.owner = c.owner
      /\ run'.doc.fence = c.fence /\ run'.doc.attempt = c.attempt
      /\ run'.doc.status = IF c.status \in Waiting THEN "cancelled" ELSE c.status
      /\ run'.doc.keys = c.keys /\ run'.doc.recon = c.recon
  <2>1. now \in Nat
    BY <1>2, Stamps
  <2> DEFINE d == CancelledDoc(c, now)
  <2>2. /\ d.updated = now /\ d.owner = c.owner
        /\ d.fence = c.fence /\ d.attempt = c.attempt
        /\ d.status = IF c.status \in Waiting THEN "cancelled" ELSE c.status
        /\ d.keys = c.keys /\ d.recon = c.recon
    BY <1>5, <2>1, CancelledFacts
  <2>3. run'.doc = d /\ clock' = now
    BY <1>3, <1>4
  <2> HIDE DEF d
  <2> QED BY <2>2, <2>3
<1> QED BY <1>1, <1>5, <1>6, <1>7

\* A cancellation saved over the row it read, or over a later payload of the
\* same claim.
LEMMA FitsCancels ==
  ASSUME Ledgers, Fits, CancelsRun, TypeOK', ~run'.lost
  PROVE  Fits'
<1>1. /\ run # None /\ ~run.lost /\ Shaped /\ Quiet
      /\ cancel # None /\ cancel.phase = "save" /\ clock' \in Now
      /\ run'.status = run'.doc.status /\ run'.updated = clock'
      /\ run'.owner = run.owner /\ run'.fence = run.fence
      /\ ~(cancel' # None /\ cancel'.phase = "save")
  BY DEF CancelsRun, Shaped
<1>2. /\ TypeOK /\ clock \in Nat /\ run.fence \in Nat
      /\ \A d \in Copies : d \in Docs /\ d.updated \in Nat /\ CopyFits(d)
  BY <1>1, FitFacts
<1>3. clock' \in Nat /\ clock < clock' /\ clock <= clock'
  BY <1>1, <1>2, Stamps
<1>4. /\ run'.doc.updated = clock' /\ run'.doc.owner = run.owner
      /\ run'.doc.fence = run.fence /\ run'.doc.attempt = run.fence
      /\ run'.doc.keys = run.doc.keys
      /\ run'.status = IF run.status \in Waiting THEN "cancelled" ELSE run.status
  BY CancelReadIt
<1>5. run'.status = "running" => run.status = "running" /\ run'.doc.keys = run.doc.keys
  BY <1>1, <1>4
<1>6. clock' <= clock' /\ run.fence <= run'.fence /\ run'.fence <= run'.fence
  BY <1>1, <1>2, <1>3, SMT
<1>7. ColumnsMatchPayload'
  BY <1>1, <1>4 DEF ColumnsMatchPayload
<1>8. ASSUME NEW d \in Copies' PROVE CopyFits(d)'
  <2>1. d \in Copies \/ d = run'.doc
    BY <1>1, <1>2, ShapesHold, CopiesGrow
  <2>2. CASE d \in Copies
    BY <1>1, <1>2, <1>3, <1>5, <2>2, CopyFitsOn
  <2>3. CASE d = run'.doc
    BY <1>1, <1>4, <1>6, <2>3 DEF CopyFits
  <2> QED BY <2>1, <2>2, <2>3
<1>9. ASSUME NEW v \in Workers, beat'[v] # None PROVE BeatFits(beat[v])'
  <2>1. beat'[v] = beat[v]
    BY <1>1, <1>9 DEF Quiet
  <2>2. run'.fence \in Nat
    BY <1>1, <1>2
  <2> QED BY <1>1, <1>3, <1>6, <1>9, <2>1, <2>2, BeatsFitOn
<1> QED BY <1>1, <1>6, <1>7, <1>8, <1>9 DEF Fits

\* A run is created with columns and payload that agree.
LEMMA FitsCreate ==
  ASSUME Ledgers, Create
  PROVE  Fits'
<1>1. /\ TypeOK' /\ run' # None /\ Copies' = {run'.doc}
      /\ ColumnsMatchPayload' /\ run'.updated = clock' /\ run'.doc.updated = clock'
      /\ run'.status # "running" /\ ~run'.lost
  BY CreateStep
<1>2. clock' \in Nat /\ run' \in Rows
  BY <1>1, HeldTypes DEF TypeOK
<1>3. run'.fence \in Nat
  BY <1>2 DEF Rows
<1>4. clock' <= clock' /\ run'.fence <= run'.fence
  BY <1>2, <1>3, SMT
<1>5. ASSUME NEW d \in Copies' PROVE CopyFits(d)'
  BY <1>1, <1>4, <1>5 DEF CopyFits, ColumnsMatchPayload
<1>6. (\A w \in Workers : beat'[w] = None) /\ cancel' = None
  BY DEF Ledgers, Present, Create
<1> QED BY <1>1, <1>4, <1>5, <1>6 DEF Fits

\* Every step preserves Fits.
LEMMA FitsNext == Ledgers /\ Fits /\ [Next]_vars => Fits'
<1>1. ASSUME Ledgers, Fits, Next PROVE Fits'
  <2>1. CASE run = None
    BY <1>1, <2>1, OnlyCreate, FitsCreate
  <2>2. CASE run # None
    <3>1. TypeOK' /\ Shaped
      BY <1>1, <2>2, ShapedNext
    <3>2. CASE run'.lost
      BY <3>2 DEF Fits
    <3>3. CASE ~run'.lost
      BY <1>1, <3>1, <3>3, FitsRests, FitsStamped, FitsTakes, FitsExtends, FitsOverwrites,
         FitsCancels DEF Shaped
    <3> QED BY <3>2, <3>3
  <2> QED BY <2>1, <2>2
<1>2. ASSUME Fits, UNCHANGED vars PROVE Fits'
  <2>1. Copies' = Copies
    BY <1>2 DEF vars, Copies
  <2> QED BY <1>2, <2>1 DEF vars, Fits, ColumnsMatchPayload, CopyFits, BeatFits, CancelFits,
               Unmoved
<1> QED BY <1>1, <1>2

-----------------------------------------------------------------------------
(* Callbacks speak of the end the run has.                                 *)

\* Until an operator acts, the callbacks in flight have the status of the run,
\* and a run the workflow was told of has ended.
Speaks ==
  (run # None /\ ~run.lost /\ run.doc.keys = {}) =>
    /\ \A n \in notes : n.status = run.status
    /\ told # {} => run.status \in Terminal

\* A callback is repeated, or speaks of the status the run has now.
LEMMA Spoken ==
  ASSUME Ledgers, Next
  PROVE  \A n \in notes' : (\E m \in notes : m.status = n.status) \/ n.status = run'.doc.status
<1> DEFINE Goal == \A n \in notes' :
                     (\E m \in notes : m.status = n.status) \/ n.status = run'.doc.status
<1> SUFFICES Goal
  OBVIOUS
<1>1. ASSUME notes' \subseteq notes PROVE Goal
  BY <1>1
<1>2. ASSUME NEW s, run'.doc.status = s, notes' = notes \cup Note(s) PROVE Goal
  <2>1. \A n \in Note(s) : n.status = s
    <3> DEFINE note == [status |-> s, phase |-> "call"]
    <3>1. note.status = s
      OBVIOUS
    <3>2. Note(s) \subseteq {note}
      BY DEF Note
    <3> HIDE DEF note
    <3> QED BY <3>1, <3>2
  <2> QED BY <1>2, <2>1
<1> HIDE DEF Goal
<1>3. CASE Create \/ LeaseExpires \/ RetryDue
  BY <1>1, <1>3 DEF Create, LeaseExpires, RetryDue
<1>4. ASSUME NEW w \in Workers,
             \/ Claim(w) \/ HeartbeatLease(w) \/ HeartbeatRead(w) \/ HeartbeatSave(w)
             \/ HeartbeatFails(w) \/ Crash(w)
      PROVE  Goal
  BY <1>1, <1>4 DEF Claim, HeartbeatLease, HeartbeatRead, HeartbeatSave, HeartbeatFails, Crash
<1>5. ASSUME NEW w \in Workers, Complete(w) \/ FailClaim(w) \/ CancelClaim(w)
      PROVE  Goal
  <2>1. PICK d \in Ending(w) : EndAttempt(w, d)
    BY <1>5, AttemptEnds
  <2>2. d \in Docs
    BY DEF Ending
  <2>3. CASE SaveRunning(d) /\ notes' = notes \cup Note(d.status)
    <3>1. run'.doc = Merged(d)
      BY <2>2, <2>3, SavedRow DEF Ledgers
    <3>2. Merged(d).status = d.status
      BY <2>2 DEF Merged, Docs
    <3> QED BY <1>2, <2>3, <3>1, <3>2
  <2> QED BY <1>1, <2>1, <2>3 DEF EndAttempt
<1>6. ASSUME NEW g \in Gateways,
             \/ ToolGet(g) \/ BeginToolCall(g) \/ FinishToolCall(g) \/ WaitForApproval(g)
             \/ ToolCallLost(g)
      PROVE  Goal
  BY <1>1, <1>6 DEF ToolGet, BeginToolCall, FinishToolCall, WaitForApproval, ToolCallLost
<1>7. CASE ResolveProposal
  <2>1. ASSUME notes' = notes \cup Note(run.doc.status), run' = run PROVE Goal
    BY <1>2, <2>1
  <2>2. ASSUME NEW x, NEW now \in Now, ResolveApproval(x, now),
               notes' = notes \cup Note(Settled(x)), run # None
        PROVE  Goal
    <3> DEFINE e == Touched(run.doc, now)
               d == [e EXCEPT !.status = Settled(x), !.decision = x,
                              !.recon = TerminalRecon(e.recon)]
    <3>1. TypeOK /\ run \in Rows /\ run.doc \in Docs /\ now \in Nat
      BY <2>2, HeldTypes, Stamps DEF Ledgers
    <3>2. e \in Docs
      BY <3>1, TouchedDoc
    <3>3. Put(d)
      BY <2>2 DEF ResolveApproval
    <3> HIDE DEF e
    <3>4. d.status = Settled(x)
      BY <3>2 DEF Docs
    <3> HIDE DEF d
    <3>5. run'.doc = d
      BY <3>1, <3>3 DEF Put, Rows
    <3> QED BY <1>2, <2>2, <3>4, <3>5
  <2>3. run # None
    BY <1>7 DEF ResolveProposal
  <2> QED BY <1>7, <2>1, <2>2, <2>3 DEF ResolveProposal
<1>8. CASE Redeliver
  <2>1. notes' = notes \cup Note(run.doc.status) /\ run'.doc.status = run.doc.status
    BY <1>8 DEF Redeliver
  <2> QED BY <1>2, <2>1
<1>9. CASE ExpireApproval \/ CancelGet \/ CancelSave \/ CancelResolve \/ OverrideOutput
  BY <1>1, <1>9 DEF ExpireApproval, CancelGet, CancelSave, CancelResolve, OverrideOutput
<1>10. ASSUME NEW n \in notes, MarkDelivered(n) \/ LoseCallback(n) PROVE Goal
  BY <1>1, <1>10 DEF MarkDelivered, LoseCallback
<1>11. ASSUME NEW n \in notes, CompleteWorkflowTask(n) PROVE Goal
  <2>1. notes' = (notes \ {n}) \cup {[n EXCEPT !.phase = "mark"]}
    BY <1>11 DEF CompleteWorkflowTask
  <2>2. [n EXCEPT !.phase = "mark"].status = n.status
    BY DEF Ledgers, TypeOK
  <2> QED BY <2>1, <2>2 DEF Goal
<1>12. ASSUME NEW k \in Keys, OperatorRetry(k) \/ OperatorResolve(k) PROVE Goal
  BY <1>1, <1>12 DEF OperatorRetry, OperatorResolve, Operate
<1> QED
  BY <1>3, <1>4, <1>5, <1>6, <1>7, <1>8, <1>9, <1>10, <1>11, <1>12 DEF Next

\* What a step does to the keys and to the end of a run.
LEMMA KeysKept ==
  ASSUME Ledgers, Fits, Shaped, ~run'.lost
  PROVE  /\ ~run.lost /\ run.doc.keys \subseteq run'.doc.keys
         /\ (run.status \in Terminal /\ run'.doc.keys = run.doc.keys) => run'.status = run.status
<1>0. "running" \notin Terminal /\ Waiting \cap Terminal = {}
  BY DEF Terminal, Waiting
<1>1. CASE Rests \/ \E w \in Workers : Extends(w)
  BY <1>1 DEF Rests, Extends
<1>2. CASE Edits
  <2>1. ~run.lost /\ run # None /\ Follows(run.doc, run'.doc) /\ run'.status = run'.doc.status
    BY <1>2 DEF Edits, Stamped
  <2>2. run.status = run.doc.status
    BY <2>1, FitFacts
  <2> QED BY <2>1, <2>2 DEF Follows
<1>3. CASE Saves
  <2>1. ~run.lost /\ run # None /\ run.status = "running" /\ run'.doc.fence = run.fence
    BY <1>3 DEF Saves, Stamped
  <2>2. PICK c \in Copies : run'.doc.fence = c.fence /\ run'.doc.keys = c.keys
    BY <1>3 DEF Saves
  <2>3. CopyFits(c)
    BY <2>1, FitFacts
  <2> QED BY <1>0, <2>1, <2>2, <2>3 DEF CopyFits
<1>4. ASSUME NEW w \in Workers, Takes(w)
      PROVE  ~run.lost /\ run'.doc.keys = run.doc.keys /\ run.status \notin Terminal
  BY <1>0, <1>4 DEF Takes, Stamped
<1>5. ASSUME NEW w \in Workers, Overwrites(w)
      PROVE  ~run.lost /\ run'.doc.keys = run.doc.keys /\ run.status \notin Terminal
  BY <1>0, <1>5, BeatReadIt DEF Overwrites
<1>6. CASE CancelsRun
  <2>1. ~run.lost /\ run # None
    BY <1>6 DEF CancelsRun
  <2>2. /\ run'.doc.keys = run.doc.keys
        /\ run'.status = IF run.status \in Waiting THEN "cancelled" ELSE run.status
    BY <1>6, <2>1, CancelReadIt
  <2> QED BY <1>0, <2>1, <2>2
<1> QED BY <1>1, <1>2, <1>3, <1>4, <1>5, <1>6 DEF Shaped

\* Every step preserves Speaks.
LEMMA SpeaksNext == Ledgers /\ Fits /\ Fits' /\ Speaks /\ [Next]_vars => Speaks'
<1>1. ASSUME Ledgers, Fits, Fits', Speaks, Next PROVE Speaks'
  <2> SUFFICES ASSUME run' # None, ~run'.lost, run'.doc.keys = {}
               PROVE  /\ \A n \in notes' : n.status = run'.status
                      /\ told' # {} => run'.status \in Terminal
    BY DEF Speaks
  <2>1. CASE run = None
    <3>1. Create /\ notes = {} /\ told = {}
      BY <1>1, <2>1, OnlyCreate DEF Ledgers, Present
    <3> QED BY <3>1 DEF Create
  <2>2. CASE run # None
    <3>1. Shaped
      BY <1>1, <2>2, ShapedNext
    <3>2. ~run.lost /\ run.doc.keys = {} /\ (run.status \in Terminal => run'.status = run.status)
      BY <1>1, <3>1, KeysKept
    <3>3. (\A n \in notes : n.status = run.status) /\ (told # {} => run.status \in Terminal)
      BY <1>1, <2>2, <3>2 DEF Speaks
    <3>4. \A n \in notes : n.status \in Terminal
      BY <1>1 DEF Ledgers, TypeOK
    <3>5. run'.doc.status = run'.status
      BY <1>1 DEF Fits, ColumnsMatchPayload
    <3>6. \A n \in notes' : n.status = run'.status
      BY <1>1, <3>2, <3>3, <3>4, <3>5, Spoken
    <3>7. told' = told \/ notes # {}
      BY <1>1, <3>1, ShapesHold DEF Ledgers
    <3> QED BY <3>2, <3>3, <3>4, <3>6, <3>7
  <2> QED BY <2>1, <2>2
<1>2. ASSUME Speaks, UNCHANGED vars PROVE Speaks'
  BY <1>2 DEF Speaks, vars
<1> QED BY <1>1, <1>2

\* Init satisfies all three.
LEMMA AllInit == Init => Ledgers /\ Fits /\ Speaks
<1>1. Init => Fits /\ Speaks
  BY DEF Init, Fits, Speaks
<1> QED BY <1>1, LedgersInit

\* Every step preserves all three.
LEMMA AllNext == Ledgers /\ Fits /\ Speaks /\ [Next]_vars => (Ledgers /\ Fits /\ Speaks)'
BY LedgersNext, FitsNext, SpeaksNext

-----------------------------------------------------------------------------
(* What a run promises.                                                    *)

\* The row, the copies of it that workers, heartbeats, tool requests and
\* cancellations hold, and the callbacks in flight keep their types.
THEOREM TypeCorrect == Spec => []TypeOK
<1>1. Ledgers => TypeOK
  BY DEF Ledgers
<1> QED BY <1>1, LedgersInit, LedgersNext, PTL DEF Spec

\* The counter and the ledger of BeginAgentToolCall stay in step and within
\* both budgets, although every save but the worker's writes the ledger of
\* the copy it read: every copy in the system is within budget.
THEOREM BudgetKept == Spec => []LedgerWithinBudget
<1>1. Ledgers => LedgerWithinBudget
  <2>1. Ledgers /\ run # None => run.doc \in Copies
    BY CopiesHeld DEF Ledgers
  <2> QED BY <2>1 DEF Ledgers, LedgerOK, LedgerWithinBudget
<1> QED BY <1>1, LedgersInit, LedgersNext, PTL DEF Spec

\* A step that ends the run of a workflow leaves its callback pending, but for
\* the cancellation of a run no worker has and the late dead letter, and a
\* pending callback goes away only when the workflow has accepted one or an
\* operator acts, whatever callbacks are lost, repeated or overtaken.
THEOREM CallbackOwed == Spec => TerminalOwesCallback
<1> DEFINE Ends ==
      (run.status \notin Terminal /\ run'.status \in Terminal) =>
        \/ run'.doc.recon = "workflow_callback_pending"
        \/ run.status \in Waiting /\ run'.status = "cancelled"
        \/ /\ run.status = "running" /\ run'.status = "dead_letter"
           /\ run'.doc.retryable /\ run'.doc.attempt < MaxAttempts
    Leaves ==
      (/\ run.status \in Terminal
       /\ run.doc.recon = "workflow_callback_pending"
       /\ run'.doc.recon # "workflow_callback_pending") =>
        \/ /\ run'.doc.recon = "workflow_callback_delivered"
           /\ IF run.doc.keys = {} THEN run.status \in told ELSE told # {}
        \/ run'.doc.recon \in {"manually_resolved", "force_restart"}
<1>1. ASSUME Ledgers, Fits, Speaks, Next, run # None, WorkflowTask, ~run'.lost
      PROVE  Ends /\ Leaves
  <2>0. /\ Shaped
        /\ "running" \notin Terminal /\ Waiting \cap Terminal = {}
    BY <1>1, ShapedNext DEF Terminal, Waiting
  <2>1. CASE Rests \/ \E w \in Workers : Extends(w)
    BY <2>1 DEF Rests, Extends
  <2>2. CASE Saves
    BY <1>1, <2>0, <2>2 DEF Saves, Stamped, Reported
  <2>3. ASSUME NEW w \in Workers, Takes(w) \/ Overwrites(w)
        PROVE  run.status \notin Terminal /\ run'.status \notin Terminal
    BY <2>0, <2>3 DEF Takes, Overwrites
  <2>4. CASE CancelsRun
    <3>1. /\ run.status # "running" => run'.doc.recon = run.doc.recon
          /\ run'.status = IF run.status \in Waiting THEN "cancelled" ELSE run.status
      BY <1>1, <2>4, CancelReadIt
    <3> QED BY <2>0, <3>1
  <2>5. CASE Edits
    <3>1. ~run.lost /\ Follows(run.doc, run'.doc) /\ run'.status = run'.doc.status
      BY <1>1, <2>5 DEF Edits, Stamped
    <3>2. run.status = run.doc.status
      BY <1>1, <3>1, FitFacts
    <3>3. Ends
      BY <1>1, <3>1, <3>2 DEF Follows
    <3>4. ASSUME NEW n \in notes, n.phase = "mark"
          PROVE  IF run.doc.keys = {} THEN run.status \in told ELSE told # {}
      <4>1. n.status \in told
        BY <1>1, <3>4 DEF Ledgers, Told
      <4>2. run.doc.keys = {} => n.status = run.status
        BY <1>1, <3>1 DEF Speaks
      <4> QED BY <4>1, <4>2
    <3>5. Leaves
      BY <3>1, <3>2, <3>4 DEF Follows
    <3> QED BY <3>3, <3>5
  <2> HIDE DEF Ends, Leaves
  <2>6. ASSUME NEW w \in Workers, Takes(w) \/ Overwrites(w) PROVE Ends /\ Leaves
    BY <2>3, <2>6 DEF Ends, Leaves
  <2> QED BY <2>0, <2>1, <2>2, <2>4, <2>5, <2>6 DEF Shaped
<1>2. Ledgers /\ Fits /\ Speaks /\ [Next]_vars =>
        [(run # None /\ WorkflowTask /\ ~run'.lost) => Ends /\ Leaves]_vars
  BY <1>1
<1> QED BY <1>2, AllInit, AllNext, PTL DEF Spec, TerminalOwesCallback

\* Heartbeats and cancellations save payloads they read before, and still
\* the columns say what the payload says and no claim is forgotten, as long
\* as no cancellation is saved over a write of the same millisecond.
THEOREM ColumnsAgree == Spec => []ColumnsMatchPayload
<1>1. Fits => ColumnsMatchPayload
  BY DEF Fits, ColumnsMatchPayload
<1> QED BY <1>1, AllInit, AllNext, PTL DEF Spec

\* A cancellation that does not save over an unread row, when no worker has
\* the run.
LEMMA CancelOfResting ==
  ASSUME Ledgers, CancelsRun, ~CancelOverwrites, run.status # "running"
  PROVE  /\ run'.status = IF run.status \in Waiting THEN "cancelled" ELSE run.status
         /\ run'.doc.rev = run.doc.rev + 1
<1>1. /\ run # None /\ cancel # None /\ cancel.phase = "save" /\ cancel' # cancel
      /\ Millisecond(run.updated) = Millisecond(cancel.doc.updated)
      /\ run'.status = run'.doc.status
  BY DEF CancelsRun
<1>2. Unmoved(cancel.doc)
  BY <1>1 DEF CancelOverwrites
<1>3. cancel.doc = run.doc /\ run.doc.status = run.status
  BY <1>2 DEF Unmoved
<1>4. PICK now \in Now : run'.doc = CancelledDoc(cancel.doc, now)
  BY DEF CancelsRun
<1>5. run.doc \in Docs /\ now \in Nat
  BY <1>1, HeldTypes, Stamps DEF Ledgers
<1> DEFINE d == CancelledDoc(run.doc, now)
<1>6. d.rev = run.doc.rev + 1
      /\ d.status = IF run.doc.status \in Waiting THEN "cancelled" ELSE run.doc.status
  BY <1>5, CancelledFacts
<1>7. run'.doc = d
  BY <1>3, <1>4
<1> HIDE DEF d
<1> QED BY <1>1, <1>3, <1>6, <1>7

\* Only an operator's retry takes a run out of a terminal status: no late
\* worker, tool call or approval does, and no cancellation but one that saves
\* over a write of the same millisecond.
THEOREM EndsStay == Spec => TerminalUntilRetried
<1>1. Ledgers /\ [Next]_vars =>
        [(/\ run # None /\ run.status \in Terminal
          /\ run'.status \notin Terminal /\ ~CancelOverwrites)
           => run'.doc.keys # run.doc.keys]_vars
  <2> SUFFICES ASSUME Ledgers, Next, run # None, run.status \in Terminal,
                      run'.status \notin Terminal, ~CancelOverwrites
               PROVE  run'.doc.keys # run.doc.keys
    OBVIOUS
  <2>1. "running" \notin Terminal /\ Waiting \cap Terminal = {} /\ "cancelled" \in Terminal
    BY DEF Terminal, Waiting
  <2>2. Shaped /\ run.doc.status = run.status
    BY <2>1, ShapedNext DEF Ledgers, StatusFits
  <2>3. ~(Rests \/ Saves \/ \E w \in Workers : Takes(w) \/ Extends(w) \/ Overwrites(w))
    BY <2>1 DEF Rests, Saves, Takes, Extends, Overwrites
  <2>4. ~CancelsRun
    BY <2>1, CancelOfResting
  <2>5. Edits
    BY <2>2, <2>3, <2>4 DEF Shaped
  <2> QED BY <2>2, <2>5 DEF Edits, Stamped, Follows
<1> QED BY <1>1, LedgersInit, LedgersNext, PTL DEF Spec, TerminalUntilRetried

\* While no worker has the run every write raises the revision, which is what
\* the compare-and-set of the operator's and the approval's saves rests on,
\* but for a cancellation that saves over a write of the same millisecond.
THEOREM RevisionsIdentify == Spec => RevisionIdentifies
<1>1. Ledgers /\ [Next]_vars =>
        [(/\ run # None /\ run.status # "running"
          /\ run'.doc # run.doc /\ ~CancelOverwrites)
           => run'.doc.rev > run.doc.rev]_vars
  <2> SUFFICES ASSUME Ledgers, Next, run # None, run.status # "running",
                      run'.doc # run.doc, ~CancelOverwrites
               PROVE  run'.doc.rev > run.doc.rev
    OBVIOUS
  <2>1. Shaped /\ run.doc \in Docs
    BY ShapedNext, HeldTypes DEF Ledgers
  <2>2. ~(Rests \/ Saves \/ \E w \in Workers : Extends(w) \/ Overwrites(w))
    BY DEF Rests, Saves, Extends, Overwrites
  <2>3. run'.doc.rev = run.doc.rev + 1
    <3>1. CASE CancelsRun
      BY <3>1, CancelOfResting
    <3> QED BY <2>1, <2>2, <3>1 DEF Shaped, Edits, Takes
  <2>4. run.doc.rev \in Nat
    BY <2>1 DEF Docs
  <2> QED BY <2>3, <2>4, SMT
<1> QED BY <1>1, LedgersInit, LedgersNext, PTL DEF Spec, RevisionIdentifies

-----------------------------------------------------------------------------
(* What the guard on updated_at is worth when no two writes share a        *)
(* millisecond.                                                            *)

NothingLost == run # None => ~run.lost

\* Then a cancellation saves over nothing it has not read.
LEMMA NothingLostNext ==
  ASSUME Resolution = 1
  PROVE  Ledgers /\ Fits /\ NothingLost /\ [Next]_vars => NothingLost'
<1>1. ASSUME Ledgers, Fits, NothingLost, Next PROVE NothingLost'
  <2>1. CASE run = None
    BY <1>1, <2>1, OnlyCreate, CreateStep DEF NothingLost
  <2>2. CASE run # None
    <3>1. Shaped /\ ~run.lost
      BY <1>1, <2>2, ShapedNext DEF NothingLost
    <3>2. CASE CancelsRun
      <4>1. cancel # None /\ cancel.phase = "save"
            /\ Millisecond(run.updated) = Millisecond(cancel.doc.updated)
            /\ run'.lost = (run.lost \/ ~Unmoved(cancel.doc))
        BY <3>2 DEF CancelsRun
      <4>2. CancelFits(cancel) /\ run.updated \in Nat /\ cancel.doc.updated \in Nat
        BY <1>1, <2>2, <3>1, <4>1, FitFacts
      <4>3. \A m, n \in Nat : m \div 1 = n \div 1 => m = n
        BY SMT
      <4>4. cancel.doc.updated = run.updated
        BY <4>1, <4>2, <4>3 DEF Millisecond
      <4> QED BY <3>1, <4>1, <4>2, <4>4 DEF CancelFits, NothingLost
    <3> QED BY <3>1, <3>2 DEF Shaped, NothingLost, Rests, Edits, Saves, Takes, Extends,
                Overwrites, Stamped
  <2> QED BY <2>1, <2>2
<1>2. ASSUME NothingLost, UNCHANGED vars PROVE NothingLost'
  BY <1>2 DEF NothingLost, vars
<1> QED BY <1>1, <1>2

\* With a millisecond for every write, which the guard of RequestCancel on
\* updated_at takes for granted, a run whose end the workflow was told of does
\* not run again unless an operator retries it.
THEOREM ToldStayEnded ==
  ASSUME Resolution = 1
  PROVE  Spec => []ToldRunsStayEnded
<1>1. Init => NothingLost
  BY DEF Init, NothingLost
<1>2. Speaks /\ NothingLost => ToldRunsStayEnded
  BY DEF Speaks, NothingLost, ToldRunsStayEnded
<1> QED BY <1>1, <1>2, NothingLostNext, AllInit, AllNext, PTL DEF Spec

=============================================================================
