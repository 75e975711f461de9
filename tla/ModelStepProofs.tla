--------------------------- MODULE ModelStepProofs ---------------------------
(***************************************************************************)
(* Proofs about ModelStep, for any number of runs and workers, any bounds  *)
(* of a call, any budget and any limits.                                   *)
(***************************************************************************)
EXTENDS ModelStep, FiniteSetTheorems, WellFoundedInduction, TLAPS

USE Zenon

-----------------------------------------------------------------------------
(* Sums.  SumFunctionOnSet takes its terms in an order nobody knows; what  *)
(* it returns is shown by the sums of all subsets, which no order affects. *)

\* A non-empty set of naturals has a least element.
LEMMA LeastNatural ==
  ASSUME NEW T, T \subseteq Nat, T # {}
  PROVE  \E n \in T : \A m \in T : ~(m < n)
<1>1. IsWellFoundedOn(OpToRel(<, Nat), Nat)
  BY NatLessThanWellFounded
<1>2. \E n \in T : \A m \in T : ~(<<m, n>> \in OpToRel(<, Nat))
  BY <1>1, WFMin
<1> QED BY <1>2 DEF OpToRel

\* f has a natural number for every element of S.
Terms(f, S) == \A x \in S : f[x] \in Nat

\* g gives every subset of S the sum of its terms.
Sums(f, S, g) ==
  /\ g \in [SUBSET S -> Nat]
  /\ g[{}] = 0
  /\ \A T \in SUBSET S : \A x \in T : g[T] = f[x] + g[T \ {x}]

\* The sums as the fold defines them.
Adds(f, S, g) ==
  g = [T \in SUBSET S |-> IF T = {} THEN 0
                          ELSE f[CHOOSE x \in T : TRUE] + g[T \ {CHOOSE x \in T : TRUE}]]

\* A smallest set among some finite ones.
LEMMA SmallestSet ==
  ASSUME NEW U, NEW V, V # {}, \A S \in V : IsFiniteSet(S)
  PROVE  \E S \in V : \A x \in S : S \ {x} \notin V
<1> DEFINE N == {Cardinality(S) : S \in V}
<1>1. \A S \in V : Cardinality(S) \in Nat
  BY FS_CardinalityType
<1>2. N \subseteq Nat /\ N # {}
  BY <1>1
<1>3. PICK n \in N : \A m \in N : ~(m < n)
  BY <1>2, LeastNatural
<1>4. PICK S \in V : n = Cardinality(S)
  BY <1>3
<1>5. ASSUME NEW x \in S, S \ {x} \in V PROVE FALSE
  <2>1. Cardinality(S \ {x}) = Cardinality(S) - 1
    BY FS_RemoveElement
  <2>2. ~(Cardinality(S \ {x}) < Cardinality(S))
    BY <1>3, <1>4, <1>5
  <2> HIDE DEF N
  <2> QED BY <1>1, <2>1, <2>2, SMT
<1> QED BY <1>5

\* Every finite set of terms has sums.
LEMMA SumsExist ==
  ASSUME NEW f, NEW S, IsFiniteSet(S), Terms(f, S)
  PROVE  \E g : Sums(f, S, g)
<1> DEFINE Has(T) == \E g : Sums(f, T, g)
           V == {T \in SUBSET S : ~Has(T)}
<1> SUFFICES ASSUME V # {} PROVE FALSE
  OBVIOUS
<1>1. \A T \in V : IsFiniteSet(T)
  BY FS_Subset
<1>2. PICK T \in V : \A x \in T : T \ {x} \notin V
  BY <1>1, SmallestSet
<1>3. CASE T = {}
  <2>1. [R \in SUBSET {} |-> 0] \in [SUBSET {} -> Nat] /\ 0 \in Nat
    BY SMT
  <2>2. Sums(f, {}, [R \in SUBSET {} |-> 0])
    BY <2>1 DEF Sums
  <2> QED BY <1>2, <1>3, <2>2
<1>4. CASE T # {}
  <2>1. PICK y \in T : TRUE
    BY <1>4
  <2>2. PICK g : Sums(f, T \ {y}, g)
    BY <1>2, <2>1
  <2>3. f[y] \in Nat /\ \A x \in T : f[x] \in Nat
    BY DEF Terms
  <2>4. /\ g \in [SUBSET (T \ {y}) -> Nat] /\ g[{}] = 0
        /\ \A R \in SUBSET (T \ {y}) : \A x \in R : g[R] = f[x] + g[R \ {x}]
    BY <2>2 DEF Sums
  <2> DEFINE h == [R \in SUBSET T |-> IF y \in R THEN f[y] + g[R \ {y}] ELSE g[R]]
  <2>5. ASSUME NEW R \in SUBSET T
        PROVE  /\ R \ {y} \in SUBSET (T \ {y}) /\ (y \notin R => R \in SUBSET (T \ {y}))
               /\ g[R \ {y}] \in Nat /\ (y \notin R => g[R] \in Nat)
    BY <2>4
  <2>6. ASSUME NEW R \in SUBSET T PROVE h[R] \in Nat
    <3>1. f[y] + g[R \ {y}] \in Nat
      <4>1. g[R \ {y}] \in Nat
        BY <2>5
      <4> HIDE DEF h
      <4> QED BY <2>3, <4>1, SMT
    <3> QED BY <2>5, <3>1
  <2>7. h[{}] = 0
    BY <2>4
  <2>8. ASSUME NEW R \in SUBSET T, NEW x \in R PROVE h[R] = f[x] + h[R \ {x}]
    <3>1. R \ {x} \in SUBSET T
      OBVIOUS
    <3>2. CASE x = y
      BY <3>1, <3>2
    <3>3. CASE x # y /\ y \notin R
      <4>1. g[R] = f[x] + g[R \ {x}]
        BY <2>4, <2>5, <3>3
      <4> QED BY <3>1, <3>3, <4>1
    <3>4. CASE x # y /\ y \in R
      <4>1. (R \ {y}) \ {x} = (R \ {x}) \ {y} /\ x \in R \ {y}
        BY <3>4
      <4>2. g[R \ {y}] = f[x] + g[(R \ {x}) \ {y}]
        <5>1. R \ {y} \in SUBSET (T \ {y})
          BY <2>5
        <5>2. g[R \ {y}] = f[x] + g[(R \ {y}) \ {x}]
          BY <2>4, <4>1, <5>1
        <5> QED BY <4>1, <5>2
      <4>3. h[R] = f[y] + g[R \ {y}] /\ h[R \ {x}] = f[y] + g[(R \ {x}) \ {y}]
        BY <3>1, <3>4
      <4>4. f[x] \in Nat /\ g[(R \ {x}) \ {y}] \in Nat
        BY <2>3, <2>5, <3>1
      <4> HIDE DEF h
      <4> QED BY <2>3, <4>2, <4>3, <4>4, SMT
    <3> QED BY <3>2, <3>3, <3>4
  <2>9. h = [R \in SUBSET T |-> h[R]]
    OBVIOUS
  <2> HIDE DEF h
  <2>10. Sums(f, T, h)
    BY <2>6, <2>7, <2>8, <2>9 DEF Sums
  <2> QED BY <1>2, <2>10
<1> QED BY <1>3, <1>4

\* The fold has at most one result.
LEMMA AddsIsUnique ==
  ASSUME NEW f, NEW S, IsFiniteSet(S), NEW g, NEW h, Adds(f, S, g), Adds(f, S, h)
  PROVE  g = h
<1> DEFINE V == {T \in SUBSET S : g[T] # h[T]}
<1>1. /\ g = [T \in SUBSET S |-> g[T]] /\ h = [T \in SUBSET S |-> h[T]]
  BY DEF Adds
<1>2. ASSUME NEW T \in SUBSET S, T # {}, NEW x, x = CHOOSE y \in T : TRUE
      PROVE  x \in T /\ T \ {x} \in SUBSET S
             /\ g[T] = f[x] + g[T \ {x}] /\ h[T] = f[x] + h[T \ {x}]
  BY <1>2, ZenonT(40) DEF Adds
<1>3. g[{}] = 0 /\ h[{}] = 0
  BY DEF Adds
<1>4. CASE V = {}
  BY <1>1, <1>4
<1>5. CASE V # {}
  <2>1. \A T \in V : IsFiniteSet(T)
    BY FS_Subset
  <2>2. PICK T \in V : \A x \in T : T \ {x} \notin V
    BY <1>5, <2>1, SmallestSet
  <2>3. T # {} /\ T \in SUBSET S /\ g[T] # h[T]
    BY <1>3
  <2>4. PICK x : x = CHOOSE y \in T : TRUE
    OBVIOUS
  <2>5. x \in T /\ T \ {x} \in SUBSET S
        /\ g[T] = f[x] + g[T \ {x}] /\ h[T] = f[x] + h[T \ {x}]
    BY <1>2, <2>3, <2>4, ZenonT(30)
  <2>6. g[T \ {x}] = h[T \ {x}]
    BY <2>2, <2>5
  <2> QED BY <2>3, <2>5, <2>6
<1> QED BY <1>4, <1>5

\* Whoever has the sums of a finite set has what the fold returns.
LEMMA SumFromSums ==
  ASSUME NEW f, NEW S, IsFiniteSet(S), NEW g, Sums(f, S, g)
  PROVE  SumFunctionOnSet(f, S) = g[S]
<1> DEFINE u == CHOOSE u : Adds(f, S, u)
<1>1. Adds(f, S, g)
  <2>1. g = [T \in SUBSET S |-> g[T]]
    BY DEF Sums
  <2>2. ASSUME NEW T \in SUBSET S, T # {}
        PROVE  g[T] = f[CHOOSE x \in T : TRUE] + g[T \ {CHOOSE x \in T : TRUE}]
    <3>1. (CHOOSE x \in T : TRUE) \in T
      BY <2>2
    <3> QED BY <3>1 DEF Sums
  <2>3. g[{}] = 0
    BY DEF Sums
  <2> QED BY <2>1, <2>2, <2>3 DEF Adds
<1>2. Adds(f, S, u)
  BY <1>1
<1>3. u = g
  BY <1>1, <1>2, AddsIsUnique
<1>4. SumFunctionOnSet(f, S) = u[S]
  BY DEF SumFunctionOnSet, FoldFunctionOnSet, MapThenFoldSet, Adds
<1> QED BY <1>3, <1>4

\* Nothing adds up to zero.
LEMMA SumOfNothing ==
  ASSUME NEW f
  PROVE  SumFunctionOnSet(f, {}) = 0
<1>1. IsFiniteSet({}) /\ Terms(f, {})
  BY FS_EmptySet DEF Terms
<1>2. PICK g : Sums(f, {}, g)
  BY <1>1, SumsExist
<1> QED BY <1>1, <1>2, SumFromSums DEF Sums

\* Any term may be taken first.
LEMMA SumTakesOne ==
  ASSUME NEW f, NEW S, IsFiniteSet(S), Terms(f, S), NEW x \in S
  PROVE  /\ SumFunctionOnSet(f, S) = f[x] + SumFunctionOnSet(f, S \ {x})
         /\ SumFunctionOnSet(f, S \ {x}) \in Nat
<1>1. PICK g : Sums(f, S, g)
  BY SumsExist
<1> DEFINE R == S \ {x}
           h == [T \in SUBSET R |-> g[T]]
<1>2. R \in SUBSET S /\ IsFiniteSet(R) /\ \A T \in SUBSET R : T \in SUBSET S /\ \A y \in T : T \ {y} \in SUBSET R
  BY FS_RemoveElement
<1>3. Sums(f, R, h)
  BY <1>1, <1>2 DEF Sums
<1>4. R \in SUBSET R /\ h[R] = g[R]
  OBVIOUS
<1> HIDE DEF h
<1>5. SumFunctionOnSet(f, R) = h[R] /\ SumFunctionOnSet(f, S) = g[S]
  BY <1>1, <1>2, <1>3, SumFromSums
<1>6. g[S] = f[x] + g[S \ {x}] /\ g[R] \in Nat
  BY <1>1, <1>2 DEF Sums
<1> QED BY <1>4, <1>5, <1>6

\* A sum of naturals is one.
LEMMA SumIsNatural ==
  ASSUME NEW f, NEW S, IsFiniteSet(S), Terms(f, S)
  PROVE  SumFunctionOnSet(f, S) \in Nat
<1>1. PICK g : Sums(f, S, g)
  BY SumsExist
<1>2. SumFunctionOnSet(f, S) = g[S]
  BY <1>1, SumFromSums
<1>3. g[S] \in Nat
  BY <1>1 DEF Sums
<1> QED BY <1>2, <1>3

\* A sum depends on its terms only.
LEMMA SumOfSame ==
  ASSUME NEW f, NEW h, NEW S, IsFiniteSet(S), Terms(f, S), \A x \in S : h[x] = f[x]
  PROVE  SumFunctionOnSet(h, S) = SumFunctionOnSet(f, S)
<1>1. PICK g : Sums(f, S, g)
  BY SumsExist
<1>2. Sums(h, S, g)
  <2>1. ASSUME NEW T \in SUBSET S, NEW x \in T PROVE g[T] = h[x] + g[T \ {x}]
    <3>1. g[T] = f[x] + g[T \ {x}] /\ h[x] = f[x]
      BY <1>1 DEF Sums
    <3> QED BY <3>1
  <2> QED BY <1>1, <2>1 DEF Sums
<1> QED BY <1>1, <1>2, SumFromSums, SMT

\* Two sums add up term by term.
LEMMA SumOfSums ==
  ASSUME NEW f, NEW e, NEW h, NEW S, IsFiniteSet(S), Terms(f, S), Terms(e, S),
         \A x \in S : h[x] = f[x] + e[x]
  PROVE  SumFunctionOnSet(h, S) = SumFunctionOnSet(f, S) + SumFunctionOnSet(e, S)
<1>1. PICK g : Sums(f, S, g)
  BY SumsExist
<1>2. PICK k : Sums(e, S, k)
  BY SumsExist
<1> DEFINE s == [T \in SUBSET S |-> g[T] + k[T]]
<1>3. ASSUME NEW T \in SUBSET S
      PROVE  g[T] \in Nat /\ k[T] \in Nat
  BY <1>1, <1>2 DEF Sums
<1>4. ASSUME NEW a \in Nat, NEW b \in Nat, NEW c \in Nat, NEW d \in Nat
      PROVE  a + b \in Nat /\ (a + b) + (c + d) = (a + c) + (b + d) /\ 0 + 0 = 0
  BY SMT
<1>5. 0 \in Nat
  BY SMT
<1>6. s \in [SUBSET S -> Nat] /\ s[{}] = 0
  <2>1. g[{}] = 0 /\ k[{}] = 0
    BY <1>1, <1>2 DEF Sums
  <2>2. \A T \in SUBSET S : s[T] \in Nat
    BY <1>3, <1>4
  <2> QED BY <1>4, <1>5, <2>1, <2>2
<1>7. ASSUME NEW T \in SUBSET S, NEW x \in T PROVE s[T] = h[x] + s[T \ {x}]
  <2>1. g[T] = f[x] + g[T \ {x}] /\ k[T] = e[x] + k[T \ {x}] /\ h[x] = f[x] + e[x]
    BY <1>1, <1>2 DEF Sums
  <2>2. T \ {x} \in SUBSET S /\ x \in S
    OBVIOUS
  <2>3. f[x] \in Nat /\ e[x] \in Nat /\ g[T \ {x}] \in Nat /\ k[T \ {x}] \in Nat
    BY <1>3, <2>2 DEF Terms
  <2>4. s[T] = g[T] + k[T] /\ s[T \ {x}] = g[T \ {x}] + k[T \ {x}]
    BY <2>2
  <2> HIDE DEF s
  <2> QED BY <2>1, <2>3, <2>4, SMT
<1>8. s[S] = g[S] + k[S]
  OBVIOUS
<1> HIDE DEF s
<1>9. Sums(h, S, s)
  BY <1>6, <1>7 DEF Sums
<1> QED BY <1>1, <1>2, <1>8, <1>9, SumFromSums

\* One term grows.
LEMMA SumGrows ==
  ASSUME NEW f, NEW h, NEW S, IsFiniteSet(S), Terms(f, S), NEW x \in S, NEW v \in Nat,
         h[x] = f[x] + v, \A y \in S \ {x} : h[y] = f[y]
  PROVE  SumFunctionOnSet(h, S) = SumFunctionOnSet(f, S) + v
<1>1. IsFiniteSet(S \ {x}) /\ Terms(f, S \ {x}) /\ f[x] \in Nat
  BY FS_RemoveElement DEF Terms
<1>2. f[x] + v \in Nat
  BY <1>1, SMT
<1>3. Terms(h, S)
  BY <1>1, <1>2 DEF Terms
<1>4. /\ SumFunctionOnSet(f, S) = f[x] + SumFunctionOnSet(f, S \ {x})
      /\ SumFunctionOnSet(h, S) = h[x] + SumFunctionOnSet(h, S \ {x})
      /\ SumFunctionOnSet(f, S \ {x}) \in Nat
  <2>1. /\ SumFunctionOnSet(f, S) = f[x] + SumFunctionOnSet(f, S \ {x})
        /\ SumFunctionOnSet(f, S \ {x}) \in Nat
    BY SumTakesOne
  <2>2. SumFunctionOnSet(h, S) = h[x] + SumFunctionOnSet(h, S \ {x})
    BY <1>3, SumTakesOne, SMT
  <2> QED BY <2>1, <2>2
<1>5. SumFunctionOnSet(h, S \ {x}) = SumFunctionOnSet(f, S \ {x})
  BY <1>1, SumOfSame
<1> QED BY <1>1, <1>4, <1>5, SMT

\* A sequence with one term more.
LEMMA SumOfAppend ==
  ASSUME NEW s \in Seq(Nat), NEW v \in Nat
  PROVE  SumFunction(Append(s, v)) = SumFunction(s) + v /\ SumFunction(s) \in Nat
<1> DEFINE t == Append(s, v)
           n == Len(s)
<1>1. /\ n \in Nat /\ DOMAIN s = 1..n /\ DOMAIN t = 1..(n + 1)
      /\ t[n + 1] = v /\ \A i \in 1..n : t[i] = s[i] /\ s[i] \in Nat
  BY SMT
<1> HIDE DEF t, n
<1>2. n + 1 \in 1..(n + 1) /\ (1..(n + 1)) \ {n + 1} = 1..n
  BY <1>1, SMT
<1>3. IsFiniteSet(1..n) /\ IsFiniteSet(1..(n + 1))
  <2>1. 1 \in Int /\ n \in Int /\ n + 1 \in Int
    BY <1>1, SMT
  <2> QED BY <2>1, FS_Interval
<1>4. Terms(s, 1..n) /\ Terms(t, 1..(n + 1))
  <2>1. \A i \in 1..(n + 1) : i \in 1..n \/ i = n + 1
    BY <1>1, SMT
  <2> QED BY <1>1, <2>1 DEF Terms
<1>5. SumFunctionOnSet(t, 1..(n + 1)) = v + SumFunctionOnSet(t, 1..n)
  <2>1. SumFunctionOnSet(t, 1..(n + 1))
          = t[n + 1] + SumFunctionOnSet(t, (1..(n + 1)) \ {n + 1})
    BY <1>2, <1>3, <1>4, SumTakesOne, SMT
  <2> QED BY <1>1, <1>2, <2>1
<1>6. SumFunctionOnSet(t, 1..n) = SumFunctionOnSet(s, 1..n)
  <2>1. \A i \in 1..n : t[i] = s[i]
    BY <1>1
  <2> QED BY <1>3, <1>4, <2>1, SumOfSame
<1>7. SumFunctionOnSet(s, 1..n) \in Nat
  BY <1>3, <1>4, SumIsNatural
<1>8. SumFunction(t) = SumFunctionOnSet(t, 1..(n + 1)) /\ SumFunction(s) = SumFunctionOnSet(s, 1..n)
  BY <1>1 DEF SumFunction
<1>9. SumFunction(t) = SumFunction(s) + v
  BY <1>5, <1>6, <1>7, <1>8, SMT
<1> QED BY <1>7, <1>8, <1>9 DEF t

-----------------------------------------------------------------------------
(* The inductive invariant.                                                *)

\* The rows of a run: a queued run was never claimed, only a running one is
\* leased, and a reservation is of a claim that was made.
RowOK(r) ==
  /\ run[r].status = "queued" => run[r].claim = 0
  /\ run[r].leased => run[r].status = "running"
  /\ (run[r].status = "running" /\ ~run[r].leased) => run[r].claim < MaxClaims
  /\ Len(run[r].results) <= MaxSteps
  /\ hold[r].claim <= run[r].claim
  /\ hold[r].counted => hold[r].claim # 0

\* What a worker that still has its claim may count on at this place of the
\* loop: its reservation and its attempt are there.
OwnOK(w, pc) ==
  Claimed(w) =>
    /\ pc # "stopping" => Len(run[worker[w].run].results) < MaxSteps
    /\ pc \in {"reserved", "begun", "calling", "answered"} => Reserved(w)
    /\ pc \in {"calling", "answered"} => Counted(w)
    /\ pc \in {"begun", "calling", "answered"} => Latest(w) # 0

\* A worker remembers a claim that was made, and finds no retry window.
WorkerOK(w) ==
  worker[w] # Idle =>
    /\ worker[w].claim <= run[worker[w].run].claim
    /\ worker[w].window = 0
    /\ OwnOK(w, worker[w].pc)

\* No two workers remember one claim.
Unique ==
  \A w, v \in Workers :
    (worker[w] # Idle /\ worker[v] # Idle /\ w # v /\ worker[w].run = worker[v].run)
      => worker[w].claim # worker[v].claim

\* The attempts before the i-th of the same step and claim.
Before(s, i) == {j \in 1..(i - 1) : s[j].step = s[i].step /\ s[j].claim = s[i].claim}

Ordered(s) ==
  \A i \in DOMAIN s :
    /\ s[i].number = Cardinality(Before(s, i)) + 1 /\ s[i].number <= MaxModelAttempts
    /\ \A j \in Before(s, i) : s[j].status = "retry_scheduled" /\ s[j].due

Done(s, n) == {i \in DOMAIN s : s[i].step = n /\ s[i].status = "completed"}

Finished(s, m) == \A n \in Steps : Cardinality(Done(s, n)) = IF n <= m THEN 1 ELSE 0

\* Attempts are of claims that were made, and one that is to be repeated is
\* not the last one allowed.
Kept(s, claim) ==
  \A i \in DOMAIN s :
    /\ s[i].claim <= claim
    /\ s[i].status = "retry_scheduled" => s[i].number < MaxModelAttempts

AttemptsOK(r) ==
  /\ Ordered(attempt[r])
  /\ Finished(attempt[r], Len(run[r].results))
  /\ Kept(attempt[r], run[r].claim)

\* The usage of a ledger is the sum of its allocations.
Books(l) ==
  /\ l.usage \in Uses /\ l.alloc \in [Runs -> Uses]
  /\ l.usage.tokens = SumFunctionOnSet([r \in Runs |-> l.alloc[r].tokens], Runs)
  /\ l.usage.time = SumFunctionOnSet([r \in Runs |-> l.alloc[r].time], Runs)
  /\ l.usage.calls = SumFunctionOnSet([r \in Runs |-> l.alloc[r].calls], Runs)

Paid == \A r \in Runs : ledger.alloc[r].tokens = SumFunction(run[r].results)

IInv ==
  /\ TypeOK
  /\ \A r \in Runs : RowOK(r) /\ AttemptsOK(r)
  /\ \A w \in Workers : WorkerOK(w)
  /\ Unique
  /\ Books(ledger) /\ Paid
  /\ BudgetNeverOvercommitted

-----------------------------------------------------------------------------
(* Attempts.                                                               *)

\* A bounded set of naturals has a maximum.
LEMMA MaxOf ==
  ASSUME NEW S, S \subseteq Nat, S # {}, NEW b \in Nat, \A y \in S : y <= b
  PROVE  Max(S) \in S /\ \A y \in S : Max(S) >= y
<1> DEFINE B == {n \in Nat : \A y \in S : y <= n}
<1>1. PICK n \in B : \A m \in B : ~(m < n)
  BY LeastNatural
<1>2. n \in Nat /\ \A y \in S : y <= n
  OBVIOUS
<1>3. n \in S
  <2> SUFFICES ASSUME n \notin S PROVE FALSE
    OBVIOUS
  <2>1. PICK z \in S : TRUE
    OBVIOUS
  <2>2. \A y \in S : y \in Nat /\ y # n /\ y <= n
    BY <1>2
  <2> HIDE DEF B
  <2>3. n - 1 \in Nat /\ n - 1 < n /\ \A y \in S : y <= n - 1
    BY <1>2, <2>1, <2>2, SMT
  <2>4. n - 1 \in B
    BY <2>3 DEF B
  <2> QED BY <1>1, <2>3, <2>4
<1>4. \A y \in S : n >= y
  BY <1>2
<1> QED BY <1>3, <1>4 DEF Max

\* The sequence of attempts of a run.
LEMMA AttemptSeq ==
  ASSUME NEW s \in Seq(Attempts)
  PROVE  /\ Len(s) \in Nat /\ DOMAIN s = 1..Len(s)
         /\ \A i \in DOMAIN s : s[i] \in Attempts /\ i \in Nat /\ i # 0 /\ s[i].number \in Nat
                                /\ s[i].claim \in Nat /\ s[i].step \in Steps
<1>1. /\ Len(s) \in Nat /\ DOMAIN s = 1..Len(s)
      /\ \A i \in DOMAIN s : s[i] \in Attempts /\ i \in Nat /\ i # 0
  BY SMT
<1> QED BY <1>1 DEF Attempts

\* The last attempt of a step and a claim.
LastOf(s, n, c) == Max({0} \cup {i \in DOMAIN s : s[i].step = n /\ s[i].claim = c})

\* It is an attempt of that step and claim, and none comes after it.
LEMMA LastFacts ==
  ASSUME NEW s \in Seq(Attempts), NEW n, NEW c
  PROVE  LET i == LastOf(s, n, c)
         IN  /\ i # 0 => i \in DOMAIN s /\ s[i].step = n /\ s[i].claim = c
             /\ \A j \in DOMAIN s :
                  (s[j].step = n /\ s[j].claim = c) => i # 0 /\ j <= i
<1> DEFINE M == {j \in DOMAIN s : s[j].step = n /\ s[j].claim = c}
           S == {0} \cup M
           i == LastOf(s, n, c)
<1>1. Len(s) \in Nat /\ \A j \in DOMAIN s : j \in Nat /\ j # 0 /\ j <= Len(s)
  BY SMT
<1>2. 0 \in Nat /\ 0 <= Len(s)
  BY <1>1, SMT
<1>3. S \subseteq Nat /\ S # {} /\ \A y \in S : y <= Len(s)
  BY <1>1, <1>2
<1>4. Max(S) \in S /\ \A y \in S : Max(S) >= y
  BY <1>1, <1>3, MaxOf
<1>5. i = Max(S)
  BY DEF LastOf
<1>6. \A j \in M : j <= i /\ i # 0
  <2> SUFFICES ASSUME NEW j \in M PROVE j <= i /\ i # 0
    OBVIOUS
  <2>1. i >= j /\ i \in Nat /\ j \in Nat /\ j # 0
    BY <1>1, <1>3, <1>4, <1>5
  <2> HIDE DEF i
  <2> QED BY <2>1, SMT
<1>7. i # 0 => i \in M
  BY <1>4, <1>5
<1> HIDE DEF i
<1> QED BY <1>6, <1>7 DEF i

\* The same of the attempts on a run.
LEMMA LatestFacts ==
  ASSUME NEW r, attempt[r] \in Seq(Attempts), NEW n, NEW c
  PROVE  LET i == LatestAttempt(r, n, c)
         IN  /\ i # 0 => i \in DOMAIN attempt[r] /\ attempt[r][i].step = n /\ attempt[r][i].claim = c
             /\ \A j \in DOMAIN attempt[r] :
                  (attempt[r][j].step = n /\ attempt[r][j].claim = c) => i # 0 /\ j <= i
<1>1. LatestAttempt(r, n, c) = LastOf(attempt[r], n, c)
  BY DEF LatestAttempt, LastOf
<1> HIDE DEF LastOf
<1> QED BY <1>1, LastFacts, SMT

\* How many attempts of one step and claim there are, by the last of them.
LEMMA CountOfLatest ==
  ASSUME NEW s \in Seq(Attempts), Ordered(s), NEW i \in DOMAIN s,
         \A j \in DOMAIN s : (s[j].step = s[i].step /\ s[j].claim = s[i].claim) => j <= i
  PROVE  Cardinality({j \in DOMAIN s : s[j].step = s[i].step /\ s[j].claim = s[i].claim})
           = s[i].number
<1> DEFINE M == {j \in DOMAIN s : s[j].step = s[i].step /\ s[j].claim = s[i].claim}
<1>1. Len(s) \in Nat /\ DOMAIN s = 1..Len(s)
  BY AttemptSeq
<1>2. \A j \in DOMAIN s : (j <= i /\ j # i) <=> j \in 1..(i - 1)
  BY <1>1, SMT
<1>3. \A j \in 1..(i - 1) : j \in DOMAIN s /\ j # i
  BY <1>1, SMT
<1>4. M = Before(s, i) \cup {i} /\ i \notin Before(s, i)
  BY <1>2, <1>3 DEF Before
<1>5. IsFiniteSet(Before(s, i))
  <2>1. IsFiniteSet(1..(i - 1))
    <3>1. 1 \in Int /\ i - 1 \in Int
      BY <1>1, SMT
    <3> QED BY <3>1, FS_Interval
  <2> QED BY <2>1, FS_Subset DEF Before
<1>6. Cardinality(M) = Cardinality(Before(s, i)) + 1
  BY <1>4, <1>5, FS_AddElement
<1> QED BY <1>6 DEF Ordered

\* One attempt more, the next of its step and claim.
LEMMA OrderedAppend ==
  ASSUME NEW s \in Seq(Attempts), NEW a \in Attempts, Ordered(s), a.number <= MaxModelAttempts,
         LET M == {j \in DOMAIN s : s[j].step = a.step /\ s[j].claim = a.claim}
         IN  /\ a.number = Cardinality(M) + 1
             /\ \A j \in M : s[j].status = "retry_scheduled" /\ s[j].due
  PROVE  Ordered(Append(s, a))
<1> DEFINE t == Append(s, a)
           M == {j \in DOMAIN s : s[j].step = a.step /\ s[j].claim = a.claim}
<1>1. /\ Len(s) \in Nat /\ DOMAIN s = 1..Len(s) /\ DOMAIN t = 1..(Len(s) + 1)
      /\ t[Len(s) + 1] = a /\ \A i \in 1..Len(s) : t[i] = s[i]
  BY SMT
<1> HIDE DEF t
<1>2. /\ \A i \in 1..(Len(s) + 1) : i \in 1..Len(s) \/ i = Len(s) + 1
      /\ (Len(s) + 1) - 1 = Len(s)
      /\ \A i \in 1..Len(s) : 1..(i - 1) \subseteq 1..Len(s)
  BY <1>1, SMT
<1>3. ASSUME NEW i \in DOMAIN t
      PROVE  /\ t[i].number = Cardinality(Before(t, i)) + 1 /\ t[i].number <= MaxModelAttempts
             /\ \A j \in Before(t, i) : t[j].status = "retry_scheduled" /\ t[j].due
  <2>1. CASE i \in 1..Len(s)
    <3>1. t[i] = s[i] /\ \A j \in 1..(i - 1) : t[j] = s[j]
      BY <1>1, <1>2, <2>1
    <3>2. Before(t, i) = Before(s, i)
      BY <3>1 DEF Before
    <3>3. \A j \in Before(s, i) : t[j] = s[j]
      BY <3>1 DEF Before
    <3> QED BY <1>1, <2>1, <3>1, <3>2, <3>3 DEF Ordered
  <2>2. CASE i = Len(s) + 1
    <3>1. Before(t, i) = M
      BY <1>1, <1>2, <2>2, SMT DEF Before
    <3>2. \A j \in M : t[j] = s[j]
      BY <1>1
    <3> QED BY <1>1, <2>2, <3>1, <3>2
  <2> QED BY <1>1, <1>2, <2>1, <2>2
<1> QED BY <1>3 DEF Ordered, t

\* One attempt changes its status or its due, and either stays as the later
\* ones need it or has no later ones.
LEMMA OrderedSet ==
  ASSUME NEW s \in Seq(Attempts), Ordered(s), NEW i \in DOMAIN s, NEW a \in Attempts,
         a.step = s[i].step, a.claim = s[i].claim, a.number = s[i].number,
         \/ a.status = "retry_scheduled" /\ a.due
         \/ \A j \in DOMAIN s : (s[j].step = s[i].step /\ s[j].claim = s[i].claim) => j <= i
  PROVE  /\ [s EXCEPT ![i] = a] \in Seq(Attempts)
         /\ DOMAIN [s EXCEPT ![i] = a] = DOMAIN s
         /\ Ordered([s EXCEPT ![i] = a])
<1> DEFINE t == [s EXCEPT ![i] = a]
<1>1. /\ t \in Seq(Attempts) /\ DOMAIN t = DOMAIN s /\ t[i] = a
      /\ \A j \in DOMAIN s : j # i => t[j] = s[j]
  BY SMT
<1>2. Len(s) \in Nat /\ DOMAIN s = 1..Len(s)
  BY AttemptSeq
<1>3. \A k \in DOMAIN s : 1..(k - 1) \subseteq DOMAIN s /\ \A j \in 1..(k - 1) : ~(k <= j)
  BY <1>2, SMT
<1> HIDE DEF t
<1>4. \A j \in DOMAIN s : t[j].step = s[j].step /\ t[j].claim = s[j].claim /\ t[j].number = s[j].number
  BY <1>1
<1>5. ASSUME NEW k \in DOMAIN s
      PROVE  Before(t, k) = Before(s, k)
  <2>1. /\ t[k].step = s[k].step /\ t[k].claim = s[k].claim
        /\ \A j \in 1..(k - 1) : t[j].step = s[j].step /\ t[j].claim = s[j].claim
    BY <1>3, <1>4
  <2> QED BY <2>1 DEF Before
<1>6. ASSUME NEW k \in DOMAIN s, NEW j \in Before(s, k)
      PROVE  t[j].status = "retry_scheduled" /\ t[j].due
  <2>1. j \in 1..(k - 1) /\ j \in DOMAIN s /\ s[j].step = s[k].step /\ s[j].claim = s[k].claim
    BY <1>3 DEF Before
  <2>2. CASE j # i
    BY <1>1, <2>1, <2>2 DEF Ordered
  <2>3. CASE j = i
    <3>1. ~(k <= i)
      BY <1>3, <2>1, <2>3
    <3> QED BY <1>1, <2>1, <2>3, <3>1
  <2> QED BY <2>2, <2>3
<1>7. ASSUME NEW k \in DOMAIN t
      PROVE  /\ t[k].number = Cardinality(Before(t, k)) + 1 /\ t[k].number <= MaxModelAttempts
             /\ \A j \in Before(t, k) : t[j].status = "retry_scheduled" /\ t[j].due
  <2>1. k \in DOMAIN s /\ t[k].number = s[k].number /\ Before(t, k) = Before(s, k)
    BY <1>1, <1>4, <1>5
  <2>2. s[k].number = Cardinality(Before(s, k)) + 1 /\ s[k].number <= MaxModelAttempts
    BY <2>1 DEF Ordered
  <2> QED BY <1>6, <2>1, <2>2
<1>8. Ordered(t)
  BY <1>7 DEF Ordered
<1> QED BY <1>1, <1>8 DEF t

\* An attempt that is not completed leaves what is finished alone.
LEMMA FinishedAppend ==
  ASSUME NEW s \in Seq(Attempts), NEW a \in Attempts, a.status # "completed",
         NEW m, Finished(s, m)
  PROVE  Finished(Append(s, a), m)
<1> DEFINE t == Append(s, a)
<1>1. /\ DOMAIN t = DOMAIN s \cup {Len(s) + 1} /\ t[Len(s) + 1] = a
      /\ \A i \in DOMAIN s : t[i] = s[i]
  BY SMT
<1> HIDE DEF t
<1>2. ASSUME NEW n PROVE Done(t, n) = Done(s, n)
  BY <1>1 DEF Done
<1> QED BY <1>2 DEF Finished, t

\* So does one that changes otherwise.
LEMMA FinishedSet ==
  ASSUME NEW s \in Seq(Attempts), NEW i \in DOMAIN s, NEW a,
         s[i].status # "completed", a.status # "completed", NEW m, Finished(s, m)
  PROVE  Finished([s EXCEPT ![i] = a], m)
<1> DEFINE t == [s EXCEPT ![i] = a]
<1>1. DOMAIN t = DOMAIN s /\ t[i] = a /\ \A j \in DOMAIN s : j # i => t[j] = s[j]
  BY SMT
<1> HIDE DEF t
<1>2. ASSUME NEW n PROVE Done(t, n) = Done(s, n)
  BY <1>1 DEF Done
<1> QED BY <1>2 DEF Finished, t

\* Nothing is completed of a step that has no result.
LEMMA NoneCompleted ==
  ASSUME NEW s \in Seq(Attempts), NEW m \in Nat, Finished(s, m), NEW i \in DOMAIN s,
         ~(s[i].step <= m)
  PROVE  s[i].status # "completed"
<1>1. Len(s) \in Nat /\ DOMAIN s = 1..Len(s) /\ s[i].step \in Steps
  BY AttemptSeq
<1>2. IsFiniteSet(DOMAIN s)
  <2>1. 1 \in Int /\ Len(s) \in Int
    BY <1>1, SMT
  <2> QED BY <1>1, <2>1, FS_Interval
<1>3. Cardinality(Done(s, s[i].step)) = 0
  BY <1>1 DEF Finished
<1>4. Done(s, s[i].step) = {}
  <2>1. IsFiniteSet(Done(s, s[i].step))
    BY <1>2, FS_Subset DEF Done
  <2> QED BY <1>3, <2>1, FS_EmptySet
<1> QED BY <1>4 DEF Done

\* The attempt that brings the next result completes.
LEMMA FinishedNext ==
  ASSUME NEW s \in Seq(Attempts), NEW m \in Nat, Finished(s, m), NEW i \in DOMAIN s,
         s[i].step = m + 1, NEW a, a.step = m + 1, a.status = "completed"
  PROVE  Finished([s EXCEPT ![i] = a], m + 1)
<1> DEFINE t == [s EXCEPT ![i] = a]
<1>1. DOMAIN t = DOMAIN s /\ t[i] = a /\ \A j \in DOMAIN s : j # i => t[j] = s[j]
  BY SMT
<1> HIDE DEF t
<1>2. \A j \in DOMAIN s : s[j].step = m + 1 => s[j].status # "completed"
  <2>1. ~(m + 1 <= m)
    BY SMT
  <2> QED BY <2>1, NoneCompleted
<1>3. Done(t, m + 1) = {i}
  BY <1>1, <1>2 DEF Done
<1>4. ASSUME NEW n \in Steps, n # m + 1 PROVE Done(t, n) = Done(s, n)
  BY <1>1, <1>4 DEF Done
<1>5. ASSUME NEW n \in Steps PROVE Cardinality(Done(t, n)) = IF n <= m + 1 THEN 1 ELSE 0
  <2>1. CASE n = m + 1
    <3>1. m + 1 <= m + 1
      BY SMT
    <3> QED BY <1>3, <2>1, <3>1, FS_Singleton
  <2>2. CASE n # m + 1
    <3>1. n <= m + 1 <=> n <= m
      BY <2>2, ModelStepConstants, SMT DEF Steps
    <3>2. Cardinality(Done(s, n)) = IF n <= m THEN 1 ELSE 0
      BY DEF Finished
    <3> QED BY <1>4, <2>2, <3>1, <3>2
  <2> QED BY <2>1, <2>2
<1> QED BY <1>5 DEF Finished, t

-----------------------------------------------------------------------------
(* The ledger.                                                             *)

\* A ledger after a charge of these amounts.
Charged(l, r, x, m) == m = Charge(l, r, x.tokens, x.time, x.calls)

\* What is charged to a delegation is added to both sides of the books.
LEMMA BooksCharge ==
  ASSUME NEW l, Books(l), NEW r \in Runs, NEW x \in Uses,
         NEW m, Charged(l, r, x, m)
  PROVE  /\ Books(m)
         /\ m.usage.tokens = l.usage.tokens + x.tokens
         /\ m.usage.time = l.usage.time + x.time
         /\ m.alloc[r].tokens = l.alloc[r].tokens + x.tokens
         /\ \A q \in Runs : q # r => m.alloc[q] = l.alloc[q]
<1> DEFINE a == x.tokens  b == x.time  c == x.calls
<1>0. a \in Nat /\ b \in Nat /\ c \in Nat
  BY DEF Uses
<1>3. m.usage = Plus(l.usage, a, b, c) /\ m.alloc = [l.alloc EXCEPT ![r] = Plus(l.alloc[r], a, b, c)]
  BY DEF Charged, Charge
<1> HIDE DEF a, b, c
<1>1. IsFiniteSet(Runs)
  BY ModelStepConstants
<1>2. l.usage \in Uses /\ l.alloc \in [Runs -> Uses]
  BY DEF Books
<1>4. ASSUME NEW u \in Uses
      PROVE  LET p == Plus(u, a, b, c)
             IN  /\ p \in Uses /\ p.tokens = u.tokens + a
                 /\ p.time = u.time + b /\ p.calls = u.calls + c
  <2>1. u.tokens \in Nat /\ u.time \in Nat /\ u.calls \in Nat
    BY DEF Uses
  <2>2. u.tokens + a \in Nat /\ u.time + b \in Nat /\ u.calls + c \in Nat
    BY <1>0, <2>1, SMT
  <2> QED BY <2>2 DEF Plus, Uses
<1>5. /\ m.usage \in Uses /\ m.usage.tokens = l.usage.tokens + a
      /\ m.usage.time = l.usage.time + b /\ m.usage.calls = l.usage.calls + c
  BY <1>2, <1>3, <1>4
<1>6. /\ m.alloc[r] \in Uses /\ m.alloc[r].tokens = l.alloc[r].tokens + a
      /\ m.alloc[r].time = l.alloc[r].time + b /\ m.alloc[r].calls = l.alloc[r].calls + c
      /\ m.alloc \in [Runs -> Uses] /\ \A q \in Runs : q # r => m.alloc[q] = l.alloc[q]
  <2>1. l.alloc[r] \in Uses /\ m.alloc[r] = Plus(l.alloc[r], a, b, c)
    BY <1>2, <1>3
  <2>2. Plus(l.alloc[r], a, b, c) \in Uses
    BY <1>4, <2>1
  <2>3. m.alloc \in [Runs -> Uses] /\ \A q \in Runs : q # r => m.alloc[q] = l.alloc[q]
    BY <1>2, <1>3, <2>2
  <2> QED BY <1>4, <2>1, <2>3
<1>7. \A q \in Runs : l.alloc[q].tokens \in Nat /\ l.alloc[q].time \in Nat /\ l.alloc[q].calls \in Nat
  BY <1>2 DEF Uses
<1>8. SumFunctionOnSet([q \in Runs |-> m.alloc[q].tokens], Runs)
        = SumFunctionOnSet([q \in Runs |-> l.alloc[q].tokens], Runs) + a
  <2> DEFINE f == [q \in Runs |-> l.alloc[q].tokens]
             h == [q \in Runs |-> m.alloc[q].tokens]
  <2>1. Terms(f, Runs) /\ h[r] = f[r] + a /\ \A y \in Runs \ {r} : h[y] = f[y]
    BY <1>6, <1>7 DEF Terms
  <2> HIDE DEF f, h
  <2>2. SumFunctionOnSet(h, Runs) = SumFunctionOnSet(f, Runs) + a
    BY <1>0, <1>1, <2>1, SumGrows, SMT
  <2> QED BY <2>2 DEF f, h
<1>9. SumFunctionOnSet([q \in Runs |-> m.alloc[q].time], Runs)
        = SumFunctionOnSet([q \in Runs |-> l.alloc[q].time], Runs) + b
  <2> DEFINE f == [q \in Runs |-> l.alloc[q].time]
             h == [q \in Runs |-> m.alloc[q].time]
  <2>1. Terms(f, Runs) /\ h[r] = f[r] + b /\ \A y \in Runs \ {r} : h[y] = f[y]
    BY <1>6, <1>7 DEF Terms
  <2> HIDE DEF f, h
  <2>2. SumFunctionOnSet(h, Runs) = SumFunctionOnSet(f, Runs) + b
    BY <1>0, <1>1, <2>1, SumGrows, SMT
  <2> QED BY <2>2 DEF f, h
<1>10. SumFunctionOnSet([q \in Runs |-> m.alloc[q].calls], Runs)
         = SumFunctionOnSet([q \in Runs |-> l.alloc[q].calls], Runs) + c
  <2> DEFINE f == [q \in Runs |-> l.alloc[q].calls]
             h == [q \in Runs |-> m.alloc[q].calls]
  <2>1. Terms(f, Runs) /\ h[r] = f[r] + c /\ \A y \in Runs \ {r} : h[y] = f[y]
    BY <1>6, <1>7 DEF Terms
  <2> HIDE DEF f, h
  <2>2. SumFunctionOnSet(h, Runs) = SumFunctionOnSet(f, Runs) + c
    BY <1>0, <1>1, <2>1, SumGrows, SMT
  <2> QED BY <2>2 DEF f, h
<1>11. Books(m)
  BY <1>5, <1>6, <1>8, <1>9, <1>10 DEF Books
<1> QED BY <1>5, <1>6, <1>11 DEF a, b

\* The same for a charge of time or of a call, which costs no tokens.
LEMMA BooksSpend ==
  ASSUME NEW l, Books(l), NEW r \in Runs, NEW b \in Nat, NEW c \in Nat, NEW m,
         Charged(l, r, [tokens |-> 0, time |-> b, calls |-> c], m)
  PROVE  /\ Books(m) /\ m.usage.tokens = l.usage.tokens /\ m.usage.time = l.usage.time + b
         /\ \A q \in Runs : m.alloc[q].tokens = l.alloc[q].tokens
<1>1. PICK x : x = [tokens |-> 0, time |-> b, calls |-> c]
  OBVIOUS
<1>2. x \in Uses /\ x.tokens = 0 /\ x.time = b /\ x.calls = c
  BY <1>1 DEF Uses
<1>3. /\ Books(m) /\ m.usage.tokens = l.usage.tokens + x.tokens /\ m.usage.time = l.usage.time + x.time
      /\ m.alloc[r].tokens = l.alloc[r].tokens + x.tokens
      /\ \A q \in Runs : q # r => m.alloc[q] = l.alloc[q]
  <2>1. Charged(l, r, x, m)
    BY <1>1
  <2>2. x \in Uses
    BY <1>2
  <2> QED BY <2>1, <2>2, BooksCharge, SMT
<1>4. l.usage.tokens \in Nat /\ l.alloc[r].tokens \in Nat
  BY DEF Books, Uses
<1>5. \A n \in Nat : n + 0 = n
  BY SMT
<1> QED BY <1>2, <1>3, <1>4, <1>5

\* Pruning charges both sides the time of the calls that were abandoned.
LEMMA BooksPruned ==
  ASSUME Books(ledger), NEW time \in [Runs -> 1..Time]
  PROVE  LET m == Pruned(time)
         IN  /\ Books(m)
             /\ \A q \in Runs : m.alloc[q].tokens = ledger.alloc[q].tokens
<1> DEFINE spent == [r \in Runs |-> IF Stale(r) /\ hold[r].counted THEN time[r] ELSE 0]
           m == Pruned(time)
           S == SumFunctionOnSet(spent, Runs)
<1>1. IsFiniteSet(Runs) /\ Time \in Nat
  BY ModelStepConstants
<1>2. 0 \in Nat /\ \A n \in 1..Time : n \in Nat
  BY <1>1, SMT
<1>3. DOMAIN spent = Runs /\ \A r \in Runs : spent[r] \in Nat
  BY <1>2
<1>4. m.usage = Plus(ledger.usage, 0, SumFunction(spent), 0)
      /\ m.alloc = [r \in Runs |-> Plus(ledger.alloc[r], 0, spent[r], 0)]
  BY DEF Pruned
<1>5. SumFunction(spent) = S
  BY <1>3 DEF SumFunction
<1> HIDE DEF spent, m
<1>6. Terms(spent, Runs) /\ S \in Nat
  BY <1>1, <1>3, SumIsNatural DEF Terms
<1> HIDE DEF S
<1>7. ledger.usage \in Uses /\ ledger.alloc \in [Runs -> Uses]
  BY DEF Books
<1>8. ASSUME NEW u \in Uses, NEW n \in Nat
      PROVE  LET p == Plus(u, 0, n, 0)
             IN  /\ p \in Uses /\ p.tokens = u.tokens /\ p.time = u.time + n /\ p.calls = u.calls
  <2>1. u.tokens \in Nat /\ u.time \in Nat /\ u.calls \in Nat
    BY DEF Uses
  <2>2. u.tokens + 0 = u.tokens /\ u.time + n \in Nat /\ u.calls + 0 = u.calls
    BY <2>1, SMT
  <2> QED BY <2>1, <2>2 DEF Plus, Uses
<1>9. /\ m.usage \in Uses /\ m.usage.tokens = ledger.usage.tokens
      /\ m.usage.time = ledger.usage.time + S /\ m.usage.calls = ledger.usage.calls
  BY <1>4, <1>5, <1>6, <1>7, <1>8, SMT
<1>10. ASSUME NEW r \in Runs
       PROVE  /\ m.alloc[r] \in Uses /\ m.alloc[r].tokens = ledger.alloc[r].tokens
              /\ m.alloc[r].time = ledger.alloc[r].time + spent[r]
              /\ m.alloc[r].calls = ledger.alloc[r].calls
  <2>1. m.alloc[r] = Plus(ledger.alloc[r], 0, spent[r], 0) /\ ledger.alloc[r] \in Uses
        /\ spent[r] \in Nat
    BY <1>3, <1>4, <1>7
  <2>2. PICK u \in Uses, n \in Nat : u = ledger.alloc[r] /\ n = spent[r]
    BY <2>1
  <2>3. PICK p : p = Plus(u, 0, n, 0)
    OBVIOUS
  <2>4. p \in Uses /\ p.tokens = u.tokens /\ p.time = u.time + n /\ p.calls = u.calls
    BY <1>8, <2>3
  <2>5. m.alloc[r] = p
    BY <2>1, <2>2, <2>3
  <2> QED BY <2>2, <2>4, <2>5
<1>11. m.alloc \in [Runs -> Uses]
  BY <1>4, <1>10
<1>12. \A q \in Runs : /\ ledger.alloc[q].tokens \in Nat /\ ledger.alloc[q].time \in Nat
                       /\ ledger.alloc[q].calls \in Nat
  BY <1>7 DEF Uses
<1>13. SumFunctionOnSet([q \in Runs |-> m.alloc[q].tokens], Runs)
         = SumFunctionOnSet([q \in Runs |-> ledger.alloc[q].tokens], Runs)
  BY <1>10
<1>14. SumFunctionOnSet([q \in Runs |-> m.alloc[q].calls], Runs)
         = SumFunctionOnSet([q \in Runs |-> ledger.alloc[q].calls], Runs)
  BY <1>10
<1>15. SumFunctionOnSet([q \in Runs |-> m.alloc[q].time], Runs)
         = SumFunctionOnSet([q \in Runs |-> ledger.alloc[q].time], Runs) + S
  <2> DEFINE f == [q \in Runs |-> ledger.alloc[q].time]
             h == [q \in Runs |-> m.alloc[q].time]
  <2>1. Terms(f, Runs) /\ \A y \in Runs : h[y] = f[y] + spent[y]
    BY <1>10, <1>12 DEF Terms
  <2> HIDE DEF f, h
  <2>2. SumFunctionOnSet(h, Runs) = SumFunctionOnSet(f, Runs) + SumFunctionOnSet(spent, Runs)
    BY <1>1, <1>6, <2>1, SumOfSums, SMT
  <2> QED BY <2>2 DEF f, h, S
<1>16. Books(m)
  BY <1>9, <1>11, <1>13, <1>14, <1>15 DEF Books
<1> QED BY <1>10, <1>16 DEF m

-----------------------------------------------------------------------------
(* Workers.                                                                *)

\* What the types say of a worker that has a claim, and of its run.
LEMMA WorkerTypes ==
  ASSUME TypeOK, NEW w \in Workers, worker[w] # Idle
  PROVE  LET r == worker[w].run
         IN  /\ r \in Runs /\ worker[w].claim \in 1..MaxClaims /\ worker[w].claim \in Nat
             /\ worker[w].claim # 0 /\ worker[w].pc \in Working
             /\ worker[w] \in [pc : Working, run : Runs, claim : 1..MaxClaims, window : Nat]
<1>1. worker[w] \in [pc : Working, run : Runs, claim : 1..MaxClaims, window : Nat]
  BY DEF TypeOK
<1>2. \A n \in 1..MaxClaims : n \in Nat /\ n # 0
  BY ModelStepConstants, SMT
<1> QED BY <1>1, <1>2

\* The types of a run's rows.
LEMMA RowTypes ==
  ASSUME TypeOK, NEW r \in Runs
  PROVE  /\ run[r] \in [status : {"queued", "running", "ended"}, claim : 0..MaxClaims,
                        leased : BOOLEAN, results : Seq(0..Tokens)]
         /\ run[r].claim \in Nat /\ run[r].claim \in 0..MaxClaims
         /\ run[r].results \in Seq(0..Tokens) /\ Len(run[r].results) \in Nat
         /\ run[r].leased \in BOOLEAN
         /\ hold[r] \in [claim : 0..MaxClaims, counted : BOOLEAN] /\ hold[r].claim \in Nat
         /\ attempt[r] \in Seq(Attempts)
<1>1. /\ run[r] \in [status : {"queued", "running", "ended"}, claim : 0..MaxClaims,
                     leased : BOOLEAN, results : Seq(0..Tokens)]
      /\ hold[r] \in [claim : 0..MaxClaims, counted : BOOLEAN] /\ attempt[r] \in Seq(Attempts)
  BY DEF TypeOK
<1>2. \A n \in 0..MaxClaims : n \in Nat
  BY ModelStepConstants, SMT
<1>3. \A s \in Seq(0..Tokens) : Len(s) \in Nat
  BY SMT
<1> QED BY <1>1, <1>2, <1>3

\* Two workers do not both have a run.
LEMMA Exclusive ==
  ASSUME Unique, NEW w \in Workers, NEW v \in Workers, w # v, Claimed(w), Claimed(v)
  PROVE  worker[v].run # worker[w].run
BY DEF Unique, Claimed


\* A worker's latest attempt depends on the steps and claims of the attempts.
SameKeys(s, t) ==
  DOMAIN s = DOMAIN t /\ \A i \in DOMAIN s : s[i].step = t[i].step /\ s[i].claim = t[i].claim

\* So it stays when none of these changes.
LEMMA LatestKept ==
  ASSUME NEW w, LET r == worker[w].run
                IN  /\ worker'[w].run = r /\ worker'[w].claim = worker[w].claim
                    /\ run'[r].results = run[r].results
                    /\ SameKeys(attempt[r], attempt'[r])
  PROVE  Latest(w)' = Latest(w)
<1> DEFINE r == worker[w].run
           n == StepOf(r)
           c == worker[w].claim
           M == {i \in DOMAIN attempt[r] : attempt[r][i].step = n /\ attempt[r][i].claim = c}
           N == {i \in DOMAIN attempt'[r] : attempt'[r][i].step = n /\ attempt'[r][i].claim = c}
<1>1. N = M
  BY DEF SameKeys
<1>2. Latest(w) = Max({0} \cup M)
  BY DEF Latest, LatestAttempt
<1>3. Latest(w)' = Max({0} \cup N)
  BY DEF Latest, LatestAttempt, StepOf
<1> QED BY <1>1, <1>2, <1>3

\* Another worker is not disturbed by a step that leaves it and its run alone,
\* and keeps its reservation from a prune while it has its claim.
LEMMA WorkerKept ==
  ASSUME TypeOK, NEW v \in Workers, WorkerOK(v), worker'[v] = worker[v],
         worker[v] # Idle =>
           LET q == worker[v].run
           IN  /\ worker[v].claim <= run'[q].claim
               /\ Claimed(v)' => /\ run'[q] = run[q] /\ SameKeys(attempt[q], attempt'[q])
                                 /\ hold'[q] = hold[q] \/ Stale(q)
  PROVE  WorkerOK(v)'
<1> SUFFICES ASSUME worker[v] # Idle PROVE WorkerOK(v)'
  BY DEF WorkerOK
<1> DEFINE q == worker[v].run  pc == worker[v].pc
<1>1. worker[v].window = 0 /\ OwnOK(v, pc)
  BY DEF WorkerOK
<1>2. ASSUME Claimed(v)'
      PROVE  /\ pc # "stopping" => Len(run'[q].results) < MaxSteps
             /\ pc \in {"reserved", "begun", "calling", "answered"} => hold'[q].claim = worker[v].claim
             /\ pc \in {"calling", "answered"} => hold'[q].counted
             /\ pc \in {"begun", "calling", "answered"} => Latest(v)' # 0
  <2>1. /\ run'[q] = run[q] /\ SameKeys(attempt[q], attempt'[q])
        /\ hold'[q] = hold[q] \/ Stale(q)
    BY <1>2
  <2>2. Claimed(v) /\ run[q].status = "running" /\ run[q].leased /\ run[q].claim = worker[v].claim
    BY <1>2, <2>1 DEF Claimed
  <2>3. Latest(v)' = Latest(v)
    BY <2>1, LatestKept
  <2>4. ASSUME pc \in {"reserved", "begun", "calling", "answered"}
        PROVE  hold[q].claim = worker[v].claim /\ hold'[q] = hold[q]
    <3>1. hold[q].claim = worker[v].claim
      BY <1>1, <2>2, <2>4 DEF OwnOK, Reserved
    <3>2. ~Stale(q)
      BY <2>2, <3>1 DEF Stale
    <3> QED BY <2>1, <3>1, <3>2
  <2>5. /\ pc # "stopping" => Len(run[q].results) < MaxSteps
        /\ pc \in {"calling", "answered"} => hold[q].counted
        /\ pc \in {"begun", "calling", "answered"} => Latest(v) # 0
    BY <1>1, <2>2 DEF OwnOK, Counted
  <2> QED BY <2>1, <2>3, <2>4, <2>5
<1>3. OwnOK(v, worker[v].pc)'
  BY <1>2 DEF OwnOK, Reserved, Counted
<1> QED BY <1>1, <1>3 DEF WorkerOK

\* What Go leaves alone.
LEMMA GoFacts ==
  ASSUME TypeOK, Unique, NEW w \in Workers, worker[w] # Idle, NEW pc \in Working, Go(w, pc)
  PROVE  /\ worker' \in [Workers -> {Idle} \cup [pc : Working, run : Runs, claim : 1..MaxClaims,
                                                 window : Nat]]
         /\ worker'[w].run = worker[w].run /\ worker'[w].claim = worker[w].claim
         /\ worker'[w].window = worker[w].window /\ worker'[w].pc = pc /\ worker'[w] # Idle
         /\ \A v \in Workers : v # w => worker'[v] = worker[v]
         /\ Unique'
<1> DEFINE K == [pc : Working, run : Runs, claim : 1..MaxClaims, window : Nat]
<1>1. worker[w] \in K
  BY WorkerTypes
<1>2. worker \in [Workers -> {Idle} \cup K] /\ DOMAIN worker = Workers
  BY DEF TypeOK
<1>3. worker' = [worker EXCEPT ![w] = [worker[w] EXCEPT !.pc = pc]]
  BY DEF Go
<1>4. PICK k : k = [worker[w] EXCEPT !.pc = pc]
  OBVIOUS
<1>5. k \in K /\ k.run = worker[w].run /\ k.claim = worker[w].claim /\ k.window = worker[w].window /\ k.pc = pc
  BY <1>1, <1>4, SMT
<1>6. k # Idle
  BY <1>5, SMT DEF Idle
<1>7. worker'[w] = k /\ \A v \in Workers : v # w => worker'[v] = worker[v]
  BY <1>2, <1>3, <1>4
<1>8. worker' \in [Workers -> {Idle} \cup K]
  BY <1>2, <1>3, <1>4, <1>5
<1>9. \A v \in Workers : worker[v] # Idle <=> worker'[v] # Idle
  BY <1>6, <1>7
<1>10. \A v \in Workers : worker'[v].run = worker[v].run /\ worker'[v].claim = worker[v].claim
  BY <1>5, <1>7
<1>11. Unique'
  BY <1>9, <1>10 DEF Unique
<1> QED BY <1>5, <1>6, <1>7, <1>8, <1>11


\* The workers after a step of one of them that has its claim, and changes
\* nothing of the other runs but reservations it prunes; or that only moves on.
LEMMA WorkersGo ==
  ASSUME IInv, NEW w \in Workers, worker[w] # Idle, NEW pc \in Working, Go(w, pc),
         Claimed(w) \/ UNCHANGED <<run, attempt, hold>>,
         \A q \in Runs : run'[q].claim = run[q].claim,
         \A q \in Runs : q # worker[w].run =>
           run'[q] = run[q] /\ attempt'[q] = attempt[q] /\ (hold'[q] = hold[q] \/ Stale(q)),
         OwnOK(w, pc)'
  PROVE  /\ worker' \in [Workers -> {Idle} \cup [pc : Working, run : Runs, claim : 1..MaxClaims,
                                                 window : Nat]]
         /\ Unique' /\ \A v \in Workers : WorkerOK(v)'
<1>1. TypeOK /\ Unique /\ \A v \in Workers : WorkerOK(v)
  BY DEF IInv
<1>2. /\ worker' \in [Workers -> {Idle} \cup [pc : Working, run : Runs, claim : 1..MaxClaims,
                                              window : Nat]]
      /\ worker'[w].run = worker[w].run /\ worker'[w].claim = worker[w].claim
      /\ worker'[w].window = worker[w].window /\ worker'[w].pc = pc /\ worker'[w] # Idle
      /\ \A v \in Workers : v # w => worker'[v] = worker[v]
      /\ Unique'
  BY <1>1, GoFacts
<1>3. worker[w].run \in Runs
  BY <1>1, WorkerTypes
<1>4. WorkerOK(w)'
  <2>1. worker[w].claim <= run[worker[w].run].claim /\ worker[w].window = 0
    BY <1>1 DEF WorkerOK
  <2>2. worker'[w].claim <= run'[worker'[w].run].claim /\ worker'[w].window = 0
    BY <1>2, <1>3, <2>1
  <2> QED BY <1>2, <2>2 DEF WorkerOK
<1>5. ASSUME NEW v \in Workers, v # w
      PROVE  WorkerOK(v)'
  <2>1. worker'[v] = worker[v]
    BY <1>2, <1>5
  <2>2. ASSUME worker[v] # Idle
        PROVE  LET q == worker[v].run
               IN  /\ worker[v].claim <= run'[q].claim
                   /\ Claimed(v)' => /\ run'[q] = run[q] /\ SameKeys(attempt[q], attempt'[q])
                                     /\ hold'[q] = hold[q] \/ Stale(q)
    <3> DEFINE q == worker[v].run
    <3>1. q \in Runs
      BY <1>1, <2>2, WorkerTypes
    <3>2. worker[v].claim <= run'[q].claim
      BY <1>1, <2>2, <3>1 DEF WorkerOK
    <3>3. CASE UNCHANGED <<run, attempt, hold>>
      <4>1. run' = run /\ attempt' = attempt /\ hold' = hold
        BY <3>3
      <4> QED BY <3>2, <4>1 DEF SameKeys
    <3>4. CASE Claimed(w)
      <4>1. ASSUME Claimed(v)' PROVE q # worker[w].run
        <5>1. run'[q].claim = worker[v].claim
          BY <2>1, <4>1 DEF Claimed
        <5>2. run[q].claim = worker[v].claim
          BY <3>1, <5>1
        <5>3. run[worker[w].run].claim = worker[w].claim
          BY <3>4 DEF Claimed
        <5>4. q = worker[w].run => worker[v].claim # worker[w].claim
          BY <1>1, <1>5, <2>2 DEF Unique
        <5> QED BY <5>2, <5>3, <5>4
      <4>2. ASSUME Claimed(v)'
            PROVE  /\ run'[q] = run[q] /\ SameKeys(attempt[q], attempt'[q])
                   /\ hold'[q] = hold[q] \/ Stale(q)
        <5>1. /\ run'[q] = run[q] /\ attempt'[q] = attempt[q]
              /\ hold'[q] = hold[q] \/ Stale(q)
          BY <3>1, <4>1, <4>2
        <5> QED BY <5>1 DEF SameKeys
      <4> QED BY <3>2, <4>2
    <3> QED BY <3>3, <3>4
  <2> QED BY <1>1, <2>1, <2>2, WorkerKept
<1> QED BY <1>2, <1>4, <1>5

\* A step that only moves a worker on.
LEMMA Moves ==
  ASSUME IInv, NEW w \in Workers, worker[w] # Idle, NEW pc \in Working, Go(w, pc),
         UNCHANGED <<run, attempt, ledger, hold>>, OwnOK(w, pc)
  PROVE  IInv'
<1>1. run' = run /\ attempt' = attempt /\ ledger' = ledger /\ hold' = hold
  OBVIOUS
<1>2. /\ TypeOK /\ Unique /\ Books(ledger) /\ Paid /\ BudgetNeverOvercommitted
      /\ \A r \in Runs : RowOK(r) /\ AttemptsOK(r)
  BY DEF IInv
<1>3. worker'[w].run = worker[w].run /\ worker'[w].claim = worker[w].claim /\ worker'[w] # Idle
  BY <1>2, GoFacts
<1>4. Latest(w)' = Latest(w)
  <2>1. SameKeys(attempt[worker[w].run], attempt'[worker[w].run])
    BY <1>1 DEF SameKeys
  <2> QED BY <1>1, <1>3, <2>1, LatestKept
<1>5. OwnOK(w, pc)'
  BY <1>1, <1>3, <1>4 DEF OwnOK, Claimed, Reserved, Counted
<1>6. /\ worker' \in [Workers -> {Idle} \cup [pc : Working, run : Runs, claim : 1..MaxClaims,
                                              window : Nat]]
      /\ Unique' /\ \A v \in Workers : WorkerOK(v)'
  BY <1>1, <1>5, WorkersGo
<1>7. TypeOK'
  BY <1>1, <1>2, <1>6 DEF TypeOK
<1>8. \A r \in Runs : RowOK(r)' /\ AttemptsOK(r)'
  BY <1>1, <1>2 DEF RowOK, AttemptsOK
<1>9. Books(ledger)' /\ Paid' /\ BudgetNeverOvercommitted'
  BY <1>1, <1>2 DEF Paid, BudgetNeverOvercommitted, Held
<1> QED BY <1>6, <1>7, <1>8, <1>9 DEF IInv


\* A worker at a place of the loop with its claim.
LEMMA AtFacts ==
  ASSUME IInv, NEW w \in Workers, NEW pc \in Working, At(w, pc)
  PROVE  LET r == worker[w].run
         IN  /\ worker[w] # Idle /\ Claimed(w) /\ worker[w].pc = pc /\ OwnOK(w, pc)
             /\ r \in Runs /\ run[r].status = "running" /\ run[r].leased
             /\ run[r].claim = worker[w].claim /\ run[r].claim \in 1..MaxClaims
             /\ run[r].claim \in Nat /\ run[r].claim # 0
             /\ TypeOK /\ RowOK(r) /\ AttemptsOK(r)
<1> DEFINE r == worker[w].run
<1>1. worker[w] # Idle /\ Claimed(w) /\ worker[w].pc = pc
  BY DEF At, Claimed
<1>2. TypeOK /\ WorkerOK(w)
  BY DEF IInv
<1>3. r \in Runs /\ worker[w].claim \in 1..MaxClaims /\ worker[w].claim \in Nat /\ worker[w].claim # 0
  BY <1>1, <1>2, WorkerTypes
<1>4. run[r].status = "running" /\ run[r].leased /\ run[r].claim = worker[w].claim
  BY <1>1 DEF Claimed
<1>5. OwnOK(w, pc)
  BY <1>1, <1>2 DEF WorkerOK
<1>6. RowOK(r) /\ AttemptsOK(r)
  BY <1>3 DEF IInv
<1> QED BY <1>1, <1>2, <1>3, <1>4, <1>5, <1>6

\* The end of a wait, an answer and a refused save only move a worker on.
LEMMA MovingOn ==
  ASSUME IInv, NEW w \in Workers, Retry(w) \/ Answer(w) \/ SaveRefused(w)
  PROVE  IInv'
<1>1. CASE Retry(w)
  <2>1. /\ At(w, "waiting") /\ Go(w, "top") /\ "top" \in Working /\ "waiting" \in Working
        /\ UNCHANGED <<run, attempt, ledger, hold>>
    BY <1>1 DEF Retry, Working
  <2>2. worker[w] # Idle /\ OwnOK(w, "waiting")
    BY <2>1, AtFacts
  <2>3. OwnOK(w, "top")
    BY <2>2 DEF OwnOK
  <2> QED BY <2>1, <2>2, <2>3, Moves
<1>2. CASE Answer(w)
  <2>1. /\ worker[w].pc = "calling" /\ Go(w, "answered") /\ "answered" \in Working
        /\ UNCHANGED <<run, attempt, ledger, hold>>
    BY <1>2 DEF Answer, Working
  <2>2. worker[w] # Idle
    BY <2>1, SMT DEF Idle
  <2>3. OwnOK(w, "calling")
    BY <2>1, <2>2 DEF IInv, WorkerOK
  <2>4. OwnOK(w, "answered")
    BY <2>3 DEF OwnOK
  <2> QED BY <2>1, <2>2, <2>4, Moves
<1>3. CASE SaveRefused(w)
  <2>1. /\ At(w, "answered") /\ Go(w, "refused") /\ "refused" \in Working /\ "answered" \in Working
        /\ UNCHANGED <<run, attempt, ledger, hold>>
    BY <1>3 DEF SaveRefused, Working
  <2>2. worker[w] # Idle /\ OwnOK(w, "answered")
    BY <2>1, AtFacts
  <2>3. OwnOK(w, "refused")
    BY <2>2 DEF OwnOK
  <2> QED BY <2>1, <2>2, <2>3, Moves
<1> QED BY <1>1, <1>2, <1>3

-----------------------------------------------------------------------------
(* Reservations.                                                           *)

HeldRuns == {q \in Runs : Held(q)}

\* The budget in terms of the runs that hold a reservation.
LEMMA BudgetByHeld ==
  ASSUME IInv
  PROVE  /\ Cardinality(HeldRuns) \in Nat /\ IsFiniteSet(HeldRuns)
         /\ ledger.usage.tokens \in Nat /\ ledger.usage.time \in Nat
         /\ ledger.usage.tokens + Cardinality(HeldRuns) * Tokens <= BudgetTokens
         /\ ledger.usage.time + Cardinality(HeldRuns) * Time <= BudgetTime
<1>1. IsFiniteSet(HeldRuns)
  BY ModelStepConstants, FS_Subset DEF HeldRuns
<1>2. ledger.usage.tokens \in Nat /\ ledger.usage.time \in Nat
  BY DEF IInv, Books, Uses
<1>3. /\ ledger.usage.tokens + Cardinality(HeldRuns) * Tokens <= BudgetTokens
      /\ ledger.usage.time + Cardinality(HeldRuns) * Time <= BudgetTime
  BY DEF IInv, BudgetNeverOvercommitted, HeldRuns
<1> QED BY <1>1, <1>2, <1>3, FS_CardinalityType

\* The budget is kept by a step that charges at most what a reservation it
\* drops allowed for.
LEMMA DropKeepsBudget ==
  ASSUME IInv, NEW r \in Runs, Held(r), hold' = [hold EXCEPT ![r] = NoHold],
         NEW a \in 0..Tokens, NEW b \in 0..Time,
         ledger'.usage.tokens = ledger.usage.tokens + a,
         ledger'.usage.time = ledger.usage.time + b
  PROVE  BudgetNeverOvercommitted'
<1> DEFINE H == HeldRuns  h == Cardinality(H)
           K == {q \in Runs : Held(q)'}
<1>1. /\ h \in Nat /\ IsFiniteSet(H)
      /\ ledger.usage.tokens \in Nat /\ ledger.usage.time \in Nat
      /\ ledger.usage.tokens + h * Tokens <= BudgetTokens
      /\ ledger.usage.time + h * Time <= BudgetTime
  BY BudgetByHeld
<1>2. DOMAIN hold = Runs
  BY DEF IInv, TypeOK
<1>3. K = H \ {r} /\ r \in H
  BY <1>2 DEF HeldRuns, Held
<1> HIDE DEF H, K
<1>4. Cardinality(H \ {r}) = h - 1
  BY <1>1, <1>3, FS_RemoveElement
<1>5. Tokens \in Nat /\ Time \in Nat /\ BudgetTokens \in Nat /\ BudgetTime \in Nat
  BY ModelStepConstants
<1>6. ASSUME NEW T \in Nat, NEW B \in Nat, NEW u \in Nat, NEW x \in 0..T, NEW n \in Nat,
             u + n * T <= B
      PROVE  (u + x) + (n - 1) * T <= B
  <2>1. PICK p \in Int : p = n * T
    BY SMT
  <2>2. (n - 1) * T = p - T
    BY <2>1, SMT
  <2>3. PICK d : d = (n - 1) * T
    OBVIOUS
  <2>4. u + p <= B /\ d = p - T
    BY <1>6, <2>1, <2>2, <2>3
  <2>5. (u + x) + d <= B
    BY <2>4, SMT
  <2> QED BY <2>3, <2>5
<1>7. /\ (ledger.usage.tokens + a) + (h - 1) * Tokens <= BudgetTokens
      /\ (ledger.usage.time + b) + (h - 1) * Time <= BudgetTime
  BY <1>1, <1>5, <1>6, SMT
<1>8. Cardinality(K) = h - 1
  BY <1>3, <1>4
<1> QED BY <1>7, <1>8 DEF BudgetNeverOvercommitted, K

\* The budget is kept by a step that changes neither the tokens and the time
\* used nor which runs hold a reservation.
LEMMA SameKeepsBudget ==
  ASSUME IInv, \A q \in Runs : Held(q)' <=> Held(q),
         ledger'.usage.tokens = ledger.usage.tokens, ledger'.usage.time = ledger.usage.time
  PROVE  BudgetNeverOvercommitted'
<1>1. {q \in Runs : Held(q)'} = HeldRuns
  BY DEF HeldRuns
<1> QED BY <1>1, BudgetByHeld DEF BudgetNeverOvercommitted


\* A run whose rows did not change keeps what the invariant says of it.
LEMMA RowsKept ==
  ASSUME NEW q, RowOK(q), AttemptsOK(q), run'[q] = run[q]
  PROVE  /\ hold'[q] = hold[q] => RowOK(q)'
         /\ attempt'[q] = attempt[q] => AttemptsOK(q)'
BY DEF RowOK, AttemptsOK

\* A new reservation, with the prune that goes before it.
LEMMA ReserveNew ==
  ASSUME IInv, NEW w \in Workers, At(w, "top"), NEW time \in [Runs -> 1..Time],
         LET r == worker[w].run
         IN  /\ Fits(Pruned(time), r) /\ ledger' = Pruned(time)
             /\ hold' = [q \in Runs |->
                  IF q = r THEN [claim |-> worker[w].claim, counted |-> FALSE]
                  ELSE IF Stale(q) THEN NoHold ELSE hold[q]],
         Go(w, "reserved"), run' = run, attempt' = attempt
  PROVE  IInv'
<1> DEFINE r == worker[w].run  c == worker[w].claim
<1>1. /\ worker[w] # Idle /\ Claimed(w) /\ OwnOK(w, "top") /\ r \in Runs
      /\ run[r].claim = c /\ c \in 1..MaxClaims /\ c \in Nat /\ c # 0 /\ TypeOK
  BY AtFacts DEF Working
<1>2. /\ \A q \in Runs : RowOK(q) /\ AttemptsOK(q)
      /\ Books(ledger) /\ Paid
  BY DEF IInv
<1>3. PICK m : m = Pruned(time)
  OBVIOUS
<1>4. Books(m) /\ \A q \in Runs : m.alloc[q].tokens = ledger.alloc[q].tokens
  BY <1>2, <1>3, BooksPruned
<1>5. ledger' = m /\ Fits(m, r)
  BY <1>3
<1>6. Books(ledger)' /\ ledger'.usage \in Uses /\ ledger'.alloc \in [Runs -> Uses]
  BY <1>4, <1>5 DEF Books
<1>7. Paid'
  BY <1>2, <1>4, <1>5 DEF Paid
<1>8. hold'[r].claim = c /\ ~hold'[r].counted
  BY <1>1
<1>9. \A q \in Runs : q # r => hold'[q] = IF Stale(q) THEN NoHold ELSE hold[q]
  OBVIOUS
<1>10. hold' \in [Runs -> [claim : 0..MaxClaims, counted : BOOLEAN]]
  <2>1. NoHold \in [claim : 0..MaxClaims, counted : BOOLEAN] /\ c \in 0..MaxClaims
    BY <1>1, ModelStepConstants, SMT DEF NoHold
  <2>2. \A q \in Runs : hold[q] \in [claim : 0..MaxClaims, counted : BOOLEAN]
    BY <1>1 DEF TypeOK
  <2> QED BY <2>1, <2>2
<1>11. ASSUME NEW q \in Runs PROVE RowOK(q)' /\ AttemptsOK(q)'
  <2>1. RowOK(q) /\ AttemptsOK(q)
    BY <1>2
  <2>2. AttemptsOK(q)' /\ (hold'[q] = hold[q] => RowOK(q)')
    BY <2>1, RowsKept
  <2>3. run[q].claim \in Nat /\ 0 <= run[q].claim /\ run[q].claim <= run[q].claim
    <3>1. run[q].claim \in Nat
      BY <1>1, RowTypes
    <3> QED BY <3>1, SMT
  <2>4. NoHold.claim = 0 /\ ~NoHold.counted
    BY DEF NoHold
  <2>5. (hold'[q] = NoHold \/ q = r) => RowOK(q)'
    BY <1>1, <1>8, <2>1, <2>3, <2>4 DEF RowOK
  <2> QED BY <1>9, <2>2, <2>5
<1>12. BudgetNeverOvercommitted'
  <2> DEFINE L == {q \in Runs \ {r} : Live(q)}
             K == {q \in Runs : hold'[q] # NoHold}
  <2>1. IsFiniteSet(L)
    BY ModelStepConstants, FS_Subset
  <2>2. /\ m.usage.tokens + (Cardinality(L) + 1) * Tokens <= BudgetTokens
        /\ m.usage.time + (Cardinality(L) + 1) * Time <= BudgetTime
    BY <1>5 DEF Fits
  <2>3. \A q \in Runs : hold'[q] # NoHold <=> (q = r \/ Live(q))
    <3>1. hold'[r] # NoHold
      <4>1. NoHold.claim = 0
        BY DEF NoHold
      <4> QED BY <1>1, <1>8, <4>1
    <3>2. ASSUME NEW q \in Runs, q # r PROVE hold'[q] # NoHold <=> Live(q)
      BY <1>9, <3>2 DEF Held, Live, Stale
    <3> QED BY <3>1, <3>2
  <2>4. K = L \cup {r} /\ r \notin L
    BY <1>1, <2>3
  <2> HIDE DEF K, L
  <2>5. Cardinality(K) = Cardinality(L) + 1
    BY <2>1, <2>4, FS_AddElement
  <2>6. /\ ledger'.usage.tokens + Cardinality(K) * Tokens <= BudgetTokens
        /\ ledger'.usage.time + Cardinality(K) * Time <= BudgetTime
    BY <1>5, <2>2, <2>5
  <2> QED BY <2>6 DEF BudgetNeverOvercommitted, Held, K
<1>13. worker'[w].run = r /\ worker'[w].claim = c
  BY <1>1, GoFacts DEF IInv, Working
<1>14. OwnOK(w, "reserved")'
  BY <1>1, <1>8, <1>13 DEF OwnOK, Reserved
<1>15. /\ worker' \in [Workers -> {Idle} \cup [pc : Working, run : Runs, claim : 1..MaxClaims,
                                               window : Nat]]
       /\ Unique' /\ \A v \in Workers : WorkerOK(v)'
  <2>1. "reserved" \in Working
    BY DEF Working
  <2>2. \A q \in Runs : q # r => hold'[q] = hold[q] \/ Stale(q)
    BY <1>9
  <2> QED BY <1>1, <1>14, <2>1, <2>2, WorkersGo
<1>16. TypeOK'
  BY <1>1, <1>6, <1>10, <1>15 DEF TypeOK
<1> QED BY <1>6, <1>7, <1>11, <1>12, <1>15, <1>16 DEF IInv

\* ReserveConversationWorkStep keeps the invariant.
LEMMA ReserveKeeps ==
  ASSUME IInv, NEW w \in Workers, Reserve(w)
  PROVE  IInv'
<1> DEFINE r == worker[w].run
<1>1. At(w, "top") /\ run' = run /\ attempt' = attempt
  BY DEF Reserve
<1>2. /\ worker[w] # Idle /\ Claimed(w) /\ OwnOK(w, "top") /\ r \in Runs
      /\ run[r].claim = worker[w].claim
  BY <1>1, AtFacts DEF Working
<1>3. CASE Live(r)
  <2>1. Go(w, "reserved") /\ UNCHANGED <<run, attempt, ledger, hold>>
    BY <1>1, <1>3 DEF Reserve
  <2>2. hold[r].claim = worker[w].claim
    BY <1>2, <1>3 DEF Live, Stale
  <2>3. OwnOK(w, "reserved")
    BY <1>2, <2>2 DEF OwnOK, Reserved
  <2> QED BY <1>2, <2>1, <2>3, Moves DEF Working
<1>4. CASE ~Live(r)
  <2>1. PICK time \in [Runs -> 1..Time] :
          LET l == Pruned(time) IN
          IF Fits(l, r)
          THEN /\ Go(w, "reserved")
               /\ ledger' = l
               /\ hold' = [q \in Runs |->
                    IF q = r THEN [claim |-> worker[w].claim, counted |-> FALSE]
                    ELSE IF Stale(q) THEN NoHold ELSE hold[q]]
          ELSE Go(w, "stopping") /\ UNCHANGED <<ledger, hold>>
    BY <1>4 DEF Reserve
  <2>2. CASE Fits(Pruned(time), r)
    BY <1>1, <2>1, <2>2, ReserveNew
  <2>3. CASE ~Fits(Pruned(time), r)
    <3>1. Go(w, "stopping") /\ UNCHANGED <<run, attempt, ledger, hold>>
      BY <1>1, <2>1, <2>3
    <3>2. OwnOK(w, "stopping")
      BY DEF OwnOK
    <3> QED BY <1>2, <3>1, <3>2, Moves DEF Working
  <2> QED BY <2>2, <2>3
<1> QED BY <1>3, <1>4


\* A step of a worker on its own reservation and on the ledger.
LEMMA HoldStep ==
  ASSUME IInv, NEW w \in Workers, NEW from \in Working, At(w, from), NEW pc \in Working, Go(w, pc),
         run' = run, attempt' = attempt,
         NEW h \in [claim : 0..MaxClaims, counted : BOOLEAN], h = NoHold \/ h.claim = worker[w].claim,
         hold' = [hold EXCEPT ![worker[w].run] = h],
         Books(ledger)', \A q \in Runs : ledger'.alloc[q].tokens = ledger.alloc[q].tokens,
         BudgetNeverOvercommitted', OwnOK(w, pc)'
  PROVE  IInv'
<1> DEFINE r == worker[w].run  c == worker[w].claim
<1>1. /\ worker[w] # Idle /\ Claimed(w) /\ r \in Runs /\ run[r].claim = c /\ c \in Nat /\ c # 0 /\ TypeOK
  BY AtFacts
<1>2. /\ \A q \in Runs : RowOK(q) /\ AttemptsOK(q)
      /\ Paid
  BY DEF IInv
<1>3. hold \in [Runs -> [claim : 0..MaxClaims, counted : BOOLEAN]] /\ DOMAIN hold = Runs
  BY <1>1 DEF TypeOK
<1>4. hold'[r] = h /\ \A q \in Runs : q # r => hold'[q] = hold[q]
  BY <1>1, <1>3
<1>5. hold' \in [Runs -> [claim : 0..MaxClaims, counted : BOOLEAN]]
  BY <1>1, <1>3
<1>6. ledger'.usage \in Uses /\ ledger'.alloc \in [Runs -> Uses]
  BY DEF Books
<1>7. Paid'
  BY <1>2 DEF Paid
<1>8. ASSUME NEW q \in Runs PROVE RowOK(q)' /\ AttemptsOK(q)'
  <2>1. RowOK(q) /\ AttemptsOK(q)
    BY <1>2
  <2>2. AttemptsOK(q)' /\ (hold'[q] = hold[q] => RowOK(q)')
    BY <2>1, RowsKept
  <2>3. NoHold.claim = 0 /\ ~NoHold.counted
    BY DEF NoHold
  <2>4. 0 <= c /\ c <= c
    BY <1>1, SMT
  <2>5. h.claim <= c /\ (h.counted => h.claim # 0)
    BY <1>1, <2>3, <2>4
  <2>6. q = r => RowOK(q)'
    BY <1>1, <1>4, <2>1, <2>5 DEF RowOK
  <2> QED BY <1>4, <2>2, <2>6
<1>9. /\ worker' \in [Workers -> {Idle} \cup [pc : Working, run : Runs, claim : 1..MaxClaims,
                                              window : Nat]]
      /\ Unique' /\ \A v \in Workers : WorkerOK(v)'
  BY <1>1, <1>4, WorkersGo
<1>10. TypeOK'
  BY <1>1, <1>5, <1>6, <1>9 DEF TypeOK
<1> QED BY <1>7, <1>8, <1>9, <1>10 DEF IInv

\* StartConversationWorkStep keeps the invariant.
LEMMA StartKeeps ==
  ASSUME IInv, NEW w \in Workers, Start(w)
  PROVE  IInv'
<1> DEFINE r == worker[w].run  c == worker[w].claim
           h == [hold[r] EXCEPT !.counted = TRUE]
<1>1. At(w, "begun") /\ run' = run /\ attempt' = attempt /\ "begun" \in Working /\ "calling" \in Working
  BY DEF Start, Working
<1>2. /\ worker[w] # Idle /\ Claimed(w) /\ OwnOK(w, "begun") /\ r \in Runs /\ c \in Nat /\ c # 0 /\ TypeOK
      /\ run[r].claim = c
  BY <1>1, AtFacts
<1>3. Reserved(w) /\ hold[r].claim = c /\ Latest(w) # 0 /\ Len(run[r].results) < MaxSteps
  BY <1>2 DEF OwnOK, Reserved
<1>4. /\ Go(w, "calling") /\ hold' = [hold EXCEPT ![r] = h]
      /\ ledger' = IF Counted(w) THEN ledger ELSE Charge(ledger, r, 0, 0, 1)
  BY <1>3 DEF Start
<1>5. hold[r] \in [claim : 0..MaxClaims, counted : BOOLEAN] /\ DOMAIN hold = Runs
  BY <1>2 DEF TypeOK
<1>6. h \in [claim : 0..MaxClaims, counted : BOOLEAN] /\ h.claim = c /\ h.counted
  <2>1. PICK k \in [claim : 0..MaxClaims, counted : BOOLEAN] : k = hold[r]
    BY <1>5
  <2>2. PICK l : l = [k EXCEPT !.counted = TRUE]
    OBVIOUS
  <2>3. l \in [claim : 0..MaxClaims, counted : BOOLEAN] /\ l.claim = k.claim /\ l.counted
    BY <2>2
  <2> QED BY <1>3, <2>1, <2>2, <2>3
<1> HIDE DEF h
<1>7. hold'[r] = h /\ \A q \in Runs : q # r => hold'[q] = hold[q]
  BY <1>2, <1>4, <1>5
<1>8. /\ Books(ledger)' /\ \A q \in Runs : ledger'.alloc[q].tokens = ledger.alloc[q].tokens
      /\ ledger'.usage.tokens = ledger.usage.tokens /\ ledger'.usage.time = ledger.usage.time
  <2>1. Books(ledger) /\ 0 \in Nat /\ 1 \in Nat
    BY DEF IInv
  <2>2. CASE Counted(w)
    BY <1>4, <2>1, <2>2
  <2>3. CASE ~Counted(w)
    <3>1. PICK m : m = Charge(ledger, r, 0, 0, 1)
                   /\ Charged(ledger, r, [tokens |-> 0, time |-> 0, calls |-> 1], m)
      BY DEF Charged
    <3>2. /\ Books(m) /\ m.usage.tokens = ledger.usage.tokens /\ m.usage.time = ledger.usage.time + 0
          /\ \A q \in Runs : m.alloc[q].tokens = ledger.alloc[q].tokens
      BY <1>2, <2>1, <3>1, BooksSpend, SMT
    <3>3. ledger.usage.time \in Nat
      BY <2>1 DEF Books, Uses
    <3>4. \A n \in Nat : n + 0 = n
      BY SMT
    <3>5. ledger' = m
      BY <1>4, <2>3, <3>1
    <3> QED BY <3>2, <3>3, <3>4, <3>5
  <2> QED BY <2>2, <2>3
<1>9. \A q \in Runs : Held(q)' <=> Held(q)
  <2>1. NoHold.claim = 0
    BY DEF NoHold
  <2>2. hold[r] # NoHold /\ h # NoHold
    BY <1>2, <1>3, <1>6, <2>1
  <2> QED BY <1>7, <2>2 DEF Held
<1>10. BudgetNeverOvercommitted'
  BY <1>8, <1>9, SameKeepsBudget
<1>11. worker'[w].run = r /\ worker'[w].claim = c
  BY <1>1, <1>2, <1>4, GoFacts DEF IInv
<1>12. Latest(w)' = Latest(w)
  BY <1>1, <1>11, LatestKept DEF SameKeys
<1>13. OwnOK(w, "calling")'
  BY <1>1, <1>3, <1>6, <1>7, <1>11, <1>12 DEF OwnOK, Reserved, Counted
<1> QED BY <1>1, <1>4, <1>6, <1>8, <1>10, <1>13, HoldStep


\* ReleaseConversationWorkStep keeps the invariant, done or not.
LEMMA ReleaseKeeps ==
  ASSUME IInv, NEW w \in Workers, NEW done \in BOOLEAN, Release(w, done)
  PROVE  IInv'
<1> DEFINE r == worker[w].run  c == worker[w].claim
           pc == IF worker[w].pc = "failed" THEN "waiting" ELSE "stopping"
<1>1. /\ run' = run /\ attempt' = attempt /\ Go(w, pc)
      /\ At(w, "failed") \/ At(w, "refused")
      /\ \A p \in {"failed", "refused", "waiting", "stopping"} : p \in Working
      /\ pc \in Working
  BY DEF Release, Working
<1>2. PICK from \in {"failed", "refused"} : At(w, from)
  BY <1>1
<1>3. from \in Working
  BY <1>1, <1>2
<1>4. /\ worker[w] # Idle /\ Claimed(w) /\ worker[w].pc = from /\ OwnOK(w, from) /\ r \in Runs
      /\ c \in Nat /\ c # 0 /\ TypeOK
  BY <1>2, <1>3, AtFacts
<1>5. pc # "stopping" => Len(run[r].results) < MaxSteps
  BY <1>2, <1>4 DEF OwnOK
<1>6. pc \notin {"reserved", "begun", "calling", "answered"}
  OBVIOUS
<1>7. worker'[w].run = r
  BY <1>1, <1>4, GoFacts DEF IInv
<1>9. PICK to \in Working : to = pc
  BY <1>1
<1>10. Go(w, to) /\ OwnOK(w, to) /\ OwnOK(w, to)'
  BY <1>1, <1>5, <1>6, <1>7, <1>9 DEF OwnOK
<1> HIDE DEF pc
<1>11. CASE ~(done /\ Reserved(w))
  <2>1. UNCHANGED <<run, attempt, ledger, hold>>
    BY <1>1, <1>11 DEF Release
  <2> QED BY <1>4, <1>10, <2>1, Moves
<1>12. CASE done /\ Reserved(w)
  <2>1. PICK time \in 1..Time : ledger' = Abandoned(ledger, r, time)
    BY <1>12 DEF Release
  <2>2. hold' = [hold EXCEPT ![r] = NoHold]
    BY <1>12 DEF Release
  <2>3. /\ Tokens \in Nat /\ Time \in Nat /\ MaxClaims \in Nat
    BY ModelStepConstants
  <2>4. /\ 0 \in 0..Tokens /\ 0 \in 0..Time /\ 0 \in 0..MaxClaims /\ time \in 0..Time
        /\ time \in Nat /\ 0 \in Nat /\ \A n \in Nat : n + 0 = n
    BY <2>3, SMT
  <2>5. Books(ledger)
    BY DEF IInv
  <2>6. PICK m : m = Charge(ledger, r, 0, time, 0)
                 /\ Charged(ledger, r, [tokens |-> 0, time |-> time, calls |-> 0], m)
    BY DEF Charged
  <2>7. /\ Books(m) /\ m.usage.tokens = ledger.usage.tokens
        /\ m.usage.time = ledger.usage.time + time
        /\ \A q \in Runs : m.alloc[q].tokens = ledger.alloc[q].tokens
    BY <1>4, <2>4, <2>5, <2>6, BooksSpend, SMT
  <2>8. ledger.usage.tokens \in Nat /\ ledger.usage.time \in Nat
    BY <1>4, <2>5 DEF Books, Uses
  <2>9. ledger' = m \/ ledger' = ledger
    BY <2>1, <2>6 DEF Abandoned
  <2>10. Books(ledger)' /\ \A q \in Runs : ledger'.alloc[q].tokens = ledger.alloc[q].tokens
    BY <2>5, <2>7, <2>9
  <2>11. PICK b \in 0..Time : ledger'.usage.time = ledger.usage.time + b
    BY <2>4, <2>7, <2>8, <2>9
  <2>12. ledger'.usage.tokens = ledger.usage.tokens + 0
    BY <2>4, <2>7, <2>8, <2>9
  <2>13. Held(r)
    <3>1. NoHold.claim = 0 /\ hold[r].claim = c
      BY <1>12 DEF NoHold, Reserved
    <3> QED BY <1>4, <3>1 DEF Held
  <2>14. BudgetNeverOvercommitted'
    BY <1>4, <2>2, <2>4, <2>11, <2>12, <2>13, DropKeepsBudget
  <2>15. NoHold \in [claim : 0..MaxClaims, counted : BOOLEAN]
    BY <2>4 DEF NoHold
  <2> QED BY <1>1, <1>2, <1>3, <1>10, <2>2, <2>10, <2>14, <2>15, HoldStep
<1> QED BY <1>11, <1>12


-----------------------------------------------------------------------------
(* The attempts of a step.                                                 *)

\* A step of a worker that writes the attempts of its run.
LEMMA AttemptStep ==
  ASSUME IInv, NEW w \in Workers, NEW from \in Working, At(w, from), NEW pc \in Working, Go(w, pc),
         run' = run, ledger' = ledger, hold' = hold,
         NEW s \in Seq(Attempts), attempt' = [attempt EXCEPT ![worker[w].run] = s],
         Ordered(s), Finished(s, Len(run[worker[w].run].results)), Kept(s, run[worker[w].run].claim),
         OwnOK(w, pc)'
  PROVE  IInv'
<1> DEFINE r == worker[w].run
<1>1. worker[w] # Idle /\ Claimed(w) /\ r \in Runs /\ TypeOK
  BY AtFacts
<1>2. /\ \A q \in Runs : RowOK(q) /\ AttemptsOK(q)
      /\ Books(ledger) /\ Paid /\ BudgetNeverOvercommitted
  BY DEF IInv
<1>3. attempt \in [Runs -> Seq(Attempts)] /\ DOMAIN attempt = Runs
  BY <1>1 DEF TypeOK
<1>4. attempt'[r] = s /\ \A q \in Runs : q # r => attempt'[q] = attempt[q]
  BY <1>1, <1>3
<1>5. attempt' \in [Runs -> Seq(Attempts)]
  BY <1>1, <1>3
<1>6. ASSUME NEW q \in Runs PROVE RowOK(q)' /\ AttemptsOK(q)'
  <2>1. RowOK(q) /\ AttemptsOK(q)
    BY <1>2
  <2>2. RowOK(q)' /\ (attempt'[q] = attempt[q] => AttemptsOK(q)')
    BY <2>1, RowsKept
  <2>3. q = r => AttemptsOK(q)'
    BY <1>4 DEF AttemptsOK
  <2> QED BY <1>4, <2>2, <2>3
<1>7. /\ worker' \in [Workers -> {Idle} \cup [pc : Working, run : Runs, claim : 1..MaxClaims,
                                              window : Nat]]
      /\ Unique' /\ \A v \in Workers : WorkerOK(v)'
  BY <1>1, <1>4, WorkersGo
<1>8. TypeOK'
  BY <1>1, <1>5, <1>7 DEF TypeOK
<1>9. Books(ledger)' /\ Paid' /\ BudgetNeverOvercommitted'
  BY <1>2 DEF Paid, BudgetNeverOvercommitted, Held
<1> QED BY <1>6, <1>7, <1>8, <1>9 DEF IInv

\* An attempt that is added.
LEMMA AppendFacts ==
  ASSUME NEW s \in Seq(Attempts), NEW a \in Attempts, NEW t, t = Append(s, a)
  PROVE  /\ t \in Seq(Attempts) /\ Len(s) + 1 \in DOMAIN t /\ t[Len(s) + 1] = a
         /\ \A i \in DOMAIN s : t[i] = s[i]
         /\ \A i \in DOMAIN t : i \in DOMAIN s \/ i = Len(s) + 1
BY SMT

\* After an attempt is added there is a last one of its step and claim.
LEMMA LastOfAppend ==
  ASSUME NEW s \in Seq(Attempts), NEW a \in Attempts
  PROVE  LastOf(Append(s, a), a.step, a.claim) # 0
<1>1. PICK t : t = Append(s, a)
  OBVIOUS
<1>2. t \in Seq(Attempts) /\ Len(s) + 1 \in DOMAIN t /\ t[Len(s) + 1] = a
  BY <1>1, AppendFacts
<1>3. PICK j \in DOMAIN t : t[j] = a
  BY <1>2
<1>4. LastOf(t, a.step, a.claim) # 0
  BY <1>2, <1>3, LastFacts, SMT
<1> QED BY <1>1, <1>4

\* A new attempt is of a claim that was made.
LEMMA KeptAppend ==
  ASSUME NEW s \in Seq(Attempts), NEW a \in Attempts, NEW c, Kept(s, c), a.claim <= c,
         a.status = "started"
  PROVE  Kept(Append(s, a), c)
<1>1. PICK t : t = Append(s, a)
  OBVIOUS
<1>2. ASSUME NEW i \in DOMAIN t
      PROVE  t[i].claim <= c /\ (t[i].status = "retry_scheduled" => t[i].number < MaxModelAttempts)
  <2>1. (i \in DOMAIN s /\ t[i] = s[i]) \/ t[i] = a
    BY <1>1, <1>2, SMT
  <2> QED BY <2>1 DEF Kept
<1>3. Kept(t, c)
  BY <1>2 DEF Kept
<1> QED BY <1>1, <1>3

\* A run with fewer results than the bound has a next step.
LEMMA StepIsBounded ==
  \A n \in Nat : n < MaxSteps => n + 1 \in Steps
BY ModelStepConstants, SMT DEF Steps

\* The order of the naturals is reflexive.
LEMMA Reflexive == \A n \in Nat : n <= n
BY SMT

\* A new attempt.
LEMMA AttemptBegins ==
  ASSUME IInv, NEW w \in Workers, At(w, "reserved"), NEW n \in Nat, Begun(worker[w].run, worker[w].claim, n),
         Go(w, "begun"), run' = run, ledger' = ledger, hold' = hold, n <= MaxModelAttempts,
         LET r == worker[w].run
             M == {j \in DOMAIN attempt[r] : attempt[r][j].step = StepOf(r) /\ attempt[r][j].claim = worker[w].claim}
         IN  /\ n = Cardinality(M) + 1
             /\ \A j \in M : attempt[r][j].status = "retry_scheduled" /\ attempt[r][j].due
  PROVE  IInv'
<1> DEFINE r == worker[w].run  c == worker[w].claim
<1>1. /\ worker[w] # Idle /\ OwnOK(w, "reserved") /\ r \in Runs /\ Claimed(w)
      /\ run[r].claim = c /\ c \in Nat /\ TypeOK /\ AttemptsOK(r)
      /\ "reserved" \in Working /\ "begun" \in Working
  BY AtFacts DEF Working
<1>2. Len(run[r].results) < MaxSteps /\ Reserved(w)
  BY <1>1 DEF OwnOK
<1>3. Len(run[r].results) \in Nat /\ attempt[r] \in Seq(Attempts) /\ MaxSteps \in Nat
  BY <1>1, RowTypes, ModelStepConstants
<1>4. PICK k : k = StepOf(r)
  OBVIOUS
<1>5. k \in Steps
  <2>1. k = Len(run[r].results) + 1
    BY <1>4 DEF StepOf
  <2>2. PICK z \in Nat : z = Len(run[r].results)
    BY <1>3
  <2>3. z < MaxSteps /\ k = z + 1
    BY <1>2, <2>1, <2>2
  <2> QED BY <2>3, StepIsBounded
<1>6. PICK a : a = [step |-> k, claim |-> c, number |-> n, status |-> "started", due |-> FALSE]
  OBVIOUS
<1>7. /\ a \in Attempts /\ a.step = k /\ a.claim = c /\ a.number = n /\ a.status = "started"
  BY <1>1, <1>5, <1>6 DEF Attempts
<1>8. PICK s \in Seq(Attempts) : s = attempt[r]
  BY <1>3
<1>9. PICK t : t = Append(s, a)
  OBVIOUS
<1>10. attempt' = [attempt EXCEPT ![r] = t] /\ DOMAIN attempt = Runs
  BY <1>1, <1>4, <1>6, <1>8, <1>9 DEF Begun, TypeOK
<1>11. t \in Seq(Attempts) /\ Len(s) + 1 \in DOMAIN t /\ t[Len(s) + 1] = a
  BY <1>7, <1>9, AppendFacts
<1>12. Ordered(s) /\ Finished(s, Len(run[r].results)) /\ Kept(s, c)
  BY <1>1, <1>8 DEF AttemptsOK
<1>13. Ordered(t)
  <2>1. LET M == {j \in DOMAIN s : s[j].step = a.step /\ s[j].claim = a.claim}
        IN  /\ a.number = Cardinality(M) + 1
            /\ \A j \in M : s[j].status = "retry_scheduled" /\ s[j].due
    BY <1>4, <1>7, <1>8
  <2>2. Ordered(Append(s, a))
    BY <1>7, <1>12, <2>1, OrderedAppend
  <2> QED BY <1>9, <2>2
<1>14. Finished(t, Len(run[r].results))
  BY <1>7, <1>9, <1>12, FinishedAppend
<1>15. Kept(t, c)
  <2>1. a.claim <= c
    BY <1>1, <1>7, Reflexive
  <2> QED BY <1>7, <1>9, <1>12, <2>1, KeptAppend
<1>16. attempt'[r] = t /\ worker'[w].run = r /\ worker'[w].claim = c
  BY <1>1, <1>10, GoFacts DEF IInv
<1>17. Latest(w)' # 0
  <2>1. StepOf(r)' = k
    BY <1>4, <1>16 DEF StepOf
  <2>3. Latest(w)' = Max({0} \cup {i \in DOMAIN attempt'[r] :
                         attempt'[r][i].step = StepOf(r)' /\ attempt'[r][i].claim = c})
    BY <1>16 DEF Latest, LatestAttempt, StepOf
  <2>4. Latest(w)' = LastOf(t, k, c)
    BY <1>16, <2>1, <2>3 DEF LastOf
  <2>2. LastOf(t, k, c) # 0
    BY <1>7, <1>9, LastOfAppend
  <2> QED BY <2>2, <2>4
<1>18. OwnOK(w, "begun")'
  BY <1>2, <1>16, <1>17 DEF OwnOK, Reserved
<1> QED BY <1>1, <1>10, <1>11, <1>13, <1>14, <1>15, <1>18, AttemptStep


\* The latest attempt of a worker is the last of its step and claim.
LEMMA LatestOfWorker ==
  ASSUME TypeOK, NEW w \in Workers, worker[w] # Idle
  PROVE  LET r == worker[w].run  i == Latest(w)  n == StepOf(r)  c == worker[w].claim
         IN  /\ i # 0 => i \in DOMAIN attempt[r] /\ attempt[r][i].step = n /\ attempt[r][i].claim = c
             /\ \A j \in DOMAIN attempt[r] :
                  (attempt[r][j].step = n /\ attempt[r][j].claim = c) => i # 0 /\ j <= i
<1>1. attempt[worker[w].run] \in Seq(Attempts)
  BY WorkerTypes, RowTypes
<1> QED BY <1>1, LatestFacts DEF Latest

\* BeginConversationModelAttempt keeps the invariant.
LEMMA BeginKeeps ==
  ASSUME IInv, NEW w \in Workers, Begin(w)
  PROVE  IInv'
<1> DEFINE r == worker[w].run  c == worker[w].claim  i == Latest(w)  last == attempt[r][i]
           M == {j \in DOMAIN attempt[r] : attempt[r][j].step = StepOf(r) /\ attempt[r][j].claim = c}
<1>1. At(w, "reserved") /\ run' = run /\ ledger' = ledger /\ hold' = hold
  BY DEF Begin
<1>2. /\ worker[w] # Idle /\ OwnOK(w, "reserved") /\ r \in Runs
      /\ TypeOK /\ AttemptsOK(r) /\ attempt[r] \in Seq(Attempts)
  <2>1. /\ worker[w] # Idle /\ OwnOK(w, "reserved") /\ r \in Runs
        /\ TypeOK /\ AttemptsOK(r)
    BY <1>1, AtFacts DEF Working
  <2> QED BY <2>1, RowTypes
<1>3. /\ i # 0 => i \in DOMAIN attempt[r] /\ last.step = StepOf(r) /\ last.claim = c
      /\ \A j \in M : i # 0 /\ j <= i
  BY <1>2, LatestOfWorker
<1>4. CASE i = 0 /\ Begun(r, c, 1) /\ Go(w, "begun")
  <2>1. M = {}
    BY <1>3, <1>4
  <2>2. 1 \in Nat /\ 1 = Cardinality(M) + 1 /\ 1 <= MaxModelAttempts
    <3>1. Cardinality(M) = 0
      BY <2>1, FS_EmptySet
    <3> HIDE DEF M
    <3> QED BY <3>1, ModelStepConstants, SMT
  <2> QED BY <1>1, <1>4, <2>1, <2>2, AttemptBegins
<1>5. CASE i # 0 /\ last.status = "retry_scheduled" /\ last.due /\ Begun(r, c, last.number + 1)
           /\ Go(w, "begun")
  <2>1. PICK s \in Seq(Attempts) : s = attempt[r]
    BY <1>2
  <2>2. Ordered(s) /\ Kept(s, run[r].claim) /\ i \in DOMAIN s /\ s[i] = last
    BY <1>2, <1>3, <1>5, <2>1 DEF AttemptsOK
  <2>3. PICK k \in DOMAIN s : k = i
    BY <2>2
  <2>4. M = {j \in DOMAIN s : s[j].step = s[k].step /\ s[j].claim = s[k].claim}
    BY <1>3, <1>5, <2>1, <2>2, <2>3
  <2>5. \A j \in M : j <= k
    BY <1>3, <2>3
  <2>6. Cardinality(M) = s[k].number
    BY <2>2, <2>4, <2>5, CountOfLatest
  <2>7. s[k].number \in Nat /\ s[k].number < MaxModelAttempts
    BY <1>5, <2>2, <2>3, AttemptSeq DEF Kept
  <2>8. s[k].number + 1 \in Nat /\ s[k].number + 1 <= MaxModelAttempts
    <3>1. \A n \in Nat : n < MaxModelAttempts => n + 1 \in Nat /\ n + 1 <= MaxModelAttempts
      BY ModelStepConstants, SMT
    <3> QED BY <2>7, <3>1
  <2>9. ASSUME NEW j \in M PROVE s[j].status = "retry_scheduled" /\ s[j].due
    <3>1. j \in DOMAIN s /\ j <= k /\ s[j].step = s[k].step /\ s[j].claim = s[k].claim
      BY <2>4, <2>5
    <3>2. j = k \/ j \in 1..(k - 1)
      <4>1. j \in Nat /\ k \in Nat /\ j # 0
        BY <3>1, AttemptSeq
      <4> HIDE DEF M
      <4> QED BY <3>1, <4>1, SMT
    <3>3. j \in Before(s, k) => s[j].status = "retry_scheduled" /\ s[j].due
      BY <2>2 DEF Ordered
    <3>4. j = k \/ j \in Before(s, k)
      BY <3>1, <3>2 DEF Before
    <3> QED BY <1>5, <2>2, <2>3, <3>3, <3>4
  <2>10. PICK n \in Nat : n = last.number + 1 /\ n <= MaxModelAttempts /\ n = Cardinality(M) + 1
    BY <2>2, <2>3, <2>6, <2>8
  <2>11. Begun(r, c, n)
    BY <1>5, <2>10
  <2>12. \A j \in M : attempt[r][j].status = "retry_scheduled" /\ attempt[r][j].due
    BY <2>1, <2>9
  <2> QED BY <1>1, <1>5, <2>10, <2>11, <2>12, AttemptBegins
<1>6. CASE i # 0 /\ Go(w, "begun") /\ attempt' = attempt
  <2>1. OwnOK(w, "begun")
    BY <1>2, <1>6 DEF OwnOK
  <2> QED BY <1>1, <1>2, <1>6, <2>1, Moves DEF Working
<1>7. CASE Go(w, "refused") /\ attempt' = attempt
  <2>1. OwnOK(w, "refused")
    BY <1>2 DEF OwnOK
  <2> QED BY <1>1, <1>2, <1>7, <2>1, Moves DEF Working
<1> QED BY <1>4, <1>5, <1>6, <1>7 DEF Begin

\* Attempts that get another status or fall due.
LEMMA KeptSet ==
  ASSUME NEW s \in Seq(Attempts), NEW i \in DOMAIN s, NEW a, NEW c, Kept(s, c),
         a.claim = s[i].claim, a.status = "retry_scheduled" => a.number < MaxModelAttempts
  PROVE  Kept([s EXCEPT ![i] = a], c)
<1>1. PICK t : t = [s EXCEPT ![i] = a]
  OBVIOUS
<1>2. DOMAIN t = DOMAIN s /\ t[i] = a /\ \A j \in DOMAIN s : j # i => t[j] = s[j]
  BY <1>1
<1>3. Kept(t, c)
  BY <1>2 DEF Kept
<1> QED BY <1>1, <1>3


\* The last attempt of its step and claim gets another status.
LEMMA StatusSet ==
  ASSUME NEW s \in Seq(Attempts), Ordered(s), NEW n \in Nat, Finished(s, n),
         NEW c, Kept(s, c), NEW i \in DOMAIN s, s[i].step = n + 1,
         \A j \in DOMAIN s : (s[j].step = s[i].step /\ s[j].claim = s[i].claim) => j <= i,
         NEW a \in Attempts, a.step = s[i].step, a.claim = s[i].claim, a.number = s[i].number,
         a.status = "retry_scheduled" => a.number < MaxModelAttempts
  PROVE  LET t == [s EXCEPT ![i] = a]
         IN  /\ t \in Seq(Attempts) /\ Ordered(t) /\ Kept(t, c)
             /\ a.status # "completed" => Finished(t, n)
             /\ a.status = "completed" => Finished(t, n + 1)
<1> DEFINE t == [s EXCEPT ![i] = a]
<1>1. t \in Seq(Attempts) /\ Ordered(t)
  BY OrderedSet
<1>2. Kept(t, c)
  BY KeptSet
<1>3. s[i].status # "completed"
  <2>1. \A m \in Nat : ~(m + 1 <= m)
    BY SMT
  <2> QED BY <2>1, NoneCompleted
<1>4. a.status # "completed" => Finished(t, n)
  BY <1>3, FinishedSet
<1>5. a.status = "completed" => Finished(t, n + 1)
  BY FinishedNext
<1> QED BY <1>1, <1>2, <1>4, <1>5

\* The latest attempt of a worker gets another status.
LEMMA LatestSet ==
  ASSUME IInv, NEW w \in Workers, worker[w] # Idle, Latest(w) # 0,
         NEW st \in {"failed", "retry_scheduled", "completed"},
         st = "retry_scheduled" => attempt[worker[w].run][Latest(w)].number < MaxModelAttempts,
         NEW t, attempt' = [attempt EXCEPT ![worker[w].run][Latest(w)].status = st],
         t = attempt'[worker[w].run]
  PROVE  LET r == worker[w].run
         IN  /\ t \in Seq(Attempts) /\ attempt' = [attempt EXCEPT ![r] = t]
             /\ Ordered(t) /\ Kept(t, run[r].claim)
             /\ st # "completed" => Finished(t, Len(run[r].results))
             /\ st = "completed" => Finished(t, Len(run[r].results) + 1)
<1> DEFINE r == worker[w].run
<1>1. TypeOK /\ r \in Runs /\ AttemptsOK(r) /\ attempt[r] \in Seq(Attempts)
  <2>1. TypeOK /\ r \in Runs
    BY WorkerTypes DEF IInv
  <2> QED BY <2>1, RowTypes DEF IInv
<1>2. PICK s \in Seq(Attempts) : s = attempt[r]
  BY <1>1
<1>3. Ordered(s) /\ Finished(s, Len(run[r].results)) /\ Kept(s, run[r].claim)
  BY <1>1, <1>2 DEF AttemptsOK
<1>4. PICK n \in Nat : n = Len(run[r].results)
  BY <1>1, RowTypes
<1>5. PICK i \in DOMAIN s : i = Latest(w)
  BY <1>1, <1>2, LatestOfWorker
<1>6. s[i].step = n + 1
  BY <1>1, <1>2, <1>4, <1>5, LatestOfWorker DEF StepOf
<1>7. \A j \in DOMAIN s : (s[j].step = s[i].step /\ s[j].claim = s[i].claim) => j <= i
  BY <1>1, <1>2, <1>5, LatestOfWorker
<1>8. PICK a : a = [s[i] EXCEPT !.status = st]
  OBVIOUS
<1>9. /\ a \in Attempts /\ a.step = s[i].step /\ a.claim = s[i].claim /\ a.number = s[i].number
      /\ a.status = st
  <2>1. s[i] \in Attempts
    BY AttemptSeq
  <2> QED BY <1>8, <2>1 DEF Attempts
<1>10. attempt' = [attempt EXCEPT ![r] = [s EXCEPT ![i] = a]]
  BY <1>2, <1>5, <1>8
<1>11. t = [s EXCEPT ![i] = a]
  BY <1>1, <1>10 DEF TypeOK
<1>12. /\ t \in Seq(Attempts) /\ Ordered(t) /\ Kept(t, run[r].claim)
       /\ st # "completed" => Finished(t, n)
       /\ st = "completed" => Finished(t, n + 1)
  <2>1. PICK u : u = [s EXCEPT ![i] = a]
    OBVIOUS
  <2>2. a.status = "retry_scheduled" => a.number < MaxModelAttempts
    BY <1>2, <1>5, <1>9
  <2>3. Finished(s, n)
    BY <1>3, <1>4
  <2>4. /\ u \in Seq(Attempts) /\ Ordered(u) /\ Kept(u, run[r].claim)
        /\ a.status # "completed" => Finished(u, n)
        /\ a.status = "completed" => Finished(u, n + 1)
    BY <1>3, <1>6, <1>7, <1>9, <2>1, <2>2, <2>3, StatusSet
  <2> QED BY <1>9, <1>11, <2>1, <2>4
<1> QED BY <1>4, <1>10, <1>11, <1>12

\* Failing an attempt keeps the invariant.
LEMMA FailAttemptKeeps ==
  ASSUME IInv, NEW w \in Workers, NEW retry \in BOOLEAN, FailAttempt(w, retry)
  PROVE  IInv'
<1> DEFINE r == worker[w].run
           to == IF retry /\ worker[w].pc = "calling" THEN "failed" ELSE "refused"
           st == IF retry THEN "retry_scheduled" ELSE "failed"
<1>1. /\ run' = run /\ ledger' = ledger /\ hold' = hold
      /\ Go(w, to) /\ attempt' = [attempt EXCEPT ![r][Latest(w)].status = st]
      /\ retry => attempt[r][Latest(w)].number < MaxModelAttempts
  BY DEF FailAttempt, MayRetry
<1>2. PICK from \in Working : At(w, from) /\ from \in {"begun", "calling"}
  BY DEF FailAttempt, Working
<1>3. worker[w] # Idle /\ OwnOK(w, from) /\ r \in Runs /\ TypeOK /\ Claimed(w)
  BY <1>2, AtFacts
<1>4. Latest(w) # 0 /\ Len(run[r].results) < MaxSteps
  BY <1>2, <1>3 DEF OwnOK
<1>5. PICK pc \in Working : pc = to /\ pc \in {"failed", "refused"}
  BY DEF Working
<1>6. PICK x \in {"failed", "retry_scheduled", "completed"} : x = st
  OBVIOUS
<1>7. Go(w, pc) /\ attempt' = [attempt EXCEPT ![r][Latest(w)].status = x]
  BY <1>1, <1>5, <1>6
<1>8. x # "completed" /\ (x = "retry_scheduled" => attempt[r][Latest(w)].number < MaxModelAttempts)
  BY <1>1, <1>6
<1> HIDE DEF to, st
<1>9. PICK t : t = attempt'[r]
  OBVIOUS
<1>10. /\ t \in Seq(Attempts) /\ attempt' = [attempt EXCEPT ![r] = t]
       /\ Ordered(t) /\ Kept(t, run[r].claim) /\ Finished(t, Len(run[r].results))
  BY <1>3, <1>4, <1>7, <1>8, <1>9, LatestSet
<1>11. worker'[w].run = r
  BY <1>3, <1>7, GoFacts DEF IInv
<1>12. OwnOK(w, pc)'
  BY <1>1, <1>4, <1>5, <1>11 DEF OwnOK
<1> QED BY <1>1, <1>2, <1>7, <1>10, <1>12, AttemptStep


-----------------------------------------------------------------------------
(* Saving a result.                                                        *)

\* A result that is added to those of a run.
LEMMA ResultAdded ==
  ASSUME NEW s \in Seq(0..Tokens), NEW v \in 0..Tokens, NEW t, t = Append(s, v)
  PROVE  /\ t \in Seq(0..Tokens) /\ Len(t) = Len(s) + 1 /\ Len(s) \in Nat
         /\ SumFunction(t) = SumFunction(s) + v
<1>1. Tokens \in Nat
  BY ModelStepConstants
<1>2. /\ t \in Seq(0..Tokens) /\ Len(t) = Len(s) + 1 /\ Len(s) \in Nat
  BY SMT
<1>3. s \in Seq(Nat) /\ v \in Nat
  BY <1>1, SMT
<1> QED BY <1>2, <1>3, SumOfAppend

\* What the whole step does.
LEMMA SaveFacts ==
  ASSUME IInv, NEW w \in Workers, Save(w)
  PROVE  LET r == worker[w].run
         IN  /\ At(w, "answered") /\ Go(w, Resumed(StepOf(r)))
             /\ hold' = [hold EXCEPT ![r] = NoHold]
             /\ attempt' = [attempt EXCEPT ![r][Latest(w)].status = "completed"]
             /\ \E tokens \in 0..Tokens, time \in 1..Time :
                  /\ ledger' = Charge(ledger, r, tokens, time, 0)
                  /\ run' = [run EXCEPT ![r].results = Append(@, tokens)]
<1> DEFINE r == worker[w].run
<1>1. /\ At(w, "answered") /\ Go(w, Resumed(StepOf(r)))
      /\ hold' = [hold EXCEPT ![r] = NoHold]
      /\ attempt' = [attempt EXCEPT ![r][Latest(w)].status = "completed"]
  BY DEF Save
<1>2. Claimed(w) /\ OwnOK(w, "answered")
  BY <1>1, AtFacts DEF Working
<1>3. Reserved(w) /\ Counted(w)
  BY <1>2 DEF OwnOK
<1>4. PICK tokens \in Usable, time \in 1..(IF Reserved(w) THEN Time ELSE 1) :
        /\ ledger' = ChargeResult(w, tokens, time)
        /\ run' = [run EXCEPT ![r].results = Append(@, tokens)]
  BY DEF Save
<1>5. tokens \in 0..Tokens /\ time \in 1..Time
  BY <1>3, <1>4 DEF Usable
<1>6. ledger' = Charge(ledger, r, tokens, time, 0)
  BY <1>3, <1>4 DEF ChargeResult
<1> QED BY <1>1, <1>4, <1>5, <1>6


\* CompleteExecutionStep keeps the invariant.
LEMMA SaveKeeps ==
  ASSUME IInv, NEW w \in Workers, Save(w)
  PROVE  IInv'
<1> DEFINE r == worker[w].run  c == worker[w].claim
<1>1. /\ At(w, "answered") /\ Go(w, Resumed(StepOf(r)))
      /\ hold' = [hold EXCEPT ![r] = NoHold]
      /\ attempt' = [attempt EXCEPT ![r][Latest(w)].status = "completed"]
  BY SaveFacts
<1>2. PICK tokens \in 0..Tokens, time \in 1..Time :
        /\ ledger' = Charge(ledger, r, tokens, time, 0)
        /\ run' = [run EXCEPT ![r].results = Append(@, tokens)]
  BY SaveFacts
<1>3. /\ worker[w] # Idle /\ Claimed(w) /\ OwnOK(w, "answered") /\ r \in Runs
      /\ run[r].claim = c /\ c \in Nat /\ c # 0 /\ TypeOK
  BY <1>1, AtFacts DEF Working
<1>4. hold[r].claim = c /\ Latest(w) # 0 /\ Len(run[r].results) < MaxSteps
  BY <1>3 DEF OwnOK, Reserved
<1>5. /\ \A q \in Runs : RowOK(q) /\ AttemptsOK(q)
      /\ Books(ledger) /\ Paid
  BY DEF IInv
<1>6. PICK s \in Seq(0..Tokens), n \in Nat : s = run[r].results /\ n = Len(s)
  BY <1>3, RowTypes
<1>7. PICK z : z = Append(s, tokens)
  OBVIOUS
<1>8. z \in Seq(0..Tokens) /\ Len(z) = n + 1 /\ SumFunction(z) = SumFunction(s) + tokens
  BY <1>6, <1>7, ResultAdded
<1>9. run \in [Runs -> [status : {"queued", "running", "ended"}, claim : 0..MaxClaims,
                        leased : BOOLEAN, results : Seq(0..Tokens)]] /\ DOMAIN run = Runs
  BY <1>3 DEF TypeOK
<1>10. PICK row : row = [run[r] EXCEPT !.results = z]
  OBVIOUS
<1>11. /\ row \in [status : {"queued", "running", "ended"}, claim : 0..MaxClaims,
                   leased : BOOLEAN, results : Seq(0..Tokens)]
       /\ row.results = z /\ row.claim = run[r].claim /\ row.status = run[r].status
       /\ row.leased = run[r].leased
  BY <1>3, <1>8, <1>9, <1>10
<1>12. run' = [run EXCEPT ![r] = row]
  BY <1>2, <1>6, <1>7, <1>10
<1>13. run'[r] = row /\ \A q \in Runs : q # r => run'[q] = run[q]
  BY <1>3, <1>9, <1>12
<1>14. run' \in [Runs -> [status : {"queued", "running", "ended"}, claim : 0..MaxClaims,
                          leased : BOOLEAN, results : Seq(0..Tokens)]]
  BY <1>3, <1>9, <1>11, <1>12
<1>15. PICK t : t = attempt'[r]
  OBVIOUS
<1>16. /\ t \in Seq(Attempts) /\ attempt' = [attempt EXCEPT ![r] = t]
       /\ Ordered(t) /\ Kept(t, run[r].claim) /\ Finished(t, n + 1)
  <2>1. PICK st \in {"failed", "retry_scheduled", "completed"} : st = "completed"
    OBVIOUS
  <2>2. attempt' = [attempt EXCEPT ![r][Latest(w)].status = st]
    BY <1>1, <2>1
  <2>3. /\ t \in Seq(Attempts) /\ attempt' = [attempt EXCEPT ![r] = t]
        /\ Ordered(t) /\ Kept(t, run[r].claim) /\ Finished(t, Len(run[r].results) + 1)
    BY <1>3, <1>4, <1>15, <2>1, <2>2, LatestSet
  <2> QED BY <1>6, <2>3
<1>17. attempt \in [Runs -> Seq(Attempts)] /\ DOMAIN attempt = Runs
  BY <1>3 DEF TypeOK
<1>18. /\ attempt' \in [Runs -> Seq(Attempts)]
       /\ \A q \in Runs : q # r => attempt'[q] = attempt[q]
  BY <1>3, <1>16, <1>17
<1>19. hold \in [Runs -> [claim : 0..MaxClaims, counted : BOOLEAN]] /\ DOMAIN hold = Runs
  BY <1>3 DEF TypeOK
<1>20. NoHold \in [claim : 0..MaxClaims, counted : BOOLEAN] /\ NoHold.claim = 0 /\ ~NoHold.counted
  <2>1. 0 \in 0..MaxClaims
    BY ModelStepConstants, SMT
  <2> QED BY <2>1 DEF NoHold
<1>21. /\ hold' \in [Runs -> [claim : 0..MaxClaims, counted : BOOLEAN]]
       /\ hold'[r] = NoHold /\ \A q \in Runs : q # r => hold'[q] = hold[q]
  BY <1>1, <1>3, <1>19, <1>20
<1>22. PICK k \in Nat : k = n + 1 /\ k <= MaxSteps /\ k = StepOf(r) /\ k = Len(z)
                        /\ (k # MaxSteps => k < MaxSteps)
  <2>1. n < MaxSteps
    BY <1>4, <1>6
  <2>2. \A y \in Nat : y < MaxSteps => y + 1 \in Nat /\ y + 1 <= MaxSteps
                                       /\ (y + 1 # MaxSteps => y + 1 < MaxSteps)
    BY ModelStepConstants, SMT
  <2>3. StepOf(r) = n + 1
    BY <1>6 DEF StepOf
  <2> QED BY <1>8, <2>1, <2>2, <2>3
<1>23. ASSUME NEW q \in Runs PROVE RowOK(q)' /\ AttemptsOK(q)'
  <2>1. RowOK(q) /\ AttemptsOK(q)
    BY <1>5
  <2>2. CASE q # r
    BY <1>13, <1>18, <1>21, <2>1, <2>2, RowsKept
  <2>3. CASE q = r
    <3>1. 0 <= run[r].claim
      <4>1. \A x \in Nat : 0 <= x
        BY SMT
      <4> QED BY <1>3, <4>1
    <3>2. run'[q] = row /\ hold'[q] = NoHold /\ attempt'[q] = t /\ run[q] = run[r]
      BY <1>13, <1>15, <1>21, <2>3
    <3>3. RowOK(q)'
      BY <1>11, <1>20, <1>22, <2>1, <3>1, <3>2 DEF RowOK
    <3>4. AttemptsOK(q)'
      BY <1>8, <1>11, <1>16, <3>2 DEF AttemptsOK
    <3> QED BY <3>3, <3>4
  <2> QED BY <2>2, <2>3
<1>24. PICK x \in Uses : x.tokens = tokens /\ x.time = time /\ x.calls = 0
                         /\ Charged(ledger, r, x, ledger') /\ x.tokens \in 0..Tokens /\ x.time \in 0..Time
  <2>1. PICK x : x = [tokens |-> tokens, time |-> time, calls |-> 0]
    OBVIOUS
  <2>2. x.tokens = tokens /\ x.time = time /\ x.calls = 0
    BY <2>1
  <2>3. tokens \in Nat /\ time \in Nat /\ 0 \in Nat /\ time \in 0..Time
    <3>1. (\A y \in 0..Tokens : y \in Nat) /\ \A y \in 1..Time : y \in Nat /\ y \in 0..Time
      BY ModelStepConstants, SMT
    <3> QED BY <3>1
  <2>4. x \in Uses
    BY <2>1, <2>3 DEF Uses
  <2> QED BY <1>2, <2>2, <2>3, <2>4 DEF Charged
<1>25. PICK m : m = ledger' /\ Charged(ledger, r, x, m)
  BY <1>24
<1>26. /\ Books(m) /\ m.usage.tokens = ledger.usage.tokens + x.tokens
       /\ m.usage.time = ledger.usage.time + x.time
       /\ m.alloc[r].tokens = ledger.alloc[r].tokens + x.tokens
       /\ \A q \in Runs : q # r => m.alloc[q] = ledger.alloc[q]
  BY <1>3, <1>5, <1>25, BooksCharge, SMT
<1>27. Books(ledger)' /\ ledger'.usage \in Uses /\ ledger'.alloc \in [Runs -> Uses]
  BY <1>25, <1>26 DEF Books
<1>28. Paid'
  <2>1. ASSUME NEW q \in Runs PROVE ledger'.alloc[q].tokens = SumFunction(run'[q].results)
    <3>1. ledger.alloc[q].tokens = SumFunction(run[q].results)
      BY <1>5 DEF Paid
    <3>2. CASE q # r
      BY <1>13, <1>25, <1>26, <3>1, <3>2
    <3>3. CASE q = r
      BY <1>6, <1>8, <1>11, <1>13, <1>24, <1>25, <1>26, <3>1, <3>3
    <3> QED BY <3>2, <3>3
  <2> QED BY <2>1 DEF Paid
<1>29. BudgetNeverOvercommitted'
  <2>1. Held(r)
    BY <1>3, <1>4, <1>20 DEF Held
  <2>2. /\ ledger'.usage.tokens = ledger.usage.tokens + x.tokens
        /\ ledger'.usage.time = ledger.usage.time + x.time
    BY <1>25, <1>26
  <2> QED BY <1>1, <1>3, <1>24, <2>1, <2>2, DropKeepsBudget
<1>30. PICK pc \in Working : pc = Resumed(k) /\ pc \in {"top", "stopping"} /\ (pc = "top" => k # MaxSteps)
  BY DEF Resumed, Working
<1>31. Go(w, pc)
  BY <1>1, <1>22, <1>30
<1>32. worker'[w].run = r
  BY <1>3, <1>31, GoFacts DEF IInv
<1>33. OwnOK(w, pc)'
  <2>1. pc # "stopping" => Len(run'[r].results) < MaxSteps
    BY <1>11, <1>13, <1>22, <1>30
  <2> QED BY <1>30, <1>32, <2>1 DEF OwnOK
<1>34. \A q \in Runs : run'[q].claim = run[q].claim
  BY <1>11, <1>13
<1>35. /\ worker' \in [Workers -> {Idle} \cup [pc : Working, run : Runs, claim : 1..MaxClaims,
                                               window : Nat]]
       /\ Unique' /\ \A v \in Workers : WorkerOK(v)'
  BY <1>3, <1>13, <1>18, <1>21, <1>31, <1>33, <1>34, WorkersGo
<1>36. TypeOK'
  BY <1>14, <1>18, <1>21, <1>27, <1>35 DEF TypeOK
<1> QED BY <1>23, <1>27, <1>28, <1>29, <1>35, <1>36 DEF IInv


-----------------------------------------------------------------------------
(* Claims that are made and lost.                                          *)

Rows == [status : {"queued", "running", "ended"}, claim : 0..MaxClaims,
         leased : BOOLEAN, results : Seq(0..Tokens)]

\* Runs end or lose their lease, and workers give up.
LEMMA Loses ==
  ASSUME IInv, attempt' = attempt, ledger' = ledger, hold' = hold, run' \in [Runs -> Rows],
         \A q \in Runs : \/ run'[q] = run[q]
                         \/ /\ run'[q].claim = run[q].claim /\ run'[q].results = run[q].results
                            /\ ~run'[q].leased
                            /\ \/ run'[q].status = "ended"
                               \/ run'[q].status = "running" /\ run[q].claim < MaxClaims,
         worker' \in [Workers -> {Idle} \cup [pc : Working, run : Runs, claim : 1..MaxClaims,
                                              window : Nat]],
         \A v \in Workers : worker'[v] = worker[v] \/ worker'[v] = Idle
  PROVE  IInv'
<1>1. /\ TypeOK /\ Unique /\ Books(ledger) /\ Paid /\ BudgetNeverOvercommitted
      /\ \A q \in Runs : RowOK(q) /\ AttemptsOK(q)
      /\ \A v \in Workers : WorkerOK(v)
  BY DEF IInv
<1>2. \A q \in Runs : run'[q].claim = run[q].claim /\ run'[q].results = run[q].results
  OBVIOUS
<1>3. ASSUME NEW q \in Runs PROVE RowOK(q)' /\ AttemptsOK(q)'
  <2>1. RowOK(q) /\ AttemptsOK(q) /\ run'[q].claim = run[q].claim /\ run'[q].results = run[q].results
    BY <1>1, <1>2
  <2>2. AttemptsOK(q)'
    BY <2>1 DEF AttemptsOK
  <2>3. CASE run'[q] = run[q]
    BY <2>1, <2>2, <2>3 DEF RowOK
  <2>4. CASE ~run'[q].leased /\ (run'[q].status = "ended" \/ (run'[q].status = "running" /\ run[q].claim < MaxClaims))
    BY <2>1, <2>2, <2>4 DEF RowOK
  <2> QED BY <2>3, <2>4
<1>4. ASSUME NEW v \in Workers PROVE WorkerOK(v)'
  <2>1. CASE worker'[v] = Idle
    BY <2>1 DEF WorkerOK
  <2>2. CASE worker'[v] = worker[v]
    <3>1. ASSUME worker[v] # Idle
          PROVE  LET q == worker[v].run
                 IN  /\ worker[v].claim <= run'[q].claim
                     /\ Claimed(v)' => /\ run'[q] = run[q] /\ SameKeys(attempt[q], attempt'[q])
                                       /\ hold'[q] = hold[q] \/ Stale(q)
      <4> DEFINE q == worker[v].run
      <4>1. q \in Runs
        BY <1>1, <3>1, WorkerTypes
      <4>2. worker[v].claim <= run'[q].claim
        BY <1>1, <1>2, <3>1, <4>1 DEF WorkerOK
      <4>3. Claimed(v)' => run'[q].leased
        BY <2>2 DEF Claimed
      <4>4. Claimed(v)' => run'[q] = run[q]
        BY <4>1, <4>3
      <4> QED BY <4>2, <4>4 DEF SameKeys
    <3> QED BY <1>1, <2>2, <3>1, WorkerKept
  <2> QED BY <2>1, <2>2
<1>5. Unique'
  <2> SUFFICES ASSUME NEW w \in Workers, NEW v \in Workers, worker'[w] # Idle, worker'[v] # Idle,
                      w # v, worker'[w].run = worker'[v].run
               PROVE  worker'[w].claim # worker'[v].claim
    BY DEF Unique
  <2>1. worker'[w] = worker[w] /\ worker'[v] = worker[v]
    OBVIOUS
  <2>2. worker[w].claim # worker[v].claim
    BY <1>1, <2>1 DEF Unique
  <2> QED BY <2>1, <2>2
<1>6. TypeOK'
  BY <1>1 DEF TypeOK, Rows
<1>7. Books(ledger)' /\ BudgetNeverOvercommitted'
  BY <1>1 DEF BudgetNeverOvercommitted, Held
<1>8. Paid'
  BY <1>1, <1>2 DEF Paid
<1> QED BY <1>3, <1>4, <1>5, <1>6, <1>7, <1>8 DEF IInv

\* What ending a run, and losing its lease, write on its row.
LEMMA RowLost ==
  ASSUME TypeOK, NEW r \in Runs
  PROVE  /\ run' = [run EXCEPT ![r].status = "ended", ![r].leased = FALSE] =>
              /\ run' \in [Runs -> Rows] /\ \A q \in Runs : q # r => run'[q] = run[q]
              /\ run'[r].claim = run[r].claim /\ run'[r].results = run[r].results
              /\ ~run'[r].leased /\ run'[r].status = "ended"
         /\ run' = [run EXCEPT ![r].leased = FALSE] =>
              /\ run' \in [Runs -> Rows] /\ \A q \in Runs : q # r => run'[q] = run[q]
              /\ run'[r].claim = run[r].claim /\ run'[r].results = run[r].results
              /\ ~run'[r].leased /\ run'[r].status = run[r].status
<1>1. run \in [Runs -> Rows] /\ DOMAIN run = Runs /\ run[r] \in Rows
  BY DEF TypeOK, Rows
<1>2. PICK a, b : /\ a = [run[r] EXCEPT !.status = "ended", !.leased = FALSE]
                  /\ b = [run[r] EXCEPT !.leased = FALSE]
  OBVIOUS
<1>3. /\ a \in Rows /\ a.claim = run[r].claim /\ a.results = run[r].results /\ ~a.leased /\ a.status = "ended"
  BY <1>1, <1>2 DEF Rows
<1>4. /\ b \in Rows /\ b.claim = run[r].claim /\ b.results = run[r].results /\ ~b.leased
      /\ b.status = run[r].status
  BY <1>1, <1>2 DEF Rows
<1>5. ASSUME run' = [run EXCEPT ![r].status = "ended", ![r].leased = FALSE]
      PROVE  run' = [run EXCEPT ![r] = a]
  <2>1. PICK k, mid : k = [run[r] EXCEPT !.status = "ended"] /\ mid = [run EXCEPT ![r] = k]
    OBVIOUS
  <2>2. mid[r] = k /\ DOMAIN mid = Runs /\ \A q \in Runs : q # r => mid[q] = run[q]
    BY <1>1, <2>1
  <2>3. a = [k EXCEPT !.leased = FALSE]
    BY <1>2, <2>1
  <2>4. run' = [mid EXCEPT ![r] = a]
    BY <1>5, <2>1, <2>2, <2>3
  <2>5. run'[r] = a /\ DOMAIN run' = Runs /\ \A q \in Runs : q # r => run'[q] = run[q]
    BY <2>2, <2>4
  <2> QED BY <1>1, <2>4, <2>5
<1>6. ASSUME run' = [run EXCEPT ![r].leased = FALSE]
      PROVE  run' = [run EXCEPT ![r] = b]
  BY <1>2, <1>6
<1>7. ASSUME NEW x \in Rows, run' = [run EXCEPT ![r] = x]
      PROVE  run' \in [Runs -> Rows] /\ run'[r] = x /\ \A q \in Runs : q # r => run'[q] = run[q]
  BY <1>1, <1>7
<1> QED BY <1>3, <1>4, <1>5, <1>6, <1>7

\* Finish, a worker that gives up, Cancel and a lapsed lease keep the invariant.
LEMMA LosingKeeps ==
  ASSUME IInv,
         \/ \E w \in Workers : Finish(w) \/ Abandon(w)
         \/ \E r \in Runs : Cancel(r) \/ LeaseExpires(r)
  PROVE  IInv'
<1> DEFINE K == {Idle} \cup [pc : Working, run : Runs, claim : 1..MaxClaims, window : Nat]
<1>1. TypeOK /\ worker \in [Workers -> K] /\ DOMAIN worker = Workers /\ run \in [Runs -> Rows] /\ Idle \in K
  BY DEF IInv, TypeOK, Rows
<1>2. ASSUME NEW w \in Workers, worker' = [worker EXCEPT ![w] = Idle]
      PROVE  worker' \in [Workers -> K] /\ \A v \in Workers : worker'[v] = worker[v] \/ worker'[v] = Idle
  <2> HIDE DEF K
  <2> QED BY <1>1, <1>2
<1>3. ASSUME NEW w \in Workers, Finish(w) PROVE IInv'
  <2>1. /\ At(w, "stopping") /\ worker' = [worker EXCEPT ![w] = Idle]
        /\ run' = [run EXCEPT ![worker[w].run].status = "ended", ![worker[w].run].leased = FALSE]
        /\ attempt' = attempt /\ ledger' = ledger /\ hold' = hold
    BY <1>3 DEF Finish
  <2>2. PICK r \in Runs : r = worker[w].run
    BY <2>1, AtFacts DEF Working
  <2>3. run' = [run EXCEPT ![r].status = "ended", ![r].leased = FALSE]
    BY <2>1, <2>2
  <2>4. /\ run' \in [Runs -> Rows] /\ \A q \in Runs : q # r => run'[q] = run[q]
        /\ run'[r].claim = run[r].claim /\ run'[r].results = run[r].results
        /\ ~run'[r].leased /\ run'[r].status = "ended"
    BY <1>1, <2>3, RowLost
  <2> QED BY <1>2, <2>1, <2>4, Loses
<1>4. ASSUME NEW w \in Workers, Abandon(w) PROVE IInv'
  <2>1. /\ worker' = [worker EXCEPT ![w] = Idle]
        /\ run' = run /\ attempt' = attempt /\ ledger' = ledger /\ hold' = hold
    BY <1>4 DEF Abandon
  <2> QED BY <1>1, <1>2, <2>1, Loses
<1>5. ASSUME NEW r \in Runs, Cancel(r) PROVE IInv'
  <2>1. /\ run' = [run EXCEPT ![r].status = "ended", ![r].leased = FALSE]
        /\ attempt' = attempt /\ ledger' = ledger /\ hold' = hold /\ worker' = worker
    BY <1>5 DEF Cancel
  <2>2. /\ run' \in [Runs -> Rows] /\ \A q \in Runs : q # r => run'[q] = run[q]
        /\ run'[r].claim = run[r].claim /\ run'[r].results = run[r].results
        /\ ~run'[r].leased /\ run'[r].status = "ended"
    BY <1>1, <2>1, RowLost
  <2> QED BY <1>1, <2>1, <2>2, Loses
<1>6. ASSUME NEW r \in Runs, LeaseExpires(r) PROVE IInv'
  <2>1. /\ run' = [run EXCEPT ![r].leased = FALSE] /\ run[r].leased /\ run[r].claim < MaxClaims
        /\ attempt' = attempt /\ ledger' = ledger /\ hold' = hold /\ worker' = worker
    BY <1>6 DEF LeaseExpires
  <2>2. run[r].status = "running"
    BY <2>1 DEF IInv, RowOK
  <2>3. /\ run' \in [Runs -> Rows] /\ \A q \in Runs : q # r => run'[q] = run[q]
        /\ run'[r].claim = run[r].claim /\ run'[r].results = run[r].results
        /\ ~run'[r].leased /\ run'[r].status = run[r].status
    BY <1>1, <2>1, RowLost
  <2> QED BY <1>1, <2>1, <2>2, <2>3, Loses
<1> QED BY <1>3, <1>4, <1>5, <1>6


\* A claim finds no retry window: no attempt was made under it yet.
LEMMA NoWindow ==
  ASSUME IInv, NEW r \in Runs, NEW n, n = run[r].claim + 1
  PROVE  RetryWindow(r, n) = 0
<1>1. TypeOK /\ AttemptsOK(r)
  BY DEF IInv
<1>2. attempt[r] \in Seq(Attempts) /\ run[r].claim \in Nat
  BY <1>1, RowTypes
<1>3. PICK i : i = LatestAttempt(r, StepOf(r), n)
  OBVIOUS
<1>4. i # 0 => i \in DOMAIN attempt[r] /\ attempt[r][i].claim = n
  <2>1. PICK k : k = StepOf(r)
    OBVIOUS
  <2>2. i = LatestAttempt(r, k, n)
    BY <1>3, <2>1
  <2> QED BY <1>2, <2>2, LatestFacts, SMT
<1>5. \A j \in DOMAIN attempt[r] : attempt[r][j].claim <= run[r].claim
  BY <1>1 DEF AttemptsOK, Kept
<1>6. ~(n <= run[r].claim)
  BY <1>2, SMT
<1>7. i = 0
  BY <1>4, <1>5, <1>6
<1> QED BY <1>3, <1>7 DEF RetryWindow

\* So does a claim, which leaves the earlier claims to whoever remembers them.
LEMMA ClaimKeeps ==
  ASSUME IInv, NEW w \in Workers, NEW r \in Runs, Claim(w, r)
  PROVE  IInv'
<1>1. PICK n, m : n = run[r].claim + 1 /\ m = Len(run[r].results)
  OBVIOUS
<1>2. /\ worker[w] = Idle
      /\ run[r].status = "queued" \/ (run[r].status = "running" /\ ~run[r].leased)
      /\ run' = [run EXCEPT ![r].status = "running", ![r].leased = TRUE, ![r].claim = n]
      /\ worker' = [worker EXCEPT ![w] = [pc |-> Resumed(m), run |-> r,
                                          claim |-> n, window |-> RetryWindow(r, n)]]
      /\ attempt' = attempt /\ ledger' = ledger /\ hold' = hold
  BY <1>1 DEF Claim
<1>3. /\ TypeOK /\ Unique /\ Books(ledger) /\ Paid /\ BudgetNeverOvercommitted
      /\ \A q \in Runs : RowOK(q) /\ AttemptsOK(q)
      /\ \A v \in Workers : WorkerOK(v)
  BY DEF IInv
<1>4. /\ run[r] \in Rows /\ run[r].claim \in Nat /\ run[r].claim \in 0..MaxClaims /\ m \in Nat
      /\ attempt[r] \in Seq(Attempts) /\ hold[r].claim \in Nat
  BY <1>1, <1>3, RowTypes DEF Rows
<1>5. /\ n \in Nat /\ n \in 0..MaxClaims /\ n \in 1..MaxClaims /\ n # 0
      /\ \A x \in Nat : x <= run[r].claim => x <= n /\ x # n
      /\ n <= n
  <2>1. run[r].claim = 0 \/ run[r].claim < MaxClaims
    BY <1>2, <1>3 DEF RowOK
  <2>2. MaxClaims \in Nat /\ MaxClaims # 0
    BY ModelStepConstants
  <2>3. \A y \in Nat : (y = 0 \/ y < MaxClaims) =>
          LET z == y + 1 IN /\ z \in Nat /\ z \in 0..MaxClaims /\ z \in 1..MaxClaims /\ z # 0
                            /\ \A x \in Nat : x <= y => x <= z /\ x # z
                            /\ z <= z
    BY <2>2, SMT
  <2> QED BY <1>1, <1>4, <2>1, <2>3
<1>6. run \in [Runs -> Rows] /\ DOMAIN run = Runs /\ DOMAIN worker = Workers
  BY <1>3 DEF TypeOK, Rows
<1>7. /\ run' \in [Runs -> Rows] /\ \A q \in Runs : q # r => run'[q] = run[q]
      /\ run'[r].status = "running" /\ run'[r].leased /\ run'[r].claim = n
      /\ run'[r].results = run[r].results
  <2>1. PICK a, b, c : /\ a = [run[r] EXCEPT !.status = "running"]
                       /\ b = [a EXCEPT !.leased = TRUE] /\ c = [b EXCEPT !.claim = n]
    OBVIOUS
  <2>2. a \in Rows /\ a.status = "running" /\ a.results = run[r].results
    BY <1>4, <2>1 DEF Rows
  <2>3. b \in Rows /\ b.status = "running" /\ b.results = run[r].results /\ b.leased
    BY <2>1, <2>2 DEF Rows
  <2>4. c \in Rows /\ c.status = "running" /\ c.results = run[r].results /\ c.leased /\ c.claim = n
    BY <1>5, <2>1, <2>3 DEF Rows
  <2>5. PICK x, y : x = [run EXCEPT ![r] = a] /\ y = [x EXCEPT ![r] = b]
    OBVIOUS
  <2>6. x[r] = a /\ DOMAIN x = Runs /\ \A q \in Runs : q # r => x[q] = run[q]
    BY <1>6, <2>5
  <2>7. y[r] = b /\ DOMAIN y = Runs /\ \A q \in Runs : q # r => y[q] = run[q]
    BY <2>5, <2>6
  <2>8. run' = [y EXCEPT ![r] = c]
    <3>1. y = [x EXCEPT ![r].leased = TRUE]
      BY <2>1, <2>5, <2>6
    <3>2. x = [run EXCEPT ![r].status = "running"]
      BY <2>1, <2>5
    <3>3. run' = [y EXCEPT ![r].claim = n]
      BY <1>2, <3>1, <3>2
    <3> QED BY <2>1, <2>7, <3>3
  <2>9. run'[r] = c /\ DOMAIN run' = Runs /\ \A q \in Runs : q # r => run'[q] = run[q]
    BY <2>7, <2>8
  <2>10. \A q \in Runs : run'[q] \in Rows
    BY <1>6, <2>4, <2>9
  <2>11. run' = [q \in Runs |-> run'[q]]
    BY <2>7, <2>8
  <2>12. run' \in [Runs -> Rows]
    BY <2>10, <2>11
  <2> QED BY <2>4, <2>9, <2>12
<1>8. PICK pc \in Working : pc = Resumed(m) /\ pc \in {"top", "stopping"} /\ (pc = "top" => m # MaxSteps)
  BY DEF Resumed, Working
<1>9. PICK k : k = [pc |-> pc, run |-> r, claim |-> n, window |-> 0]
  OBVIOUS
<1>10. worker' = [worker EXCEPT ![w] = k]
  BY <1>1, <1>2, <1>8, <1>9, NoWindow
<1>11. k.pc = pc /\ k.run = r /\ k.claim = n /\ k.window = 0
       /\ k \in [pc : Working, run : Runs, claim : 1..MaxClaims, window : Nat]
  BY <1>5, <1>9
<1>12. worker'[w] = k /\ \A v \in Workers : v # w => worker'[v] = worker[v]
  BY <1>6, <1>10
<1>13. worker' \in [Workers -> {Idle} \cup [pc : Working, run : Runs, claim : 1..MaxClaims,
                                            window : Nat]]
  BY <1>3, <1>10, <1>11 DEF TypeOK
<1>14. ASSUME NEW q \in Runs PROVE RowOK(q)' /\ AttemptsOK(q)'
  <2>1. RowOK(q) /\ AttemptsOK(q)
    BY <1>3
  <2>2. CASE q # r
    BY <1>2, <1>7, <2>1, <2>2, RowsKept
  <2>3. CASE q = r
    <3>1. hold[r].claim <= n
      BY <1>4, <1>5, <2>1, <2>3 DEF RowOK
    <3>2. RowOK(q)'
      BY <1>2, <1>7, <2>1, <2>3, <3>1 DEF RowOK
    <3>3. Kept(attempt[r], n)
      <4>1. Kept(attempt[r], run[r].claim)
        BY <2>1, <2>3 DEF AttemptsOK
      <4>2. \A i \in DOMAIN attempt[r] : attempt[r][i].claim \in Nat
        BY <1>4, AttemptSeq
      <4> QED BY <1>5, <4>1, <4>2 DEF Kept
    <3>4. AttemptsOK(q)'
      BY <1>2, <1>7, <2>1, <2>3, <3>3 DEF AttemptsOK
    <3> QED BY <3>2, <3>4
  <2> QED BY <2>2, <2>3
<1>15. ASSUME NEW v \in Workers, v # w, worker[v] # Idle
       PROVE  /\ worker[v].run \in Runs /\ worker[v].claim <= run[worker[v].run].claim
              /\ worker[v].claim \in Nat
  BY <1>3, <1>15, WorkerTypes DEF WorkerOK
<1>16. WorkerOK(w)'
  <2>1. m # MaxSteps => m < MaxSteps
    <3>1. m <= MaxSteps
      BY <1>1, <1>3 DEF RowOK
    <3>2. \A y \in Nat : (y <= MaxSteps /\ y # MaxSteps) => y < MaxSteps
      BY ModelStepConstants, SMT
    <3> QED BY <1>4, <3>1, <3>2
  <2>2. worker'[w].run = r /\ worker'[w].pc = pc /\ worker'[w].claim = n /\ worker'[w].window = 0
    BY <1>11, <1>12
  <2>3. pc # "stopping" => Len(run'[r].results) < MaxSteps
    BY <1>1, <1>7, <1>8, <2>1
  <2>4. OwnOK(w, pc)'
    BY <1>8, <2>2, <2>3 DEF OwnOK
  <2>5. worker'[w].claim <= run'[worker'[w].run].claim
    BY <1>5, <1>7, <2>2
  <2> QED BY <2>2, <2>4, <2>5 DEF WorkerOK
<1>17. ASSUME NEW v \in Workers, v # w PROVE WorkerOK(v)'
  <2>1. worker'[v] = worker[v]
    BY <1>12, <1>17
  <2>2. ASSUME worker[v] # Idle
        PROVE  LET q == worker[v].run
               IN  /\ worker[v].claim <= run'[q].claim
                   /\ Claimed(v)' => /\ run'[q] = run[q] /\ SameKeys(attempt[q], attempt'[q])
                                     /\ hold'[q] = hold[q] \/ Stale(q)
    <3> DEFINE q == worker[v].run
    <3>1. q \in Runs /\ worker[v].claim <= run[q].claim /\ worker[v].claim \in Nat
      BY <1>15, <1>17, <2>2
    <3>2. worker[v].claim <= run'[q].claim
      BY <1>5, <1>7, <3>1
    <3>3. Claimed(v)' => run'[q].claim = worker[v].claim
      BY <2>1 DEF Claimed
    <3>4. Claimed(v)' => q # r
      BY <1>5, <1>7, <3>1, <3>3
    <3>5. Claimed(v)' => run'[q] = run[q]
      BY <1>7, <3>1, <3>4
    <3> QED BY <1>2, <3>2, <3>5 DEF SameKeys
  <2> QED BY <1>3, <2>1, <2>2, WorkerKept
<1>18. Unique'
  <2>1. ASSUME NEW v \in Workers, v # w, worker[v] # Idle, worker[v].run = r
        PROVE  worker[v].claim # n
    BY <1>5, <1>15, <2>1
  <2> SUFFICES ASSUME NEW u \in Workers, NEW v \in Workers, worker'[u] # Idle, worker'[v] # Idle,
                      u # v, worker'[u].run = worker'[v].run
               PROVE  worker'[u].claim # worker'[v].claim
    BY DEF Unique
  <2>2. CASE u = w
    BY <1>11, <1>12, <2>1, <2>2
  <2>3. CASE v = w
    BY <1>11, <1>12, <2>1, <2>3
  <2>4. CASE u # w /\ v # w
    <3>1. worker'[u] = worker[u] /\ worker'[v] = worker[v]
      BY <1>12, <2>4
    <3>2. worker[u].claim # worker[v].claim
      BY <1>3, <3>1 DEF Unique
    <3> QED BY <3>1, <3>2
  <2> QED BY <2>2, <2>3, <2>4
<1>19. TypeOK'
  BY <1>2, <1>3, <1>7, <1>13 DEF TypeOK, Rows
<1>20. Books(ledger)' /\ BudgetNeverOvercommitted'
  BY <1>2, <1>3 DEF BudgetNeverOvercommitted, Held
<1>21. Paid'
  BY <1>2, <1>3, <1>7 DEF Paid
<1> QED BY <1>14, <1>16, <1>17, <1>18, <1>19, <1>20, <1>21 DEF IInv


\* An attempt that falls due keeps the invariant.
LEMMA RetryDueKeeps ==
  ASSUME IInv, NEW r \in Runs, NEW i \in DOMAIN attempt[r], RetryDue(r, i)
  PROVE  IInv'
<1>1. /\ attempt[r][i].status = "retry_scheduled"
      /\ attempt' = [attempt EXCEPT ![r][i].due = TRUE]
      /\ run' = run /\ ledger' = ledger /\ hold' = hold /\ worker' = worker
  BY DEF RetryDue
<1>2. /\ TypeOK /\ Unique /\ Books(ledger) /\ Paid /\ BudgetNeverOvercommitted
      /\ \A q \in Runs : RowOK(q) /\ AttemptsOK(q)
      /\ \A v \in Workers : WorkerOK(v)
  BY DEF IInv
<1>3. attempt \in [Runs -> Seq(Attempts)] /\ DOMAIN attempt = Runs
  BY <1>2 DEF TypeOK
<1>4. PICK s \in Seq(Attempts) : s = attempt[r]
  BY <1>3
<1>5. i \in DOMAIN s /\ s[i] \in Attempts /\ s[i].status = "retry_scheduled"
  BY <1>1, <1>4, AttemptSeq
<1>6. PICK a : a = [s[i] EXCEPT !.due = TRUE]
  OBVIOUS
<1>7. /\ a \in Attempts /\ a.step = s[i].step /\ a.claim = s[i].claim /\ a.number = s[i].number
      /\ a.status = "retry_scheduled" /\ a.due
  BY <1>5, <1>6 DEF Attempts
<1>8. PICK t : t = [s EXCEPT ![i] = a]
  OBVIOUS
<1>9. attempt' = [attempt EXCEPT ![r] = t]
  BY <1>1, <1>4, <1>6, <1>8
<1>10. /\ Ordered(s) /\ Finished(s, Len(run[r].results)) /\ Kept(s, run[r].claim)
  BY <1>2, <1>4 DEF AttemptsOK
<1>11. t \in Seq(Attempts) /\ Ordered(t)
  BY <1>5, <1>7, <1>8, <1>10, OrderedSet
<1>12. Finished(t, Len(run[r].results))
  BY <1>5, <1>7, <1>8, <1>10, FinishedSet
<1>13. Kept(t, run[r].claim)
  <2>1. s[i].number < MaxModelAttempts
    BY <1>5, <1>10 DEF Kept
  <2> QED BY <1>5, <1>7, <1>8, <1>10, <2>1, KeptSet
<1>14. /\ attempt' \in [Runs -> Seq(Attempts)] /\ attempt'[r] = t
       /\ \A q \in Runs : q # r => attempt'[q] = attempt[q]
  BY <1>3, <1>9, <1>11
<1>15. \A q \in Runs : SameKeys(attempt[q], attempt'[q])
  <2>1. DOMAIN t = DOMAIN s /\ t[i] = a /\ \A j \in DOMAIN s : j # i => t[j] = s[j]
    BY <1>5, <1>8
  <2>2. SameKeys(s, t)
    BY <1>7, <2>1 DEF SameKeys
  <2>3. \A q \in Runs : q # r => SameKeys(attempt[q], attempt'[q])
    BY <1>14 DEF SameKeys
  <2> QED BY <1>4, <1>14, <2>2, <2>3
<1>16. ASSUME NEW q \in Runs PROVE RowOK(q)' /\ AttemptsOK(q)'
  <2>1. RowOK(q) /\ AttemptsOK(q) /\ run'[q] = run[q] /\ hold'[q] = hold[q]
    BY <1>1, <1>2
  <2>2. RowOK(q)' /\ (attempt'[q] = attempt[q] => AttemptsOK(q)')
    BY <2>1, RowsKept
  <2>3. q = r => AttemptsOK(q)'
    BY <1>1, <1>11, <1>12, <1>13, <1>14 DEF AttemptsOK
  <2> QED BY <1>14, <2>2, <2>3
<1>17. ASSUME NEW v \in Workers PROVE WorkerOK(v)'
  <2>1. worker[v] # Idle =>
          LET q == worker[v].run
          IN  /\ worker[v].claim <= run'[q].claim
              /\ Claimed(v)' => /\ run'[q] = run[q] /\ SameKeys(attempt[q], attempt'[q])
                                /\ hold'[q] = hold[q] \/ Stale(q)
    <3> SUFFICES ASSUME worker[v] # Idle
                 PROVE  LET q == worker[v].run
                        IN  /\ worker[v].claim <= run[q].claim /\ SameKeys(attempt[q], attempt'[q])
      BY <1>1
    <3>1. worker[v].run \in Runs
      BY <1>2, WorkerTypes
    <3> QED BY <1>2, <1>15, <3>1 DEF WorkerOK
  <2> QED BY <1>1, <1>2, <2>1, WorkerKept
<1>18. TypeOK'
  BY <1>1, <1>2, <1>14 DEF TypeOK
<1>19. Books(ledger)' /\ Paid' /\ Unique' /\ BudgetNeverOvercommitted'
  BY <1>1, <1>2 DEF Paid, Unique, BudgetNeverOvercommitted, Held
<1> QED BY <1>16, <1>17, <1>18, <1>19 DEF IInv

-----------------------------------------------------------------------------
(* The theorems.                                                           *)

\* Every step keeps the invariant.
LEMMA IInvNext ==
  ASSUME IInv, [Next]_vars
  PROVE  IInv'
<1>1. ASSUME NEW w \in Workers, WorkerStep(w) PROVE IInv'
  <2>1. \/ \E r \in Runs : Claim(w, r)
        \/ Reserve(w) \/ Begin(w) \/ Start(w)
        \/ \E retry \in BOOLEAN : FailAttempt(w, retry)
        \/ Save(w)
        \/ \E done \in BOOLEAN : Release(w, done)
        \/ Retry(w) \/ Answer(w) \/ SaveRefused(w) \/ Finish(w) \/ Abandon(w)
    BY <1>1 DEF WorkerStep
  <2> QED BY <2>1, ClaimKeeps, ReserveKeeps, BeginKeeps, StartKeeps, FailAttemptKeeps, SaveKeeps,
             ReleaseKeeps, MovingOn, LosingKeeps
<1>2. ASSUME NEW r \in Runs, Cancel(r) \/ LeaseExpires(r) \/ \E i \in DOMAIN attempt[r] : RetryDue(r, i)
      PROVE  IInv'
  BY <1>2, LosingKeeps, RetryDueKeeps
<1>3. CASE UNCHANGED vars
  <2>1. run' = run /\ attempt' = attempt /\ ledger' = ledger /\ hold' = hold /\ worker' = worker
    BY <1>3 DEF vars
  <2>2. TypeOK /\ worker \in [Workers -> {Idle} \cup [pc : Working, run : Runs, claim : 1..MaxClaims,
                                                      window : Nat]] /\ run \in [Runs -> Rows]
    BY DEF IInv, TypeOK, Rows
  <2> QED BY <2>1, <2>2, Loses
<1> QED BY <1>1, <1>2, <1>3 DEF Next

\* The invariant holds at the start.
LEMMA IInvInit ==
  ASSUME Init
  PROVE  IInv
<1>1. /\ run = [r \in Runs |-> [status |-> "queued", claim |-> 0, leased |-> FALSE, results |-> <<>>]]
      /\ attempt = [r \in Runs |-> <<>>]
      /\ ledger = [usage |-> NoUse, alloc |-> [r \in Runs |-> NoUse]]
      /\ hold = [r \in Runs |-> NoHold] /\ worker = [w \in Workers |-> Idle]
  BY DEF Init
<1>2. /\ 0 \in 0..MaxClaims /\ 0 <= 0 /\ 0 <= MaxSteps /\ <<>> \in Seq(0..Tokens) /\ <<>> \in Seq(Attempts)
      /\ Len(<<>>) = 0 /\ DOMAIN <<>> = {} /\ \A n \in Steps : ~(n <= 0)
  BY ModelStepConstants, SMT DEF Steps
<1>3. NoHold \in [claim : 0..MaxClaims, counted : BOOLEAN] /\ NoHold.claim = 0 /\ ~NoHold.counted
  BY <1>2 DEF NoHold
<1>4. NoUse \in Uses /\ NoUse.tokens = 0 /\ NoUse.time = 0 /\ NoUse.calls = 0
  BY DEF NoUse, Uses
<1>5. ledger.usage = NoUse /\ ledger.alloc \in [Runs -> Uses] /\ \A r \in Runs : ledger.alloc[r] = NoUse
  BY <1>1, <1>4
<1>6. TypeOK
  BY <1>1, <1>2, <1>3, <1>4, <1>5 DEF TypeOK
<1>7. ASSUME NEW r \in Runs PROVE RowOK(r) /\ AttemptsOK(r)
  <2>1. /\ run[r].status = "queued" /\ run[r].claim = 0 /\ ~run[r].leased /\ run[r].results = <<>>
        /\ hold[r] = NoHold /\ attempt[r] = <<>>
    BY <1>1
  <2>2. RowOK(r)
    BY <1>2, <1>3, <2>1 DEF RowOK
  <2>3. Ordered(<<>>) /\ Kept(<<>>, 0)
    BY <1>2 DEF Ordered, Kept
  <2>4. Finished(<<>>, 0)
    <3>1. \A n \in Steps : Done(<<>>, n) = {}
      BY <1>2 DEF Done
    <3> QED BY <1>2, <3>1, FS_EmptySet DEF Finished
  <2>5. AttemptsOK(r)
    BY <1>2, <2>1, <2>3, <2>4 DEF AttemptsOK
  <2> QED BY <2>2, <2>5
<1>8. \A w \in Workers : WorkerOK(w)
  BY <1>1 DEF WorkerOK
<1>9. Unique
  BY <1>1 DEF Unique
<1>10. Paid
  <2>1. SumFunction(<<>>) = 0
    BY <1>2, SumOfNothing DEF SumFunction
  <2>2. \A r \in Runs : run[r].results = <<>>
    BY <1>1
  <2> QED BY <1>4, <1>5, <2>1, <2>2 DEF Paid
<1>11. BudgetNeverOvercommitted
  <2>1. {r \in Runs : Held(r)} = {}
    BY <1>1 DEF Held
  <2>2. Cardinality({r \in Runs : Held(r)}) = 0
    BY <2>1, FS_EmptySet
  <2>3. 0 + 0 * Tokens <= BudgetTokens /\ 0 + 0 * Time <= BudgetTime
    BY ModelStepConstants, SMT
  <2> QED BY <1>4, <1>5, <2>2, <2>3 DEF BudgetNeverOvercommitted
<1>12. Books(ledger)
  <2>1. SumFunctionOnSet([r \in Runs |-> 0], Runs) = 0
    <3>1. PICK f : f = [r \in Runs |-> 0]
      OBVIOUS
    <3>2. IsFiniteSet(Runs) /\ Terms(f, Runs) /\ \A y \in Runs : f[y] = 0
      BY <3>1, ModelStepConstants DEF Terms
    <3>3. \A y \in Runs : f[y] = f[y] + f[y]
      BY <3>2, SMT
    <3>4. PICK n \in Nat : n = SumFunctionOnSet(f, Runs)
      BY <3>2, SumIsNatural
    <3>5. SumFunctionOnSet(f, Runs) = SumFunctionOnSet(f, Runs) + SumFunctionOnSet(f, Runs)
      BY <3>2, <3>3, SumOfSums, SMT
    <3>6. n = n + n
      BY <3>4, <3>5
    <3>7. n = 0
      BY <3>6, SMT
    <3> QED BY <3>1, <3>4, <3>7
  <2> QED BY <1>4, <1>5, <2>1 DEF Books
<1> QED BY <1>6, <1>7, <1>8, <1>9, <1>10, <1>11, <1>12 DEF IInv


\* The invariant holds throughout.
LEMMA Inductive == Spec => []IInv
<1>1. Init => IInv
  BY IInvInit
<1>2. IInv /\ [Next]_vars => IInv'
  BY IInvNext
<1> QED BY <1>1, <1>2, PTL DEF Spec

\* Every row of a run, the ledger and every worker keep the types the code
\* gives them, however many runs, workers, steps, attempts and claims there are.
THEOREM TypeCorrect == Spec => []TypeOK
<1>1. IInv => TypeOK
  BY DEF IInv
<1> QED BY <1>1, Inductive, PTL

\* ReserveConversationWorkStep and the steps that settle a reservation never
\* let what the delegations of a root conversation used and hold exceed its
\* ConversationWorkBudget, for any number of runs, workers and any budget.
THEOREM BudgetKept == Spec => []BudgetNeverOvercommitted
<1>1. IInv => BudgetNeverOvercommitted
  BY DEF IInv
<1> QED BY <1>1, Inductive, PTL

\* The usage CompleteExecutionStep and the prune write on the ledger is the sum
\* of the allocations, and the tokens of an allocation are those of the results
\* the run stored.
THEOREM LedgerAddsUp == Spec => []LedgerMatchesResults
<1>1. ASSUME IInv PROVE LedgerMatchesResults
  <2>1. Books(ledger) /\ Paid
    BY <1>1 DEF IInv
  <2>2. /\ Total("tokens") = SumFunctionOnSet([r \in Runs |-> ledger.alloc[r].tokens], Runs)
        /\ Total("time") = SumFunctionOnSet([r \in Runs |-> ledger.alloc[r].time], Runs)
        /\ Total("calls") = SumFunctionOnSet([r \in Runs |-> ledger.alloc[r].calls], Runs)
    BY DEF Total, SumFunction
  <2> QED BY <2>1, <2>2 DEF Books, Paid, LedgerMatchesResults
<1> QED BY <1>1, Inductive, PTL

\* A worker that has its claim keeps its reservation from Reserve until it
\* saves or releases, and calls the provider only under a counted one: the
\* prune of another run's reserve never takes it away.
THEOREM ReservationKept == Spec => []ReservationSurvives
<1>1. IInv => ReservationSurvives
  BY SMT DEF IInv, WorkerOK, OwnOK, ReservationSurvives, Claimed
<1> QED BY <1>1, Inductive, PTL

\* The attempts BeginConversationModelAttempt records for a step under a claim
\* are numbered without gaps up to MaxModelAttempts, one at a time, and every
\* stored result has exactly one completed attempt.
THEOREM AttemptsOrdered == Spec => []AttemptsInOrder
<1>1. ASSUME IInv PROVE AttemptsInOrder
  <2>1. \A r \in Runs : Ordered(attempt[r]) /\ Finished(attempt[r], Len(run[r].results))
    BY <1>1 DEF IInv, AttemptsOK
  <2> QED BY <2>1 DEF AttemptsInOrder, Ordered, Before, Finished, Done
<1> QED BY <1>1, Inductive, PTL


\* No worker has found a retry window in the run it claimed.
NoWindowFound == \A w \in Workers : worker[w] # Idle => worker[w].window = 0

\* waitPendingConversationModelRetry never waits for a window of an earlier
\* claim: it looks for attempts of the claim just made, which has none.  Its
\* comment says that a run reclaimed inside a persisted window waits; in no
\* instance does one.
THEOREM ClaimsMissTheWindow == Spec => []NoWindowFound
<1>1. IInv => NoWindowFound
  BY DEF IInv, WorkerOK, NoWindowFound
<1> QED BY <1>1, Inductive, PTL

=============================================================================
