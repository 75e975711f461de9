--------------------------- MODULE FencedJobProofs ---------------------------
(***************************************************************************)
(* Why a fenced queue is safe, for any jobs and any holders.  What is      *)
(* proved here holds of every queue that implements FencedJob.             *)
(***************************************************************************)
EXTENDS FencedJob, TLAPS

\* Becomes writes one well-typed row and no other.
LEMMA BecomesRow ==
  ASSUME TypeOK, NEW j \in Jobs, NEW phase \in Phases, NEW fence \in Nat,
         Becomes(j, phase, fence)
  PROVE  /\ job' \in [Jobs -> [phase : Phases, fence : Nat]]
         /\ job'[j] = [phase |-> phase, fence |-> fence]
         /\ \A k \in Jobs : k # j => job'[k] = job[k]
BY DEF TypeOK, Becomes

\* The empty queue is well typed, and every step keeps it so.
LEMMA TypeStep == TypeOK /\ [Next]_vars => TypeOK'
<1> SUFFICES ASSUME TypeOK, [Next]_vars PROVE TypeOK'
  OBVIOUS
<1> USE DEF Phases, Live
<1>1. ASSUME NEW h \in Holders, Forget(h) PROVE TypeOK'
  BY <1>1 DEF Forget, TypeOK
<1>2. CASE Remove
  BY <1>2 DEF Remove, TypeOK
<1>3. ASSUME NEW j \in Jobs, Offer(j) PROVE TypeOK'
  BY <1>3, BecomesRow DEF Offer, TypeOK
<1>4. ASSUME NEW j \in Jobs, Interrupt(j) PROVE TypeOK'
  <2>1. PICK phase \in {"ready", "parked"} : Becomes(j, phase, job[j].fence + 1)
    BY <1>4 DEF Interrupt
  <2>2. job[j].fence + 1 \in Nat
    BY DEF TypeOK
  <2> QED BY <1>4, <2>1, <2>2, BecomesRow DEF Interrupt, TypeOK
<1>5. ASSUME NEW j \in Jobs, NEW h \in Holders, Take(h, j) PROVE TypeOK'
  <2>1. job[j].fence + 1 \in Nat
    BY DEF TypeOK
  <2>2. held' \in [Holders -> SUBSET Claims]
    BY <1>5, <2>1 DEF Take, TypeOK, Claims
  <2> QED BY <1>5, <2>1, <2>2, BecomesRow DEF Take, TypeOK
<1>6. ASSUME NEW j \in Jobs, NEW h \in Holders, PutDown(h, j) PROVE TypeOK'
  <2>1. PICK phase \in {"ready", "parked", "done"}, n \in {0, 1} :
          Becomes(j, phase, job[j].fence + n)
    BY <1>6 DEF PutDown
  <2>2. job[j].fence + n \in Nat
    BY DEF TypeOK
  <2> QED BY <1>6, <2>1, <2>2, BecomesRow DEF PutDown, TypeOK
<1>7. CASE UNCHANGED vars
  BY <1>7 DEF vars, TypeOK
<1> QED BY <1>1, <1>2, <1>3, <1>4, <1>5, <1>6, <1>7 DEF Next

-----------------------------------------------------------------------------
(* Each claim a holder remembers has a fence of its own.                   *)

IInv == TypeOK /\ FencesIdentifyClaims

\* A change of one job that exists, keeping or raising its fence, and of no
\* claim but one that is forgotten, leaves the claims identified.
LEMMA ClaimsKept ==
  ASSUME IInv, NEW j \in Jobs, NEW phase \in Phases \ {"absent"}, NEW fence \in Nat,
         fence >= job[j].fence \/ phase = "gone" \/ job[j].phase \in {"absent", "gone"},
         Becomes(j, phase, fence),
         \A h \in Holders : held'[h] \subseteq held[h],
         job[j].phase = "gone" => phase = "gone"
  PROVE  FencesIdentifyClaims'
<1>1. /\ job'[j] = [phase |-> phase, fence |-> fence]
      /\ \A k \in Jobs : k # j => job'[k] = job[k]
  BY BecomesRow DEF IInv
<1> SUFFICES ASSUME NEW h \in Holders, NEW c \in held'[h]
             PROVE  /\ job'[c.of].phase # "absent"
                    /\ job'[c.of].phase # "gone" => c.fence <= job'[c.of].fence
                    /\ \A g \in Holders : c \in held'[g] => g = h
  BY DEF FencesIdentifyClaims
<1>2. c \in held[h] /\ c.of \in Jobs /\ c.fence \in Nat /\ job[c.of].fence \in Nat
  BY DEF IInv, TypeOK, Claims
<1>3. /\ job[c.of].phase # "absent"
      /\ job[c.of].phase # "gone" => c.fence <= job[c.of].fence
      /\ \A g \in Holders : c \in held[g] => g = h
  BY <1>2 DEF IInv, FencesIdentifyClaims
<1>4. CASE c.of = j
  BY <1>1, <1>2, <1>3, <1>4
<1>5. CASE c.of # j
  BY <1>1, <1>2, <1>3, <1>5
<1> QED BY <1>4, <1>5

\* Every step keeps the claims identified.
LEMMA ClaimsStep == IInv /\ [Next]_vars => FencesIdentifyClaims'
<1> SUFFICES ASSUME IInv, [Next]_vars PROVE FencesIdentifyClaims'
  OBVIOUS
<1>1. ASSUME NEW h \in Holders, Forget(h) PROVE FencesIdentifyClaims'
  BY <1>1 DEF Forget, IInv, TypeOK, FencesIdentifyClaims
<1>2. CASE Remove
  BY <1>2 DEF Remove, IInv, TypeOK, Claims, FencesIdentifyClaims
<1>3. ASSUME NEW j \in Jobs, Offer(j) PROVE FencesIdentifyClaims'
  BY <1>3, ClaimsKept DEF Offer, Phases, Live
<1>4. ASSUME NEW j \in Jobs, Interrupt(j) PROVE FencesIdentifyClaims'
  <2>1. PICK phase \in {"ready", "parked"} : Becomes(j, phase, job[j].fence + 1)
    BY <1>4 DEF Interrupt
  <2>2. job[j].fence \in Nat /\ job[j].phase # "gone"
    BY <1>4 DEF IInv, TypeOK, Interrupt, Live
  <2> QED BY <1>4, <2>1, <2>2, ClaimsKept DEF Interrupt, Phases, Live
<1>5. ASSUME NEW j \in Jobs, NEW h \in Holders, Take(h, j) PROVE FencesIdentifyClaims'
  <2> DEFINE n == job[j].fence + 1
             new == [of |-> j, fence |-> n]
  <2>1. job[j].fence \in Nat /\ n \in Nat /\ n > job[j].fence
    BY DEF IInv, TypeOK
  <2>2. /\ job'[j] = [phase |-> "held", fence |-> n]
        /\ \A k \in Jobs : k # j => job'[k] = job[k]
    <3>1. TypeOK /\ "held" \in Phases /\ Becomes(j, "held", n)
      BY <1>5 DEF Take, IInv, Phases, Live
    <3> QED BY <2>1, <3>1, BecomesRow
  <2>3. held'[h] = {new} /\ \A g \in Holders : g # h => held'[g] = held[g]
    BY <1>5 DEF Take, IInv, TypeOK
  <2>4. \A g \in Holders : new \notin held[g]
    BY <1>5, <2>1 DEF Take, IInv, FencesIdentifyClaims
  <2>5. ASSUME NEW g \in Holders, NEW c \in held'[g], c # new
        PROVE  /\ job'[c.of].phase # "absent"
               /\ job'[c.of].phase # "gone" => c.fence <= job'[c.of].fence
               /\ \A i \in Holders : c \in held'[i] => i = g
    <3>1. g # h /\ c \in held[g] /\ c.of \in Jobs /\ c.fence \in Nat
      BY <2>3, <2>5 DEF IInv, TypeOK, Claims
    <3>2. /\ job[c.of].phase # "absent"
          /\ job[c.of].phase # "gone" => c.fence <= job[c.of].fence
          /\ \A i \in Holders : c \in held[i] => i = g
      BY <3>1 DEF IInv, FencesIdentifyClaims
    <3>3. CASE c.of = j
      BY <1>5, <2>1, <2>2, <2>3, <2>5, <3>1, <3>2, <3>3 DEF Take
    <3>4. CASE c.of # j
      BY <2>2, <2>3, <2>5, <3>1, <3>2, <3>4
    <3> QED BY <3>3, <3>4
  <2>6. ASSUME NEW g \in Holders, new \in held'[g]
        PROVE  /\ g = h
               /\ job'[new.of].phase # "absent" /\ new.fence <= job'[new.of].fence
    BY <2>1, <2>2, <2>3, <2>4, <2>6
  <2> HIDE DEF new
  <2> QED BY <2>5, <2>6 DEF FencesIdentifyClaims
<1>6. ASSUME NEW j \in Jobs, NEW h \in Holders, PutDown(h, j) PROVE FencesIdentifyClaims'
  <2>1. PICK phase \in {"ready", "parked", "done"}, n \in {0, 1} :
          Becomes(j, phase, job[j].fence + n)
    BY <1>6 DEF PutDown
  <2>2. job[j].fence \in Nat /\ job[j].fence + n \in Nat /\ job[j].phase = "held"
    BY <1>6 DEF IInv, TypeOK, PutDown, Current
  <2>3. \A g \in Holders : held'[g] \subseteq held[g]
    BY <1>6 DEF PutDown, IInv, TypeOK
  <2> QED BY <2>1, <2>2, <2>3, ClaimsKept DEF Phases, Live
<1>7. CASE UNCHANGED vars
  BY <1>7 DEF vars, IInv, FencesIdentifyClaims
<1> QED BY <1>1, <1>2, <1>3, <1>4, <1>5, <1>6, <1>7 DEF Next

-----------------------------------------------------------------------------
\* Every reachable state of a fenced queue is well typed and its claims have
\* fences of their own.
THEOREM ClaimsIdentified == Spec => []IInv
<1>1. Init => IInv
  BY DEF Init, IInv, TypeOK, FencesIdentifyClaims, Phases
<1>2. IInv /\ [Next]_vars => IInv'
  BY TypeStep, ClaimsStep DEF IInv
<1> QED BY <1>1, <1>2, PTL DEF Spec

\* At most one holder can end a job or put it down, however many remember a
\* claim of it.
THEOREM Exclusion == Spec => []OneCurrentHolder
<1>1. IInv => OneCurrentHolder
  BY DEF IInv, FencesIdentifyClaims, OneCurrentHolder, Current
<1> QED BY <1>1, ClaimsIdentified, PTL

\* A job that is done is never taken, parked or put back again.
THEOREM Finality == Spec => DoneIsFinal
<1>1. IInv /\ [Next]_vars => DoneStays \/ UNCHANGED vars
  <2> SUFFICES ASSUME IInv, [Next]_vars, NEW j \in Jobs, job[j].phase = "done"
               PROVE  job'[j].phase \in {"done", "gone"}
    BY DEF DoneStays
  <2>1. ASSUME NEW h \in Holders, Forget(h) PROVE job'[j] = job[j]
    BY <2>1 DEF Forget
  <2>2. CASE Remove
    BY <2>2 DEF Remove, IInv, TypeOK
  <2>3. ASSUME NEW k \in Jobs, Offer(k) \/ Interrupt(k) PROVE job'[j] = job[j]
    BY <2>3 DEF Offer, Interrupt, Live, Becomes, IInv, TypeOK
  <2>4. ASSUME NEW k \in Jobs, NEW h \in Holders, Take(h, k) \/ PutDown(h, k)
        PROVE  job'[j] = job[j]
    BY <2>4 DEF Take, PutDown, Current, Becomes, IInv, TypeOK
  <2>5. CASE UNCHANGED vars
    BY <2>5 DEF vars
  <2> QED BY <2>1, <2>2, <2>3, <2>4, <2>5 DEF Next
<1> QED BY <1>1, ClaimsIdentified, PTL DEF Spec, DoneIsFinal

=============================================================================
