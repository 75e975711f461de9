------------------------------ MODULE FencedJob ------------------------------
(***************************************************************************)
(* What every durable queue of the service promises about a job and the    *)
(* workers that take it.  A job has a fence that each taking raises; a     *)
(* worker remembers the fence it got, for as long as it likes.  Only the   *)
(* worker whose remembered fence is still the job's may end the job or put *)
(* it down; a job that is done, or removed, is never taken again.  Leases, *)
(* clocks, crashes, retries and what the job does are left to the modules  *)
(* that implement this one: the run queue (ConversationRun) and the        *)
(* follow-up outbox (FollowUp).                                            *)
(***************************************************************************)
EXTENDS Naturals

CONSTANTS
  Jobs,       \* everything that may ever be queued
  Holders     \* the workers

VARIABLES
  job,     \* where each job is, and how often it changed hands
  held     \* the claim each holder remembers, stale or not; {} for none

vars == <<job, held>>

Live == {"ready", "held", "parked"}
Phases == Live \cup {"absent", "done", "gone"}
Claims == [of : Jobs, fence : Nat]

TypeOK ==
  /\ job \in [Jobs -> [phase : Phases, fence : Nat]]
  /\ held \in [Holders -> SUBSET Claims]

Init ==
  /\ job = [j \in Jobs |-> [phase |-> "absent", fence |-> 0]]
  /\ held = [h \in Holders |-> {}]

Becomes(j, phase, fence) == job' = [job EXCEPT ![j] = [phase |-> phase, fence |-> fence]]

\* h remembers a claim of j, and it is the latest one.
Current(h, j) == job[j].phase = "held" /\ [of |-> j, fence |-> job[j].fence] \in held[h]

\* A new job enters the queue.
Offer(j) ==
  /\ job[j].phase = "absent"
  /\ Becomes(j, "ready", 0)
  /\ UNCHANGED held

\* A holder takes a ready job, or one whose earlier holder is given up.
Take(h, j) ==
  /\ job[j].phase \in {"ready", "held"}
  /\ held' = [held EXCEPT ![h] = {[of |-> j, fence |-> job[j].fence + 1]}]
  /\ Becomes(j, "held", job[j].fence + 1)

\* The current holder ends the job, parks it or puts it back.
PutDown(h, j) ==
  /\ Current(h, j)
  /\ held' = [held EXCEPT ![h] = {}]
  /\ \E phase \in {"ready", "parked", "done"}, n \in {0, 1} :
       Becomes(j, phase, job[j].fence + n)

\* Somebody else stops or restarts the job, and cuts off its holder.
Interrupt(j) ==
  /\ job[j].phase \in Live
  /\ UNCHANGED held
  /\ \E phase \in {"ready", "parked"} : Becomes(j, phase, job[j].fence + 1)

\* A holder forgets its claim: it crashed, or it was told that it lost it.
Forget(h) ==
  /\ held' = [held EXCEPT ![h] = {}]
  /\ UNCHANGED job

\* Some jobs are deleted together, whoever holds them.
Remove ==
  /\ UNCHANGED held
  /\ job' = [j \in Jobs |-> IF job'[j].phase = job[j].phase THEN job[j]
                           ELSE [phase |-> "gone", fence |-> 0]]

Next ==
  \/ \E h \in Holders : Forget(h)
  \/ Remove
  \/ \E j \in Jobs : Offer(j) \/ Interrupt(j)
  \/ \E j \in Jobs, h \in Holders : Take(h, j) \/ PutDown(h, j)

Spec == Init /\ [][Next]_vars

-----------------------------------------------------------------------------
\* At most one holder could end a job.
OneCurrentHolder ==
  \A g, h \in Holders, j \in Jobs : Current(g, j) /\ Current(h, j) => g = h

\* The reason: a remembered fence is at most the job's, and belongs to one
\* holder only.
FencesIdentifyClaims ==
  \A h \in Holders : \A c \in held[h] :
    /\ job[c.of].phase # "absent"
    /\ job[c.of].phase # "gone" => c.fence <= job[c.of].fence
    /\ \A g \in Holders : c \in held[g] => g = h

DoneStays == \A j \in Jobs : job[j].phase = "done" => job'[j].phase \in {"done", "gone"}

\* A job that is done is never taken, parked or put back again.
DoneIsFinal == [][DoneStays]_vars

=============================================================================
