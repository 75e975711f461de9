------------------------- MODULE ConversationTheorems -------------------------
(***************************************************************************)
(* What a conversation's users see: each run answers once, turns do not    *)
(* interleave, a draft is the text of one claim, a repeated send starts    *)
(* nothing, a background task and its run agree, a closed question ends    *)
(* its run, and the capacity limits hold.  Last, what the workers rely on: *)
(* the run queue is a fenced queue, ConversationRun implements FencedJob.  *)
(***************************************************************************)
EXTENDS ConversationRunProofs, FiniteSetTheorems

USE Zenon DEF NoRun

-----------------------------------------------------------------------------
(* Answers.                                                                *)

\* Exactly one answer for a completed run, none for another: what the messages
\* say of answers, as a number.
LEMMA CountAnswers == ASSUME Sound, History PROVE OneAnswerPerRun
<1> SUFFICES ASSUME NEW r \in Runs, Exists(r)
             PROVE  LET c == run[r].conv IN
                    Cardinality({i \in DOMAIN conv[c].msgs :
                                   LET m == conv[c].msgs[i] IN m.run = r /\ m.role = "assistant"})
                      = IF run[r].status = "completed" THEN 1 ELSE 0
  BY DEF OneAnswerPerRun
<1> DEFINE c == run[r].conv
           A == {i \in DOMAIN conv[c].msgs :
                   LET m == conv[c].msgs[i] IN m.run = r /\ m.role = "assistant"}
<1>1. c \in Conversations
  BY DEF Sound, RunsBelong
<1>2. CASE run[r].status = "completed"
  <2>1. PICK i \in DOMAIN conv[c].msgs : Of(c, i) = r /\ conv[c].msgs[i].role = "assistant"
    BY <1>2 DEF History, CompletedAnswered
  <2>2. A = {i}
    BY <1>1, <2>1 DEF History, AnsweredOnce, Of
  <2> HIDE DEF A
  <2>3. Cardinality(A) = 1
    BY <2>2, FS_Singleton
  <2> QED BY <1>2, <2>3 DEF A
<1>3. CASE run[r].status # "completed"
  <2>1. A = {}
    BY <1>1, <1>3, SMT DEF History, MessagesBelong, Of
  <2> HIDE DEF A
  <2>2. Cardinality(A) = 0
    BY <2>1, FS_EmptySet
  <2> QED BY <1>3, <2>2 DEF A
<1> QED BY <1>2, <1>3

-----------------------------------------------------------------------------
(* Capacity.                                                               *)

\* The conversations of a user; the runs and the queued tasks of a set of
\* conversations, and whether they keep within two limits.
ConvsOf(u) == {c \in Conversations : UserOf[c] = u}
RunsIn(S, status) == {r \in Runs : run[r].status = status /\ run[r].conv \in S}
TasksIn(S) == {t \in Tasks : task[t].status = "queued" /\ TaskConv[t] \in S}
Load(S) == Cardinality(RunsIn(S, "queued")) + Cardinality(TasksIn(S))
Within(S, queued, running) ==
  Load(S) <= queued /\ Cardinality(RunsIn(S, "running")) <= running

\* All of these are finite.
LEMMA LoadFinite ==
  ASSUME NEW S, NEW status
  PROVE  /\ IsFiniteSet(RunsIn(S, status)) /\ IsFiniteSet(TasksIn(S))
         /\ IsFiniteSet(RunsIn(S, status)') /\ IsFiniteSet(TasksIn(S)')
         /\ Cardinality(RunsIn(S, status)) \in Nat /\ Cardinality(TasksIn(S)) \in Nat
         /\ Cardinality(RunsIn(S, status)') \in Nat /\ Cardinality(TasksIn(S)') \in Nat
<1>1. IsFiniteSet(Runs)
  BY ConversationRunConstants, FS_Interval, SMT DEF Runs
<1>2. IsFiniteSet(Tasks)
  BY ConversationRunConstants
<1>3. RunsIn(S, status) \subseteq Runs /\ RunsIn(S, status)' \subseteq Runs
  BY DEF RunsIn
<1>4. TasksIn(S) \subseteq Tasks /\ TasksIn(S)' \subseteq Tasks
  BY DEF TasksIn
<1>5. \A A, B : IsFiniteSet(A) /\ B \subseteq A => IsFiniteSet(B) /\ Cardinality(B) \in Nat
  BY FS_Subset, FS_CardinalityType
<1> QED BY <1>1, <1>2, <1>3, <1>4, <1>5

\* The checks of the code are about these sets.
LEMMA LoadIs ==
  ASSUME Sound
  PROVE  /\ \A u \in Users : /\ UserRuns(u, "queued") = RunsIn(ConvsOf(u), "queued")
                             /\ UserRuns(u, "running") = RunsIn(ConvsOf(u), "running")
                             /\ UserTasks(u) = TasksIn(ConvsOf(u))
         /\ {r \in Runs : run[r].status = "queued"} = RunsIn(Conversations, "queued")
         /\ {r \in Runs : run[r].status = "running"} = RunsIn(Conversations, "running")
         /\ {t \in Tasks : task[t].status = "queued"} = TasksIn(Conversations)
<1>1. \A r \in Runs : run[r].status \in {"queued", "running"} => run[r].conv \in Conversations
  BY DEF Sound, RunsBelong, Exists
<1>2. \A t \in Tasks : TaskConv[t] \in Conversations
  BY ConversationRunConstants
<1>3. ASSUME NEW u \in Users, NEW status \in {"queued", "running"}
      PROVE  UserRuns(u, status) = RunsIn(ConvsOf(u), status)
  BY <1>1 DEF UserRuns, RunsIn, ConvsOf
<1>4. ASSUME NEW status \in {"queued", "running"}
      PROVE  {r \in Runs : run[r].status = status} = RunsIn(Conversations, status)
  BY <1>1 DEF RunsIn
<1>5. \A u \in Users : UserTasks(u) = TasksIn(ConvsOf(u))
  BY <1>2 DEF UserTasks, TasksIn, ConvsOf
<1>6. {t \in Tasks : task[t].status = "queued"} = TasksIn(Conversations)
  BY <1>2 DEF TasksIn
<1> QED BY <1>3, <1>4, <1>5, <1>6

\* The limits, and the checks before something is queued or started.
LEMMA CapacityIs ==
  ASSUME Sound
  PROVE  /\ CapacityRespected <=>
              /\ \A u \in Users : Within(ConvsOf(u), MaxQueuedPerUser, MaxRunningPerUser)
              /\ Within(Conversations, MaxQueuedPerWorkspace, MaxRunningPerWorkspace)
         /\ \A u \in Users :
              QueueHasRoom(u) => /\ Load(ConvsOf(u)) < MaxQueuedPerUser
                                 /\ Load(Conversations) < MaxQueuedPerWorkspace
         /\ \A u \in Users :
              RunningHasRoom(u) =>
                /\ Cardinality(RunsIn(ConvsOf(u), "running")) < MaxRunningPerUser
                /\ Cardinality(RunsIn(Conversations, "running")) < MaxRunningPerWorkspace
<1>1. CapacityRespected <=>
        /\ \A u \in Users : Within(ConvsOf(u), MaxQueuedPerUser, MaxRunningPerUser)
        /\ Within(Conversations, MaxQueuedPerWorkspace, MaxRunningPerWorkspace)
  BY LoadIs DEF CapacityRespected, Within, Load
<1>2. \A u \in Users :
        QueueHasRoom(u) => /\ Load(ConvsOf(u)) < MaxQueuedPerUser
                           /\ Load(Conversations) < MaxQueuedPerWorkspace
  BY LoadIs DEF QueueHasRoom, Load
<1>3. \A u \in Users :
        RunningHasRoom(u) =>
          /\ Cardinality(RunsIn(ConvsOf(u), "running")) < MaxRunningPerUser
          /\ Cardinality(RunsIn(Conversations, "running")) < MaxRunningPerWorkspace
  BY LoadIs DEF RunningHasRoom
<1> QED BY <1>1, <1>2, <1>3

\* A finite set that gains at most one element.
LEMMA AtMostOneMore ==
  ASSUME NEW A, NEW B, IsFiniteSet(A), NEW x, B \subseteq A \cup {x}
  PROVE  /\ Cardinality(A) \in Nat /\ Cardinality(B) \in Nat
         /\ Cardinality(B) <= Cardinality(A) + 1
         /\ x \notin B => Cardinality(B) <= Cardinality(A)
<1>1. /\ IsFiniteSet(A \cup {x}) /\ Cardinality(A) \in Nat
      /\ Cardinality(A \cup {x}) <= Cardinality(A) + 1
  <2>1. Cardinality(A) \in Nat
    BY FS_CardinalityType
  <2>2. /\ IsFiniteSet(A \cup {x})
        /\ Cardinality(A \cup {x}) = IF x \in A THEN Cardinality(A) ELSE Cardinality(A) + 1
    BY FS_AddElement
  <2> QED BY <2>1, <2>2, SMT
<1>2. IsFiniteSet(B) /\ Cardinality(B) <= Cardinality(A \cup {x})
  BY <1>1, FS_Subset
<1>3. Cardinality(B) \in Nat /\ Cardinality(A \cup {x}) \in Nat
  BY <1>1, <1>2, FS_CardinalityType
<1>4. x \notin B => Cardinality(B) <= Cardinality(A)
  <2>1. x \notin B => B \in SUBSET A
    OBVIOUS
  <2> QED BY <2>1, FS_Subset
<1> QED BY <1>1, <1>2, <1>3, <1>4, SMT

\* What NoneEnters and NoTaskEnters say of the sets.
LEMMA EntersBound ==
  ASSUME NEW S, NEW status, NEW r
  PROVE  /\ NoneEnters(r, status) =>
              /\ Cardinality(RunsIn(S, status)') <= Cardinality(RunsIn(S, status)) + 1
              /\ r \notin RunsIn(S, status)'
                   => Cardinality(RunsIn(S, status)') <= Cardinality(RunsIn(S, status))
         /\ NoTaskEnters(r) =>
              /\ Cardinality(TasksIn(S)') <= Cardinality(TasksIn(S)) + 1
              /\ r \notin TasksIn(S)' => Cardinality(TasksIn(S)') <= Cardinality(TasksIn(S))
<1> DEFINE A == RunsIn(S, status)
           B == RunsIn(S, status)'
           C == TasksIn(S)
           D == TasksIn(S)'
<1>1. IsFiniteSet(A) /\ IsFiniteSet(C)
  BY LoadFinite
<1>2. NoneEnters(r, status) => B \subseteq A \cup {r}
  BY DEF NoneEnters, RunsIn
<1>3. NoTaskEnters(r) => D \subseteq C \cup {r}
  BY DEF NoTaskEnters, TasksIn
<1> HIDE DEF A, B, C, D
<1>4. NoneEnters(r, status) => /\ Cardinality(B) <= Cardinality(A) + 1
                               /\ r \notin B => Cardinality(B) <= Cardinality(A)
  BY <1>1, <1>2, AtMostOneMore
<1>5. NoTaskEnters(r) => /\ Cardinality(D) <= Cardinality(C) + 1
                         /\ r \notin D => Cardinality(D) <= Cardinality(C)
  BY <1>1, <1>3, AtMostOneMore
<1> QED BY <1>4, <1>5 DEF A, B, C, D

\* A step keeps a set of conversations within its limits when there was room
\* for what it adds there.
LEMMA WithinByStep ==
  ASSUME NEW S, NEW queued \in Nat, NEW running \in Nat, Within(S, queued, running),
         \/ Eases
         \/ \E r \in Runs : QueuesRun(r) /\ (run'[r].conv \in S => Load(S) < queued)
         \/ \E r \in Runs :
              /\ StartsRun(r)
              /\ run'[r].conv \in S => Cardinality(RunsIn(S, "running")) < running
         \/ \E t \in Tasks : QueuesTask(t) /\ (TaskConv[t] \in S => Load(S) < queued)
         \/ \E r \in Runs, t \in Tasks : Launches(r, t)
  PROVE  Within(S, queued, running)'
<1> DEFINE A == Cardinality(RunsIn(S, "queued"))
           B == Cardinality(TasksIn(S))
           C == Cardinality(RunsIn(S, "running"))
           A1 == Cardinality(RunsIn(S, "queued")')
           B1 == Cardinality(TasksIn(S)')
           C1 == Cardinality(RunsIn(S, "running")')
<1>1. /\ A \in Nat /\ B \in Nat /\ C \in Nat /\ A1 \in Nat /\ B1 \in Nat /\ C1 \in Nat
      /\ A + B <= queued /\ C <= running
  BY LoadFinite DEF Within, Load
<1>2. SUFFICES A1 + B1 <= queued /\ C1 <= running
  BY DEF Within, Load
<1>3. ASSUME NEW status PROVE NoRun \notin RunsIn(S, status)' /\ Nil \notin TasksIn(S)'
  BY ConversationRunConstants, SMT DEF RunsIn, TasksIn, Runs
<1>4. /\ NoneEnters(NoRun, "queued") => A1 <= A
      /\ NoneEnters(NoRun, "running") => C1 <= C
      /\ NoTaskEnters(Nil) => B1 <= B
  BY <1>3, EntersBound
<1>5. ASSUME NEW r
      PROVE  /\ NoneEnters(r, "queued") => A1 <= A + 1 /\ (run'[r].conv \notin S => A1 <= A)
             /\ NoneEnters(r, "running") => C1 <= C + 1 /\ (run'[r].conv \notin S => C1 <= C)
             /\ NoTaskEnters(r) => B1 <= B + 1 /\ (TaskConv[r] \notin S => B1 <= B)
  <2>1. run'[r].conv \notin S => r \notin RunsIn(S, "queued")' /\ r \notin RunsIn(S, "running")'
    BY DEF RunsIn
  <2>2. TaskConv[r] \notin S => r \notin TasksIn(S)'
    BY DEF TasksIn
  <2> QED BY <2>1, <2>2, EntersBound
<1>6. CASE Eases
  BY <1>1, <1>4, <1>6, SMT DEF Eases
<1>7. ASSUME NEW r \in Runs, QueuesRun(r), run'[r].conv \in S => A + B < queued
      PROVE  A1 + B1 <= queued /\ C1 <= running
  <2>1. /\ A1 <= A + 1 /\ (run'[r].conv \notin S => A1 <= A)
        /\ B1 <= B /\ C1 <= C
    BY <1>4, <1>5, <1>7 DEF QueuesRun
  <2> HIDE DEF A, B, C, A1, B1, C1
  <2> QED BY <1>1, <1>7, <2>1, SMT
<1>8. ASSUME NEW r \in Runs, StartsRun(r), run'[r].conv \in S => C < running
      PROVE  A1 + B1 <= queued /\ C1 <= running
  <2>1. /\ C1 <= C + 1 /\ (run'[r].conv \notin S => C1 <= C)
        /\ B1 <= B /\ A1 <= A
    BY <1>4, <1>5, <1>8 DEF StartsRun
  <2> HIDE DEF A, B, C, A1, B1, C1
  <2> QED BY <1>1, <1>8, <2>1, SMT
<1>9. ASSUME NEW t \in Tasks, QueuesTask(t), TaskConv[t] \in S => A + B < queued
      PROVE  A1 + B1 <= queued /\ C1 <= running
  <2>1. /\ B1 <= B + 1 /\ (TaskConv[t] \notin S => B1 <= B)
        /\ A1 <= A /\ C1 <= C
    BY <1>4, <1>5, <1>9 DEF QueuesTask
  <2> HIDE DEF A, B, C, A1, B1, C1
  <2> QED BY <1>1, <1>9, <2>1, SMT
<1>10. ASSUME NEW r \in Runs, NEW t \in Tasks, Launches(r, t)
       PROVE  A1 + B1 <= queued /\ C1 <= running
  <2>1. /\ A1 <= A + 1 /\ (TaskConv[t] \notin S => A1 <= A)
        /\ B1 <= B /\ C1 <= C
    BY <1>4, <1>5, <1>10 DEF Launches
  <2>2. TaskConv[t] \in S => B1 <= B - 1
    <3> SUFFICES ASSUME TaskConv[t] \in S PROVE B1 <= B - 1
      OBVIOUS
    <3> DEFINE D == TasksIn(S)
               E == TasksIn(S)'
    <3>1. t \in D /\ E \subseteq D \ {t} /\ IsFiniteSet(D)
      BY <1>10, LoadFinite, ConversationRunConstants DEF Launches, TasksIn, NoTaskEnters
    <3> HIDE DEF D, E
    <3>2. /\ IsFiniteSet(D \ {t})
          /\ Cardinality(D \ {t}) = IF t \in D THEN Cardinality(D) - 1 ELSE Cardinality(D)
      BY <3>1, FS_RemoveElement
    <3>3. Cardinality(E) <= Cardinality(D \ {t})
      BY <3>1, <3>2, FS_Subset
    <3> QED BY <3>1, <3>2, <3>3 DEF D, E
  <2> HIDE DEF A, B, C, A1, B1, C1
  <2> QED BY <1>1, <2>1, <2>2, SMT
<1> QED BY <1>6, <1>7, <1>8, <1>9, <1>10 DEF Load

\* The limits in terms of the sets, before and after a step.
LEMMA CapacityIsNow ==
  Sound => (CapacityRespected <=>
              /\ \A u \in Users : Within(ConvsOf(u), MaxQueuedPerUser, MaxRunningPerUser)
              /\ Within(Conversations, MaxQueuedPerWorkspace, MaxRunningPerWorkspace))
BY CapacityIs

\* The same of the next state.
LEMMA CapacityIsNext ==
  Sound' => (CapacityRespected <=>
               /\ \A u \in Users : Within(ConvsOf(u), MaxQueuedPerUser, MaxRunningPerUser)
               /\ Within(Conversations, MaxQueuedPerWorkspace, MaxRunningPerWorkspace))'
BY CapacityIsNow, PTL

\* So it keeps the configured limits.
LEMMA CapacityByStep ==
  ASSUME Sound, Sound', CapacityRespected, Bounded
  PROVE  CapacityRespected'
<1>1. /\ MaxQueuedPerUser \in Nat /\ MaxRunningPerUser \in Nat
      /\ MaxQueuedPerWorkspace \in Nat /\ MaxRunningPerWorkspace \in Nat
      /\ \A c \in Conversations : UserOf[c] \in Users
      /\ \A t \in Tasks : TaskConv[t] \in Conversations
  BY ConversationRunConstants
<1>2. /\ \A u \in Users : Within(ConvsOf(u), MaxQueuedPerUser, MaxRunningPerUser)
      /\ Within(Conversations, MaxQueuedPerWorkspace, MaxRunningPerWorkspace)
  BY CapacityIs
<1>3. ASSUME NEW u \in Users PROVE Within(ConvsOf(u), MaxQueuedPerUser, MaxRunningPerUser)'
  <2> DEFINE S == ConvsOf(u)
  <2>1. \A c \in S : UserOf[c] = u
    BY DEF ConvsOf
  <2>2. QueueHasRoom(u) => Load(S) < MaxQueuedPerUser
    BY CapacityIs
  <2>3. RunningHasRoom(u) => Cardinality(RunsIn(S, "running")) < MaxRunningPerUser
    BY CapacityIs
  <2>4. Within(S, MaxQueuedPerUser, MaxRunningPerUser)
    BY <1>2
  <2> HIDE DEF S
  <2>5. \A r \in Runs : QueuesRun(r) => (run'[r].conv \in S => Load(S) < MaxQueuedPerUser)
    BY <2>1, <2>2 DEF QueuesRun
  <2>6. \A r \in Runs : StartsRun(r) =>
          (run'[r].conv \in S => Cardinality(RunsIn(S, "running")) < MaxRunningPerUser)
    BY <2>1, <2>3 DEF StartsRun
  <2>7. \A t \in Tasks : QueuesTask(t) => (TaskConv[t] \in S => Load(S) < MaxQueuedPerUser)
    BY <2>1, <2>2 DEF QueuesTask
  <2>8. Within(S, MaxQueuedPerUser, MaxRunningPerUser)'
    BY <1>1, <2>4, <2>5, <2>6, <2>7, WithinByStep DEF Bounded
  <2> QED BY <2>8 DEF S
<1>4. Within(Conversations, MaxQueuedPerWorkspace, MaxRunningPerWorkspace)'
  <2>1. \A r \in Runs : QueuesRun(r) => Load(Conversations) < MaxQueuedPerWorkspace
    BY <1>1, CapacityIs DEF QueuesRun
  <2>2. \A r \in Runs :
          StartsRun(r) => Cardinality(RunsIn(Conversations, "running")) < MaxRunningPerWorkspace
    BY <1>1, CapacityIs DEF StartsRun
  <2>3. \A t \in Tasks : QueuesTask(t) => Load(Conversations) < MaxQueuedPerWorkspace
    BY <1>1, CapacityIs DEF QueuesTask
  <2> QED BY <1>1, <1>2, <2>1, <2>2, <2>3, WithinByStep DEF Bounded
<1>5. (CapacityRespected <=>
         /\ \A u \in Users : Within(ConvsOf(u), MaxQueuedPerUser, MaxRunningPerUser)
         /\ Within(Conversations, MaxQueuedPerWorkspace, MaxRunningPerWorkspace))'
  BY CapacityIsNext
<1> QED BY <1>3, <1>4, <1>5

-----------------------------------------------------------------------------
(* Every step has a shape: six of them, as far as messages, inputs and     *)
(* client_message_ids are concerned.                                       *)

\* Writing only one conversation's active run, to nothing or what it was.
LEMMA NoneActivatedBy ==
  ASSUME NEW c, NEW active, ActiveOnly(c, active),
         c \in Conversations => active \in {NoRun, conv[c].active}
  PROVE  NoneActivated
BY DEF NoneActivated, ActiveOnly

\* Giving a conversation the messages it has posts nothing.
LEMMA UnpostedBy ==
  ASSUME NEW c, Messaged(c, conv[c].msgs)
  PROVE  Unposted
BY DEF Unposted, Messaged

\* A step that leaves the conversations alone.
LEMMA ConvSame == ASSUME Sound, conv' = conv PROVE Unposted /\ NoneActivated
BY DEF Unposted, NoneActivated

\* The shapes of a worker's transactions.
LEMMA ShapedWorkerStep ==
  ASSUME Sound, NEW w \in Workers, WorkerStep(w)
  PROVE  Shaped
<1> DEFINE r == claim[w].run
<1>1. CASE Claim(w)
  <2>1. PICK q \in Runs :
           /\ run[q].status \in {"queued", "running"}
           /\ Step(q, "running")
           /\ Columns(q, run[q].inter, <<>>, run[q].input)
    BY <1>1, ClaimColumns
  <2>2. Touches(q) /\ run'[q].status = "running" /\ run'[q].input = run[q].input
    BY <2>1 DEF Touches, Step, Columns
  <2>3. Unposted /\ NoneActivated
    BY <1>1, ConvSame DEF Claim
  <2> QED BY <2>2, <2>3 DEF Shaped, Moves, NoneActivated
<1>2. CASE Heartbeat(w)
  <2>1. /\ r \in Runs /\ Step(r, run[r].status) /\ run[r].status = "running"
        /\ Columns(r, run[r].inter, run[r].draft, run[r].input)
    BY <1>2, HeartbeatDoes, HeartbeatColumns DEF Heartbeat, Claimed
  <2>2. Touches(r) /\ run'[r].status = "running" /\ run'[r].input = run[r].input
    BY <2>1 DEF Touches, Step, Columns
  <2>3. Unposted /\ NoneActivated
    BY <1>2, ConvSame DEF Heartbeat
  <2> QED BY <2>1, <2>2, <2>3 DEF Shaped, Moves, NoneActivated
<1>3. CASE AppendDelta(w)
  <2> DEFINE draft == Append(run[r].draft, claim[w].fence)
  <2>1. /\ r \in Runs /\ Step(r, run[r].status) /\ run[r].status = "running"
        /\ Columns(r, run[r].inter, draft, run[r].input)
    BY <1>3, AppendDeltaDoes, AppendDeltaColumns DEF AppendDelta, Claimed
  <2> HIDE DEF draft
  <2>2. Touches(r) /\ run'[r].status = "running" /\ run'[r].input = run[r].input
    BY <2>1 DEF Touches, Step, Columns
  <2>3. Unposted /\ NoneActivated
    BY <1>3, ConvSame DEF AppendDelta
  <2> QED BY <2>1, <2>2, <2>3 DEF Shaped, Moves, NoneActivated
<1>4. CASE FinishCompleted(w)
  <2> DEFINE c == run[r].conv
             a == IF Background(r) THEN conv[c].active ELSE NoRun
  <2>1. /\ r \in Runs /\ c \in Conversations /\ run[r].status = "running"
        /\ Step(r, "completed") /\ ActiveOnly(c, a)
        /\ Columns(r, run[r].inter, <<>>, run[r].input)
        /\ Messaged(c, Append(conv[c].msgs, Message(r, "assistant", claim[w].fence)))
    BY <1>4, FinishCompletedDoes, FinishCompletedColumns
  <2>2. Touches(r) /\ run'[r].status = "completed" /\ run'[r].input = run[r].input
    BY <2>1 DEF Touches, Step, Columns
  <2>3. NoneActivated
    BY <2>1, NoneActivatedBy
  <2>4. ~Superseded(r) /\ claim[w].fence \in Nat
    BY <1>4, HeldRun DEF FinishCompleted
  <2> HIDE DEF r
  <2>5. Says(r, "assistant", claim[w].fence)
    BY <2>1, <2>2, <2>3, <2>4 DEF Says
  <2> QED BY <2>1, <2>2, <2>4, <2>5 DEF Shaped, Answers
<1>5. CASE FinishFailed(w)
  <2> DEFINE c == run[r].conv
             a == IF Background(r) THEN conv[c].active ELSE NoRun
  <2>1. /\ r \in Runs /\ c \in Conversations /\ run[r].status = "running"
        /\ Step(r, "failed") /\ ActiveOnly(c, a)
        /\ Columns(r, run[r].inter, run[r].draft, run[r].input)
        /\ Messaged(c, conv[c].msgs)
    BY <1>5, FinishFailedDoes, FinishFailedColumns
  <2>2. Touches(r) /\ run'[r].status = "failed" /\ run'[r].input = run[r].input
    BY <2>1 DEF Touches, Step, Columns
  <2>3. Unposted /\ NoneActivated
    BY <2>1, NoneActivatedBy, UnpostedBy
  <2> QED BY <2>1, <2>2, <2>3 DEF Shaped, Moves, NoneActivated
<1>6. ASSUME NEW kind \in Kinds, WaitExecution(w, kind) PROVE Shaped
  <2>1. /\ r \in Runs /\ run[r].status = "running" /\ Step(r, WaitStatus(kind))
        /\ Columns(r, Pending(kind), run[r].draft, run[r].input)
    BY <1>6, WaitExecutionDoes, WaitExecutionColumns
  <2>2. WaitStatus(kind) \notin {"none", "deleted", "completed"}
    BY RowFacts DEF Waiting
  <2>3. Touches(r) /\ run'[r].status = WaitStatus(kind) /\ run'[r].input = run[r].input
    BY <2>1, <2>2 DEF Touches, Step, Columns
  <2>4. Unposted /\ NoneActivated
    BY <1>6, ConvSame DEF WaitExecution
  <2> QED BY <2>1, <2>2, <2>3, <2>4 DEF Shaped, Moves, NoneActivated
<1>7. CASE ResolveReconciliation(w)
  <2> DEFINE inter == CloseInteraction(run[r].inter, "resolved")
  <2>1. /\ r \in Runs /\ Step(r, run[r].status)
        /\ Columns(r, inter, run[r].draft, run[r].input)
    BY <1>7, ResolveReconciliationDoes, ResolveReconciliationColumns
  <2>2. run[r].status \in {"running", "cancelled"}
    BY <1>7 DEF ResolveReconciliation, Claimed, CancelledReceipt
  <2> HIDE DEF inter
  <2>3. Touches(r) /\ run'[r].status = run[r].status /\ run'[r].input = run[r].input
    BY <2>1, <2>2 DEF Touches, Step, Columns
  <2>4. Unposted /\ NoneActivated
    BY <1>7, ConvSame DEF ResolveReconciliation
  <2> QED BY <2>1, <2>2, <2>3, <2>4 DEF Shaped, Moves, NoneActivated
<1>8. CASE Abandon(w)
  BY <1>8 DEF Abandon, Shaped, Rests, Same, Unposted, NoneActivated
<1> QED BY <1>1, <1>2, <1>3, <1>4, <1>5, <1>6, <1>7, <1>8 DEF WorkerStep

\* The shapes of the callers' transactions on a run.
LEMMA ShapedRunStep ==
  ASSUME Sound, NEW r \in Runs, RunStep(r)
  PROVE  Shaped
<1> DEFINE c == run[r].conv
<1>1. ASSUME NEW decision \in Decisions, Respond(r, decision) PROVE Shaped
  <2> DEFINE outcome == Outcome(run[r].inter.kind, decision)
             rejected == outcome = "rejected"
             status == IF rejected THEN "cancelled" ELSE "queued"
             inter == [run[r].inter EXCEPT !.status = outcome]
             a == IF rejected /\ conv[c].active = r THEN NoRun ELSE conv[c].active
  <2>1. /\ run[r].status \in Waiting /\ Step(r, status) /\ ActiveOnly(c, a)
        /\ Columns(r, inter, <<>>, LastSeq(c) + 1)
        /\ Messaged(c, Append(conv[c].msgs, Message(r, "user", 0)))
    BY <1>1, RespondDoes, RespondColumns
  <2>2. run[r].status # "completed" /\ status \notin {"none", "deleted", "completed"}
    BY <2>1 DEF Waiting
  <2>3. NoneActivated
    BY <2>1, NoneActivatedBy
  <2> HIDE DEF inter, status
  <2>4. Touches(r) /\ run'[r].status = status /\ run'[r].input = LastSeq(c) + 1
    BY <2>1, <2>2 DEF Touches, Step, Columns
  <2>5. ~Superseded(r)
    BY <1>1 DEF Respond
  <2>6. Replies(r)
    BY <2>1, <2>2, <2>3, <2>4, <2>5 DEF Replies, Says
  <2> QED BY <2>6 DEF Shaped
<1>2. CASE InteractionDue(r)
  <2> DEFINE inter == [run[r].inter EXCEPT !.due = TRUE]
  <2>1. /\ run[r].status \in Waiting /\ Step(r, run[r].status)
        /\ Columns(r, inter, run[r].draft, run[r].input)
    BY <1>2, InteractionDueDoes, InteractionDueColumns DEF InteractionDue, AwaitsResponse
  <2>2. run[r].status \notin {"none", "deleted", "completed"}
    BY <2>1 DEF Waiting
  <2> HIDE DEF inter
  <2>3. Touches(r) /\ run'[r].status = run[r].status /\ run'[r].input = run[r].input
    BY <2>1, <2>2 DEF Touches, Step, Columns
  <2>4. Unposted /\ NoneActivated
    BY <1>2, ConvSame DEF InteractionDue
  <2> QED BY <2>2, <2>3, <2>4 DEF Shaped, Moves, NoneActivated
<1>3. CASE ExpireInteraction(r)
  <2> DEFINE inter == CloseInteraction(run[r].inter, "expired")
  <2>1. /\ run[r].status \in Waiting /\ Step(r, "failed")
        /\ ActiveOnly(c, IF conv[c].active = r THEN NoRun ELSE conv[c].active)
        /\ Columns(r, inter, run[r].draft, run[r].input)
        /\ Messaged(c, conv[c].msgs)
    BY <1>3, ExpireInteractionDoes, ExpireInteractionColumns
  <2>2. run[r].status # "completed"
    BY <2>1 DEF Waiting
  <2> HIDE DEF inter
  <2>3. Touches(r) /\ run'[r].status = "failed" /\ run'[r].input = run[r].input
    BY <2>1, <2>2 DEF Touches, Step, Columns
  <2>4. Unposted /\ NoneActivated
    BY <2>1, UnpostedBy, NoneActivatedBy
  <2> QED BY <2>3, <2>4 DEF Shaped, Moves, NoneActivated
<1>4. CASE Cancel(r)
  <2> DEFINE inter == CloseInteraction(run[r].inter, "cancelled")
  <2>1. /\ run[r].status \in Open /\ Step(r, "cancelled")
        /\ ActiveOnly(c, IF conv[c].active = r THEN NoRun ELSE conv[c].active)
        /\ Columns(r, inter, run[r].draft, run[r].input)
        /\ Messaged(c, conv[c].msgs)
    BY <1>4, CancelDoes, CancelColumns
  <2>2. run[r].status # "completed"
    BY <2>1 DEF Open, Waiting
  <2> HIDE DEF inter
  <2>3. Touches(r) /\ run'[r].status = "cancelled" /\ run'[r].input = run[r].input
    BY <2>1, <2>2 DEF Touches, Step, Columns
  <2>4. Unposted /\ NoneActivated
    BY <2>1, UnpostedBy, NoneActivatedBy
  <2> QED BY <2>3, <2>4 DEF Shaped, Moves, NoneActivated
<1>5. CASE Resume(r)
  <2>1. /\ run[r].status \in {"failed", "cancelled", "needs_reconciliation"}
        /\ Step(r, "queued")
        /\ ActiveOnly(c, IF Background(r) THEN conv[c].active ELSE r)
        /\ Columns(r, run[r].inter, <<>>, run[r].input)
        /\ Messaged(c, conv[c].msgs)
    BY <1>5, ResumeDoes, ResumeColumns
  <2>2. Touches(r) /\ run'[r].status = "queued" /\ run'[r].input = run[r].input
    BY <2>1 DEF Touches, Step, Columns
  <2>3. Unposted
    BY <2>1, UnpostedBy
  <2>4. Background(r) \/ StillLatest(r)
    BY <1>5 DEF Resume
  <2>5. \A d \in Conversations :
           \/ conv'[d].active \in {NoRun, conv[d].active}
           \/ d = c /\ conv'[d].active = r /\ ~Background(r) /\ StillLatest(r)
    BY <2>1, <2>4 DEF ActiveOnly
  <2> QED BY <2>2, <2>3, <2>5 DEF Shaped, Moves
<1> QED BY <1>1, <1>2, <1>3, <1>4, <1>5 DEF RunStep

\* Every step has one of the shapes.
LEMMA ShapedNext ==
  ASSUME Sound, [Next]_vars
  PROVE  Shaped
<1>1. ASSUME NEW c \in Conversations, ConversationStep(c) PROVE Shaped
  <2>1. ASSUME NEW m \in ClientIDs, Enqueue(c, m) PROVE Shaped
    <3>1. PICK r \in Runs : Inserts(r, c, Nil) /\ ActiveOnly(c, r) /\ Inserted(r, c, m)
      BY <2>1, EnqueueColumns
    <3>2. ~Sent(c, m)
      BY <2>1 DEF Enqueue
    <3>3. Starts(r, c, Nil, m)
      BY <3>1, <3>2 DEF Starts, ActiveOnly
    <3> QED BY <3>3 DEF Shaped
  <2>2. ASSUME NEW b \in BOOLEAN, Update(c, b) PROVE Shaped
    <3>1. conv' = [conv EXCEPT ![c] = [conv[c] EXCEPT !.archived = b]] /\ run' = run
      BY <2>2 DEF Update
    <3>2. LET row == [conv[c] EXCEPT !.archived = b] IN
          row.msgs = conv[c].msgs /\ row.active = conv[c].active
      BY DEF Sound, TypeOK, ConvRows
    <3>3. Unposted /\ NoneActivated
      BY <3>1, <3>2 DEF Sound, TypeOK, Unposted, NoneActivated
    <3> QED BY <3>1, <3>3 DEF Shaped, Rests, Same
  <2>3. CASE Delete(c)
    BY <2>3, DeleteColumns DEF Shaped
  <2> QED BY <1>1, <2>1, <2>2, <2>3 DEF ConversationStep
<1>2. ASSUME NEW t \in Tasks, TaskStep(t) PROVE Shaped
  <2>1. CASE LaunchTask(t)
    <3>1. PICK r \in Runs : /\ Inserts(r, TaskConv[t], t) /\ ActiveOnly(TaskConv[t], NoRun)
                            /\ Inserted(r, TaskConv[t], Nil)
      BY <2>1, LaunchTaskColumns
    <3>2. TaskConv[t] \in Conversations
      BY ConversationRunConstants
    <3>3. Starts(r, TaskConv[t], t, Nil)
      BY <3>1, <3>2 DEF Starts, ActiveOnly
    <3> QED BY <3>3 DEF Shaped
  <2>2. CASE StartTask(t) \/ CancelQueuedTask(t) \/ ResumeQueuedTask(t)
    BY <2>2 DEF StartTask, CancelQueuedTask, ResumeQueuedTask, Shaped, Rests, Same,
                Unposted, NoneActivated
  <2> QED BY <1>2, <2>1, <2>2 DEF TaskStep
<1>3. CASE Tick
  <2>1. \A r \in Runs : Same(run'[r], run[r]) /\ Columns(r, run[r].inter, run[r].draft, run[r].input)
    BY <1>3, TickDoes, TickColumns
  <2>2. Unposted /\ NoneActivated
    BY <1>3, ConvSame DEF Tick
  <2> QED BY <2>1, <2>2 DEF Shaped, Rests, Columns
<1>4. CASE UNCHANGED vars
  BY <1>4 DEF vars, Shaped, Rests, Same, Unposted, NoneActivated
<1> QED BY <1>1, <1>2, <1>3, <1>4, ShapedWorkerStep, ShapedRunStep DEF Next

-----------------------------------------------------------------------------
(* What each step adds to the queues.                                      *)

\* A run row that is rewritten enters no queue but the one of its new status.
LEMMA EntersByStep ==
  ASSUME NEW r \in Runs, NEW status, Step(r, status)
  PROVE  /\ NoneEnters(r, "queued") /\ NoneEnters(r, "running")
         /\ status # "queued" \/ run[r].status = "queued" => NoneEnters(NoRun, "queued")
         /\ status # "running" \/ run[r].status = "running" => NoneEnters(NoRun, "running")
BY DEF Step, NoneEnters

\* Finishing, cancelling or resuming a task queues none.
LEMMA NoTaskQueued ==
  ASSUME Sound, NEW r \in Runs,
         \/ task' = task
         \/ \E status \in {"completed", "failed", "cancelled"} :
              FinishTask(run[r].task, r, status)
         \/ ResumeTask(run[r].task, r)
  PROVE  NoTaskEnters(Nil)
<1>1. CASE task' = task
  BY <1>1 DEF NoTaskEnters
<1>2. ASSUME NEW status \in {"completed", "failed", "cancelled"}, FinishTask(run[r].task, r, status)
      PROVE  NoTaskEnters(Nil)
  <2>1. /\ \A u \in Tasks : u # run[r].task => task'[u] = task[u]
        /\ Background(r) => task'[run[r].task].status # "queued"
    BY <1>2, FinishTaskDoes
  <2> QED BY <2>1 DEF NoTaskEnters, Background
<1>3. CASE ResumeTask(run[r].task, r)
  <2>1. /\ \A u \in Tasks : u # run[r].task => task'[u] = task[u]
        /\ Background(r) => task'[run[r].task].status = "running"
    BY <1>3, ResumeTaskDoes
  <2> QED BY <2>1 DEF NoTaskEnters, Background
<1> QED BY <1>1, <1>2, <1>3

\* What workers' transactions add.
LEMMA BoundedWorkerStep ==
  ASSUME Sound, NEW w \in Workers, WorkerStep(w)
  PROVE  Bounded
<1> DEFINE r == claim[w].run
<1>1. CASE Claim(w)
  <2>1. PICK q \in Runs : /\ run[q].status \in {"queued", "running"} /\ Step(q, "running")
                          /\ run[q].status = "queued" => RunningHasRoom(UserOf[run[q].conv])
    BY <1>1, ClaimColumns
  <2>2. NoTaskEnters(Nil)
    BY <1>1, NoTaskQueued, <2>1 DEF Claim
  <2>3. run[q].conv \in Conversations /\ run'[q].conv = run[q].conv
    BY <2>1 DEF Step, Sound, RunsBelong
  <2>4. /\ NoneEnters(NoRun, "queued") /\ NoneEnters(q, "running")
        /\ run[q].status = "running" => NoneEnters(NoRun, "running")
    BY <2>1, EntersByStep
  <2> QED BY <2>1, <2>2, <2>3, <2>4 DEF Bounded, StartsRun, Eases
<1>2. ASSUME NEW status, r \in Runs, Step(r, status),
             status = run[r].status \/ status \notin {"queued", "running"}, NoTaskEnters(Nil)
      PROVE  Bounded
  <2>1. NoneEnters(NoRun, "queued") /\ NoneEnters(NoRun, "running")
    BY <1>2, EntersByStep
  <2> QED BY <1>2, <2>1 DEF Bounded, Eases
<1>3. CASE Heartbeat(w) \/ AppendDelta(w) \/ ResolveReconciliation(w)
  <2>1. r \in Runs /\ Step(r, run[r].status)
    BY <1>3, HeartbeatDoes, AppendDeltaDoes, ResolveReconciliationDoes
  <2>2. NoTaskEnters(Nil)
    BY <1>3 DEF NoTaskEnters, Heartbeat, AppendDelta, ResolveReconciliation
  <2> QED BY <1>2, <2>1, <2>2
<1>4. CASE FinishCompleted(w)
  <2>1. r \in Runs /\ Step(r, "completed")
    BY <1>4, FinishCompletedDoes
  <2>2. FinishTask(run[r].task, r, "completed")
    BY <1>4 DEF FinishCompleted
  <2>3. NoTaskEnters(Nil)
    BY <2>1, <2>2, NoTaskQueued
  <2> QED BY <1>2, <2>1, <2>3
<1>5. CASE FinishFailed(w)
  <2>1. r \in Runs /\ Step(r, "failed")
    BY <1>5, FinishFailedDoes
  <2>2. FinishTask(run[r].task, r, "failed")
    BY <1>5 DEF FinishFailed
  <2>3. NoTaskEnters(Nil)
    BY <2>1, <2>2, NoTaskQueued
  <2> QED BY <1>2, <2>1, <2>3
<1>6. ASSUME NEW kind \in Kinds, WaitExecution(w, kind) PROVE Bounded
  <2>1. r \in Runs /\ Step(r, WaitStatus(kind))
    BY <1>6, WaitExecutionDoes
  <2>2. WaitStatus(kind) \notin {"queued", "running"}
    BY RowFacts DEF Waiting
  <2>3. NoTaskEnters(Nil)
    BY <1>6 DEF NoTaskEnters, WaitExecution
  <2> QED BY <1>2, <2>1, <2>2, <2>3
<1>7. CASE Abandon(w)
  BY <1>7 DEF Abandon, Bounded, Eases, NoneEnters, NoTaskEnters
<1> QED BY <1>1, <1>3, <1>4, <1>5, <1>6, <1>7 DEF WorkerStep

\* What callers' transactions on a run add.
LEMMA BoundedRunStep ==
  ASSUME Sound, NEW r \in Runs, RunStep(r)
  PROVE  Bounded
<1> DEFINE c == run[r].conv
<1>2. ASSUME NEW status, Step(r, status), NoTaskEnters(Nil),
             \/ status = run[r].status
             \/ status \notin {"queued", "running"}
             \/ status = "queued" /\ QueueHasRoom(UserOf[c])
      PROVE  Bounded
  <2>1. /\ NoneEnters(r, "queued")
        /\ status # "running" \/ status = run[r].status => NoneEnters(NoRun, "running")
        /\ status # "queued" \/ status = run[r].status => NoneEnters(NoRun, "queued")
    BY <1>2, EntersByStep
  <2>2. c \in Conversations /\ run'[r].conv = c
    BY <1>2 DEF Step, Sound, RunsBelong
  <2> QED BY <1>2, <2>1, <2>2 DEF Bounded, Eases, QueuesRun
<1>3. ASSUME NEW decision \in Decisions, Respond(r, decision) PROVE Bounded
  <2> DEFINE rejected == Outcome(run[r].inter.kind, decision) = "rejected"
  <2>1. Step(r, IF rejected THEN "cancelled" ELSE "queued")
    BY <1>3, RespondDoes
  <2>2. NoTaskEnters(Nil) /\ (rejected \/ QueueHasRoom(UserOf[c]))
    BY <1>3 DEF Respond, NoTaskEnters
  <2> HIDE DEF rejected
  <2>3. CASE rejected
    BY <1>2, <2>1, <2>2, <2>3
  <2>4. CASE ~rejected
    BY <1>2, <2>1, <2>2, <2>4
  <2> QED BY <2>3, <2>4
<1>4. CASE InteractionDue(r)
  <2>1. Step(r, run[r].status) /\ NoTaskEnters(Nil)
    BY <1>4, InteractionDueDoes DEF InteractionDue, NoTaskEnters
  <2> QED BY <1>2, <2>1
<1>5. CASE ExpireInteraction(r)
  <2>1. Step(r, "failed") /\ NoTaskEnters(Nil)
    BY <1>5, ExpireInteractionDoes DEF ExpireInteraction, NoTaskEnters
  <2> QED BY <1>2, <2>1
<1>6. CASE Cancel(r)
  <2>1. Step(r, "cancelled")
    BY <1>6, CancelDoes
  <2>2. FinishTask(run[r].task, r, "cancelled")
    BY <1>6 DEF Cancel
  <2> QED BY <1>2, <2>1, <2>2, NoTaskQueued
<1>7. CASE Resume(r)
  <2>1. Step(r, "queued") /\ QueueHasRoom(UserOf[c])
    BY <1>7, ResumeDoes DEF Resume
  <2>2. ResumeTask(run[r].task, r)
    BY <1>7 DEF Resume
  <2> QED BY <1>2, <2>1, <2>2, NoTaskQueued
<1> QED BY <1>3, <1>4, <1>5, <1>6, <1>7 DEF RunStep

\* What any step adds is bounded.
LEMMA BoundedNext ==
  ASSUME Sound, [Next]_vars
  PROVE  Bounded
<1>1. ASSUME NEW c \in Conversations, ConversationStep(c) PROVE Bounded
  <2>1. ASSUME NEW m \in ClientIDs, Enqueue(c, m) PROVE Bounded
    <3>1. PICK r \in Runs : Inserts(r, c, Nil)
      BY <2>1, EnqueueDoes
    <3>2. QueueHasRoom(UserOf[c]) /\ NoTaskEnters(Nil)
      BY <2>1 DEF Enqueue, NoTaskEnters
    <3>3. NoneEnters(r, "queued") /\ NoneEnters(NoRun, "running") /\ run'[r].conv = c
      BY <3>1 DEF Inserts, NoneEnters
    <3> QED BY <3>2, <3>3 DEF Bounded, QueuesRun
  <2>2. CASE \E b \in BOOLEAN : Update(c, b)
    BY <2>2 DEF Update, Bounded, Eases, NoneEnters, NoTaskEnters
  <2>3. CASE Delete(c)
    <3>1. NoneEnters(NoRun, "queued") /\ NoneEnters(NoRun, "running")
      BY <2>3, DeleteDoes DEF Removes, NoneEnters
    <3>2. NoTaskEnters(Nil)
      BY <2>3 DEF Delete, NoTaskEnters
    <3> QED BY <3>1, <3>2 DEF Bounded, Eases
  <2> QED BY <1>1, <2>1, <2>2, <2>3 DEF ConversationStep
<1>2. ASSUME NEW t \in Tasks, TaskStep(t) PROVE Bounded
  <2>1. CASE LaunchTask(t)
    <3>1. PICK r \in Runs :
            /\ Inserts(r, TaskConv[t], t)
            /\ task' = [task EXCEPT ![t] = [status |-> "running", run |-> r]]
      BY <2>1, LaunchTaskColumns
    <3>2. /\ task[t].status = "queued" /\ task'[t].status # "queued"
          /\ NoTaskEnters(Nil)
      BY <2>1, <3>1 DEF LaunchTask, Sound, TypeOK, NoTaskEnters
    <3>3. /\ NoneEnters(r, "queued") /\ NoneEnters(NoRun, "running")
          /\ run'[r].conv = TaskConv[t]
      BY <3>1 DEF Inserts, NoneEnters
    <3> QED BY <3>2, <3>3 DEF Bounded, Launches
  <2>2. CASE StartTask(t) \/ ResumeQueuedTask(t)
    BY <2>2 DEF StartTask, ResumeQueuedTask, Bounded, QueuesTask, NoneEnters, NoTaskEnters,
                Sound, TypeOK
  <2>3. CASE CancelQueuedTask(t)
    BY <2>3 DEF CancelQueuedTask, Bounded, Eases, NoneEnters, NoTaskEnters, Sound, TypeOK, TaskRows
  <2> QED BY <1>2, <2>1, <2>2, <2>3 DEF TaskStep
<1>3. CASE Tick
  <2>1. \A r \in Runs : Same(run'[r], run[r])
    BY <1>3, TickDoes
  <2>2. task' = task
    BY <1>3 DEF Tick
  <2> QED BY <2>1, <2>2 DEF Bounded, Eases, NoneEnters, NoTaskEnters, Same
<1>4. CASE UNCHANGED vars
  BY <1>4 DEF vars, Bounded, Eases, NoneEnters, NoTaskEnters
<1> QED BY <1>1, <1>2, <1>3, <1>4, BoundedWorkerStep, BoundedRunStep DEF Next

-----------------------------------------------------------------------------
(* The invariant, and what it says.                                        *)

HistoryInv ==
  /\ Inv /\ Rows /\ Executions /\ SendIsIdempotent /\ History /\ CapacityRespected

\* Nothing has been sent, queued or started at first.
LEMMA HistoryInit == Init => HistoryInv
<1> SUFFICES ASSUME Init PROVE HistoryInv
  OBVIOUS
<1>1. Inv /\ Sound
  BY InvInit DEF Inv
<1>2. /\ \A r \in Runs : /\ run[r].status = "none" /\ run[r].task = Nil
                         /\ run[r].inter = NoInteraction /\ run[r].draft = <<>>
      /\ \A c \in Conversations : conv[c].msgs = <<>> /\ conv[c].active = NoRun
      /\ \A t \in Tasks : task[t].status = "none"
  BY DEF Init, NoRow
<1>3. Rows
  BY RowsInit
<1>4. Executions
  BY <1>2 DEF Executions, RunningTaskHasExecution, Exists
<1>5. SendIsIdempotent
  BY <1>2 DEF SendIsIdempotent, Exists
<1>6. History
  <2>1. \A c \in Conversations : DOMAIN conv[c].msgs = {}
    BY <1>2, SMT
  <2> QED BY <1>2, <2>1 DEF History, MessagesBelong, AnsweredOnce, CompletedAnswered,
             InputsPosted, ActiveIsLatest, ForegroundTurnsDoNotInterleave, Exists
<1>7. CapacityRespected
  <2>1. ASSUME NEW S, NEW queued \in Nat, NEW running \in Nat PROVE Within(S, queued, running)
    <3>1. RunsIn(S, "queued") = {} /\ RunsIn(S, "running") = {} /\ TasksIn(S) = {}
      BY <1>2 DEF RunsIn, TasksIn
    <3> QED BY <3>1, FS_EmptySet, SMT DEF Within, Load
  <2> QED BY <1>1, <2>1, CapacityIs, ConversationRunConstants
<1> QED BY <1>1, <1>3, <1>4, <1>5, <1>6, <1>7 DEF HistoryInv

\* Every step keeps it.
LEMMA HistoryInvNext == HistoryInv /\ [Next]_vars => HistoryInv'
<1> SUFFICES ASSUME HistoryInv, [Next]_vars PROVE HistoryInv'
  OBVIOUS
<1>1. /\ Inv /\ Sound /\ Rows /\ Executions /\ SendIsIdempotent /\ History
      /\ CapacityRespected /\ Inv' /\ Sound'
  BY InvNext DEF HistoryInv, Inv, Good
<1>2. Rows' /\ Executions'
  BY <1>1, RowsNext, ExecutionsNext
<1>3. Shaped /\ Bounded
  BY <1>1, ShapedNext, BoundedNext
<1>4. SendIsIdempotent' /\ History' /\ CapacityRespected'
  BY <1>1, <1>3, SendsNext, HistoryNext, CapacityByStep
<1> QED BY <1>1, <1>2, <1>4 DEF HistoryInv

\* The messages of a conversation are as its runs left them.
LEMMA HistoryInvariant == Spec => []HistoryInv
BY HistoryInit, HistoryInvNext, PTL DEF Spec

\* What the row conditions say of drafts and questions.
LEMMA RowsSay == HistoryInv => DraftFromOneClaim /\ ClosedQuestionEndsRun
BY DEF HistoryInv, Rows, RowOK, QuestionOK, DraftOK, DraftFromOneClaim, ClosedQuestionEndsRun

\* What the pairing of tasks and runs says of open runs.
LEMMA ExecutionsSay == HistoryInv => TaskAndRunAgree
<1> SUFFICES ASSUME HistoryInv PROVE TaskAndRunAgree
  OBVIOUS
<1>1. Sound /\ Executions
  BY DEF HistoryInv, Inv
<1>2. ASSUME NEW r \in Runs, Background(r), run[r].status \in Open
      PROVE  task[run[r].task] = [status |-> "running", run |-> r]
  <2>1. Exists(r) /\ run[r].task \in Tasks
    BY <1>1, <1>2 DEF Exists, Open, Waiting, Background, Sound, TypeOK, RunRows
  <2>2. task[run[r].task].status = "running" /\ task[run[r].task].run = r
    BY <1>1, <1>2, <2>1 DEF Executions, OwnTask, Open, Waiting
  <2>3. task[run[r].task] \in TaskRows
    BY <1>1, <2>1 DEF Sound, TypeOK
  <2> QED BY <2>2, <2>3 DEF TaskRows
<1> QED BY <1>1, <1>2 DEF TaskAndRunAgree, OpenBackgroundRunOwnsTask, Executions

\* A run gives its conversation exactly one answer when it completes and none
\* otherwise: Finish posts it under the claim's fence, no other transaction
\* posts an answer, and a completed run is never claimed or resumed.
THEOREM OneAnswer == Spec => []OneAnswerPerRun
<1>1. HistoryInv => OneAnswerPerRun
  BY CountAnswers DEF HistoryInv, Inv
<1> QED BY <1>1, HistoryInvariant, PTL

\* Foreground turns do not interleave in the message history: a run posts only
\* while it is the active run, and Resume makes it active again only while the
\* last message of the conversation is its own input.
THEOREM TurnsDoNotInterleave == Spec => []ForegroundTurnsDoNotInterleave
<1>1. HistoryInv => ForegroundTurnsDoNotInterleave
  BY DEF HistoryInv, History
<1> QED BY <1>1, HistoryInvariant, PTL

\* A draft is the text of one claim: Claim, RespondExecution and Resume empty
\* it, and AppendDelta extends it only under the present fence.
THEOREM DraftsAreOfOneClaim == Spec => []DraftFromOneClaim
BY RowsSay, HistoryInvariant, PTL

\* A run whose question was cancelled, rejected or left to expire has ended,
\* and Resume never brings it back.
THEOREM ClosedQuestionsEnd == Spec => []ClosedQuestionEndsRun
BY RowsSay, HistoryInvariant, PTL

\* A background task and its run agree after any sequence of launches,
\* finishes, cancels, resumes, answers, expiries and recoveries.
THEOREM TasksAgree == Spec => []TaskAndRunAgree
BY ExecutionsSay, HistoryInvariant, PTL

\* A client_message_id starts at most one run of its conversation.
THEOREM SendsAreIdempotent == Spec => []SendIsIdempotent
<1>1. HistoryInv => SendIsIdempotent
  BY DEF HistoryInv
<1> QED BY <1>1, HistoryInvariant, PTL

\* The queue and running limits hold at every moment, per user and for the
\* workspace, for any limits: every transaction that queues or starts something
\* checks them first, except the launch of a task, which only moves it.
THEOREM CapacityHolds == Spec => []CapacityRespected
<1>1. HistoryInv => CapacityRespected
  BY DEF HistoryInv
<1> QED BY <1>1, HistoryInvariant, PTL

-----------------------------------------------------------------------------
(* The run queue is a fenced queue.                                        *)

\* The variables of the abstract queue, as the refinement maps them.
Queued == [r \in Runs |-> [phase |-> Phase(run[r].status), fence |-> run[r].fence]]
Memory(c) == IF c.run = NoRun THEN {} ELSE {[of |-> c.run, fence |-> c.fence]}
Memories == [w \in Workers |-> Memory(claim[w])]

-----------------------------------------------------------------------------
(* The steps of the abstract queue, in terms of those two.                 *)

\* A job enters the queue.
LEMMA IsOffer ==
  ASSUME NEW r \in Runs, Queued[r].phase = "absent", Memories' = Memories,
         Queued' = [Queued EXCEPT ![r] = [phase |-> "ready", fence |-> 0]]
  PROVE  Queue!Next
<1>1. Queue!Offer(r)
  BY DEF Queue!Offer, Queue!Becomes, Queued, Memories, Memory
<1> QED BY <1>1 DEF Queue!Next

\* A worker takes a job.
LEMMA IsTake ==
  ASSUME NEW r \in Runs, NEW w \in Workers, Queued[r].phase \in {"ready", "held"},
         Memories' = [Memories EXCEPT ![w] = {[of |-> r, fence |-> Queued[r].fence + 1]}],
         Queued' = [Queued EXCEPT ![r] = [phase |-> "held", fence |-> Queued[r].fence + 1]]
  PROVE  Queue!Next
<1>1. Queue!Take(w, r)
  BY DEF Queue!Take, Queue!Becomes, Queued, Memories, Memory
<1> QED BY <1>1 DEF Queue!Next

\* A worker puts down the job it holds.
LEMMA IsPutDown ==
  ASSUME NEW r \in Runs, NEW w \in Workers, Queued[r].phase = "held",
         [of |-> r, fence |-> Queued[r].fence] \in Memories[w],
         Memories' = [Memories EXCEPT ![w] = {}],
         NEW phase \in {"ready", "parked", "done"}, NEW n \in {0, 1},
         Queued' = [Queued EXCEPT ![r] = [phase |-> phase, fence |-> Queued[r].fence + n]]
  PROVE  Queue!Next
<1>1. Queue!Current(w, r)
  BY DEF Queue!Current, Queued, Memories, Memory
<1>2. Queue!PutDown(w, r)
  BY <1>1 DEF Queue!PutDown, Queue!Becomes, Queued, Memories, Memory
<1> QED BY <1>2 DEF Queue!Next

\* Somebody else stops or restarts a job.
LEMMA IsInterrupt ==
  ASSUME NEW r \in Runs, Queued[r].phase \in {"ready", "held", "parked"},
         Memories' = Memories, NEW phase \in {"ready", "parked"},
         Queued' = [Queued EXCEPT ![r] = [phase |-> phase, fence |-> Queued[r].fence + 1]]
  PROVE  Queue!Next
<1>1. Queue!Interrupt(r)
  BY DEF Queue!Interrupt, Queue!Live, Queue!Becomes, Queued, Memories, Memory
<1> QED BY <1>1 DEF Queue!Next

\* A worker forgets what it holds.
LEMMA IsForget ==
  ASSUME NEW w \in Workers, Memories' = [Memories EXCEPT ![w] = {}], Queued' = Queued
  PROVE  Queue!Next
<1>1. Queue!Forget(w)
  BY DEF Queue!Forget, Queued, Memories, Memory
<1> QED BY <1>1 DEF Queue!Next

\* Some jobs are deleted.
LEMMA IsRemove ==
  ASSUME Memories' = Memories,
         Queued' = [r \in Runs |-> IF Queued'[r].phase = Queued[r].phase THEN Queued[r]
                                   ELSE [phase |-> "gone", fence |-> 0]]
  PROVE  Queue!Next
<1>1. Queue!Remove
  BY DEF Queue!Remove, Queued, Memories, Memory
<1> QED BY <1>1 DEF Queue!Next

\* Nothing changes.
LEMMA IsStutter ==
  ASSUME Queued' = Queued, Memories' = Memories PROVE UNCHANGED Queue!vars
BY DEF Queue!vars, Queued, Memories, Memory

-----------------------------------------------------------------------------
(* What the transactions show.                                             *)

\* What is not written does not show.
LEMMA Unwritten ==
  /\ UNCHANGED run => Queued' = Queued
  /\ UNCHANGED claim => Memories' = Memories
BY DEF Queued, Memories

\* A changed run row shows as the change of one job.
LEMMA RowWritten ==
  ASSUME NEW r \in Runs, \A q \in Runs : q # r => run'[q] = run[q]
  PROVE  Queued' = [Queued EXCEPT ![r] = [phase |-> Phase(run'[r].status),
                                          fence |-> run'[r].fence]]
BY DEF Queued

\* A changed claim shows as the change of what one worker holds.
LEMMA ClaimWritten ==
  ASSUME Sound, NEW w \in Workers, NEW c, claim' = [claim EXCEPT ![w] = c]
  PROVE  Memories' = [Memories EXCEPT ![w] = Memory(c)]
BY DEF Sound, TypeOK, Memories

\* The phases of the statuses.
LEMMA PhaseOfStatus ==
  /\ Phase("none") = "absent" /\ Phase("queued") = "ready" /\ Phase("running") = "held"
  /\ Phase("completed") = "done" /\ Phase("failed") = "parked"
  /\ Phase("cancelled") = "parked" /\ Phase("deleted") = "gone"
  /\ \A status \in Waiting : Phase(status) = "parked"
BY DEF Phase, Waiting

\* The current holder ends or parks its run.
LEMMA HolderStep ==
  ASSUME Sound, NEW w \in Workers, Claimed(w), NEW status,
         Step(claim[w].run, status), Phase(status) \in {"parked", "done"},
         claim' = [claim EXCEPT ![w] = NoClaim]
  PROVE  Queue!Next
<1> DEFINE r == claim[w].run
<1>1. /\ r \in Runs /\ run[r].status = "running" /\ run[r].fence = claim[w].fence
      /\ run[r].fence \in Nat
  BY HeldRun DEF Claimed, RunRows
<1>2. Queued[r].phase = "held" /\ Queued[r].fence = run[r].fence
  BY <1>1, PhaseOfStatus DEF Queued
<1>3. [of |-> r, fence |-> Queued[r].fence] \in Memories[w]
  BY <1>1, <1>2, SMT DEF Memories, Memory, Runs
<1>4. Memory(NoClaim) = {}
  BY DEF Memory, NoClaim
<1>5. Memories' = [Memories EXCEPT ![w] = {}]
  BY <1>4, ClaimWritten
<1>6. Queued' = [Queued EXCEPT ![r] = [phase |-> Phase(status), fence |-> run'[r].fence]]
  BY <1>1, RowWritten DEF Step
<1>7. PICK n \in {0, 1} : run'[r].fence = Queued[r].fence + n
  BY <1>1, <1>2, SMT DEF Step
<1> HIDE DEF r
<1> QED BY <1>1, <1>2, <1>3, <1>5, <1>6, <1>7, IsPutDown

\* A caller or a sweep stops or restarts a run, under the next fence.
LEMMA CallerMoves ==
  ASSUME Sound, NEW r \in Runs, NEW status \in {"queued", "failed", "cancelled"},
         Step(r, status), run'[r].fence = run[r].fence + 1, claim' = claim,
         run[r].status \in Open \cup {"failed", "cancelled"}
  PROVE  Queue!Next
<1>1. Queued[r].phase \in {"ready", "held", "parked"} /\ Queued[r].fence = run[r].fence
  BY PhaseOfStatus DEF Queued, Open
<1>2. Phase(status) \in {"ready", "parked"}
  BY PhaseOfStatus
<1>3. Queued' = [Queued EXCEPT ![r] = [phase |-> Phase(status), fence |-> Queued[r].fence + 1]]
  BY <1>1, RowWritten, SMT DEF Step
<1> QED BY <1>1, <1>2, <1>3, Unwritten, IsInterrupt

\* A step that keeps every status, fence and claim does not show.
LEMMA HiddenStep ==
  ASSUME \A r \in Runs : run'[r].status = run[r].status /\ run'[r].fence = run[r].fence,
         \A w \in Workers : claim'[w].run = claim[w].run /\ claim'[w].fence = claim[w].fence
  PROVE  UNCHANGED Queue!vars
<1>1. Queued' = Queued
  BY DEF Queued
<1>2. Memories' = Memories
  BY DEF Memories, Memory
<1> QED BY <1>1, <1>2, IsStutter

-----------------------------------------------------------------------------
(* The transactions are steps of the abstract queue.                       *)

\* Claim takes a job.
LEMMA ClaimRefines ==
  ASSUME Sound, NEW w \in Workers, Claim(w) PROVE Queue!Next
<1>1. PICK r \in Runs :
        /\ run[r].status \in {"queued", "running"}
        /\ Step(r, "running")
        /\ run'[r].fence = run[r].fence + 1
        /\ claim' = [claim EXCEPT ![w] = [run |-> r, fence |-> run[r].fence + 1, sent |-> 0]]
  BY ClaimDoes
<1>2. Queued[r].phase \in {"ready", "held"} /\ Queued[r].fence = run[r].fence
  BY <1>1, PhaseOfStatus DEF Queued
<1>3. Queued' = [Queued EXCEPT ![r] = [phase |-> "held", fence |-> Queued[r].fence + 1]]
  BY <1>1, <1>2, RowWritten, PhaseOfStatus, SMT DEF Step
<1> DEFINE c == [run |-> r, fence |-> run[r].fence + 1, sent |-> 0]
<1>4. Memory(c) = {[of |-> r, fence |-> Queued[r].fence + 1]}
  BY <1>2, SMT DEF Memory, Runs
<1>5. claim' = [claim EXCEPT ![w] = c]
  BY <1>1
<1> HIDE DEF c
<1>6. Memories' = [Memories EXCEPT ![w] = {[of |-> r, fence |-> Queued[r].fence + 1]}]
  BY <1>4, <1>5, ClaimWritten
<1> QED BY <1>2, <1>3, <1>6, IsTake

\* A step of a run row that keeps its status, its fence and every claim.
LEMMA RowKept ==
  ASSUME NEW r \in Runs, Step(r, run[r].status), run'[r].fence = run[r].fence,
         \A w \in Workers : claim'[w].run = claim[w].run /\ claim'[w].fence = claim[w].fence
  PROVE  UNCHANGED Queue!vars
<1>1. \A q \in Runs : run'[q].status = run[q].status /\ run'[q].fence = run[q].fence
  BY DEF Step
<1> QED BY <1>1, HiddenStep

\* Setting the lease, the draft or the interaction of a row keeps its fence.
LEMMA FenceKept ==
  ASSUME Sound, NEW r \in Runs, NEW x,
         \/ run' = [run EXCEPT ![r] = [run[r] EXCEPT !.lease = x]]
         \/ run' = [run EXCEPT ![r] = [run[r] EXCEPT !.draft = x]]
         \/ run' = [run EXCEPT ![r] = [run[r] EXCEPT !.inter = x]]
  PROVE  run'[r].fence = run[r].fence
BY ZenonT(30) DEF Sound, TypeOK, RunRows

\* The steps of a worker.
LEMMA WorkerRefines ==
  ASSUME Sound, NEW w \in Workers, WorkerStep(w)
  PROVE  Queue!Next \/ UNCHANGED Queue!vars
<1>1. CASE Claim(w)
  BY <1>1, ClaimRefines
<1>2. CASE Heartbeat(w)
  <2>1. claim[w].run \in Runs /\ Step(claim[w].run, run[claim[w].run].status)
    BY <1>2, HeartbeatDoes
  <2>2. run'[claim[w].run].fence = run[claim[w].run].fence
    BY <1>2, <2>1, FenceKept DEF Heartbeat
  <2> QED BY <1>2, <2>1, <2>2, RowKept DEF Heartbeat
<1>3. CASE AppendDelta(w)
  <2>1. /\ claim[w].run \in Runs /\ Step(claim[w].run, run[claim[w].run].status)
        /\ \A v \in Workers : claim'[v].run = claim[v].run /\ claim'[v].fence = claim[v].fence
    BY <1>3, AppendDeltaDoes
  <2>2. run'[claim[w].run].fence = run[claim[w].run].fence
    BY <1>3, <2>1, FenceKept DEF AppendDelta
  <2> QED BY <2>1, <2>2, RowKept
<1>4. CASE FinishCompleted(w)
  <2>1. Step(claim[w].run, "completed")
    BY <1>4, FinishCompletedDoes
  <2>2. Claimed(w) /\ claim' = [claim EXCEPT ![w] = NoClaim]
    BY <1>4 DEF FinishCompleted
  <2> QED BY <2>1, <2>2, PhaseOfStatus, HolderStep
<1>5. CASE FinishFailed(w)
  <2>1. Step(claim[w].run, "failed")
    BY <1>5, FinishFailedDoes
  <2>2. Claimed(w) /\ claim' = [claim EXCEPT ![w] = NoClaim]
    BY <1>5 DEF FinishFailed
  <2> QED BY <2>1, <2>2, PhaseOfStatus, HolderStep
<1>6. ASSUME NEW kind \in Kinds, WaitExecution(w, kind) PROVE Queue!Next
  <2>1. Step(claim[w].run, WaitStatus(kind))
    BY <1>6, WaitExecutionDoes
  <2>2. Claimed(w) /\ claim' = [claim EXCEPT ![w] = NoClaim]
    BY <1>6 DEF WaitExecution
  <2>3. Phase(WaitStatus(kind)) = "parked"
    BY RowFacts, PhaseOfStatus
  <2> QED BY <2>1, <2>2, <2>3, HolderStep
<1>7. CASE ResolveReconciliation(w)
  <2>1. claim[w].run \in Runs /\ Step(claim[w].run, run[claim[w].run].status)
    BY <1>7, ResolveReconciliationDoes
  <2>2. run'[claim[w].run].fence = run[claim[w].run].fence
    BY <1>7, <2>1, FenceKept DEF ResolveReconciliation
  <2> QED BY <1>7, <2>1, <2>2, RowKept DEF ResolveReconciliation
<1>8. CASE Abandon(w)
  <2>1. Memory(NoClaim) = {}
    BY DEF Memory, NoClaim
  <2>2. claim' = [claim EXCEPT ![w] = NoClaim] /\ UNCHANGED run
    BY <1>8 DEF Abandon
  <2>3. Memories' = [Memories EXCEPT ![w] = {}]
    BY <2>1, <2>2, ClaimWritten
  <2> QED BY <2>2, <2>3, Unwritten, IsForget
<1> QED BY <1>1, <1>2, <1>3, <1>4, <1>5, <1>6, <1>7, <1>8 DEF WorkerStep

\* Released raises the fence, whatever else the transaction writes into the
\* interaction, the input and the draft.
LEMMA FenceRaised ==
  ASSUME Sound, NEW r \in Runs, NEW status, NEW x, NEW y, NEW z,
         \/ run' = [run EXCEPT ![r] = [Released(run[r], status) EXCEPT !.inter = x]]
         \/ run' = [run EXCEPT ![r] = [Released(run[r], status) EXCEPT !.draft = x]]
         \/ run' = [run EXCEPT ![r] = [Released(run[r], status) EXCEPT
                                          !.inter = x, !.input = y, !.draft = z]]
  PROVE  run'[r].fence = run[r].fence + 1
BY ZenonT(30) DEF Sound, TypeOK, RunRows, Released

\* The steps of callers and of the expiry sweep.
LEMMA RunRefines ==
  ASSUME Sound, NEW r \in Runs, RunStep(r)
  PROVE  Queue!Next \/ UNCHANGED Queue!vars
<1>1. ASSUME NEW decision \in Decisions, Respond(r, decision) PROVE Queue!Next
  <2> DEFINE status == IF Outcome(run[r].inter.kind, decision) = "rejected"
                       THEN "cancelled" ELSE "queued"
  <2>1. run[r].status \in Waiting /\ Step(r, status)
    BY <1>1, RespondDoes
  <2>2. run'[r].fence = run[r].fence + 1
    BY <1>1, FenceRaised DEF Respond
  <2>3. claim' = claim
    BY <1>1 DEF Respond
  <2>4. status \in {"queued", "failed", "cancelled"} /\ run[r].status \in Open
    BY <2>1 DEF Open, Waiting
  <2> HIDE DEF status
  <2> QED BY <2>1, <2>2, <2>3, <2>4, CallerMoves
<1>2. CASE InteractionDue(r)
  <2>1. run'[r].fence = run[r].fence
    BY <1>2, FenceKept DEF InteractionDue
  <2> QED BY <1>2, <2>1, InteractionDueDoes, RowKept DEF InteractionDue
<1>3. CASE ExpireInteraction(r)
  <2>1. run[r].status \in Waiting /\ Step(r, "failed")
    BY <1>3, ExpireInteractionDoes
  <2>2. run'[r].fence = run[r].fence + 1 /\ claim' = claim
    BY <1>3, FenceRaised DEF ExpireInteraction
  <2>3. run[r].status \in Open
    BY <2>1 DEF Open, Waiting
  <2> QED BY <2>1, <2>2, <2>3, CallerMoves
<1>4. CASE Cancel(r)
  <2>1. run[r].status \in Open /\ Step(r, "cancelled")
    BY <1>4, CancelDoes
  <2>2. run'[r].fence = run[r].fence + 1 /\ claim' = claim
    BY <1>4, FenceRaised DEF Cancel
  <2> QED BY <2>1, <2>2, CallerMoves
<1>5. CASE Resume(r)
  <2>1. run[r].status \in {"failed", "cancelled", "needs_reconciliation"} /\ Step(r, "queued")
    BY <1>5, ResumeDoes
  <2>2. run'[r].fence = run[r].fence + 1 /\ claim' = claim
    BY <1>5, FenceRaised DEF Resume
  <2>3. run[r].status \in Open \cup {"failed", "cancelled"}
    BY <2>1 DEF Open, Waiting
  <2> QED BY <2>1, <2>2, <2>3, CallerMoves
<1> QED BY <1>1, <1>2, <1>3, <1>4, <1>5 DEF RunStep

\* A row inserted by Enqueue or by LaunchConversationTask is a new job.
LEMMA InsertRefines ==
  ASSUME NEW r \in Runs, NEW c, NEW t, Inserts(r, c, t), claim' = claim
  PROVE  Queue!Next
<1>1. Queued[r].phase = "absent"
  BY PhaseOfStatus DEF Queued, Inserts
<1>2. Queued' = [Queued EXCEPT ![r] = [phase |-> "ready", fence |-> 0]]
  BY RowWritten, PhaseOfStatus, SMT DEF Inserts
<1> QED BY <1>1, <1>2, Unwritten, IsOffer

\* DeleteForRequest removes the jobs of one conversation.
LEMMA DeleteRefines ==
  ASSUME Sound, NEW c \in Conversations, Delete(c) PROVE Queue!Next
<1> DEFINE dead == [NoRow EXCEPT !.status = "deleted"]
<1>1. dead.status = "deleted" /\ dead.fence = 0
  BY DEF NoRow
<1>2. /\ run' = [r \in Runs |-> IF Exists(r) /\ run[r].conv = c THEN dead ELSE run[r]]
      /\ claim' = claim
  BY DEF Delete
<1> HIDE DEF dead
<1>3. ASSUME NEW r \in Runs
      PROVE  Queued'[r] = IF Queued'[r].phase = Queued[r].phase THEN Queued[r]
                          ELSE [phase |-> "gone", fence |-> 0]
  <2>1. CASE Exists(r) /\ run[r].conv = c
    <3>1. Queued'[r] = [phase |-> "gone", fence |-> 0]
      BY <1>1, <1>2, <2>1, PhaseOfStatus DEF Queued
    <3>2. Queued[r].phase # "gone"
      BY <2>1 DEF Queued, Phase, Exists, Sound, TypeOK, RunRows, RunStatus, Open, Terminal, Waiting
    <3> QED BY <3>1, <3>2, SMT
  <2>2. CASE ~(Exists(r) /\ run[r].conv = c)
    BY <1>2, <2>2 DEF Queued
  <2> QED BY <2>1, <2>2
<1>4. Queued' = [r \in Runs |-> Queued'[r]]
  BY DEF Queued
<1>5. Queued' = [r \in Runs |-> IF Queued'[r].phase = Queued[r].phase THEN Queued[r]
                                 ELSE [phase |-> "gone", fence |-> 0]]
  BY <1>3, <1>4
<1> QED BY <1>2, <1>5, Unwritten, IsRemove

\* The steps on conversations, tasks and the clock.
LEMMA OtherRefines ==
  ASSUME Sound,
         \/ \E c \in Conversations : ConversationStep(c)
         \/ \E t \in Tasks : TaskStep(t)
         \/ Tick
  PROVE  Queue!Next \/ UNCHANGED Queue!vars
<1>1. ASSUME NEW c \in Conversations, NEW m \in ClientIDs, Enqueue(c, m) PROVE Queue!Next
  <2>1. claim' = claim
    BY <1>1 DEF Enqueue
  <2> QED BY <1>1, <2>1, EnqueueDoes, InsertRefines
<1>2. ASSUME NEW t \in Tasks, LaunchTask(t) PROVE Queue!Next
  <2>1. claim' = claim
    BY <1>2 DEF LaunchTask
  <2> QED BY <1>2, <2>1, LaunchTaskDoes, InsertRefines
<1>3. ASSUME run' = run, claim' = claim PROVE UNCHANGED Queue!vars
  BY <1>3, Unwritten, IsStutter
<1>4. ASSUME NEW t \in Tasks, StartTask(t) \/ CancelQueuedTask(t) \/ ResumeQueuedTask(t)
      PROVE  UNCHANGED Queue!vars
  <2>1. run' = run /\ claim' = claim
    BY <1>4 DEF StartTask, CancelQueuedTask, ResumeQueuedTask
  <2> QED BY <2>1, <1>3
<1>5. ASSUME NEW c \in Conversations, NEW b \in BOOLEAN, Update(c, b)
      PROVE  UNCHANGED Queue!vars
  <2>1. run' = run /\ claim' = claim
    BY <1>5 DEF Update
  <2> QED BY <2>1, <1>3
<1>6. CASE Tick
  <2>1. claim' = claim
    BY <1>6 DEF Tick
  <2>2. \A r \in Runs : run'[r].status = run[r].status /\ run'[r].fence = run[r].fence
    BY <1>6, TickDoes DEF Same
  <2> QED BY <2>1, <2>2, HiddenStep
<1> QED BY <1>1, <1>2, <1>4, <1>5, <1>6, DeleteRefines DEF ConversationStep, TaskStep

\* A run is ended, parked or put back only under its latest claim or by a
\* transaction that cuts that claim off; every claim raises the fence; a
\* completed or deleted run is never executed again: the run queue implements
\* the fenced queue.
THEOREM RunQueueIsFenced == Spec => ImplementsFencedJob
<1>1. ASSUME Init PROVE Queue!Init
  <2>1. \A r \in Runs : Phase(run[r].status) = "absent" /\ run[r].fence = 0
    BY <1>1, PhaseOfStatus DEF Init, NoRow
  <2>2. \A w \in Workers : claim[w].run = NoRun
    BY <1>1 DEF Init, NoClaim
  <2> QED BY <2>1, <2>2 DEF Queue!Init
<1>2. Sound /\ [Next]_vars => [Queue!Next]_(Queue!vars)
  <2> SUFFICES ASSUME Sound, [Next]_vars PROVE Queue!Next \/ UNCHANGED Queue!vars
    OBVIOUS
  <2>1. CASE UNCHANGED vars
    BY <2>1 DEF vars, Queue!vars
  <2> QED BY <2>1, WorkerRefines, RunRefines, OtherRefines DEF Next
<1>3. Inv => Sound
  BY DEF Inv
<1> QED BY <1>1, <1>2, <1>3, Invariant, PTL DEF Spec, ImplementsFencedJob, Queue!Spec

\* What FencedJobProofs shows of every fenced queue.
Fenced == INSTANCE FencedJobProofs WITH
  Jobs <- Runs,
  Holders <- Workers,
  job <- [r \in Runs |-> [phase |-> Phase(run[r].status), fence |-> run[r].fence]],
  held <- [w \in Workers |->
             IF claim[w].run = NoRun THEN {}
             ELSE {[of |-> claim[w].run, fence |-> claim[w].fence]}]

\* A completed run stays completed until its conversation is deleted, and at
\* most one worker could end a run: both follow from the abstract queue alone.
THEOREM RunQueueIsExclusive == Spec => []Queue!OneCurrentHolder /\ Queue!DoneIsFinal
<1>1. Queue!Init => Fenced!Init
  BY DEF Queue!Init, Fenced!Init
<1>2. [Queue!Next]_(Queue!vars) => [Fenced!Next]_(Fenced!vars)
  BY DEF Queue!Next, Fenced!Next, Queue!vars, Fenced!vars, Queue!Forget, Fenced!Forget,
         Queue!Remove, Fenced!Remove, Queue!Offer, Fenced!Offer, Queue!Interrupt,
         Fenced!Interrupt, Queue!Take, Fenced!Take, Queue!PutDown, Fenced!PutDown,
         Queue!Becomes, Fenced!Becomes, Queue!Current, Fenced!Current, Queue!Live, Fenced!Live
<1>3. Fenced!OneCurrentHolder => Queue!OneCurrentHolder
  BY DEF Queue!OneCurrentHolder, Fenced!OneCurrentHolder, Queue!Current, Fenced!Current
<1>4. [Fenced!DoneStays]_(Fenced!vars) => [Queue!DoneStays]_(Queue!vars)
  BY DEF Queue!DoneStays, Fenced!DoneStays, Queue!vars, Fenced!vars
<1> QED BY <1>1, <1>2, <1>3, <1>4, RunQueueIsFenced, Fenced!Exclusion, Fenced!Finality, PTL
        DEF ImplementsFencedJob, Queue!Spec, Fenced!Spec, Queue!DoneIsFinal, Fenced!DoneIsFinal

=============================================================================
