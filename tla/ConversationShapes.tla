------------------------- MODULE ConversationShapes -------------------------
(***************************************************************************)
(* The shapes of ConversationRun's steps: what a transaction may do to the *)
(* tables, whichever transaction it is.  The proofs show that every step   *)
(* has one of these shapes, and then reason about the shapes only.         *)
(***************************************************************************)
EXTENDS ConversationRun

\* The columns of a run row the life cycle depends on.
Same(new, row) ==
  /\ new.status = row.status /\ new.fence = row.fence
  /\ new.conv = row.conv /\ new.task = row.task

\* Rows of their types, each run row with the conversation it belongs to.
Sound == TypeOK /\ RunsBelong

\* The inductive invariant of the life cycle.
Inv == Sound /\ ActiveRunIsTheOpenRun /\ ClaimFences

-----------------------------------------------------------------------------
(* One run, one conversation, an insertion and a removal.                   *)

\* Only row r changes: it gets the given status, keeps its conversation and
\* its task, and its fence stays or grows by one.
Step(r, status) ==
  /\ Exists(r)
  /\ run' \in [Runs -> RunRows]
  /\ \A q \in Runs : q # r => run'[q] = run[q]
  /\ run'[r].status = status
  /\ run'[r].conv = run[r].conv /\ run'[r].task = run[r].task
  /\ run'[r].fence \in {run[r].fence, run[r].fence + 1}

\* Only conversation c may change its active run.
ActiveOnly(c, active) ==
  /\ conv' \in [Conversations -> ConvRows]
  /\ \A d \in Conversations :
       /\ conv'[d].gone = conv[d].gone
       /\ conv'[d].active = IF d = c THEN active ELSE conv[d].active

\* Row r is inserted: a queued run of conversation c, for task t if not Nil.
Inserts(r, c, t) ==
  /\ run[r].status = "none"
  /\ run' \in [Runs -> RunRows]
  /\ \A q \in Runs : q # r => run'[q] = run[q]
  /\ run'[r].status = "queued" /\ run'[r].fence = 0
  /\ run'[r].conv = c /\ run'[r].task = t
  /\ ~conv[c].gone /\ conv[c].active = NoRun

\* The runs of conversation c are removed, and c with them.
Removes(c) ==
  /\ run' \in [Runs -> RunRows]
  /\ conv' \in [Conversations -> ConvRows]
  /\ \A r \in Runs : IF Exists(r) /\ run[r].conv = c
                      THEN run'[r].status = "deleted" ELSE run'[r] = run[r]
  /\ \A d \in Conversations : IF d = c THEN conv'[d].active = NoRun ELSE conv'[d] = conv[d]

\* Conversation c gets these messages.
Messaged(c, msgs) ==
  \A d \in Conversations : conv'[d].msgs = IF d = c THEN msgs ELSE conv[d].msgs

\* An inserted run: no question, no draft, its input is the message posted with it.
Inserted(r, c, m) ==
  /\ run'[r].inter = NoInteraction /\ run'[r].draft = <<>>
  /\ run'[r].input = LastSeq(c) + 1 /\ run'[r].client = m
  /\ Messaged(c, Append(conv[c].msgs, Message(r, "user", 0)))

-----------------------------------------------------------------------------
(* The message history.  Six shapes of steps, as far as messages, inputs   *)
(* and client_message_ids are concerned.                                   *)

\* No conversation gets a message.
Unposted == \A d \in Conversations : conv'[d].msgs = conv[d].msgs

\* No conversation gets another active run, except one that becomes idle.
NoneActivated == \A d \in Conversations : conv'[d].active \in {NoRun, conv[d].active}

\* Nothing of it changes.
Rests ==
  /\ \A q \in Runs : /\ Same(run'[q], run[q])
                       /\ run'[q].input = run[q].input /\ run'[q].client = run[q].client
  /\ Unposted /\ NoneActivated

\* Run r, which exists and has not completed, is rewritten.
Touches(r) ==
  /\ Exists(r) /\ run[r].status # "completed"
  /\ run'[r].status \notin {"none", "deleted"}
  /\ run' \in [Runs -> RunRows]
  /\ \A q \in Runs : q # r => run'[q] = run[q]
  /\ run'[r].conv = run[r].conv /\ run'[r].task = run[r].task
  /\ run'[r].client = run[r].client

\* Run r changes without a word; only a foreground run that is still the
\* latest gets the conversation.
Moves(r) ==
  /\ Touches(r) /\ Unposted /\ run'[r].input = run[r].input
  /\ run'[r].status # "completed"
  /\ \A d \in Conversations :
       \/ conv'[d].active \in {NoRun, conv[d].active}
       \/ d = run[r].conv /\ conv'[d].active = r /\ ~Background(r) /\ StillLatest(r)

\* Run r, which has the conversation or is a background run, posts a message.
Says(r, role, by) ==
  LET c == run[r].conv IN
  /\ Touches(r) /\ NoneActivated
  /\ ~Superseded(r) /\ by \in Nat
  /\ Messaged(c, Append(conv[c].msgs, Message(r, role, by)))

\* The answer that completes the run, and the user's reply to its question.
Answers(r) ==
  /\ \E by \in Nat : Says(r, "assistant", by)
  /\ run'[r].status = "completed" /\ run'[r].input = run[r].input
Replies(r) ==
  /\ Says(r, "user", 0)
  /\ run'[r].status # "completed" /\ run'[r].input = LastSeq(run[r].conv) + 1

\* A new run of conversation c for client_message_id m or, if Nil, for a task.
Starts(r, c, t, m) ==
  /\ Inserts(r, c, t) /\ Inserted(r, c, m)
  /\ c \in Conversations /\ m \in ClientIDs \cup {Nil} /\ (m # Nil => ~Sent(c, m))
  /\ \A d \in Conversations :
       \/ conv'[d].active \in {NoRun, conv[d].active}
       \/ d = c /\ conv'[d].active = r

Shaped ==
  \/ Rests
  \/ \E r \in Runs : Moves(r) \/ Answers(r) \/ Replies(r)
  \/ \E r \in Runs : \E c, t, m : Starts(r, c, t, m)
  \/ \E c \in Conversations : Removes(c) /\ Messaged(c, <<>>)

-----------------------------------------------------------------------------
(* What a step may add to the queues.                                      *)

\* No run but r becomes queued or running, no task but t becomes queued.
NoneEnters(r, status) ==
  \A q \in Runs \ {r} : run'[q].status = status =>
    run[q].status = status /\ run'[q].conv = run[q].conv
NoTaskEnters(t) ==
  \A u \in Tasks \ {t} : task'[u].status = "queued" => task[u].status = "queued"

\* What a step may add: nothing, a queued run or task the queue has room for,
\* a run for a task that leaves the queue, or a running run there is room for.
Eases == NoneEnters(NoRun, "queued") /\ NoneEnters(NoRun, "running") /\ NoTaskEnters(Nil)
QueuesRun(r) ==
  /\ NoneEnters(r, "queued") /\ NoneEnters(NoRun, "running") /\ NoTaskEnters(Nil)
  /\ \E c \in Conversations : run'[r].conv = c /\ QueueHasRoom(UserOf[c])
QueuesTask(t) ==
  /\ NoneEnters(NoRun, "queued") /\ NoneEnters(NoRun, "running") /\ NoTaskEnters(t)
  /\ QueueHasRoom(UserOf[TaskConv[t]])
Launches(r, t) ==
  /\ NoneEnters(r, "queued") /\ NoneEnters(NoRun, "running") /\ NoTaskEnters(Nil)
  /\ task[t].status = "queued" /\ task'[t].status # "queued" /\ run'[r].conv = TaskConv[t]
StartsRun(r) ==
  /\ NoneEnters(NoRun, "queued") /\ NoneEnters(r, "running") /\ NoTaskEnters(Nil)
  /\ \E c \in Conversations : run'[r].conv = c /\ RunningHasRoom(UserOf[c])

Bounded ==
  \/ Eases
  \/ \E r \in Runs : QueuesRun(r) \/ StartsRun(r)
  \/ \E t \in Tasks : QueuesTask(t)
  \/ \E r \in Runs, t \in Tasks : Launches(r, t)

-----------------------------------------------------------------------------
(* The other columns of a run row.                                         *)

\* Run r gets this interaction, draft and input sequence number.
Columns(r, inter, draft, input) ==
  /\ run'[r].inter = inter /\ run'[r].draft = draft
  /\ run'[r].input = input /\ run'[r].client = run[r].client

\* A question in a run row: a pending one has a kind, only input and
\* confirmation have a deadline, a closed one ends the run, and a run that
\* waits has a pending one of the kind it waits for.
QuestionOK(inter, status) ==
  /\ inter.status = "pending" => inter.kind \in Kinds
  /\ inter.due => inter.kind \in {"input", "confirmation"}
  /\ inter.kind # "reconciliation" /\ inter.status \in Closed => status \in Terminal
  /\ status \in Waiting => inter.status = "pending" /\ status = WaitStatus(inter.kind)

\* A draft in a run row: text of one claim, while running of the present one.
DraftOK(draft, status, fence) ==
  \A i \in DOMAIN draft : /\ draft[i] = draft[1]
                          /\ status = "running" => draft[i] = fence

RowOK(row) ==
  QuestionOK(row.inter, row.status) /\ DraftOK(row.draft, row.status, row.fence)

Rows == \A r \in Runs : RowOK(run[r])

=============================================================================
