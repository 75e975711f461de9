------------------------ MODULE ConversationRunProofs ------------------------
(***************************************************************************)
(* Proofs about ConversationRun, for every value of its constants: any     *)
(* number of conversations, users, tasks, workers and instances, any lease *)
(* duration and any capacity.  First what a step of a known shape does to  *)
(* a conversation's client_message_ids and messages, then the life cycle   *)
(* of a run, the columns of its row and its task.                          *)
(***************************************************************************)
EXTENDS ConversationShapes, TLAPS

USE Zenon DEF NoRun

-----------------------------------------------------------------------------
(* A repeated send.                                                        *)

\* Every step keeps client_message_ids unique within a conversation.
LEMMA SendsNext ==
  ASSUME SendIsIdempotent, Shaped
  PROVE  SendIsIdempotent'
<1>1. ASSUME \A q \in Runs : Exists(q)' =>
               /\ Exists(q) /\ run'[q].conv = run[q].conv /\ run'[q].client = run[q].client
      PROVE  SendIsIdempotent'
  BY <1>1 DEF SendIsIdempotent
<1>2. CASE Rests
  BY <1>1, <1>2 DEF Rests, Same, Exists
<1>3. ASSUME NEW r \in Runs, Moves(r) \/ Answers(r) \/ Replies(r) PROVE SendIsIdempotent'
  <2>1. Touches(r)
    BY <1>3 DEF Moves, Answers, Replies, Says
  <2> QED BY <1>1, <2>1 DEF Touches, Exists
<1>4. ASSUME NEW r \in Runs, NEW c, NEW t, NEW m, Starts(r, c, t, m) PROVE SendIsIdempotent'
  <2>1. /\ \A q \in Runs : q # r => run'[q] = run[q]
        /\ run'[r].conv = c /\ run'[r].client = m
        /\ m # Nil => \A q \in Runs : ~(Exists(q) /\ run[q].conv = c /\ run[q].client = m)
    BY <1>4 DEF Starts, Inserts, Inserted, Sent
  <2> QED BY <2>1, SMT DEF SendIsIdempotent, Exists
<1>5. ASSUME NEW c \in Conversations, Removes(c) PROVE SendIsIdempotent'
  BY <1>1, <1>5 DEF Removes, Exists
<1> QED BY <1>2, <1>3, <1>4, <1>5 DEF Shaped

-----------------------------------------------------------------------------
(* The history of a conversation.                                          *)

\* The run a message of conversation c belongs to.
Of(c, i) == conv[c].msgs[i].run

\* Every message belongs to a run of its conversation, an answer to a
\* completed one.
MessagesBelong ==
  \A c \in Conversations : \A i \in DOMAIN conv[c].msgs :
    /\ Of(c, i) \in Runs /\ Exists(Of(c, i)) /\ run[Of(c, i)].conv = c
    /\ conv[c].msgs[i].role = "assistant" => run[Of(c, i)].status = "completed"

\* No run has two answers.
AnsweredOnce ==
  \A c \in Conversations : \A i, j \in DOMAIN conv[c].msgs :
    /\ conv[c].msgs[i].role = "assistant" /\ conv[c].msgs[j].role = "assistant"
    /\ Of(c, i) = Of(c, j)
    => i = j

\* A completed run has one.
CompletedAnswered ==
  \A r \in Runs : run[r].status = "completed" =>
    \E i \in DOMAIN conv[run[r].conv].msgs :
      Of(run[r].conv, i) = r /\ conv[run[r].conv].msgs[i].role = "assistant"

\* A run's input is a message of its own.
InputsPosted ==
  \A r \in Runs : Exists(r) =>
    /\ run[r].input \in DOMAIN conv[run[r].conv].msgs
    /\ Of(run[r].conv, run[r].input) = r

\* Since the active run's first message no other foreground run spoke.
ActiveIsLatest ==
  \A c \in Conversations : \A i, j \in DOMAIN conv[c].msgs :
    conv[c].active # NoRun /\ i < j /\ Of(c, i) = conv[c].active /\ ~Background(Of(c, j))
      => Of(c, j) = conv[c].active

History ==
  /\ MessagesBelong /\ AnsweredOnce /\ CompletedAnswered /\ InputsPosted
  /\ ActiveIsLatest /\ ForegroundTurnsDoNotInterleave

\* The messages are numbered from 1.
LEMMA Numbered ==
  ASSUME Sound, NEW c \in Conversations
  PROVE  /\ LastSeq(c) \in Nat /\ DOMAIN conv[c].msgs = 1..LastSeq(c)
         /\ \A i \in DOMAIN conv[c].msgs : Of(c, i) \in Runs
<1> DEFINE s == conv[c].msgs
<1>1. s \in Seq(Messages)
  BY DEF Sound, TypeOK, ConvRows
<1> HIDE DEF s
<1>2. Len(s) \in Nat /\ DOMAIN s = 1..Len(s) /\ \A i \in DOMAIN s : s[i] \in Messages
  BY <1>1, SMT
<1>3. \A message \in Messages : message.run \in Runs
  BY DEF Messages
<1> QED BY <1>2, <1>3 DEF s, LastSeq, Of

\* A message more.
LEMMA PostedNumbered ==
  ASSUME Sound, NEW c \in Conversations, NEW message
  PROVE  LET n == LastSeq(c)
             new == Append(conv[c].msgs, message) IN
         /\ DOMAIN new = 1..(n + 1)
         /\ \A i \in 1..n : new[i] = conv[c].msgs[i]
         /\ new[n + 1] = message
BY SMT DEF Sound, TypeOK, ConvRows, LastSeq

\* No message is posted, and no run is created, moved or completed; at most a
\* foreground run that is still the latest gets the conversation.
LEMMA HistoryQuiet ==
  ASSUME Sound, History, Unposted,
         \A q \in Runs : Exists(q)' <=> Exists(q),
         \A q \in Runs : Exists(q) =>
           /\ run'[q].conv = run[q].conv /\ run'[q].task = run[q].task
           /\ run'[q].input = run[q].input
           /\ run'[q].status = "completed" <=> run[q].status = "completed",
         \A d \in Conversations :
           \/ conv'[d].active \in {NoRun, conv[d].active}
           \/ LET r == conv'[d].active IN
              r \in Runs /\ Exists(r) /\ run[r].conv = d /\ StillLatest(r) /\ ~Background(r)
  PROVE  History'
<1>1. \A c \in Conversations : conv'[c].msgs = conv[c].msgs
  BY DEF Unposted
<1>2. ASSUME NEW c \in Conversations, NEW i \in DOMAIN conv[c].msgs
      PROVE  /\ Of(c, i) \in Runs /\ Exists(Of(c, i)) /\ run[Of(c, i)].conv = c
             /\ run'[Of(c, i)].task = run[Of(c, i)].task
  BY DEF History, MessagesBelong
<1>3. MessagesBelong'
  <2> SUFFICES ASSUME NEW c \in Conversations, NEW i \in DOMAIN conv'[c].msgs
               PROVE  /\ Of(c, i)' \in Runs /\ Exists(Of(c, i))' /\ run'[Of(c, i)'].conv = c
                      /\ conv'[c].msgs[i].role = "assistant" => run'[Of(c, i)'].status = "completed"
    BY DEF MessagesBelong
  <2>1. i \in DOMAIN conv[c].msgs /\ conv'[c].msgs[i] = conv[c].msgs[i] /\ Of(c, i)' = Of(c, i)
    BY <1>1 DEF Of
  <2>2. conv[c].msgs[i].role = "assistant" => run[Of(c, i)].status = "completed"
    BY <2>1 DEF History, MessagesBelong
  <2>3. PICK q \in Runs : q = Of(c, i) /\ Exists(q) /\ run[q].conv = c
    BY <1>2, <2>1
  <2>4. Exists(q)' /\ run'[q].conv = c
    BY <2>3
  <2>5. conv[c].msgs[i].role = "assistant" => run'[q].status = "completed"
    BY <2>2, <2>3
  <2> QED BY <2>1, <2>3, <2>4, <2>5 DEF Exists
<1>4. AnsweredOnce'
  <2> SUFFICES ASSUME NEW d \in Conversations, NEW i \in DOMAIN conv'[d].msgs,
                      NEW j \in DOMAIN conv'[d].msgs,
                      conv'[d].msgs[i].role = "assistant", conv'[d].msgs[j].role = "assistant",
                      conv'[d].msgs[i].run = conv'[d].msgs[j].run
               PROVE  i = j
    BY DEF AnsweredOnce, Of
  <2>1. conv'[d].msgs = conv[d].msgs
    BY <1>1
  <2>2. /\ i \in DOMAIN conv[d].msgs /\ j \in DOMAIN conv[d].msgs
        /\ conv[d].msgs[i].role = "assistant" /\ conv[d].msgs[j].role = "assistant"
        /\ Of(d, i) = Of(d, j)
    BY <2>1 DEF Of
  <2> QED BY <2>2 DEF History, AnsweredOnce
<1>5. CompletedAnswered'
  <2>1. ASSUME NEW r \in Runs, run'[r].status = "completed"
        PROVE  run[r].status = "completed" /\ run'[r].conv = run[r].conv /\ run[r].conv \in Conversations
    BY <2>1 DEF Exists, Sound, RunsBelong
  <2>2. ASSUME NEW r \in Runs, run'[r].status = "completed"
        PROVE  \E i \in DOMAIN conv'[run'[r].conv].msgs :
                 conv'[run'[r].conv].msgs[i].run = r /\ conv'[run'[r].conv].msgs[i].role = "assistant"
    <3>1. run[r].status = "completed" /\ conv'[run'[r].conv].msgs = conv[run[r].conv].msgs
      BY <1>1, <2>1, <2>2
    <3>2. PICK i \in DOMAIN conv[run[r].conv].msgs :
            Of(run[r].conv, i) = r /\ conv[run[r].conv].msgs[i].role = "assistant"
      BY <3>1 DEF History, CompletedAnswered
    <3> QED BY <3>1, <3>2 DEF Of
  <2> QED BY <2>2 DEF CompletedAnswered, Of
<1>6. InputsPosted'
  <2>1. ASSUME NEW r \in Runs, Exists(r)'
        PROVE  /\ Exists(r) /\ run'[r].conv = run[r].conv /\ run[r].conv \in Conversations
               /\ run'[r].input = run[r].input
    BY <2>1 DEF Sound, RunsBelong
  <2>2. ASSUME NEW r \in Runs, Exists(r)'
        PROVE  /\ run'[r].input \in DOMAIN conv'[run'[r].conv].msgs
               /\ conv'[run'[r].conv].msgs[run'[r].input].run = r
    <3>1. /\ Exists(r) /\ run'[r].input = run[r].input
          /\ conv'[run'[r].conv].msgs = conv[run[r].conv].msgs
      BY <1>1, <2>1, <2>2
    <3>2. run[r].input \in DOMAIN conv[run[r].conv].msgs /\ Of(run[r].conv, run[r].input) = r
      BY <3>1 DEF History, InputsPosted
    <3> QED BY <3>1, <3>2 DEF Of
  <2> QED BY <2>2 DEF InputsPosted, Of
<1>7. ForegroundTurnsDoNotInterleave'
  <2> SUFFICES ASSUME NEW d \in Conversations, NEW i \in DOMAIN conv'[d].msgs,
                      NEW j \in DOMAIN conv'[d].msgs, NEW k \in DOMAIN conv'[d].msgs,
                      i < j, j < k,
                      conv'[d].msgs[i].run = conv'[d].msgs[k].run,
                      run'[conv'[d].msgs[i].run].task = Nil,
                      run'[conv'[d].msgs[j].run].task = Nil
               PROVE  conv'[d].msgs[j].run = conv'[d].msgs[i].run
    BY DEF ForegroundTurnsDoNotInterleave, Background
  <2>1. conv'[d].msgs = conv[d].msgs
    BY <1>1
  <2>2. /\ i \in DOMAIN conv[d].msgs /\ j \in DOMAIN conv[d].msgs /\ k \in DOMAIN conv[d].msgs
        /\ ~Background(Of(d, i)) /\ ~Background(Of(d, j)) /\ Of(d, i) = Of(d, k)
    <3>1. i \in DOMAIN conv[d].msgs /\ j \in DOMAIN conv[d].msgs /\ k \in DOMAIN conv[d].msgs
      BY <2>1
    <3>2. Of(d, i) = conv'[d].msgs[i].run /\ Of(d, j) = conv'[d].msgs[j].run /\ Of(d, i) = Of(d, k)
      BY <2>1 DEF Of
    <3>3. run'[Of(d, i)].task = run[Of(d, i)].task /\ run'[Of(d, j)].task = run[Of(d, j)].task
      BY <1>2, <3>1
    <3>4. run'[Of(d, i)].task = Nil /\ run'[Of(d, j)].task = Nil
      BY <3>2
    <3> QED BY <3>1, <3>2, <3>3, <3>4 DEF Background
  <2>3. Of(d, j) = Of(d, i)
    BY <2>2 DEF History, ForegroundTurnsDoNotInterleave, Of
  <2> QED BY <2>1, <2>3 DEF Of
<1>8. ActiveIsLatest'
  <2> SUFFICES ASSUME NEW c \in Conversations, NEW i \in DOMAIN conv[c].msgs,
                      NEW j \in DOMAIN conv[c].msgs,
                      conv'[c].active # NoRun, i < j, Of(c, i) = conv'[c].active,
                      ~Background(Of(c, j))
               PROVE  Of(c, j) = conv'[c].active
    <3> SUFFICES ASSUME NEW c \in Conversations, NEW i \in DOMAIN conv'[c].msgs,
                        NEW j \in DOMAIN conv'[c].msgs,
                        conv'[c].active # NoRun, i < j, Of(c, i)' = conv'[c].active,
                        ~Background(Of(c, j))'
                 PROVE  Of(c, j)' = conv'[c].active
      BY DEF ActiveIsLatest
    <3>1. /\ i \in DOMAIN conv[c].msgs /\ j \in DOMAIN conv[c].msgs
          /\ Of(c, i)' = Of(c, i) /\ Of(c, j)' = Of(c, j)
      BY <1>1 DEF Of
    <3>2. PICK q \in Runs : q = Of(c, j) /\ Exists(q)
      BY <1>2, <3>1
    <3>3. ~Background(Of(c, j))
      BY <1>2, <3>1, <3>2 DEF Background
    <3> QED BY <3>1, <3>3
  <2>1. CASE conv'[c].active = conv[c].active
    BY <2>1, SMT DEF History, ActiveIsLatest
  <2>2. CASE conv'[c].active \notin {NoRun, conv[c].active}
    <3> DEFINE r == conv'[c].active
               n == LastSeq(c)
    <3>1. r \in Runs /\ Exists(r) /\ run[r].conv = c /\ StillLatest(r) /\ ~Background(r)
      BY <2>2
    <3> HIDE DEF r
    <3>2. n = run[r].input /\ n \in DOMAIN conv[c].msgs /\ Of(c, n) = r
      BY <3>1, SMT DEF StillLatest, History, InputsPosted
    <3>3. j = n \/ j < n
      BY Numbered, SMT
    <3>4. CASE j < n
      <4>1. Of(c, i) = r /\ i \in DOMAIN conv[c].msgs /\ j \in DOMAIN conv[c].msgs
        BY DEF r
      <4>2. Of(c, i) = Of(c, n) /\ ~Background(Of(c, i))
        BY <3>1, <3>2, <4>1
      <4>3. Of(c, j) = Of(c, i)
        BY <3>2, <3>4, <4>1, <4>2 DEF History, ForegroundTurnsDoNotInterleave, Of
      <4> QED BY <4>1, <4>3 DEF r
    <3> QED BY <3>2, <3>3, <3>4 DEF r
  <2> QED BY <2>1, <2>2
<1> QED BY <1>3, <1>4, <1>5, <1>6, <1>7, <1>8 DEF History

\* Run r, new or having its turn, posts a message in conversation c.
LEMMA HistoryPost ==
  ASSUME Sound, History, NEW r \in Runs, NEW c \in Conversations, NEW role, NEW by,
         Messaged(c, Append(conv[c].msgs, Message(r, role, by))),
         \A q \in Runs : q # r => run'[q] = run[q],
         Exists(r)', run'[r].conv = c,
         \/ run[r].status = "none"
         \/ /\ Exists(r) /\ run[r].status # "completed"
            /\ run[r].conv = c /\ run'[r].task = run[r].task,
         role = "assistant" <=> run'[r].status = "completed",
         \/ run'[r].input = LastSeq(c) + 1
         \/ Exists(r) /\ run'[r].input = run[r].input,
         \/ run'[r].task # Nil
         \/ conv[c].active = r
         \/ run[r].status = "none" /\ conv[c].active = NoRun,
         \A d \in Conversations :
           \/ conv'[d].active \in {NoRun, conv[d].active}
           \/ d = c /\ conv'[d].active = r /\ run[r].status = "none"
  PROVE  History'
<1> DEFINE n == LastSeq(c)
           message == Message(r, role, by)
           new == Append(conv[c].msgs, message)
<1>1. /\ n \in Nat /\ DOMAIN conv[c].msgs = 1..n
      /\ DOMAIN new = 1..(n + 1)
      /\ \A i \in 1..n : new[i] = conv[c].msgs[i]
      /\ new[n + 1] = message
  BY Numbered, PostedNumbered, SMT
<1>2. message.run = r /\ message.role = role
  BY DEF Message
<1>3. /\ conv'[c].msgs = new
      /\ \A d \in Conversations : d # c => conv'[d].msgs = conv[d].msgs
  BY DEF Messaged
<1> HIDE DEF new, message, n
\* Messages that were there: their run is as it was, or is r.
<1>4. ASSUME NEW d \in Conversations, NEW i \in DOMAIN conv[d].msgs
      PROVE  LET q == Of(d, i) IN
             /\ i \in DOMAIN conv'[d].msgs /\ conv'[d].msgs[i] = conv[d].msgs[i]
             /\ q \in Runs /\ Exists(q) /\ run[q].conv = d
             /\ q = r => d = c /\ run[r].status \notin {"none", "completed"}
             /\ q # r => run'[q] = run[q]
             /\ run'[q].task = run[q].task
  <2>1. Of(d, i) \in Runs /\ Exists(Of(d, i)) /\ run[Of(d, i)].conv = d
    BY DEF History, MessagesBelong
  <2>2. i \in DOMAIN conv'[d].msgs /\ conv'[d].msgs[i] = conv[d].msgs[i]
    BY <1>1, <1>3, SMT
  <2> QED BY <2>1, <2>2 DEF Exists
\* Messages that are there now: an old one, or the new one.
<1>5. ASSUME NEW d \in Conversations, NEW i \in DOMAIN conv'[d].msgs
      PROVE  \/ i \in DOMAIN conv[d].msgs
             \/ d = c /\ i = n + 1 /\ conv'[d].msgs[i] = message
  BY <1>1, <1>3, SMT
<1>6. MessagesBelong'
  <2> SUFFICES ASSUME NEW d \in Conversations, NEW i \in DOMAIN conv'[d].msgs
               PROVE  LET m == conv'[d].msgs[i] IN
                      /\ m.run \in Runs /\ run'[m.run].status \notin {"none", "deleted"}
                      /\ run'[m.run].conv = d
                      /\ m.role = "assistant" => run'[m.run].status = "completed"
    BY DEF MessagesBelong, Of, Exists
  <2>1. CASE i \in DOMAIN conv[d].msgs
    <3>1. conv[d].msgs[i].role = "assistant" => run[Of(d, i)].status = "completed"
      BY <2>1 DEF History, MessagesBelong
    <3>2. /\ conv'[d].msgs[i] = conv[d].msgs[i]
          /\ Of(d, i) \in Runs /\ Exists(Of(d, i)) /\ run[Of(d, i)].conv = d
          /\ Of(d, i) = r => d = c /\ run[r].status # "completed"
          /\ Of(d, i) # r => run'[Of(d, i)] = run[Of(d, i)]
      BY <1>4, <2>1
    <3> QED BY <3>1, <3>2 DEF Of, Exists
  <2>2. CASE d = c /\ conv'[d].msgs[i] = message
    BY <1>2, <2>2 DEF Exists
  <2> QED BY <1>5, <2>1, <2>2
<1>7. AnsweredOnce'
  <2> SUFFICES ASSUME NEW d \in Conversations, NEW i \in DOMAIN conv'[d].msgs,
                      NEW j \in DOMAIN conv'[d].msgs,
                      conv'[d].msgs[i].role = "assistant", conv'[d].msgs[j].role = "assistant",
                      conv'[d].msgs[i].run = conv'[d].msgs[j].run
               PROVE  i = j
    BY DEF AnsweredOnce, Of
  <2>1. ASSUME NEW k \in DOMAIN conv[d].msgs, conv'[d].msgs[k].role = "assistant"
        PROVE  conv'[d].msgs[k].run # r
    <3>1. conv[d].msgs[k].role = "assistant" => run[Of(d, k)].status = "completed"
      BY DEF History, MessagesBelong
    <3>2. conv'[d].msgs[k] = conv[d].msgs[k] /\ (Of(d, k) = r => run[r].status # "completed")
      BY <1>4
    <3> QED BY <2>1, <3>1, <3>2 DEF Of
  <2>2. CASE i \in DOMAIN conv[d].msgs /\ j \in DOMAIN conv[d].msgs
    <3>1. conv'[d].msgs[i] = conv[d].msgs[i] /\ conv'[d].msgs[j] = conv[d].msgs[j]
      BY <1>4, <2>2
    <3> QED BY <2>2, <3>1 DEF History, AnsweredOnce, Of
  <2> QED BY <1>2, <1>5, <2>1, <2>2
<1>8. CompletedAnswered'
  <2> SUFFICES ASSUME NEW q \in Runs, run'[q].status = "completed"
               PROVE  \E i \in DOMAIN conv'[run'[q].conv].msgs :
                        LET m == conv'[run'[q].conv].msgs[i] IN
                        m.run = q /\ m.role = "assistant"
    BY DEF CompletedAnswered, Of
  <2>1. CASE q = r
    <3>1. n + 1 \in DOMAIN conv'[c].msgs /\ conv'[c].msgs[n + 1] = message
      BY <1>1, <1>3, SMT
    <3> QED BY <1>2, <2>1, <3>1
  <2>2. CASE q # r
    <3>1. run'[q] = run[q] /\ run[q].conv \in Conversations
      BY <2>2 DEF Sound, RunsBelong, Exists
    <3>2. PICK i \in DOMAIN conv[run[q].conv].msgs :
             Of(run[q].conv, i) = q /\ conv[run[q].conv].msgs[i].role = "assistant"
      BY <3>1 DEF History, CompletedAnswered
    <3>3. i \in DOMAIN conv'[run[q].conv].msgs /\ conv'[run[q].conv].msgs[i] = conv[run[q].conv].msgs[i]
      BY <1>4, <3>1, <3>2
    <3> QED BY <3>1, <3>2, <3>3 DEF Of
  <2> QED BY <2>1, <2>2
<1>9. InputsPosted'
  <2> SUFFICES ASSUME NEW q \in Runs, run'[q].status \notin {"none", "deleted"}
               PROVE  /\ run'[q].input \in DOMAIN conv'[run'[q].conv].msgs
                      /\ conv'[run'[q].conv].msgs[run'[q].input].run = q
    BY DEF InputsPosted, Of, Exists
  <2>1. CASE q = r /\ run'[r].input = n + 1
    BY <1>1, <1>2, <1>3, <2>1, SMT
  <2>2. CASE Exists(q) /\ run'[q].input = run[q].input /\ run'[q].conv = run[q].conv
    <3>1. run[q].conv \in Conversations /\ run[q].input \in DOMAIN conv[run[q].conv].msgs
          /\ Of(run[q].conv, run[q].input) = q
      BY <2>2 DEF History, InputsPosted, Sound, RunsBelong
    <3> DEFINE d == run[q].conv
               i == run[q].input
    <3>2. i \in DOMAIN conv'[d].msgs /\ conv'[d].msgs[i] = conv[d].msgs[i]
      BY <1>4, <3>1
    <3> QED BY <2>2, <3>1, <3>2 DEF Of
  <2> QED BY <2>1, <2>2 DEF Exists, n
<1>10. ActiveIsLatest'
  <2> SUFFICES ASSUME NEW d \in Conversations, NEW i \in DOMAIN conv'[d].msgs,
                      NEW j \in DOMAIN conv'[d].msgs,
                      conv'[d].active # NoRun, i < j,
                      conv'[d].msgs[i].run = conv'[d].active,
                      run'[conv'[d].msgs[j].run].task = Nil
               PROVE  conv'[d].msgs[j].run = conv'[d].active
    BY DEF ActiveIsLatest, Of, Background
  <2>1. i \in DOMAIN conv[d].msgs
    BY <1>1, <1>3, <1>5, SMT
  <2>2. conv'[d].active = conv[d].active
    BY <1>4, <2>1, ZenonT(60) DEF Of
  <2>3. CASE j \in DOMAIN conv[d].msgs
    <3>1. ASSUME NEW a \in DOMAIN conv[d].msgs
          PROVE  conv'[d].msgs[a].run = Of(d, a) /\ run'[Of(d, a)].task = run[Of(d, a)].task
      BY <1>4 DEF Of
    <3>2. /\ Of(d, i) = conv[d].active /\ ~Background(Of(d, j))
          /\ conv'[d].msgs[j].run = Of(d, j)
      BY <2>1, <2>2, <2>3, <3>1 DEF Background
    <3>3. Of(d, j) = conv[d].active
      BY <2>1, <2>2, <2>3, <3>2 DEF History, ActiveIsLatest
    <3> QED BY <2>2, <3>2, <3>3
  <2>4. CASE d = c /\ conv'[d].msgs[j] = message
    BY <1>2, <2>2, <2>4
  <2> QED BY <1>5, <2>3, <2>4
<1>11. ForegroundTurnsDoNotInterleave'
  <2> SUFFICES ASSUME NEW d \in Conversations, NEW i \in DOMAIN conv'[d].msgs,
                      NEW j \in DOMAIN conv'[d].msgs, NEW k \in DOMAIN conv'[d].msgs,
                      i < j, j < k,
                      conv'[d].msgs[i].run = conv'[d].msgs[k].run,
                      run'[conv'[d].msgs[i].run].task = Nil,
                      run'[conv'[d].msgs[j].run].task = Nil
               PROVE  conv'[d].msgs[j].run = conv'[d].msgs[i].run
    BY DEF ForegroundTurnsDoNotInterleave, Of, Background
  <2>1. i \in DOMAIN conv[d].msgs /\ j \in DOMAIN conv[d].msgs
    BY <1>1, <1>3, <1>5, SMT
  <2>2. CASE k \in DOMAIN conv[d].msgs
    <3>a. /\ conv'[d].msgs[i].run = Of(d, i) /\ conv'[d].msgs[j].run = Of(d, j)
          /\ conv'[d].msgs[k].run = Of(d, k)
          /\ run'[Of(d, i)].task = run[Of(d, i)].task
          /\ run'[Of(d, j)].task = run[Of(d, j)].task
      <4>1. ASSUME NEW a \in DOMAIN conv[d].msgs
            PROVE  conv'[d].msgs[a].run = Of(d, a) /\ run'[Of(d, a)].task = run[Of(d, a)].task
        BY <1>4 DEF Of
      <4> QED BY <2>1, <2>2, <4>1
    <3>1. /\ Of(d, i) = Of(d, k) /\ ~Background(Of(d, i)) /\ ~Background(Of(d, j))
          /\ conv'[d].msgs[i].run = Of(d, i) /\ conv'[d].msgs[j].run = Of(d, j)
      BY <3>a DEF Background
    <3>2. Of(d, j) = Of(d, i)
      BY <2>1, <2>2, <3>1 DEF History, ForegroundTurnsDoNotInterleave, Of
    <3> QED BY <3>1, <3>2
  <2>3. CASE d = c /\ conv'[d].msgs[k] = message
    <3>a. ASSUME NEW a \in DOMAIN conv[c].msgs
          PROVE  conv'[c].msgs[a].run = Of(c, a) /\ run'[Of(c, a)].task = run[Of(c, a)].task
      BY <1>4 DEF Of
    <3>1. Of(c, i) = r /\ conv[c].active = r
      <4>1. Of(c, i) = r
        BY <1>2, <2>1, <2>3, <3>a
      <4>2. run[r].status \notin {"none", "completed"}
        BY <1>4, <2>1, <2>3, <4>1
      <4>3. run'[r].task = Nil
        BY <2>1, <2>3, <3>a, <4>1
      <4> QED BY <4>1, <4>2, <4>3
    <3>2. r # NoRun
      BY SMT DEF Runs
    <3>3. ~Background(Of(c, j)) /\ conv'[c].msgs[j].run = Of(c, j) /\ conv'[c].msgs[i].run = Of(c, i)
      BY <2>1, <2>3, <3>a DEF Background
    <3>4. Of(c, j) = r
      <4>1. i \in DOMAIN conv[c].msgs /\ j \in DOMAIN conv[c].msgs /\ conv[c].active # NoRun
            /\ Of(c, i) = conv[c].active
        BY <2>1, <2>3, <3>1, <3>2
      <4> QED BY <3>1, <3>3, <4>1 DEF History, ActiveIsLatest
    <3> QED BY <2>3, <3>1, <3>3, <3>4
  <2> QED BY <1>5, <2>2, <2>3
<1> QED BY <1>6, <1>7, <1>8, <1>9, <1>10, <1>11 DEF History

\* A deletion removes a conversation's messages together with its runs.
LEMMA HistoryRemove ==
  ASSUME Sound, History, NEW c \in Conversations, Removes(c), Messaged(c, <<>>)
  PROVE  History'
<1>1. /\ conv'[c].msgs = <<>> /\ DOMAIN conv'[c].msgs = {} /\ conv'[c].active = NoRun
      /\ \A d \in Conversations : d # c => conv'[d] = conv[d]
  BY SMT DEF Messaged, Removes
<1>2. \A q \in Runs : Exists(q)' => Exists(q) /\ run[q].conv # c /\ run'[q] = run[q]
  BY DEF Removes, Exists
<1>3. ASSUME NEW d \in Conversations, d # c, NEW i \in DOMAIN conv[d].msgs
      PROVE  /\ Of(d, i) \in Runs /\ Exists(Of(d, i)) /\ run[Of(d, i)].conv = d
             /\ run'[Of(d, i)] = run[Of(d, i)]
  <2>1. Of(d, i) \in Runs /\ Exists(Of(d, i)) /\ run[Of(d, i)].conv = d
    BY DEF History, MessagesBelong
  <2> QED BY <1>3, <2>1 DEF Removes
<1>4. MessagesBelong'
  <2> SUFFICES ASSUME NEW d \in Conversations, NEW i \in DOMAIN conv'[d].msgs
               PROVE  /\ Of(d, i)' \in Runs /\ Exists(Of(d, i))' /\ run'[Of(d, i)'].conv = d
                      /\ conv'[d].msgs[i].role = "assistant" => run'[Of(d, i)'].status = "completed"
    BY DEF MessagesBelong
  <2>1. d # c /\ conv'[d] = conv[d]
    BY <1>1
  <2>2. conv[d].msgs[i].role = "assistant" => run[Of(d, i)].status = "completed"
    BY <2>1 DEF History, MessagesBelong
  <2>3. Of(d, i) \in Runs /\ Exists(Of(d, i)) /\ run[Of(d, i)].conv = d
        /\ run'[Of(d, i)] = run[Of(d, i)]
    BY <1>3, <2>1
  <2> QED BY <2>1, <2>2, <2>3 DEF Of, Exists
<1>5. AnsweredOnce'
  BY <1>1 DEF History, AnsweredOnce, Of
<1>6. CompletedAnswered'
  <2>1. ASSUME NEW q \in Runs, run'[q].status = "completed"
        PROVE  run'[q] = run[q] /\ run[q].conv \in Conversations /\ run[q].conv # c
    <3>1. Exists(q)'
      BY <2>1 DEF Exists
    <3> QED BY <1>2, <3>1 DEF Sound, RunsBelong
  <2>2. ASSUME NEW q \in Runs, run'[q].status = "completed"
        PROVE  \E i \in DOMAIN conv'[run'[q].conv].msgs :
                 conv'[run'[q].conv].msgs[i].run = q /\ conv'[run'[q].conv].msgs[i].role = "assistant"
    <3>1. run[q].status = "completed" /\ conv'[run'[q].conv] = conv[run[q].conv]
      BY <1>1, <2>1, <2>2
    <3>2. PICK i \in DOMAIN conv[run[q].conv].msgs :
            Of(run[q].conv, i) = q /\ conv[run[q].conv].msgs[i].role = "assistant"
      BY <3>1 DEF History, CompletedAnswered
    <3> QED BY <3>1, <3>2 DEF Of
  <2> QED BY <2>2 DEF CompletedAnswered, Of
<1>7. InputsPosted'
  <2>1. ASSUME NEW q \in Runs, Exists(q)'
        PROVE  Exists(q) /\ run'[q] = run[q] /\ run[q].conv \in Conversations /\ run[q].conv # c
    BY <1>2, <2>1 DEF Sound, RunsBelong
  <2>2. ASSUME NEW q \in Runs, Exists(q)'
        PROVE  /\ run'[q].input \in DOMAIN conv'[run'[q].conv].msgs
               /\ conv'[run'[q].conv].msgs[run'[q].input].run = q
    <3>1. Exists(q) /\ run'[q] = run[q] /\ conv'[run[q].conv] = conv[run[q].conv]
      BY <1>1, <2>1, <2>2
    <3> QED BY <3>1 DEF History, InputsPosted, Of
  <2> QED BY <2>2 DEF InputsPosted, Of
<1>8. ActiveIsLatest'
  <2> SUFFICES ASSUME NEW d \in Conversations, NEW i \in DOMAIN conv'[d].msgs,
                      NEW j \in DOMAIN conv'[d].msgs,
                      conv'[d].active # NoRun, i < j,
                      conv'[d].msgs[i].run = conv'[d].active,
                      run'[conv'[d].msgs[j].run].task = Nil
               PROVE  conv'[d].msgs[j].run = conv'[d].active
    BY DEF ActiveIsLatest, Of, Background
  <2>1. d # c /\ conv'[d] = conv[d]
    BY <1>1
  <2>2. run[Of(d, j)].task = Nil
    BY <1>3, <2>1, ZenonT(30) DEF Of
  <2> QED BY <2>1, <2>2 DEF History, ActiveIsLatest, Of, Background
<1>9. ForegroundTurnsDoNotInterleave'
  <2> SUFFICES ASSUME NEW d \in Conversations, NEW i \in DOMAIN conv'[d].msgs,
                      NEW j \in DOMAIN conv'[d].msgs, NEW k \in DOMAIN conv'[d].msgs,
                      i < j, j < k,
                      conv'[d].msgs[i].run = conv'[d].msgs[k].run,
                      run'[conv'[d].msgs[i].run].task = Nil,
                      run'[conv'[d].msgs[j].run].task = Nil
               PROVE  conv'[d].msgs[j].run = conv'[d].msgs[i].run
    BY DEF ForegroundTurnsDoNotInterleave, Background
  <2>1. d # c /\ conv'[d] = conv[d]
    BY <1>1
  <2>2. i \in DOMAIN conv[d].msgs /\ j \in DOMAIN conv[d].msgs /\ k \in DOMAIN conv[d].msgs
    BY <2>1
  <2>3. ASSUME NEW a \in DOMAIN conv[d].msgs
        PROVE  conv'[d].msgs[a].run = Of(d, a) /\ run'[Of(d, a)].task = run[Of(d, a)].task
    BY <1>3, <2>1 DEF Of
  <2>4. ~Background(Of(d, i)) /\ ~Background(Of(d, j)) /\ Of(d, i) = Of(d, k)
    BY <2>2, <2>3 DEF Background
  <2>5. Of(d, j) = Of(d, i)
    BY <2>2, <2>4 DEF History, ForegroundTurnsDoNotInterleave, Of
  <2> QED BY <2>2, <2>3, <2>5
<1> QED BY <1>4, <1>5, <1>6, <1>7, <1>8, <1>9 DEF History

\* Every step keeps the history in order.
LEMMA HistoryNext ==
  ASSUME Inv, History, Shaped
  PROVE  History'
<1>a. Sound
  BY DEF Inv
<1>1. CASE Rests
  <2>1. \A q \in Runs : /\ Exists(q)' <=> Exists(q)
                        /\ run'[q].conv = run[q].conv /\ run'[q].task = run[q].task
                        /\ run'[q].input = run[q].input
                        /\ run'[q].status = "completed" <=> run[q].status = "completed"
    BY <1>1 DEF Rests, Same, Exists
  <2>2. Unposted /\ \A d \in Conversations : conv'[d].active \in {NoRun, conv[d].active}
    BY <1>1 DEF Rests, NoneActivated
  <2> QED BY <1>a, <2>1, <2>2, HistoryQuiet
<1>2. ASSUME NEW r \in Runs, Moves(r) PROVE History'
  <2>1. \A q \in Runs : /\ Exists(q)' <=> Exists(q)
                        /\ run'[q].conv = run[q].conv /\ run'[q].task = run[q].task
                        /\ run'[q].input = run[q].input
                        /\ run'[q].status = "completed" <=> run[q].status = "completed"
    BY <1>2 DEF Moves, Touches, Exists
  <2>2. Unposted /\ Exists(r)
    BY <1>2 DEF Moves, Touches
  <2>3. ASSUME NEW d \in Conversations
        PROVE  \/ conv'[d].active \in {NoRun, conv[d].active}
               \/ LET q == conv'[d].active IN
                  q \in Runs /\ Exists(q) /\ run[q].conv = d /\ StillLatest(q) /\ ~Background(q)
    BY <1>2, <2>2 DEF Moves
  <2> QED BY <1>a, <2>1, <2>2, <2>3, HistoryQuiet
<1>3. ASSUME NEW r \in Runs, NEW role, NEW by, Says(r, role, by),
             role = "assistant" <=> run'[r].status = "completed",
             \/ run'[r].input = LastSeq(run[r].conv) + 1
             \/ run'[r].input = run[r].input
      PROVE  History'
  <2> DEFINE c == run[r].conv
  <2>1. /\ Exists(r) /\ run[r].status # "completed" /\ Exists(r)'
        /\ \A q \in Runs : q # r => run'[q] = run[q]
        /\ run'[r].conv = c /\ run'[r].task = run[r].task
    BY <1>3 DEF Says, Touches, Exists
  <2>2. c \in Conversations
    BY <1>a, <2>1 DEF Sound, RunsBelong
  <2>3. /\ Messaged(c, Append(conv[c].msgs, Message(r, role, by)))
        /\ run[r].task # Nil \/ conv[c].active = r
        /\ \A d \in Conversations : conv'[d].active \in {NoRun, conv[d].active}
    BY <1>3 DEF Says, NoneActivated, Superseded, Background
  <2> HIDE DEF c
  <2>4. \/ run'[r].input = LastSeq(c) + 1
        \/ run'[r].input = run[r].input
    BY <1>3 DEF c
  <2>5. run[r].conv = c
    BY DEF c
  <2> QED BY <1>a, <1>3, <2>1, <2>2, <2>3, <2>4, <2>5, HistoryPost
<1>4. ASSUME NEW r \in Runs, Answers(r) \/ Replies(r) PROVE History'
  <2>1. CASE Answers(r)
    BY <1>3, <2>1 DEF Answers
  <2>2. CASE Replies(r)
    BY <1>3, <2>2 DEF Replies
  <2> QED BY <1>4, <2>1, <2>2
<1>5. ASSUME NEW r \in Runs, NEW c, NEW t, NEW m, Starts(r, c, t, m) PROVE History'
  <2>1. /\ c \in Conversations /\ run[r].status = "none" /\ Exists(r)'
        /\ \A q \in Runs : q # r => run'[q] = run[q]
        /\ run'[r].conv = c /\ run'[r].status = "queued" /\ run'[r].input = LastSeq(c) + 1
        /\ conv[c].active = NoRun
        /\ Messaged(c, Append(conv[c].msgs, Message(r, "user", 0)))
    BY <1>5 DEF Starts, Inserts, Inserted, Exists
  <2>2. \A d \in Conversations :
           \/ conv'[d].active \in {NoRun, conv[d].active}
           \/ d = c /\ conv'[d].active = r /\ run[r].status = "none"
    BY <1>5, <2>1 DEF Starts
  <2> QED BY <1>a, <2>1, <2>2, HistoryPost, SMT
<1> QED BY <1>a, <1>1, <1>2, <1>4, <1>5, HistoryRemove DEF Shaped

-----------------------------------------------------------------------------
(* Row updates keep the row's type.                                        *)

\* The constant rows, and the rows a question puts into a run, are well typed.
LEMMA RowFacts ==
  /\ NoInteraction \in Interactions
  /\ NoRow \in RunRows
  /\ NoClaim \in Claims
  /\ \A kind \in Kinds : Pending(kind) \in Interactions /\ WaitStatus(kind) \in Waiting
BY ConversationRunConstants, SMT
   DEF NoInteraction, Interactions, NoRow, RunRows, NoClaim, Claims, Pending, Kinds,
       Closed, RunStatus, Open, Waiting, WaitStatus

\* No run is the null run.
LEMMA RunsExist == \A r \in Runs : r # NoRun
BY SMT DEF Runs

\* Setting columns of a run row to values of their types gives a run row: one
\* lemma for each group of columns some transaction writes together.  The
\* columns the safety proofs look at are unchanged in the first four.

\* Heartbeat's column: the lease.
LEMMA RowLease ==
  ASSUME NEW row \in RunRows, NEW lease \in 0..LeaseTTL
  PROVE  [row EXCEPT !.lease = lease] \in RunRows /\ Same([row EXCEPT !.lease = lease], row)
BY DEF RunRows, Same

\* AppendDelta's column: the draft.
LEMMA RowDraft ==
  ASSUME NEW row \in RunRows, NEW draft \in Seq(Nat)
  PROVE  [row EXCEPT !.draft = draft] \in RunRows /\ Same([row EXCEPT !.draft = draft], row)
BY DEF RunRows, Same

\* An interaction's columns.
LEMMA RowInter ==
  ASSUME NEW row \in RunRows, NEW inter \in Interactions
  PROVE  [row EXCEPT !.inter = inter] \in RunRows /\ Same([row EXCEPT !.inter = inter], row)
BY DEF RunRows, Same

\* The columns RespondExecution writes for an answer.
LEMMA RowAnswered ==
  ASSUME NEW row \in RunRows, NEW inter \in Interactions, NEW input \in Nat,
         NEW draft \in Seq(Nat)
  PROVE  LET new == [row EXCEPT !.inter = inter, !.input = input, !.draft = draft] IN
         new \in RunRows /\ Same(new, row)
BY DEF RunRows, Same

\* The columns Finish writes.
LEMMA RowEnded ==
  ASSUME NEW row \in RunRows, NEW status \in RunStatus, NEW owner \in Services \cup {Nil},
         NEW lease \in 0..LeaseTTL
  PROVE  [row EXCEPT !.status = status, !.owner = owner, !.lease = lease] \in RunRows
BY DEF RunRows

\* The columns a cancel, a resume or a wait writes.
LEMMA RowReleased ==
  ASSUME NEW row \in RunRows, NEW status \in RunStatus, NEW owner \in Services \cup {Nil},
         NEW lease \in 0..LeaseTTL, NEW fence \in Nat
  PROVE  [row EXCEPT !.status = status, !.owner = owner, !.lease = lease,
                     !.fence = fence] \in RunRows
BY DEF RunRows

\* The columns Claim writes.
LEMMA RowTaken ==
  ASSUME NEW row \in RunRows, NEW status \in RunStatus, NEW owner \in Services \cup {Nil},
         NEW lease \in 0..LeaseTTL, NEW fence \in Nat, NEW draft \in Seq(Nat)
  PROVE  [row EXCEPT !.status = status, !.owner = owner, !.lease = lease,
                     !.fence = fence, !.draft = draft] \in RunRows
BY DEF RunRows

\* The values the actions write into those columns have the columns' types.
LEMMA ColumnFacts ==
  ASSUME NEW row \in RunRows, NEW w \in Workers
  PROVE  /\ row.fence + 1 \in Nat
         /\ 0 \in 0..LeaseTTL /\ LeaseTTL \in 0..LeaseTTL
         /\ Nil \in Services \cup {Nil} /\ OwnerOf[w] \in Services \cup {Nil}
         /\ <<>> \in Seq(Nat)
         /\ "running" \in RunStatus
BY ConversationRunConstants, SMT DEF RunRows, RunStatus, Open

\* Releasing a row, for a wait, a cancellation, an expiry or a resume.
LEMMA ReleasedRow ==
  ASSUME NEW row \in RunRows, NEW status \in RunStatus
  PROVE  LET new == Released(row, status) IN
         /\ new \in RunRows
         /\ new.status = status /\ new.fence = row.fence + 1
         /\ new.conv = row.conv /\ new.task = row.task
<1>1. row.fence + 1 \in Nat /\ 0 \in 0..LeaseTTL
  BY ConversationRunConstants, SMT DEF RunRows
<1>2. Released(row, status) \in RunRows
  BY <1>1, RowReleased DEF Released
<1> QED BY <1>2 DEF Released, RunRows

\* Taking a row in Claim, and ending it in Finish.
LEMMA TakenRow ==
  ASSUME NEW row \in RunRows, NEW w \in Workers
  PROVE  LET new == Taken(row, w) IN
         /\ new \in RunRows
         /\ new.status = "running" /\ new.fence = row.fence + 1
         /\ new.conv = row.conv /\ new.task = row.task
<1>1. Taken(row, w) \in RunRows
  BY ColumnFacts, RowTaken, ZenonT(30) DEF Taken
<1> QED BY <1>1, SMTT(30) DEF Taken, RunRows

\* Ended writes a run row with the new status and the old fence.
LEMMA EndedRow ==
  ASSUME NEW row \in RunRows, NEW status \in RunStatus
  PROVE  LET new == Ended(row, status) IN
         /\ new \in RunRows
         /\ new.status = status /\ new.fence = row.fence
         /\ new.conv = row.conv /\ new.task = row.task
<1>1. 0 \in 0..LeaseTTL
  BY ConversationRunConstants, SMT
<1>2. Ended(row, status) \in RunRows
  BY <1>1, RowEnded DEF Ended
<1> QED BY <1>2 DEF Ended, RunRows

\* closeRunInteraction leaves an interaction.
LEMMA CloseType ==
  ASSUME NEW inter \in Interactions, NEW status \in {"resolved", "expired", "cancelled"}
  PROVE  CloseInteraction(inter, status) \in Interactions
BY SMTT(30) DEF CloseInteraction, Interactions, Closed

\* A row inserted by Enqueue or LaunchConversationTask.
LEMMA InsertedRow ==
  ASSUME TypeOK, NEW c \in Conversations, NEW t \in Tasks \cup {Nil},
         NEW m \in ClientIDs \cup {Nil}
  PROVE  LET new == QueuedRow(c, t, m) IN
         /\ new \in RunRows
         /\ new.status = "queued" /\ new.fence = 0 /\ new.conv = c /\ new.task = t
<1>1. LastSeq(c) + 1 \in Nat
  BY SMT DEF LastSeq, TypeOK, ConvRows
<1>2. ASSUME NEW n \in Nat
      PROVE  LET new == [NoRow EXCEPT !.conv = c, !.task = t, !.client = m,
                                      !.status = "queued", !.input = n] IN
             /\ new \in RunRows
             /\ new.status = "queued" /\ new.fence = 0 /\ new.conv = c /\ new.task = t
  BY ConversationRunConstants, RowFacts DEF NoRow, RunRows, RunStatus, Open
<1> QED BY <1>1, <1>2 DEF QueuedRow

\* A message appended to a conversation, by a send, an answer or a Finish.
LEMMA PostedRow ==
  ASSUME NEW row \in ConvRows, NEW r \in Runs, NEW role \in {"user", "assistant"},
         NEW by \in Nat
  PROVE  LET new == Post(row, Message(r, role, by)) IN
         new \in ConvRows /\ new.active = row.active /\ new.gone = row.gone
<1>1. Message(r, role, by) \in Messages
  BY DEF Message, Messages
<1>2. Append(row.msgs, Message(r, role, by)) \in Seq(Messages)
  BY <1>1, SMT DEF ConvRows
<1>3. ASSUME NEW s \in Seq(Messages)
      PROVE  LET new == [row EXCEPT !.msgs = s] IN
             new \in ConvRows /\ new.active = row.active /\ new.gone = row.gone
  BY DEF ConvRows
<1> QED BY <1>2, <1>3, SMTT(30) DEF Post

\* The conversation becomes busy with a run, or idle.
LEMMA ConvActive ==
  ASSUME NEW row \in ConvRows, NEW active \in Runs \cup {NoRun}
  PROVE  LET new == [row EXCEPT !.active = active] IN
         new \in ConvRows /\ new.active = active /\ new.gone = row.gone
BY DEF ConvRows

-----------------------------------------------------------------------------
(* Type correctness and ownership of runs.  TypeOK alone is not inductive: *)
(* an answer appends a message to the conversation its run row names, which *)
(* must be one that exists.                                                *)

\* The empty tables are sound.
LEMMA SoundInit == Init => Sound
<1> SUFFICES ASSUME Init PROVE Sound
  OBVIOUS
<1>1. TypeOK
  BY RowFacts, SMT DEF Init, TypeOK, ConvRows, TaskRows, TaskStatus
<1>2. RunsBelong
  BY DEF Init, RunsBelong, Exists, NoRow
<1> QED BY <1>1, <1>2 DEF Sound

\* finishConversationTask and resumeConversationTask keep the task's type.
LEMMA TypeFinishTask ==
  ASSUME TypeOK, NEW t \in Tasks \cup {Nil}, NEW r, NEW status \in Terminal,
         FinishTask(t, r, status)
  PROVE  task' \in [Tasks -> TaskRows]
BY SMT DEF FinishTask, TypeOK, TaskRows, TaskStatus, Terminal

\* resumeConversationTask leaves task rows.
LEMMA TypeResumeTask ==
  ASSUME TypeOK, NEW t \in Tasks \cup {Nil}, NEW r, ResumeTask(t, r)
  PROVE  task' \in [Tasks -> TaskRows]
BY SMT DEF ResumeTask, TypeOK, TaskRows, TaskStatus

\* A worker that passes the claimed check, or the check for a late receipt,
\* holds a run that exists.
LEMMA HeldRun ==
  ASSUME Sound, NEW w \in Workers, Claimed(w) \/ CancelledReceipt(w)
  PROVE  /\ claim[w].run \in Runs /\ Exists(claim[w].run)
         /\ run[claim[w].run] \in RunRows
         /\ run[claim[w].run].conv \in Conversations
         /\ run[claim[w].run].task \in Tasks \cup {Nil}
         /\ claim[w].fence \in Nat /\ claim[w].sent \in Nat
<1>1. claim[w].run \in Runs /\ Exists(claim[w].run)
  BY DEF Claimed, CancelledReceipt, Exists
<1>2. claim[w].fence \in Nat /\ claim[w].sent \in Nat
  BY DEF Sound, TypeOK, Claims
<1>3. run[claim[w].run] \in RunRows
  BY <1>1 DEF Sound, TypeOK
<1> QED BY <1>1, <1>2, <1>3 DEF Sound, RunsBelong, RunRows

-----------------------------------------------------------------------------
(* What each transaction does to the columns the safety proofs look at.    *)

\* Writing one row that fits the description is such a step.
LEMMA StepByRow ==
  ASSUME Sound, NEW r \in Runs, Exists(r), NEW row \in RunRows,
         row.conv = run[r].conv, row.task = run[r].task,
         row.fence \in {run[r].fence, run[r].fence + 1},
         run' = [run EXCEPT ![r] = row]
  PROVE  Step(r, row.status)
BY DEF Step, Sound, TypeOK

\* Writing one conversation row, its active run only, or none at all.
LEMMA ActiveByRow ==
  ASSUME Sound, NEW c \in Conversations, NEW row \in ConvRows, row.gone = conv[c].gone,
         conv' = [conv EXCEPT ![c] = row]
  PROVE  ActiveOnly(c, row.active)
BY DEF ActiveOnly, Sound, TypeOK

\* A conversation's row with another active run is a conversation row.
LEMMA ActiveRow ==
  ASSUME NEW row \in ConvRows, NEW active \in Runs \cup {NoRun}
  PROVE  /\ [row EXCEPT !.active = active] \in ConvRows
         /\ [row EXCEPT !.active = active].active = active
         /\ [row EXCEPT !.active = active].gone = row.gone
BY DEF ConvRows

\* Setting one conversation's active run changes no other one.
LEMMA ActiveBySet ==
  ASSUME Sound, NEW c \in Conversations, NEW active \in Runs \cup {NoRun},
         conv' = [conv EXCEPT ![c].active = active]
  PROVE  ActiveOnly(c, active)
<1> DEFINE row == [conv[c] EXCEPT !.active = active]
<1>1. conv[c] \in ConvRows
  BY DEF Sound, TypeOK
<1>2. row \in ConvRows /\ row.active = active /\ row.gone = conv[c].gone
  BY <1>1, ActiveRow
<1>3. conv' = [conv EXCEPT ![c] = row]
  OBVIOUS
<1> HIDE DEF row
<1> QED BY <1>2, <1>3, ActiveByRow

\* A step that leaves the conversations alone.
LEMMA ActiveSame ==
  ASSUME Sound, NEW c \in Conversations, conv' = conv
  PROVE  ActiveOnly(c, conv[c].active)
BY DEF ActiveOnly, Sound, TypeOK

\* Such a step keeps the rows sound.
LEMMA SoundByStep ==
  ASSUME Sound, NEW r \in Runs, NEW status, Step(r, status),
         NEW c, NEW active, ActiveOnly(c, active),
         task' \in [Tasks -> TaskRows], claim' \in [Workers -> Claims]
  PROVE  Sound'
<1>1. TypeOK'
  BY DEF TypeOK, Step, ActiveOnly
<1>2. ASSUME NEW q \in Runs, Exists(q)' PROVE Exists(q) /\ run'[q].conv = run[q].conv
  BY <1>2 DEF Exists, Step
<1>3. RunsBelong'
  BY <1>2 DEF RunsBelong, Sound, ActiveOnly
<1> QED BY <1>1, <1>3 DEF Sound

\* What Claim changes: one row becomes running under the next fence.
LEMMA ClaimDoes ==
  ASSUME Sound, NEW w \in Workers, Claim(w)
  PROVE  \E r \in Runs :
           /\ run[r].status \in {"queued", "running"}
           /\ Step(r, "running")
           /\ run'[r].fence = run[r].fence + 1
           /\ claim[w] = NoClaim
           /\ claim' = [claim EXCEPT ![w] = [run |-> r, fence |-> run[r].fence + 1, sent |-> 0]]
<1>1. PICK r \in Runs :
        /\ Candidate(r)
        /\ run' = [run EXCEPT ![r] = Taken(run[r], w)]
        /\ claim' = [claim EXCEPT ![w] = [run |-> r, fence |-> Taken(run[r], w).fence,
                                          sent |-> 0]]
  BY DEF Claim, Startable
<1>2. run[r].status \in {"queued", "running"} /\ Exists(r) /\ run[r] \in RunRows
  BY <1>1 DEF Candidate, Exists, Sound, TypeOK
<1>3. /\ Taken(run[r], w) \in RunRows
      /\ Taken(run[r], w).status = "running" /\ Taken(run[r], w).fence = run[r].fence + 1
      /\ Taken(run[r], w).conv = run[r].conv /\ Taken(run[r], w).task = run[r].task
  BY <1>2, TakenRow
<1>4. Step(r, "running")
  BY <1>1, <1>2, <1>3, StepByRow
<1>5. run'[r].fence = run[r].fence + 1
  BY <1>1, <1>3 DEF Sound, TypeOK
<1> QED BY <1>1, <1>2, <1>3, <1>4, <1>5 DEF Claim

\* Heartbeat changes a lease and nothing the safety proofs look at.
LEMMA HeartbeatDoes ==
  ASSUME Sound, NEW w \in Workers, Heartbeat(w)
  PROVE  claim[w].run \in Runs /\ Step(claim[w].run, run[claim[w].run].status)
<1> DEFINE r == claim[w].run
           row == [run[r] EXCEPT !.lease = LeaseTTL]
<1>1. Claimed(w) /\ run' = [run EXCEPT ![r] = row]
  BY DEF Heartbeat
<1>2. r \in Runs /\ Exists(r) /\ run[r] \in RunRows
  BY <1>1, HeldRun
<1>3. row \in RunRows /\ Same(row, run[r])
  BY <1>2, ColumnFacts, RowLease
<1> HIDE DEF row
<1> QED BY <1>1, <1>2, <1>3, StepByRow DEF Same

\* AppendDelta changes a draft and the worker's count of pieces.
LEMMA AppendDeltaDoes ==
  ASSUME Sound, NEW w \in Workers, AppendDelta(w)
  PROVE  /\ claim[w].run \in Runs /\ Step(claim[w].run, run[claim[w].run].status)
         /\ claim' \in [Workers -> Claims]
         /\ \A v \in Workers : claim'[v].run = claim[v].run /\ claim'[v].fence = claim[v].fence
<1> DEFINE r == claim[w].run
           row == [run[r] EXCEPT !.draft = Append(@, claim[w].fence)]
<1>1. /\ Claimed(w) /\ run' = [run EXCEPT ![r] = row]
      /\ claim' = [claim EXCEPT ![w].sent = @ + 1]
  BY DEF AppendDelta
<1>2. r \in Runs /\ Exists(r) /\ run[r] \in RunRows /\ claim[w].fence \in Nat
  BY <1>1, HeldRun
<1>3. Append(run[r].draft, claim[w].fence) \in Seq(Nat)
  BY <1>2, SMT DEF RunRows
<1>4. row \in RunRows /\ Same(row, run[r])
  BY <1>2, <1>3, RowDraft
<1> HIDE DEF row
<1>5. Step(r, run[r].status)
  BY <1>1, <1>2, <1>4, StepByRow DEF Same
<1>6. /\ claim' \in [Workers -> Claims]
      /\ \A v \in Workers : claim'[v].run = claim[v].run /\ claim'[v].fence = claim[v].fence
  BY <1>1, SMTT(30) DEF Sound, TypeOK, Claims
<1> QED BY <1>2, <1>5, <1>6

\* What Finish changes when the run completes.
LEMMA FinishCompletedDoes ==
  ASSUME Sound, NEW w \in Workers, FinishCompleted(w)
  PROVE  LET r == claim[w].run
             c == run[r].conv IN
         /\ r \in Runs /\ c \in Conversations /\ run[r].status = "running"
         /\ Step(r, "completed")
         /\ ActiveOnly(c, IF Background(r) THEN conv[c].active ELSE NoRun)
         /\ task' \in [Tasks -> TaskRows]
<1> DEFINE r == claim[w].run
           c == run[r].conv
           ended == Ended(run[r], "completed")
           row == [ended EXCEPT !.draft = <<>>]
           posted == Post(conv[c], Message(r, "assistant", claim[w].fence))
           crow == [posted EXCEPT !.active = IF Background(r) THEN @ ELSE NoRun]
<1>1. /\ Claimed(w) /\ run' = [run EXCEPT ![r] = row]
      /\ conv' = [conv EXCEPT ![c] = crow]
      /\ FinishTask(run[r].task, r, "completed")
  BY ZenonT(30) DEF FinishCompleted
<1>2. /\ r \in Runs /\ Exists(r) /\ run[r] \in RunRows /\ claim[w].fence \in Nat
      /\ c \in Conversations /\ run[r].task \in Tasks \cup {Nil}
  BY <1>1, HeldRun, ZenonT(30)
<1>3. run[r].status = "running"
  BY <1>1, ZenonT(30) DEF Claimed
<1>4. task' \in [Tasks -> TaskRows]
  BY <1>1, <1>2, TypeFinishTask DEF Sound, Terminal
<1>5. "completed" \in RunStatus /\ <<>> \in Seq(Nat)
  BY SMT DEF RunStatus, Terminal
<1>6. /\ ended \in RunRows /\ ended.status = "completed" /\ ended.fence = run[r].fence
      /\ ended.conv = run[r].conv /\ ended.task = run[r].task
  BY <1>2, <1>5, EndedRow
<1> HIDE DEF ended
<1>7. row \in RunRows /\ Same(row, ended)
  BY <1>5, <1>6, RowDraft
<1>8. posted \in ConvRows /\ posted.active = conv[c].active /\ posted.gone = conv[c].gone
  BY <1>2, PostedRow, SMTT(30) DEF Sound, TypeOK
<1> HIDE DEF row, posted
<1>9. (IF Background(r) THEN posted.active ELSE NoRun) \in Runs \cup {NoRun}
  BY <1>8 DEF ConvRows
<1>10. /\ crow \in ConvRows /\ crow.gone = conv[c].gone
       /\ crow.active = IF Background(r) THEN conv[c].active ELSE NoRun
  <2> DEFINE active == IF Background(r) THEN posted.active ELSE NoRun
  <2>1. crow = [posted EXCEPT !.active = active]
    OBVIOUS
  <2> HIDE DEF active, crow
  <2>2. crow \in ConvRows /\ crow.active = active /\ crow.gone = posted.gone
    BY <1>8, <1>9, <2>1, ConvActive DEF active
  <2> QED BY <1>8, <2>2 DEF active
<1> HIDE DEF crow
<1>11. Step(r, "completed")
  BY <1>1, <1>2, <1>6, <1>7, StepByRow DEF Same
<1>12. ActiveOnly(c, IF Background(r) THEN conv[c].active ELSE NoRun)
  BY <1>1, <1>2, <1>10, ActiveByRow, ZenonT(30)
<1> QED BY <1>2, <1>3, <1>4, <1>11, <1>12, ZenonT(30)

\* What Finish changes when the run fails.
LEMMA FinishFailedDoes ==
  ASSUME Sound, NEW w \in Workers, FinishFailed(w)
  PROVE  LET r == claim[w].run
             c == run[r].conv IN
         /\ r \in Runs /\ c \in Conversations /\ run[r].status = "running"
         /\ Step(r, "failed")
         /\ ActiveOnly(c, IF Background(r) THEN conv[c].active ELSE NoRun)
         /\ task' \in [Tasks -> TaskRows]
<1> DEFINE r == claim[w].run
           c == run[r].conv
           row == Ended(run[r], "failed")
<1>1. /\ Claimed(w) /\ run' = [run EXCEPT ![r] = row]
      /\ conv' = [conv EXCEPT ![c].active = IF Background(r) THEN @ ELSE NoRun]
      /\ FinishTask(run[r].task, r, "failed")
  BY SMTT(30) DEF FinishFailed
<1>2. /\ r \in Runs /\ Exists(r) /\ run[r] \in RunRows
      /\ c \in Conversations /\ run[r].task \in Tasks \cup {Nil}
  BY <1>1, HeldRun, ZenonT(30)
<1>3. run[r].status = "running"
  BY <1>1 DEF Claimed
<1>4. task' \in [Tasks -> TaskRows]
  BY <1>1, <1>2, TypeFinishTask DEF Sound, Terminal
<1>5. "failed" \in RunStatus
  BY DEF RunStatus, Terminal
<1>6. /\ row \in RunRows /\ row.status = "failed" /\ row.fence = run[r].fence
      /\ row.conv = run[r].conv /\ row.task = run[r].task
  BY <1>2, <1>5, EndedRow, SMTT(30)
<1> HIDE DEF row
<1>7. Step(r, "failed")
  BY <1>1, <1>2, <1>6, StepByRow
<1>8. ActiveOnly(c, IF Background(r) THEN conv[c].active ELSE NoRun)
  <2> DEFINE a == IF Background(r) THEN conv[c].active ELSE NoRun
  <2>1. a \in Runs \cup {NoRun}
    BY <1>2 DEF Sound, TypeOK, ConvRows
  <2>2. conv' = [conv EXCEPT ![c].active = a]
    BY <1>1
  <2> HIDE DEF a
  <2>3. ActiveOnly(c, a)
    BY <1>2, <2>1, <2>2, ActiveBySet
  <2> QED BY <2>3 DEF a
<1> QED BY <1>2, <1>3, <1>4, <1>7, <1>8, ZenonT(30)

\* WaitExecution parks the run under the next fence.
LEMMA WaitExecutionDoes ==
  ASSUME Sound, NEW w \in Workers, NEW kind \in Kinds, WaitExecution(w, kind)
  PROVE  LET r == claim[w].run IN
         r \in Runs /\ run[r].status = "running" /\ Step(r, WaitStatus(kind))
<1> DEFINE r == claim[w].run
           released == Released(run[r], WaitStatus(kind))
           row == [released EXCEPT !.inter = Pending(kind)]
<1>1. Claimed(w) /\ run' = [run EXCEPT ![r] = row]
  BY DEF WaitExecution
<1>2. r \in Runs /\ Exists(r) /\ run[r] \in RunRows
  BY <1>1, HeldRun
<1>3. WaitStatus(kind) \in RunStatus /\ Pending(kind) \in Interactions
  BY RowFacts DEF RunStatus, Open
<1>4. /\ released \in RunRows /\ released.status = WaitStatus(kind)
      /\ released.fence = run[r].fence + 1
      /\ released.conv = run[r].conv /\ released.task = run[r].task
  BY <1>2, <1>3, ReleasedRow
<1> HIDE DEF released
<1>5. row \in RunRows /\ Same(row, released)
  BY <1>3, <1>4, RowInter
<1> HIDE DEF row
<1>6. Step(r, WaitStatus(kind))
  BY <1>1, <1>2, <1>4, <1>5, StepByRow DEF Same
<1> QED BY <1>1, <1>2, <1>6 DEF Claimed

\* A receipt that resolves a reconciliation changes the interaction only.
LEMMA ResolveReconciliationDoes ==
  ASSUME Sound, NEW w \in Workers, ResolveReconciliation(w)
  PROVE  claim[w].run \in Runs /\ Step(claim[w].run, run[claim[w].run].status)
<1> DEFINE r == claim[w].run
           inter == CloseInteraction(run[r].inter, "resolved")
           row == [run[r] EXCEPT !.inter = inter]
<1>1. Claimed(w) \/ CancelledReceipt(w)
  BY DEF ResolveReconciliation
<1>2. run' = [run EXCEPT ![r] = row]
  BY DEF ResolveReconciliation
<1>3. r \in Runs /\ Exists(r) /\ run[r] \in RunRows
  BY <1>1, HeldRun
<1>4. inter \in Interactions
  BY <1>3, CloseType DEF RunRows
<1> HIDE DEF inter
<1>5. row \in RunRows /\ Same(row, run[r])
  BY <1>3, <1>4, RowInter
<1> HIDE DEF row
<1> QED BY <1>2, <1>3, <1>5, StepByRow DEF Same

\* The rows and columns of a run a caller acts on.
LEMMA CalledRun ==
  ASSUME Sound, NEW r \in Runs, Exists(r)
  PROVE  /\ run[r] \in RunRows /\ run[r].inter \in Interactions
         /\ run[r].conv \in Conversations /\ conv[run[r].conv] \in ConvRows
         /\ run[r].task \in Tasks \cup {Nil}
         /\ <<>> \in Seq(Nat)
         /\ "queued" \in RunStatus /\ "failed" \in RunStatus /\ "cancelled" \in RunStatus
BY SMT DEF Sound, TypeOK, RunsBelong, RunRows, RunStatus, Open, Terminal

\* ClearActive frees the conversation if the run had it.
LEMMA ClearActiveDoes ==
  ASSUME Sound, NEW c \in Conversations, NEW r, conv' = ClearActive(c, r)
  PROVE  ActiveOnly(c, IF conv[c].active = r THEN NoRun ELSE conv[c].active)
<1> DEFINE a == IF conv[c].active = r THEN NoRun ELSE conv[c].active
<1>1. a \in Runs \cup {NoRun}
  BY DEF Sound, TypeOK, ConvRows
<1>2. conv' = [conv EXCEPT ![c].active = a]
  BY DEF ClearActive
<1> HIDE DEF a
<1>3. ActiveOnly(c, a)
  BY <1>1, <1>2, ActiveBySet
<1> QED BY <1>3 DEF a

\* What RespondExecution changes, for an answer and for a rejection.
LEMMA RespondDoes ==
  ASSUME Sound, NEW r \in Runs, NEW decision \in Decisions, Respond(r, decision)
  PROVE  LET c == run[r].conv
             rejected == Outcome(run[r].inter.kind, decision) = "rejected" IN
         /\ run[r].status \in Waiting /\ c \in Conversations
         /\ Step(r, IF rejected THEN "cancelled" ELSE "queued")
         /\ ActiveOnly(c, IF rejected /\ conv[c].active = r THEN NoRun ELSE conv[c].active)
<1> DEFINE c == run[r].conv
           outcome == Outcome(run[r].inter.kind, decision)
           rejected == outcome = "rejected"
           status == IF rejected THEN "cancelled" ELSE "queued"
           released == Released(run[r], status)
           inter == [run[r].inter EXCEPT !.status = outcome]
           row == [released EXCEPT !.inter = inter, !.input = LastSeq(c) + 1, !.draft = <<>>]
           posted == Post(conv[c], Message(r, "user", 0))
           crow == [posted EXCEPT !.active = IF rejected /\ @ = r THEN NoRun ELSE @]
<1>1. /\ run[r].status \in Waiting
      /\ run' = [run EXCEPT ![r] = row]
      /\ conv' = [conv EXCEPT ![c] = crow]
  BY DEF Respond, AwaitsResponse
<1>2. Exists(r)
  BY <1>1 DEF Exists, Waiting
<1>3. /\ run[r] \in RunRows /\ run[r].inter \in Interactions /\ c \in Conversations
      /\ conv[c] \in ConvRows /\ <<>> \in Seq(Nat) /\ status \in RunStatus
  BY <1>2, CalledRun
<1>4. inter \in Interactions
  BY <1>3 DEF Interactions, Outcome, Closed
<1>5. LastSeq(c) + 1 \in Nat
  BY <1>3, SMT DEF LastSeq, ConvRows
<1>6. /\ released \in RunRows /\ released.status = status
      /\ released.fence = run[r].fence + 1
      /\ released.conv = run[r].conv /\ released.task = run[r].task
  BY <1>3, ReleasedRow
<1> HIDE DEF released, inter
<1>7. row \in RunRows /\ Same(row, released)
  BY <1>3, <1>4, <1>5, <1>6, RowAnswered
<1>8. posted \in ConvRows /\ posted.active = conv[c].active /\ posted.gone = conv[c].gone
  BY <1>3, PostedRow
<1> HIDE DEF row, posted, rejected
<1>9. (IF rejected /\ posted.active = r THEN NoRun ELSE posted.active) \in Runs \cup {NoRun}
  BY <1>8 DEF ConvRows
<1>10. /\ crow \in ConvRows /\ crow.gone = conv[c].gone
       /\ crow.active = IF rejected /\ conv[c].active = r THEN NoRun ELSE conv[c].active
  BY <1>8, <1>9, ConvActive, SMT
<1> HIDE DEF crow
<1>11. Step(r, status)
  BY <1>1, <1>2, <1>6, <1>7, StepByRow DEF Same
<1>12. ActiveOnly(c, IF rejected /\ conv[c].active = r THEN NoRun ELSE conv[c].active)
  BY <1>1, <1>3, <1>10, ActiveByRow
<1> QED BY <1>1, <1>3, <1>11, <1>12 DEF rejected

\* The passing of a deadline changes the interaction only.
LEMMA InteractionDueDoes ==
  ASSUME Sound, NEW r \in Runs, InteractionDue(r)
  PROVE  Step(r, run[r].status)
<1> DEFINE inter == [run[r].inter EXCEPT !.due = TRUE]
           row == [run[r] EXCEPT !.inter = inter]
<1>1. run[r].status \in Waiting /\ run' = [run EXCEPT ![r] = row]
  BY DEF InteractionDue, AwaitsResponse
<1>2. Exists(r)
  BY <1>1 DEF Exists, Waiting
<1>3. run[r] \in RunRows /\ inter \in Interactions
  BY <1>2, CalledRun DEF Interactions
<1> HIDE DEF inter
<1>4. row \in RunRows /\ Same(row, run[r])
  BY <1>3, RowInter
<1> HIDE DEF row
<1> QED BY <1>1, <1>2, <1>4, StepByRow DEF Same

\* Expiry and cancellation: the row is released and its question closed.
LEMMA ClosedRow ==
  ASSUME Sound, NEW r \in Runs, Exists(r), NEW status \in {"failed", "cancelled"},
         NEW how \in {"expired", "cancelled"},
         run' = [run EXCEPT ![r] = [Released(run[r], status) EXCEPT
                                      !.inter = CloseInteraction(@, how)]]
  PROVE  Step(r, status)
<1> DEFINE released == Released(run[r], status)
           inter == CloseInteraction(released.inter, how)
           row == [released EXCEPT !.inter = inter]
<1>1. run[r] \in RunRows /\ status \in RunStatus
  BY CalledRun
<1>2. /\ released \in RunRows /\ released.status = status
      /\ released.fence = run[r].fence + 1
      /\ released.conv = run[r].conv /\ released.task = run[r].task
  BY <1>1, ReleasedRow
<1>3. run' = [run EXCEPT ![r] = row]
  OBVIOUS
<1> HIDE DEF released
<1>4. inter \in Interactions
  BY <1>2, CloseType DEF RunRows
<1> HIDE DEF inter
<1>5. row \in RunRows /\ Same(row, released)
  BY <1>2, <1>4, RowInter
<1> HIDE DEF row
<1> QED BY <1>2, <1>3, <1>5, StepByRow DEF Same

\* expireInteraction fails the run and frees the conversation.
LEMMA ExpireInteractionDoes ==
  ASSUME Sound, NEW r \in Runs, ExpireInteraction(r)
  PROVE  LET c == run[r].conv IN
         /\ run[r].status \in Waiting /\ c \in Conversations
         /\ Step(r, "failed")
         /\ ActiveOnly(c, IF conv[c].active = r THEN NoRun ELSE conv[c].active)
<1>1. run[r].status \in Waiting /\ conv' = ClearActive(run[r].conv, r)
  BY DEF ExpireInteraction, AwaitsResponse
<1>2. Exists(r)
  BY <1>1 DEF Exists, Waiting
<1>3. Step(r, "failed")
  BY <1>2, ClosedRow DEF ExpireInteraction
<1> QED BY <1>1, <1>2, <1>3, CalledRun, ClearActiveDoes

\* transitionRun's cancel ends the run and frees the conversation.
LEMMA CancelDoes ==
  ASSUME Sound, NEW r \in Runs, Cancel(r)
  PROVE  LET c == run[r].conv IN
         /\ run[r].status \in Open /\ c \in Conversations
         /\ Step(r, "cancelled")
         /\ ActiveOnly(c, IF conv[c].active = r THEN NoRun ELSE conv[c].active)
         /\ task' \in [Tasks -> TaskRows]
<1>1. /\ run[r].status \in Open /\ conv' = ClearActive(run[r].conv, r)
      /\ FinishTask(run[r].task, r, "cancelled")
  BY DEF Cancel, Cancellable
<1>2. Exists(r)
  BY <1>1 DEF Exists, Open, Waiting
<1>3. Step(r, "cancelled")
  BY <1>2, ClosedRow DEF Cancel
<1>4. task' \in [Tasks -> TaskRows]
  BY <1>1, <1>2, CalledRun, TypeFinishTask DEF Sound, Terminal
<1> QED BY <1>1, <1>2, <1>3, <1>4, CalledRun, ClearActiveDoes

\* transitionRun's resume queues the run and takes the conversation back.
LEMMA ResumeDoes ==
  ASSUME Sound, NEW r \in Runs, Resume(r)
  PROVE  LET c == run[r].conv IN
         /\ run[r].status \in {"failed", "cancelled", "needs_reconciliation"}
         /\ c \in Conversations
         /\ Background(r) \/ conv[c].active \in {NoRun, r}
         /\ Step(r, "queued")
         /\ ActiveOnly(c, IF Background(r) THEN conv[c].active ELSE r)
         /\ task' \in [Tasks -> TaskRows]
<1> DEFINE c == run[r].conv
           released == Released(run[r], "queued")
           row == [released EXCEPT !.draft = <<>>]
<1>1. /\ run[r].status \in {"failed", "cancelled", "needs_reconciliation"}
      /\ Background(r) \/ StillLatest(r)
      /\ run' = [run EXCEPT ![r] = row]
      /\ conv' = [conv EXCEPT ![c].active = IF Background(r) THEN @ ELSE r]
      /\ ResumeTask(run[r].task, r)
  BY DEF Resume
<1>2. Exists(r)
  BY <1>1 DEF Exists
<1>3. /\ run[r] \in RunRows /\ c \in Conversations /\ run[r].task \in Tasks \cup {Nil}
      /\ "queued" \in RunStatus /\ <<>> \in Seq(Nat)
  BY <1>2, CalledRun
<1>4. /\ released \in RunRows /\ released.status = "queued"
      /\ released.fence = run[r].fence + 1
      /\ released.conv = run[r].conv /\ released.task = run[r].task
  BY <1>3, ReleasedRow
<1> HIDE DEF released
<1>5. row \in RunRows /\ Same(row, released)
  BY <1>3, <1>4, RowDraft
<1> HIDE DEF row
<1>6. Step(r, "queued")
  BY <1>1, <1>2, <1>4, <1>5, StepByRow DEF Same
<1>7. ActiveOnly(c, IF Background(r) THEN conv[c].active ELSE r)
  <2> DEFINE a == IF Background(r) THEN conv[c].active ELSE r
  <2>1. a \in Runs \cup {NoRun}
    BY <1>3 DEF Sound, TypeOK, ConvRows
  <2>2. conv' = [conv EXCEPT ![c].active = a]
    BY <1>1
  <2> HIDE DEF a
  <2>3. ActiveOnly(c, a)
    BY <1>3, <2>1, <2>2, ActiveBySet
  <2> QED BY <2>3 DEF a
<1>8. task' \in [Tasks -> TaskRows]
  BY <1>1, <1>3, TypeResumeTask DEF Sound
<1>9. Background(r) \/ conv[c].active \in {NoRun, r}
  BY <1>1 DEF StillLatest
<1> QED BY <1>1, <1>3, <1>6, <1>7, <1>8, <1>9

\* Writing a fresh queued row is an insertion.
LEMMA InsertsByRow ==
  ASSUME Sound, NEW r \in Runs, Fresh(r), NEW c \in Conversations,
         ~conv[c].gone, conv[c].active = NoRun, NEW t \in Tasks \cup {Nil},
         NEW m \in ClientIDs \cup {Nil}, run' = [run EXCEPT ![r] = QueuedRow(c, t, m)]
  PROVE  Inserts(r, c, t)
<1> DEFINE row == QueuedRow(c, t, m)
<1>1. /\ row \in RunRows
      /\ row.status = "queued" /\ row.fence = 0 /\ row.conv = c /\ row.task = t
  BY InsertedRow, SMT DEF Sound
<1>2. run' = [run EXCEPT ![r] = row]
  OBVIOUS
<1> HIDE DEF row
<1> QED BY <1>1, <1>2 DEF Inserts, Fresh, Sound, TypeOK

\* An insertion keeps the rows sound.
LEMMA SoundByInsert ==
  ASSUME Sound, NEW r \in Runs, NEW c \in Conversations, NEW t, Inserts(r, c, t),
         NEW active, ActiveOnly(c, active),
         task' \in [Tasks -> TaskRows], claim' \in [Workers -> Claims]
  PROVE  Sound'
<1>1. TypeOK'
  BY DEF TypeOK, Inserts, ActiveOnly
<1>2. ASSUME NEW q \in Runs, q # r, Exists(q)' PROVE Exists(q) /\ run'[q].conv = run[q].conv
  BY <1>2 DEF Exists, Inserts
<1>3. RunsBelong'
  BY <1>2 DEF RunsBelong, Sound, ActiveOnly, Inserts
<1> QED BY <1>1, <1>3 DEF Sound

\* Enqueue inserts the conversation's active run.
LEMMA EnqueueDoes ==
  ASSUME Sound, NEW c \in Conversations, NEW m \in ClientIDs, Enqueue(c, m)
  PROVE  \E r \in Runs : Inserts(r, c, Nil) /\ ActiveOnly(c, r)
<1> DEFINE posted(r) == Post(conv[c], Message(r, "user", 0))
           crow(r) == [posted(r) EXCEPT !.active = r]
<1>1. PICK r \in Runs :
        /\ Fresh(r)
        /\ run' = [run EXCEPT ![r] = QueuedRow(c, Nil, m)]
        /\ conv' = [conv EXCEPT ![c] = crow(r)]
  BY DEF Enqueue
<1>2. posted(r) \in ConvRows /\ posted(r).gone = conv[c].gone
  BY PostedRow, SMT DEF Sound, TypeOK
<1>3. crow(r) \in ConvRows /\ crow(r).gone = conv[c].gone /\ crow(r).active = r
  BY <1>2, ConvActive
<1> HIDE DEF crow
<1>4. ActiveOnly(c, r)
  BY <1>1, <1>3, ActiveByRow
<1>5. Inserts(r, c, Nil)
  BY <1>1, InsertsByRow DEF Enqueue
<1> QED BY <1>4, <1>5

\* LaunchConversationTask inserts a background run in an idle conversation.
LEMMA LaunchTaskDoes ==
  ASSUME Sound, NEW t \in Tasks, LaunchTask(t)
  PROVE  \E r \in Runs :
           /\ Inserts(r, TaskConv[t], t)
           /\ ActiveOnly(TaskConv[t], NoRun)
           /\ task' \in [Tasks -> TaskRows]
<1> DEFINE c == TaskConv[t]
           crow(r) == Post(conv[c], Message(r, "user", 0))
<1>1. PICK r \in Runs :
        /\ Fresh(r)
        /\ run' = [run EXCEPT ![r] = QueuedRow(c, t, Nil)]
        /\ task' = [task EXCEPT ![t] = [status |-> "running", run |-> r]]
        /\ conv' = [conv EXCEPT ![c] = crow(r)]
  BY DEF LaunchTask
<1>2. c \in Conversations
  BY ConversationRunConstants
<1>3. crow(r) \in ConvRows /\ crow(r).gone = conv[c].gone /\ crow(r).active = conv[c].active
  BY <1>2, PostedRow, SMT DEF Sound, TypeOK
<1> HIDE DEF crow
<1>4. conv[c].active = NoRun /\ ~conv[c].gone
  BY DEF LaunchTask
<1>5. ActiveOnly(c, NoRun)
  BY <1>1, <1>2, <1>3, <1>4, ActiveByRow
<1>6. Inserts(r, c, t)
  BY <1>1, <1>2, <1>4, InsertsByRow
<1>7. task' \in [Tasks -> TaskRows]
  BY <1>1 DEF Sound, TypeOK, TaskRows, TaskStatus
<1> QED BY <1>5, <1>6, <1>7

\* DeleteForRequest removes every run row of the conversation.
LEMMA DeleteDoes ==
  ASSUME Sound, NEW c \in Conversations, Delete(c)
  PROVE  Removes(c) /\ task' \in [Tasks -> TaskRows]
<1> DEFINE dead == [NoRow EXCEPT !.status = "deleted"]
<1>1. dead \in RunRows /\ dead.status = "deleted"
  BY RowFacts DEF RunRows, RunStatus
<1>2. run' = [r \in Runs |-> IF Exists(r) /\ run[r].conv = c THEN dead ELSE run[r]]
  BY DEF Delete
<1> HIDE DEF dead
<1>3. /\ run' \in [Runs -> RunRows]
      /\ \A r \in Runs : IF Exists(r) /\ run[r].conv = c
                         THEN run'[r].status = "deleted" ELSE run'[r] = run[r]
  BY <1>1, <1>2 DEF Sound, TypeOK
<1>4. /\ conv' \in [Conversations -> ConvRows]
      /\ \A d \in Conversations : IF d = c THEN conv'[d].active = NoRun ELSE conv'[d] = conv[d]
  BY SMT DEF Delete, Sound, TypeOK, ConvRows
<1>5. task' \in [Tasks -> TaskRows]
  BY DEF Delete, Sound, TypeOK, TaskRows, TaskStatus
<1> QED BY <1>3, <1>4, <1>5 DEF Removes

\* Time changes no column but the lease.
LEMMA TickDoes ==
  ASSUME Sound, Tick
  PROVE  run' \in [Runs -> RunRows] /\ \A r \in Runs : Same(run'[r], run[r])
<1>1. ASSUME NEW r \in Runs PROVE run'[r] \in RunRows /\ Same(run'[r], run[r])
  <2> DEFINE lease == run[r].lease - 1
  <2>1. run[r] \in RunRows
    BY DEF Sound, TypeOK
  <2>2. CASE Leased(r)
    <3>1. lease \in 0..LeaseTTL
      BY <2>1, <2>2, ConversationRunConstants, SMT DEF Leased, RunRows
    <3>2. run'[r] = [run[r] EXCEPT !.lease = lease]
      BY <2>2 DEF Tick
    <3> HIDE DEF lease
    <3> QED BY <2>1, <3>1, <3>2, RowLease
  <2>3. CASE ~Leased(r)
    BY <2>1, <2>3 DEF Tick, Same
  <2> QED BY <2>2, <2>3
<1>2. run' = [r \in Runs |-> run'[r]]
  BY DEF Tick
<1> QED BY <1>1, <1>2

-----------------------------------------------------------------------------
(* The inductive invariant.  The proof goes over the shapes of the         *)
(* transactions (Step, Inserts, Removes, Tick), not over their texts.      *)

\* What one step guarantees: the invariant again, and the action properties.
Good == Inv' /\ EndedRunsStay /\ FencesAdvance

\* Workers keep or drop their claims, and take no new one.
Kept ==
  /\ claim' \in [Workers -> Claims]
  /\ \A v \in Workers : \/ claim'[v].run = NoRun
                        \/ claim'[v].run = claim[v].run /\ claim'[v].fence = claim[v].fence

\* The conversation of run r follows its new status: busy with an open
\* foreground run, idle again after it, untouched by a background run.
Fits(r, status, active) ==
  LET old == conv[run[r].conv].active IN
  IF Background(r) THEN active = old
  ELSE IF status \in Open THEN active = r /\ old \in {NoRun, r}
  ELSE active = IF old = r THEN NoRun ELSE old

\* Claims that do not change are kept.
LEMMA KeptSame == ASSUME Sound, claim' = claim PROVE Kept
BY DEF Kept, Sound, TypeOK

\* A worker that forgets its claim keeps the others.
LEMMA KeptDrop ==
  ASSUME Sound, NEW w \in Workers, claim' = [claim EXCEPT ![w] = NoClaim]
  PROVE  Kept
BY RowFacts DEF Kept, Sound, TypeOK, NoClaim

\* A change of one run that fits the conversation's new active run keeps ActiveRunIsTheOpenRun.
LEMMA ActiveByStep ==
  ASSUME Inv, NEW r \in Runs, NEW status, Step(r, status), NEW active,
         ActiveOnly(run[r].conv, active), Fits(r, status, active)
  PROVE  ActiveRunIsTheOpenRun'
<1> DEFINE c == run[r].conv
<1>a. c \in Conversations
  BY DEF Inv, Sound, RunsBelong, Step
<1>b. \A q \in Runs : run'[q].conv = run[q].conv /\ run'[q].task = run[q].task
  BY DEF Step
<1>c. \A q \in Runs : q # NoRun
  BY RunsExist
<1>1. ASSUME NEW q \in Runs, ~Background(q)', run'[q].status \in Open
      PROVE  conv'[run'[q].conv].active = q
  <2>1. ~Background(q)
    BY <1>1, <1>b DEF Background
  <2>2. CASE q = r
    BY <1>1, <2>1, <2>2, <1>a, <1>b, SMTT(30) DEF Fits, ActiveOnly, Step
  <2>3. CASE q # r
    <3>1. run[q].status \in Open /\ conv[run[q].conv].active = q
      BY <1>1, <2>1, <2>3 DEF Step, Inv, ActiveRunIsTheOpenRun
    <3>2. run[q].conv \in Conversations
      BY <3>1 DEF Inv, Sound, RunsBelong, Exists, Open, Waiting
    <3> QED BY <1>b, <1>c, <2>3, <3>1, <3>2 DEF Fits, ActiveOnly
  <2> QED BY <2>2, <2>3
<1>2. ASSUME NEW d \in Conversations, conv'[d].active # NoRun
      PROVE  LET row == run'[conv'[d].active] IN
             row.conv = d /\ row.task = Nil /\ row.status \in Open
  <2> DEFINE q == conv'[d].active
  <2>1. q \in Runs
    BY <1>2 DEF ActiveOnly, ConvRows
  <2>2. CASE conv[d].active = q
    <3>1. run[q].conv = d /\ run[q].task = Nil /\ run[q].status \in Open
      BY <1>2, <2>2 DEF Inv, ActiveRunIsTheOpenRun
    <3>2. CASE q = r
      BY <1>c, <2>1, <3>1, <3>2, SMT DEF Fits, ActiveOnly, Background, Step
    <3>3. CASE q # r
      BY <2>1, <3>1, <3>3 DEF Step
    <3> QED BY <3>2, <3>3
  <2>3. CASE conv[d].active # q
    BY <1>2, <2>1, <2>3, <1>b DEF Fits, ActiveOnly, Background, Step
  <2> QED BY <2>2, <2>3
<1> QED BY <1>1, <1>2 DEF ActiveRunIsTheOpenRun

\* A change of one run that does not lower its fence keeps ClaimFences.
LEMMA FencesByStep ==
  ASSUME Inv, NEW r \in Runs, NEW status, Step(r, status), status # "none", Kept
  PROVE  ClaimFences' /\ FencesAdvance
<1>1. \A q \in Runs : run[q].fence \in Nat /\ run'[q].fence \in Nat
  BY SMTT(30) DEF Inv, Sound, TypeOK, RunRows, Step
<1>2. \A v \in Workers : claim[v].fence \in Nat /\ claim'[v].fence \in Nat
  BY DEF Inv, Sound, TypeOK, Claims, Kept
<1>3. \A v \in Workers : claim'[v].run \in Runs \cup {NoRun}
  BY DEF Kept, Claims
<1>4. \A q \in Runs : run[q].fence <= run'[q].fence
  BY <1>1, SMT DEF Step
<1>5. \A q \in Runs : /\ run'[q].status = "none" => run[q].status = "none" /\ q # r
                      /\ run'[q].status # "deleted" => run[q].status # "deleted"
  BY DEF Step, Exists
<1>6. ClaimFences'
  <2>1. \A q \in Runs : run'[q].status = "none" => run'[q].fence = 0
    BY <1>5 DEF Step, Inv, ClaimFences
  <2>2. ASSUME NEW v \in Workers, claim'[v].run # NoRun,
               run'[claim'[v].run].status # "deleted"
        PROVE  claim'[v].fence <= run'[claim'[v].run].fence
    BY <1>1, <1>2, <1>3, <1>4, <1>5, <2>2, SMT DEF Kept, Inv, ClaimFences
  <2>3. ASSUME NEW v \in Workers, NEW w \in Workers, v # w,
               claim'[v].run # NoRun, claim'[v].run = claim'[w].run
        PROVE  claim'[v].fence # claim'[w].fence
    BY <2>3 DEF Kept, Inv, ClaimFences
  <2> QED BY <2>1, <2>2, <2>3 DEF ClaimFences
<1>7. FencesAdvance
  BY <1>4, SMT DEF FencesAdvance, Kept, Runs
<1> QED BY <1>6, <1>7

\* A transaction that rewrites one row is good when it fits.
LEMMA GoodByStep ==
  ASSUME Inv, NEW r \in Runs, NEW status, Step(r, status),
         status # "none", run[r].status = "completed" => status = "completed",
         NEW active, ActiveOnly(run[r].conv, active), Fits(r, status, active),
         task' \in [Tasks -> TaskRows], Kept
  PROVE  Good
<1>1. Sound'
  BY SoundByStep DEF Inv, Kept
<1>2. EndedRunsStay
  BY DEF EndedRunsStay, Step, Exists
<1> QED BY <1>1, <1>2, ActiveByStep, FencesByStep DEF Good, Inv

\* A run whose status does not change, in a conversation that does not.
LEMMA GoodByColumns ==
  ASSUME Inv, NEW r \in Runs, Step(r, run[r].status), conv' = conv, task' = task, Kept
  PROVE  Good
<1> DEFINE c == run[r].conv
<1>1. c \in Conversations
  BY DEF Inv, Sound, RunsBelong, Step
<1>2. ActiveOnly(c, conv[c].active)
  BY <1>1, ActiveSame DEF Inv
<1>3. r # NoRun
  BY RunsExist
<1>4. Fits(r, run[r].status, conv[c].active)
  BY <1>1, <1>3 DEF Fits, Inv, ActiveRunIsTheOpenRun
<1>5. run[r].status # "none" /\ task' \in [Tasks -> TaskRows]
  BY DEF Step, Exists, Inv, Sound, TypeOK
<1> QED BY <1>2, <1>4, <1>5, GoodByStep

\* A run that stays open, in a conversation that does not change.
LEMMA GoodByOpen ==
  ASSUME Inv, NEW r \in Runs, run[r].status \in Open, NEW status \in Open,
         Step(r, status), conv' = conv, task' = task
  PROVE  /\ Kept => Good
         /\ claim' \in [Workers -> Claims] => Sound' /\ ActiveRunIsTheOpenRun'
         /\ EndedRunsStay
<1> DEFINE c == run[r].conv
<1>1. c \in Conversations
  BY DEF Inv, Sound, RunsBelong, Step
<1>2. ActiveOnly(c, conv[c].active)
  BY <1>1, ActiveSame DEF Inv
<1>3. Fits(r, status, conv[c].active)
  BY <1>1 DEF Fits, Inv, ActiveRunIsTheOpenRun
<1>4. /\ status # "none" /\ status # "completed" /\ run[r].status # "completed"
      /\ task' \in [Tasks -> TaskRows]
  BY DEF Open, Waiting, Inv, Sound, TypeOK
<1>5. Kept => Good
  BY <1>2, <1>3, <1>4, GoodByStep
<1>6. claim' \in [Workers -> Claims] => Sound'
  BY <1>2, <1>4, SoundByStep DEF Inv
<1>7. ActiveRunIsTheOpenRun'
  BY <1>2, <1>3, ActiveByStep
<1>8. EndedRunsStay
  BY <1>4 DEF EndedRunsStay, Step, Exists
<1> QED BY <1>5, <1>6, <1>7, <1>8

\* Claim gives out a fence above every fence remembered for the run.
LEMMA GoodClaim ==
  ASSUME Inv, NEW w \in Workers, Claim(w)
  PROVE  Good
<1>1. PICK r \in Runs :
        /\ run[r].status \in {"queued", "running"}
        /\ Step(r, "running")
        /\ run'[r].fence = run[r].fence + 1
        /\ claim[w] = NoClaim
        /\ claim' = [claim EXCEPT ![w] = [run |-> r, fence |-> run[r].fence + 1, sent |-> 0]]
  BY ClaimDoes DEF Inv
<1>2. \A q \in Runs : run[q].fence \in Nat /\ run'[q].fence \in Nat
  BY <1>1 DEF Inv, Sound, TypeOK, RunRows, Step
<1>3. \A v \in Workers : claim[v].fence \in Nat /\ claim[v].run \in Runs \cup {NoRun}
  BY DEF Inv, Sound, TypeOK, Claims
<1>4. /\ claim' \in [Workers -> Claims]
      /\ claim'[w].run = r /\ claim'[w].fence = run[r].fence + 1
      /\ \A v \in Workers : v # w => claim'[v] = claim[v]
  BY <1>1, <1>2 DEF Inv, Sound, TypeOK, Claims
<1>5. Sound' /\ ActiveRunIsTheOpenRun' /\ EndedRunsStay
  BY <1>1, <1>4, GoodByOpen DEF Claim, Open
<1>6. \A q \in Runs : /\ run[q].fence <= run'[q].fence
                      /\ run'[q].status = "none" => run[q].status = "none" /\ q # r
                      /\ run'[q].status # "deleted" => run[q].status # "deleted"
  BY <1>1, <1>2, SMT DEF Step
<1>7. ASSUME NEW v \in Workers, v # w, claim[v].run = r PROVE claim[v].fence <= run[r].fence
  BY <1>1, <1>7, SMT DEF Inv, ClaimFences, Runs
<1>8. ClaimFences'
  <2>1. \A q \in Runs : run'[q].status = "none" => run'[q].fence = 0
    BY <1>1, <1>6 DEF Step, Inv, ClaimFences
  <2>2. ASSUME NEW v \in Workers, claim'[v].run # NoRun,
               run'[claim'[v].run].status # "deleted"
        PROVE  claim'[v].fence <= run'[claim'[v].run].fence
    <3>1. CASE v = w
      BY <1>1, <1>2, <1>4, <3>1, SMT
    <3>2. CASE v # w
      BY <1>2, <1>3, <1>4, <1>6, <2>2, <3>2, SMT DEF Inv, ClaimFences
    <3> QED BY <3>1, <3>2
  <2>3. ASSUME NEW u \in Workers, NEW v \in Workers, u # v,
               claim'[u].run # NoRun, claim'[u].run = claim'[v].run
        PROVE  claim'[u].fence # claim'[v].fence
    <3>1. CASE u # w /\ v # w
      BY <1>4, <2>3, <3>1 DEF Inv, ClaimFences
    <3>2. CASE u = w \/ v = w
      BY <1>2, <1>3, <1>4, <1>7, <2>3, <3>2, SMTT(30)
    <3> QED BY <3>1, <3>2
  <2> QED BY <2>1, <2>2, <2>3 DEF ClaimFences
<1>9. FencesAdvance
  BY <1>1, <1>2, <1>4, <1>6, SMT DEF FencesAdvance
<1> QED BY <1>5, <1>8, <1>9 DEF Good, Inv

\* A worker that ends its running run clears the active run of a foreground turn.
LEMMA FitsEnded ==
  ASSUME Inv, NEW r \in Runs, run[r].conv \in Conversations,
         run[r].status = "running", NEW status \in {"completed", "failed"}
  PROVE  Fits(r, status, IF Background(r) THEN conv[run[r].conv].active ELSE NoRun)
<1>1. status \notin Open /\ run[r].status \in Open
  BY DEF Open, Waiting
<1>2. ~Background(r) => conv[run[r].conv].active = r
  BY <1>1 DEF Inv, ActiveRunIsTheOpenRun
<1> QED BY <1>1, <1>2 DEF Fits

\* Every transaction of a worker preserves the invariant.
LEMMA GoodWorkerStep ==
  ASSUME Inv, NEW w \in Workers, WorkerStep(w)
  PROVE  Good
<1> DEFINE r == claim[w].run
<1>a. Sound
  BY DEF Inv
<1>1. CASE Claim(w)
  BY <1>1, GoodClaim
<1>2. CASE Heartbeat(w)
  BY <1>2, <1>a, HeartbeatDoes, KeptSame, GoodByColumns DEF Heartbeat
<1>3. CASE AppendDelta(w)
  <2>1. Kept
    BY <1>3, <1>a, AppendDeltaDoes, SMTT(30) DEF Kept
  <2> QED BY <1>3, <1>a, <2>1, AppendDeltaDoes, GoodByColumns DEF AppendDelta
<1>4. CASE FinishCompleted(w)
  <2> DEFINE c == run[r].conv
             a == IF Background(r) THEN conv[c].active ELSE NoRun
  <2>1. /\ r \in Runs /\ c \in Conversations /\ run[r].status = "running"
        /\ Step(r, "completed") /\ ActiveOnly(c, a) /\ task' \in [Tasks -> TaskRows]
    BY <1>4, <1>a, FinishCompletedDoes, SMTT(30)
  <2>2. Kept
    BY <1>4, <1>a, KeptDrop, ZenonT(30) DEF FinishCompleted
  <2>3. Fits(r, "completed", a)
    BY <2>1, FitsEnded, ZenonT(30)
  <2> QED BY <2>1, <2>2, <2>3, GoodByStep
<1>5. CASE FinishFailed(w)
  <2> DEFINE c == run[r].conv
             a == IF Background(r) THEN conv[c].active ELSE NoRun
  <2>1. /\ r \in Runs /\ c \in Conversations /\ run[r].status = "running"
        /\ Step(r, "failed") /\ ActiveOnly(c, a) /\ task' \in [Tasks -> TaskRows]
    BY <1>5, <1>a, FinishFailedDoes, SMTT(30)
  <2>2. Kept
    BY <1>5, <1>a, KeptDrop, ZenonT(30) DEF FinishFailed
  <2>3. Fits(r, "failed", a)
    BY <2>1, FitsEnded, ZenonT(30)
  <2> QED BY <2>1, <2>2, <2>3, GoodByStep
<1>6. ASSUME NEW kind \in Kinds, WaitExecution(w, kind) PROVE Good
  <2>1. r \in Runs /\ run[r].status = "running" /\ Step(r, WaitStatus(kind))
    BY <1>6, <1>a, WaitExecutionDoes
  <2>2. Kept /\ conv' = conv /\ task' = task
    BY <1>6, <1>a, KeptDrop DEF WaitExecution
  <2>3. "running" \in Open /\ WaitStatus(kind) \in Open
    BY RowFacts DEF Open
  <2> QED BY <2>1, <2>2, <2>3, GoodByOpen
<1>7. CASE ResolveReconciliation(w)
  BY <1>7, <1>a, ResolveReconciliationDoes, KeptSame, GoodByColumns DEF ResolveReconciliation
<1>8. CASE Abandon(w)
  <2>1. Kept /\ conv' = conv /\ run' = run /\ task' = task
    BY <1>8, <1>a, KeptDrop, ZenonT(30) DEF Abandon
  <2>2. Sound' /\ ActiveRunIsTheOpenRun'
    BY <2>1 DEF Inv, Sound, TypeOK, Kept, RunsBelong, Exists, ActiveRunIsTheOpenRun, Background
  <2>3. EndedRunsStay
    BY <2>1 DEF EndedRunsStay
  <2>4. \A q \in Runs : run[q].fence \in Nat
    BY DEF Inv, Sound, TypeOK, RunRows
  <2>5. FencesAdvance
    BY <2>1, <2>4, SMTT(30) DEF FencesAdvance, Kept, Runs
  <2>6. ClaimFences'
    BY <2>1, SMT DEF Inv, ClaimFences, Kept
  <2> QED BY <2>2, <2>3, <2>5, <2>6 DEF Good, Inv
<1> QED BY <1>1, <1>2, <1>3, <1>4, <1>5, <1>6, <1>7, <1>8 DEF WorkerStep

\* Every answer, expiry, cancel and resume preserves the invariant.
LEMMA GoodRunStep ==
  ASSUME Inv, NEW r \in Runs, RunStep(r)
  PROVE  Good
<1> DEFINE c == run[r].conv
<1>a. Sound /\ r # NoRun
  BY SMTT(30) DEF Inv, Runs
<1>1. ASSUME NEW decision \in Decisions, Respond(r, decision) PROVE Good
  <2> DEFINE rejected == Outcome(run[r].inter.kind, decision) = "rejected"
             status == IF rejected THEN "cancelled" ELSE "queued"
             a == IF rejected /\ conv[c].active = r THEN NoRun ELSE conv[c].active
  <2>1. run[r].status \in Waiting /\ Step(r, status) /\ ActiveOnly(c, a) /\ c \in Conversations
    BY <1>1, <1>a, RespondDoes
  <2>2. Kept /\ task' \in [Tasks -> TaskRows]
    BY <1>1, <1>a, KeptSame DEF Respond, Sound, TypeOK
  <2>3. Fits(r, status, a)
    <3>1. ~Background(r) => conv[c].active = r
      BY <2>1 DEF Inv, ActiveRunIsTheOpenRun, Open
    <3>2. Background(r) => conv[c].active # r
      BY <1>a, <2>1, SMTT(30) DEF Inv, ActiveRunIsTheOpenRun, Background
    <3> QED BY <3>1, <3>2, SMTT(30) DEF Fits, Open, Waiting
  <2>4. status # "none" /\ run[r].status # "completed"
    BY <2>1 DEF Waiting
  <2> HIDE DEF status, a
  <2> QED BY <2>1, <2>2, <2>3, <2>4, GoodByStep
<1>2. CASE InteractionDue(r)
  BY <1>2, <1>a, InteractionDueDoes, KeptSame, GoodByColumns DEF InteractionDue
<1>3. CASE ExpireInteraction(r)
  <2> DEFINE a == IF conv[c].active = r THEN NoRun ELSE conv[c].active
  <2>1. run[r].status \in Waiting /\ Step(r, "failed") /\ ActiveOnly(c, a) /\ c \in Conversations
    BY <1>3, <1>a, ExpireInteractionDoes
  <2>2. Kept /\ task' \in [Tasks -> TaskRows]
    BY <1>3, <1>a, KeptSame, SMTT(30) DEF ExpireInteraction, Sound, TypeOK
  <2>3. Fits(r, "failed", a)
    BY <1>a, <2>1, SMT DEF Fits, Inv, ActiveRunIsTheOpenRun, Open, Waiting, Background
  <2>4. run[r].status # "completed"
    BY <2>1 DEF Waiting
  <2> HIDE DEF a
  <2> QED BY <2>1, <2>2, <2>3, <2>4, GoodByStep
<1>4. CASE Cancel(r)
  <2> DEFINE a == IF conv[c].active = r THEN NoRun ELSE conv[c].active
  <2>1. /\ run[r].status \in Open /\ Step(r, "cancelled") /\ ActiveOnly(c, a)
        /\ c \in Conversations /\ task' \in [Tasks -> TaskRows]
    BY <1>4, <1>a, CancelDoes
  <2>2. Kept
    BY <1>4, <1>a, KeptSame, SMTT(30) DEF Cancel
  <2>3. Fits(r, "cancelled", a)
    BY <1>a, <2>1, SMT DEF Fits, Inv, ActiveRunIsTheOpenRun, Open, Waiting, Background
  <2>4. run[r].status # "completed"
    BY <2>1, SMTT(30) DEF Open, Waiting
  <2> HIDE DEF a
  <2> QED BY <2>1, <2>2, <2>3, <2>4, GoodByStep
<1>5. CASE Resume(r)
  <2> DEFINE a == IF Background(r) THEN conv[c].active ELSE r
  <2>1. /\ run[r].status \in {"failed", "cancelled", "needs_reconciliation"}
        /\ Background(r) \/ conv[c].active \in {NoRun, r}
        /\ Step(r, "queued") /\ ActiveOnly(c, a) /\ task' \in [Tasks -> TaskRows]
    BY <1>5, <1>a, ResumeDoes
  <2>2. Kept
    BY <1>5, <1>a, KeptSame DEF Resume
  <2>3. Fits(r, "queued", a)
    BY <2>1 DEF Fits, Open
  <2> HIDE DEF a
  <2> QED BY <2>1, <2>2, <2>3, GoodByStep
<1> QED BY <1>1, <1>2, <1>3, <1>4, <1>5 DEF RunStep

\* Inserting a run: Enqueue makes it the active run, LaunchConversationTask
\* leaves the conversation idle.
LEMMA GoodByInsert ==
  ASSUME Inv, NEW r \in Runs, NEW c \in Conversations, NEW t, Inserts(r, c, t),
         NEW active, ActiveOnly(c, active),
         IF t = Nil THEN active = r ELSE active = NoRun,
         task' \in [Tasks -> TaskRows], claim' = claim
  PROVE  Good
<1>1. Sound'
  BY SoundByInsert DEF Inv, Sound, TypeOK
<1>2. ActiveRunIsTheOpenRun'
  <2>1. ASSUME NEW q \in Runs, ~Background(q)', run'[q].status \in Open
        PROVE  conv'[run'[q].conv].active = q
    <3>1. CASE q = r
      BY <2>1, <3>1 DEF Inserts, ActiveOnly, Background
    <3>2. CASE q # r
      <4>1. run'[q] = run[q] /\ conv[run[q].conv].active = q
        BY <2>1, <3>2, SMTT(30) DEF Inserts, Inv, ActiveRunIsTheOpenRun, Background
      <4>2. run[q].conv \in Conversations
        BY <2>1, <4>1 DEF Inv, Sound, RunsBelong, Exists, Open, Waiting
      <4>3. q # NoRun
        BY RunsExist
      <4> QED BY <4>1, <4>2, <4>3 DEF Inserts, ActiveOnly
    <3> QED BY <3>1, <3>2
  <2>2. ASSUME NEW d \in Conversations, conv'[d].active # NoRun
        PROVE  LET row == run'[conv'[d].active] IN
               row.conv = d /\ row.task = Nil /\ row.status \in Open
    <3>1. CASE d = c
      BY <2>2, <3>1, SMTT(30) DEF Inserts, ActiveOnly, Open
    <3>2. CASE d # c
      <4> DEFINE q == conv[d].active
      <4>1. conv'[d].active = q /\ q \in Runs
        BY <2>2, <3>2, SMTT(30) DEF ActiveOnly, Inv, Sound, TypeOK, ConvRows
      <4>2. run[q].conv = d /\ run[q].task = Nil /\ run[q].status \in Open
        BY <2>2, <4>1 DEF Inv, ActiveRunIsTheOpenRun
      <4>3. q # r
        BY <4>2, SMTT(30) DEF Inserts, Open, Waiting
      <4> QED BY <4>1, <4>2, <4>3 DEF Inserts
    <3> QED BY <3>1, <3>2
  <2> QED BY <2>1, <2>2 DEF ActiveRunIsTheOpenRun
<1>3. \A q \in Runs : run[q].fence \in Nat /\ run'[q].fence = run[q].fence
  BY DEF Inserts, Inv, Sound, TypeOK, RunRows, ClaimFences
<1>4. \A w \in Workers : claim[w].run \in Runs \cup {NoRun}
  BY DEF Inv, Sound, TypeOK, Claims
<1>5. ClaimFences'
  BY <1>3, <1>4 DEF ClaimFences, Inserts, Inv
<1>6. EndedRunsStay /\ FencesAdvance
  BY <1>3, SMT DEF EndedRunsStay, FencesAdvance, Inserts
<1> QED BY <1>1, <1>2, <1>5, <1>6 DEF Good, Inv

\* Every send, archive and delete preserves the invariant.
LEMMA GoodConversationStep ==
  ASSUME Inv, NEW c \in Conversations, ConversationStep(c)
  PROVE  Good
<1>a. Sound
  BY DEF Inv
<1>1. ASSUME NEW m \in ClientIDs, Enqueue(c, m) PROVE Good
  <2>1. PICK r \in Runs : Inserts(r, c, Nil) /\ ActiveOnly(c, r)
    BY <1>1, <1>a, EnqueueDoes
  <2>2. claim' = claim /\ task' \in [Tasks -> TaskRows]
    BY <1>1, <1>a DEF Enqueue, Sound, TypeOK
  <2> QED BY <2>1, <2>2, GoodByInsert
<1>2. ASSUME NEW b \in BOOLEAN, Update(c, b) PROVE Good
  <2>1. /\ conv' \in [Conversations -> ConvRows]
        /\ \A d \in Conversations : /\ conv'[d].gone = conv[d].gone
                                    /\ conv'[d].active = conv[d].active
    BY <1>2, <1>a DEF Update, Sound, TypeOK, ConvRows
  <2>2. run' = run /\ claim' = claim /\ task' = task
    BY <1>2 DEF Update
  <2>3. Sound'
    BY <2>1, <2>2 DEF Inv, Sound, TypeOK, RunsBelong, Exists
  <2>4. \A r \in Runs : run[r].status \in Open => run[r].conv \in Conversations
    BY SMTT(30) DEF Inv, Sound, RunsBelong, Exists, Open, Waiting
  <2>5. ActiveRunIsTheOpenRun'
    BY <2>1, <2>2, <2>4, SMTT(30) DEF Inv, ActiveRunIsTheOpenRun, Background
  <2>6. ClaimFences'
    BY <2>2 DEF Inv, ClaimFences
  <2>7. \A q \in Runs : run[q].fence \in Nat
    BY DEF Inv, Sound, TypeOK, RunRows
  <2>8. EndedRunsStay /\ FencesAdvance
    BY <2>2, <2>7, SMT DEF EndedRunsStay, FencesAdvance
  <2> QED BY <2>3, <2>5, <2>6, <2>8 DEF Good, Inv
<1>3. CASE Delete(c)
  <2>1. Removes(c) /\ task' \in [Tasks -> TaskRows] /\ claim' = claim
    BY <1>3, <1>a, DeleteDoes DEF Delete
  <2>2. Sound'
    BY <2>1, ZenonT(30) DEF Removes, Inv, Sound, TypeOK, RunsBelong, Exists
  <2>3. \A r \in Runs : run[r].status \in Open => Exists(r) /\ run[r].conv \in Conversations
    BY DEF Inv, Sound, RunsBelong, Exists, Open, Waiting
  <2>4. \A r \in Runs : run'[r].status \in Open => run'[r] = run[r] /\ run[r].conv # c
    BY <2>1, <2>3 DEF Removes, Open, Waiting
  <2>5. ActiveRunIsTheOpenRun'
    <3>1. ASSUME NEW r \in Runs, ~Background(r)', run'[r].status \in Open
          PROVE  conv'[run'[r].conv].active = r
      BY <2>1, <2>3, <2>4, <3>1, SMTT(30) DEF Removes, Inv, ActiveRunIsTheOpenRun, Background
    <3>2. ASSUME NEW d \in Conversations, conv'[d].active # NoRun
          PROVE  LET row == run'[conv'[d].active] IN
                 row.conv = d /\ row.task = Nil /\ row.status \in Open
      <4>1. d # c /\ conv'[d] = conv[d]
        BY <2>1, <3>2 DEF Removes
      <4>2. LET row == run[conv[d].active] IN
            row.conv = d /\ row.task = Nil /\ row.status \in Open
        BY <3>2, <4>1 DEF Inv, ActiveRunIsTheOpenRun
      <4>3. conv[d].active \in Runs
        BY <3>2, <4>1 DEF Inv, Sound, TypeOK, ConvRows
      <4> QED BY <2>1, <4>1, <4>2, <4>3 DEF Removes
    <3> QED BY <3>1, <3>2 DEF ActiveRunIsTheOpenRun
  <2>6. \A w \in Workers : claim[w].run \in Runs \cup {NoRun}
    BY SMTT(30) DEF Inv, Sound, TypeOK, Claims
  <2>7. ClaimFences'
    BY <2>1, <2>6 DEF Removes, Inv, ClaimFences
  <2>8. \A q \in Runs : run[q].fence \in Nat
    BY SMTT(30) DEF Inv, Sound, TypeOK, RunRows
  <2>9. EndedRunsStay /\ FencesAdvance
    BY <2>1, <2>8, SMT DEF EndedRunsStay, FencesAdvance, Removes, Exists
  <2> QED BY <2>2, <2>5, <2>7, <2>9 DEF Good, Inv
<1> QED BY <1>1, <1>2, <1>3 DEF ConversationStep

\* Time, and every step that leaves conversations, run columns and claims.
LEMMA GoodBySame ==
  ASSUME Inv, run' \in [Runs -> RunRows], \A r \in Runs : Same(run'[r], run[r]),
         \A r \in Runs : run[r].status = "deleted" => run'[r] = run[r],
         conv' = conv, claim' = claim, task' \in [Tasks -> TaskRows]
  PROVE  Good
<1>1. Sound'
  BY DEF Inv, Sound, TypeOK, RunsBelong, Exists, Same
<1>2. \A c \in Conversations : conv[c].active \in Runs \cup {NoRun}
  BY DEF Inv, Sound, TypeOK, ConvRows
<1>3. ActiveRunIsTheOpenRun'
  BY <1>2, SMT DEF Inv, ActiveRunIsTheOpenRun, Background, Same
<1>4. \A w \in Workers : claim[w].run \in Runs \cup {NoRun}
  BY DEF Inv, Sound, TypeOK, Claims
<1>5. ClaimFences'
  BY <1>4, SMTT(30) DEF Inv, ClaimFences, Same
<1>6. \A q \in Runs : run[q].fence \in Nat
  BY DEF Inv, Sound, TypeOK, RunRows
<1>7. EndedRunsStay /\ FencesAdvance
  BY <1>6, SMT DEF EndedRunsStay, FencesAdvance, Same
<1> QED BY <1>1, <1>3, <1>5, <1>7 DEF Good, Inv

\* The passing of time preserves the invariant.
LEMMA GoodTick == ASSUME Inv, Tick PROVE Good
<1>1. run' \in [Runs -> RunRows] /\ \A r \in Runs : Same(run'[r], run[r])
  BY TickDoes DEF Inv
<1>2. \A r \in Runs : run[r].status = "deleted" => run'[r] = run[r]
  BY DEF Tick, Leased
<1>3. conv' = conv /\ claim' = claim /\ task' \in [Tasks -> TaskRows]
  BY DEF Tick, Inv, Sound, TypeOK
<1> QED BY <1>1, <1>2, <1>3, GoodBySame

\* Every operation on a background task preserves the invariant.
LEMMA GoodTaskStep ==
  ASSUME Inv, NEW t \in Tasks, TaskStep(t)
  PROVE  Good
<1>1. CASE LaunchTask(t)
  <2>1. PICK r \in Runs :
          /\ Inserts(r, TaskConv[t], t)
          /\ ActiveOnly(TaskConv[t], NoRun)
          /\ task' \in [Tasks -> TaskRows]
    BY <1>1, LaunchTaskDoes DEF Inv
  <2>2. TaskConv[t] \in Conversations /\ t # Nil /\ claim' = claim
    BY <1>1, ConversationRunConstants DEF LaunchTask
  <2> QED BY <2>1, <2>2, GoodByInsert
<1>2. CASE StartTask(t) \/ CancelQueuedTask(t) \/ ResumeQueuedTask(t)
  <2>1. run' = run /\ conv' = conv /\ claim' = claim /\ task' \in [Tasks -> TaskRows]
    BY <1>2, SMT DEF StartTask, CancelQueuedTask, ResumeQueuedTask, Inv, Sound, TypeOK,
                TaskRows, TaskStatus
  <2>2. run' \in [Runs -> RunRows] /\ \A r \in Runs : Same(run'[r], run[r])
    BY <2>1 DEF Same, Inv, Sound, TypeOK
  <2> QED BY <2>1, <2>2, GoodBySame
<1> QED BY <1>1, <1>2 DEF TaskStep

\* So does a step that changes nothing.
LEMMA GoodStutter == ASSUME Inv, UNCHANGED vars PROVE Good
<1>1. run' \in [Runs -> RunRows] /\ \A r \in Runs : Same(run'[r], run[r])
  BY DEF Same, Inv, Sound, TypeOK, vars
<1>2. conv' = conv /\ claim' = claim /\ task' \in [Tasks -> TaskRows] /\ run' = run
  BY DEF vars, Inv, Sound, TypeOK
<1> QED BY <1>1, <1>2, GoodBySame

\* The invariant holds initially.
LEMMA InvInit == Init => Inv
<1> SUFFICES ASSUME Init PROVE Inv
  OBVIOUS
<1>1. ActiveRunIsTheOpenRun /\ ClaimFences
  BY DEF Init, ActiveRunIsTheOpenRun, ClaimFences, NoRow, NoClaim, Open, Waiting
<1> QED BY <1>1, SoundInit, SMTT(30) DEF Inv

\* The invariant is inductive.
LEMMA InvNext == Inv /\ [Next]_vars => Good
BY GoodConversationStep, GoodWorkerStep, GoodRunStep, GoodTaskStep, GoodTick, GoodStutter
   DEF Next

\* The invariant holds in every reachable state.
LEMMA Invariant == Spec => []Inv
<1>1. Inv /\ [Next]_vars => Inv'
  BY InvNext DEF Good
<1> QED BY <1>1, InvInit, PTL DEF Spec

-----------------------------------------------------------------------------
(* Theorems.                                                               *)

\* In every behaviour the rows of conversations, runs and tasks and the
\* workers' claims hold values of their types.
THEOREM TypeCorrect == Spec => []TypeOK
BY Invariant, PTL DEF Inv, Sound

\* Deleting a conversation leaves no run behind: every run row belongs to a
\* conversation that exists.
THEOREM NoOrphanRuns == Spec => []RunsBelong
BY Invariant, PTL DEF Inv, Sound

\* However sends, claims, finishes, answers, expiries, cancellations, resumes
\* and task launches interleave, ActiveRunID names exactly the conversation's
\* open foreground run.
THEOREM OneForegroundRun == Spec => []ActiveRunIsTheOpenRun
BY Invariant, PTL DEF Inv

\* Every claim a worker remembers has a fence of its own.
THEOREM FencesAreUnique == Spec => []ClaimFences
BY Invariant, PTL DEF Inv

\* The claimed check (owner, fence and live lease) never passes for two workers
\* at once, whatever crashes, clock ticks and reclaims happened before.
THEOREM MutualExclusion == Spec => []SingleHolder
<1>1. Inv => SingleHolder
  BY SMT DEF Inv, ClaimFences, SingleHolder, Claimed, Runs
<1> QED BY <1>1, Invariant, PTL

\* A completed run is never changed again, by no sequence of later calls.
THEOREM CompletionIsFinal == Spec => CompletedIsFinal
<1>1. Inv /\ [Next]_vars => [EndedRunsStay]_vars
  BY InvNext DEF Good
<1> QED BY <1>1, Invariant, PTL DEF Spec, CompletedIsFinal

\* A run's fence never falls, and a new claim's fence is above every earlier one.
THEOREM FencesOnlyGrow == Spec => FenceSeparatesClaims
<1>1. Inv /\ [Next]_vars => [FencesAdvance]_vars
  BY InvNext DEF Good
<1> QED BY <1>1, Invariant, PTL DEF Spec, FenceSeparatesClaims

-----------------------------------------------------------------------------
(* What each transaction does to the other columns of a run row.           *)

\* Released and Taken, as functions of a row, change no column but theirs.
LEMMA ReleasedColumns ==
  ASSUME NEW row \in RunRows, NEW status
  PROVE  LET new == Released(row, status) IN
         /\ new.inter = row.inter /\ new.draft = row.draft
         /\ new.input = row.input /\ new.client = row.client
BY DEF Released, RunRows

\* Claim empties the draft and leaves the question and the input.
LEMMA ClaimColumns ==
  ASSUME Sound, NEW w \in Workers, Claim(w)
  PROVE  \E r \in Runs :
           /\ run[r].status \in {"queued", "running"}
           /\ run[r].status = "queued" => RunningHasRoom(UserOf[run[r].conv])
           /\ Step(r, "running")
           /\ run'[r].fence = run[r].fence + 1
           /\ Columns(r, run[r].inter, <<>>, run[r].input)
           /\ claim' = [claim EXCEPT ![w] = [run |-> r, fence |-> run[r].fence + 1, sent |-> 0]]
<1>1. PICK r \in Runs :
        /\ Startable(r)
        /\ run' = [run EXCEPT ![r] = Taken(run[r], w)]
        /\ claim' = [claim EXCEPT ![w] = [run |-> r, fence |-> Taken(run[r], w).fence,
                                          sent |-> 0]]
  BY DEF Claim
<1>2. PICK q \in Runs :
        /\ run[q].status \in {"queued", "running"}
        /\ Step(q, "running")
        /\ run'[q].fence = run[q].fence + 1
        /\ claim' = [claim EXCEPT ![w] = [run |-> q, fence |-> run[q].fence + 1, sent |-> 0]]
  BY ClaimDoes
<1>3. q = r
  <2>1. claim'[w].run = r
    BY <1>1 DEF Sound, TypeOK
  <2>2. claim'[w].run = q
    BY <1>2 DEF Sound, TypeOK
  <2> QED BY <2>1, <2>2
<1>4. run'[r] = Taken(run[r], w) /\ run[r] \in RunRows
  BY <1>1 DEF Sound, TypeOK
<1>5. Columns(r, run[r].inter, <<>>, run[r].input)
  <2>1. ASSUME NEW row \in RunRows
        PROVE  LET new == Taken(row, w) IN
               /\ new.inter = row.inter /\ new.draft = <<>>
               /\ new.input = row.input /\ new.client = row.client
    BY DEF Taken, RunRows
  <2> QED BY <1>4, <2>1 DEF Columns
<1>6. run[r].status = "queued" => RunningHasRoom(UserOf[run[r].conv])
  BY <1>1 DEF Startable
<1> QED BY <1>2, <1>3, <1>5, <1>6

\* Heartbeat changes none of them.
LEMMA HeartbeatColumns ==
  ASSUME Sound, NEW w \in Workers, Heartbeat(w)
  PROVE  LET r == claim[w].run IN Columns(r, run[r].inter, run[r].draft, run[r].input)
<1> DEFINE r == claim[w].run
<1>1. r \in Runs /\ run[r] \in RunRows
  BY HeldRun DEF Heartbeat
<1>2. run'[r] = [run[r] EXCEPT !.lease = LeaseTTL]
  BY <1>1 DEF Heartbeat, Sound, TypeOK
<1>3. ASSUME NEW row \in RunRows
      PROVE  LET new == [row EXCEPT !.lease = LeaseTTL] IN
             /\ new.inter = row.inter /\ new.draft = row.draft
             /\ new.input = row.input /\ new.client = row.client
  BY DEF RunRows
<1> QED BY <1>1, <1>2, <1>3 DEF Columns

\* AppendDelta extends the draft by a piece of the claim's text.
LEMMA AppendDeltaColumns ==
  ASSUME Sound, NEW w \in Workers, AppendDelta(w)
  PROVE  LET r == claim[w].run IN
         /\ Columns(r, run[r].inter, Append(run[r].draft, claim[w].fence), run[r].input)
         /\ run'[r].fence = run[r].fence
<1> DEFINE r == claim[w].run
           draft == Append(run[r].draft, claim[w].fence)
<1>1. r \in Runs /\ run[r] \in RunRows
  BY HeldRun DEF AppendDelta
<1>2. run'[r] = [run[r] EXCEPT !.draft = draft]
  BY <1>1 DEF AppendDelta, Sound, TypeOK
<1>3. ASSUME NEW row \in RunRows, NEW d
      PROVE  LET new == [row EXCEPT !.draft = d] IN
             /\ new.inter = row.inter /\ new.draft = d
             /\ new.input = row.input /\ new.client = row.client /\ new.fence = row.fence
  BY DEF RunRows
<1> HIDE DEF draft
<1>4. Columns(r, run[r].inter, draft, run[r].input) /\ run'[r].fence = run[r].fence
  BY <1>1, <1>2, <1>3, SMT DEF Columns
<1> QED BY <1>4 DEF draft

\* A row of a conversation with one message more.
LEMMA PostedMessages ==
  ASSUME NEW row \in ConvRows, NEW message, NEW active
  PROVE  /\ Post(row, message).msgs = Append(row.msgs, message)
         /\ [Post(row, message) EXCEPT !.active = active].msgs = Append(row.msgs, message)
         /\ [row EXCEPT !.active = active].msgs = row.msgs
BY DEF Post, ConvRows

\* Writing conversation c's row, or none.
LEMMA MessagedByRow ==
  ASSUME Sound, NEW c \in Conversations, NEW row, conv' = [conv EXCEPT ![c] = row]
  PROVE  Messaged(c, row.msgs)
BY DEF Messaged, Sound, TypeOK

\* A transaction that changes only the active run posts nothing.
LEMMA MessagedByActive ==
  ASSUME Sound, NEW c \in Conversations, NEW active, conv' = [conv EXCEPT ![c].active = active]
  PROVE  conv'[c].msgs = conv[c].msgs /\ Messaged(c, conv[c].msgs)
<1>1. conv[c] \in ConvRows /\ conv' = [conv EXCEPT ![c] = [conv[c] EXCEPT !.active = active]]
  BY DEF Sound, TypeOK
<1> DEFINE row == [conv[c] EXCEPT !.active = active]
<1>2. row.msgs = conv[c].msgs
  BY <1>1, PostedMessages
<1> HIDE DEF row
<1>3. conv' = [conv EXCEPT ![c] = row]
  BY <1>1 DEF row
<1>4. Messaged(c, row.msgs)
  BY <1>3, MessagedByRow
<1> QED BY <1>2, <1>4 DEF Messaged

\* Finish with an answer empties the draft and posts the answer.
LEMMA FinishCompletedColumns ==
  ASSUME Sound, NEW w \in Workers, FinishCompleted(w)
  PROVE  LET r == claim[w].run
             c == run[r].conv IN
         /\ Columns(r, run[r].inter, <<>>, run[r].input)
         /\ Messaged(c, Append(conv[c].msgs, Message(r, "assistant", claim[w].fence)))
<1> DEFINE r == claim[w].run
           c == run[r].conv
           message == Message(r, "assistant", claim[w].fence)
           crow == [Post(conv[c], message) EXCEPT !.active = IF Background(r) THEN @ ELSE NoRun]
<1>1. r \in Runs /\ run[r] \in RunRows /\ c \in Conversations /\ conv[c] \in ConvRows
  BY HeldRun DEF FinishCompleted, Sound, TypeOK
<1>2. run'[r] = [Ended(run[r], "completed") EXCEPT !.draft = <<>>]
  BY <1>1 DEF FinishCompleted, Sound, TypeOK
<1>3. ASSUME NEW row \in RunRows
      PROVE  LET new == [Ended(row, "completed") EXCEPT !.draft = <<>>] IN
             /\ new.inter = row.inter /\ new.draft = <<>>
             /\ new.input = row.input /\ new.client = row.client
  BY DEF RunRows, Ended
<1>4. Columns(r, run[r].inter, <<>>, run[r].input)
  BY <1>1, <1>2, <1>3 DEF Columns
<1>5. conv' = [conv EXCEPT ![c] = crow]
  BY ZenonT(30) DEF FinishCompleted
<1>6. crow.msgs = Append(conv[c].msgs, message)
  <2>1. \A active : [Post(conv[c], message) EXCEPT !.active = active].msgs
                      = Append(conv[c].msgs, message)
    BY <1>1, PostedMessages
  <2> QED BY <2>1
<1> HIDE DEF crow, message
<1>7. Messaged(c, Append(conv[c].msgs, message))
  BY <1>1, <1>5, <1>6, MessagedByRow
<1> QED BY <1>4, <1>7 DEF message

\* Finish with an error changes none of them.
LEMMA FinishFailedColumns ==
  ASSUME Sound, NEW w \in Workers, FinishFailed(w)
  PROVE  LET r == claim[w].run
             c == run[r].conv IN
         /\ Columns(r, run[r].inter, run[r].draft, run[r].input)
         /\ Messaged(c, conv[c].msgs)
<1> DEFINE r == claim[w].run
           c == run[r].conv
           active == IF Background(r) THEN conv[c].active ELSE NoRun
<1>1. r \in Runs /\ run[r] \in RunRows /\ c \in Conversations /\ conv[c] \in ConvRows
  BY HeldRun DEF FinishFailed, Sound, TypeOK
<1>2. run'[r] = Ended(run[r], "failed")
  BY <1>1 DEF FinishFailed, Sound, TypeOK
<1>3. ASSUME NEW row \in RunRows
      PROVE  LET new == Ended(row, "failed") IN
             /\ new.inter = row.inter /\ new.draft = row.draft
             /\ new.input = row.input /\ new.client = row.client
  BY DEF RunRows, Ended
<1>4. Columns(r, run[r].inter, run[r].draft, run[r].input)
  BY <1>1, <1>2, <1>3 DEF Columns
<1>5. conv' = [conv EXCEPT ![c].active = active]
  BY DEF FinishFailed
<1> HIDE DEF active
<1>6. Messaged(c, conv[c].msgs)
  BY <1>1, <1>5, MessagedByActive
<1> QED BY <1>4, <1>6

\* WaitExecution puts the question into the row.
LEMMA WaitExecutionColumns ==
  ASSUME Sound, NEW w \in Workers, NEW kind \in Kinds, WaitExecution(w, kind)
  PROVE  LET r == claim[w].run IN
         Columns(r, Pending(kind), run[r].draft, run[r].input)
<1> DEFINE r == claim[w].run
<1>1. r \in Runs /\ run[r] \in RunRows
  BY HeldRun DEF WaitExecution
<1>2. run'[r] = [Released(run[r], WaitStatus(kind)) EXCEPT !.inter = Pending(kind)]
  BY <1>1 DEF WaitExecution, Sound, TypeOK
<1>3. ASSUME NEW row \in RunRows, NEW status, NEW inter
      PROVE  LET new == [Released(row, status) EXCEPT !.inter = inter] IN
             /\ new.inter = inter /\ new.draft = row.draft
             /\ new.input = row.input /\ new.client = row.client
  BY DEF RunRows, Released
<1> QED BY <1>1, <1>2, <1>3, SMT DEF Columns

\* A receipt that settles the reconciliation changes the question only.
LEMMA ResolveReconciliationColumns ==
  ASSUME Sound, NEW w \in Workers, ResolveReconciliation(w)
  PROVE  LET r == claim[w].run IN
         /\ Columns(r, CloseInteraction(run[r].inter, "resolved"), run[r].draft, run[r].input)
         /\ run'[r].fence = run[r].fence
<1> DEFINE r == claim[w].run
           inter == CloseInteraction(run[r].inter, "resolved")
<1>1. r \in Runs /\ run[r] \in RunRows
  BY HeldRun DEF ResolveReconciliation
<1>2. run'[r] = [run[r] EXCEPT !.inter = inter]
  BY <1>1 DEF ResolveReconciliation, Sound, TypeOK
<1>3. ASSUME NEW row \in RunRows, NEW i
      PROVE  LET new == [row EXCEPT !.inter = i] IN
             /\ new.inter = i /\ new.draft = row.draft /\ new.fence = row.fence
             /\ new.input = row.input /\ new.client = row.client
  BY DEF RunRows
<1> HIDE DEF inter
<1>4. Columns(r, inter, run[r].draft, run[r].input) /\ run'[r].fence = run[r].fence
  BY <1>1, <1>2, <1>3, SMT DEF Columns
<1> QED BY <1>4 DEF inter

\* An answer is put into the question and posted.
LEMMA RespondColumns ==
  ASSUME Sound, NEW r \in Runs, NEW decision \in Decisions, Respond(r, decision)
  PROVE  LET c == run[r].conv
             outcome == Outcome(run[r].inter.kind, decision) IN
         /\ Columns(r, [run[r].inter EXCEPT !.status = outcome], <<>>, LastSeq(c) + 1)
         /\ Messaged(c, Append(conv[c].msgs, Message(r, "user", 0)))
         /\ run'[r].fence = run[r].fence + 1
<1> DEFINE c == run[r].conv
           outcome == Outcome(run[r].inter.kind, decision)
           rejected == outcome = "rejected"
           status == IF rejected THEN "cancelled" ELSE "queued"
           inter == [run[r].inter EXCEPT !.status = outcome]
           message == Message(r, "user", 0)
           crow == [Post(conv[c], message) EXCEPT
                      !.active = IF rejected /\ @ = r THEN NoRun ELSE @]
<1>1. /\ run[r].status \in Waiting
      /\ run' = [run EXCEPT ![r] = [Released(run[r], status) EXCEPT
                    !.inter = inter, !.input = LastSeq(c) + 1, !.draft = <<>>]]
      /\ conv' = [conv EXCEPT ![c] = crow]
  BY DEF Respond, AwaitsResponse
<1>2. run[r] \in RunRows /\ c \in Conversations /\ conv[c] \in ConvRows
  BY <1>1, CalledRun DEF Exists, Waiting
<1>3. ASSUME NEW row \in RunRows, NEW s, NEW i, NEW n
      PROVE  LET new == [Released(row, s) EXCEPT !.inter = i, !.input = n, !.draft = <<>>] IN
             /\ new.inter = i /\ new.draft = <<>> /\ new.input = n
             /\ new.client = row.client /\ new.fence = row.fence + 1
  BY DEF RunRows, Released
<1> HIDE DEF status, inter
<1>4. Columns(r, inter, <<>>, LastSeq(c) + 1) /\ run'[r].fence = run[r].fence + 1
  <2>1. run'[r] = [Released(run[r], status) EXCEPT
                     !.inter = inter, !.input = LastSeq(c) + 1, !.draft = <<>>]
    BY <1>1 DEF Sound, TypeOK
  <2> QED BY <1>2, <1>3, <2>1, SMT DEF Columns
<1>5. crow.msgs = Append(conv[c].msgs, message)
  <2>1. \A active : [Post(conv[c], message) EXCEPT !.active = active].msgs
                      = Append(conv[c].msgs, message)
    BY <1>2, PostedMessages
  <2> QED BY <2>1
<1> HIDE DEF crow, message
<1>6. Messaged(c, Append(conv[c].msgs, message))
  BY <1>1, <1>2, <1>5, MessagedByRow
<1> QED BY <1>4, <1>6 DEF inter, message

\* The deadline of a question passes.
LEMMA InteractionDueColumns ==
  ASSUME Sound, NEW r \in Runs, InteractionDue(r)
  PROVE  Columns(r, [run[r].inter EXCEPT !.due = TRUE], run[r].draft, run[r].input)
<1> DEFINE inter == [run[r].inter EXCEPT !.due = TRUE]
<1>1. run'[r] = [run[r] EXCEPT !.inter = inter] /\ run[r] \in RunRows
  BY DEF InteractionDue, Sound, TypeOK
<1>2. ASSUME NEW row \in RunRows, NEW i
      PROVE  LET new == [row EXCEPT !.inter = i] IN
             /\ new.inter = i /\ new.draft = row.draft
             /\ new.input = row.input /\ new.client = row.client
  BY DEF RunRows
<1> HIDE DEF inter
<1>3. Columns(r, inter, run[r].draft, run[r].input)
  BY <1>1, <1>2, SMT DEF Columns
<1> QED BY <1>3 DEF inter

\* Expiry and cancellation close the question.
LEMMA ClosedColumns ==
  ASSUME Sound, NEW r \in Runs, NEW status, NEW how,
         run' = [run EXCEPT ![r] = [Released(run[r], status) EXCEPT
                                      !.inter = CloseInteraction(@, how)]]
  PROVE  /\ Columns(r, CloseInteraction(run[r].inter, how), run[r].draft, run[r].input)
         /\ run'[r].fence = run[r].fence + 1
<1> DEFINE inter == CloseInteraction(run[r].inter, how)
<1>1. run[r] \in RunRows /\ Released(run[r], status).inter = run[r].inter
  BY ReleasedColumns DEF Sound, TypeOK
<1>2. run'[r] = [Released(run[r], status) EXCEPT !.inter = inter]
  BY <1>1 DEF Sound, TypeOK
<1> HIDE DEF inter
<1>4. Columns(r, inter, run[r].draft, run[r].input) /\ run'[r].fence = run[r].fence + 1
  <2> DEFINE new == [Released(run[r], status) EXCEPT !.inter = inter]
  <2>1. /\ new.inter = inter /\ new.draft = run[r].draft /\ new.fence = run[r].fence + 1
        /\ new.input = run[r].input /\ new.client = run[r].client
    BY <1>1 DEF RunRows, Released
  <2>2. run'[r] = new
    BY <1>2
  <2> HIDE DEF new
  <2> QED BY <2>1, <2>2 DEF Columns
<1> QED BY <1>4 DEF inter

\* ClearActive posts nothing.
LEMMA ClearActiveMessages ==
  ASSUME Sound, NEW c \in Conversations, NEW r, conv' = ClearActive(c, r)
  PROVE  Messaged(c, conv[c].msgs)
<1> DEFINE active == IF conv[c].active = r THEN NoRun ELSE conv[c].active
<1>1. conv' = [conv EXCEPT ![c].active = active]
  BY DEF ClearActive
<1> HIDE DEF active
<1> QED BY <1>1, MessagedByActive

\* Expiry closes the question and posts nothing.
LEMMA ExpireInteractionColumns ==
  ASSUME Sound, NEW r \in Runs, ExpireInteraction(r)
  PROVE  /\ Columns(r, CloseInteraction(run[r].inter, "expired"), run[r].draft, run[r].input)
         /\ Messaged(run[r].conv, conv[run[r].conv].msgs)
         /\ run'[r].fence = run[r].fence + 1
<1>1. run[r].conv \in Conversations
  BY ExpireInteractionDoes
<1>2. /\ run' = [run EXCEPT ![r] = [Released(run[r], "failed") EXCEPT
                                     !.inter = CloseInteraction(@, "expired")]]
      /\ conv' = ClearActive(run[r].conv, r)
  BY DEF ExpireInteraction
<1> QED BY <1>1, <1>2, ClosedColumns, ClearActiveMessages

\* So does a cancellation.
LEMMA CancelColumns ==
  ASSUME Sound, NEW r \in Runs, Cancel(r)
  PROVE  /\ Columns(r, CloseInteraction(run[r].inter, "cancelled"), run[r].draft, run[r].input)
         /\ Messaged(run[r].conv, conv[run[r].conv].msgs)
         /\ run'[r].fence = run[r].fence + 1
<1>1. run[r].conv \in Conversations
  BY CancelDoes
<1>2. /\ run' = [run EXCEPT ![r] = [Released(run[r], "cancelled") EXCEPT
                                     !.inter = CloseInteraction(@, "cancelled")]]
      /\ conv' = ClearActive(run[r].conv, r)
  BY DEF Cancel
<1> QED BY <1>1, <1>2, ClosedColumns, ClearActiveMessages

\* Resume empties the draft and keeps the question and the input.
LEMMA ResumeColumns ==
  ASSUME Sound, NEW r \in Runs, Resume(r)
  PROVE  /\ Columns(r, run[r].inter, <<>>, run[r].input)
         /\ Messaged(run[r].conv, conv[run[r].conv].msgs)
         /\ run'[r].fence = run[r].fence + 1
<1> DEFINE c == run[r].conv
           active == IF Background(r) THEN conv[c].active ELSE r
<1>1. c \in Conversations /\ run[r] \in RunRows
  BY ResumeDoes DEF Sound, TypeOK
<1>2. run'[r] = [Released(run[r], "queued") EXCEPT !.draft = <<>>]
  BY DEF Resume, Sound, TypeOK
<1>3. ASSUME NEW row \in RunRows
      PROVE  LET new == [Released(row, "queued") EXCEPT !.draft = <<>>] IN
             /\ new.inter = row.inter /\ new.draft = <<>> /\ new.fence = row.fence + 1
             /\ new.input = row.input /\ new.client = row.client
  BY DEF RunRows, Released
<1>4. Columns(r, run[r].inter, <<>>, run[r].input) /\ run'[r].fence = run[r].fence + 1
  BY <1>1, <1>2, <1>3 DEF Columns
<1>5. conv' = [conv EXCEPT ![c].active = active]
  BY DEF Resume
<1> HIDE DEF active
<1>6. Messaged(c, conv[c].msgs)
  BY <1>1, <1>5, MessagedByActive
<1> QED BY <1>4, <1>6

\* The row as it is inserted.
LEMMA QueuedColumns ==
  ASSUME NEW c, NEW t, NEW m
  PROVE  LET new == QueuedRow(c, t, m) IN
         /\ new.inter = NoInteraction /\ new.draft = <<>>
         /\ new.input = LastSeq(c) + 1 /\ new.client = m
BY DEF QueuedRow, NoRow

\* Enqueue inserts a run for a client_message_id that the conversation has not seen.
LEMMA EnqueueColumns ==
  ASSUME Sound, NEW c \in Conversations, NEW m \in ClientIDs, Enqueue(c, m)
  PROVE  \E r \in Runs :
           /\ Fresh(r) /\ Inserts(r, c, Nil) /\ ActiveOnly(c, r) /\ Inserted(r, c, m)
<1> DEFINE message(r) == Message(r, "user", 0)
           crow(r) == [Post(conv[c], message(r)) EXCEPT !.active = r]
<1>1. PICK r \in Runs :
        /\ Fresh(r)
        /\ run' = [run EXCEPT ![r] = QueuedRow(c, Nil, m)]
        /\ conv' = [conv EXCEPT ![c] = crow(r)]
  BY DEF Enqueue
<1>2. conv[c] \in ConvRows /\ ~conv[c].gone /\ conv[c].active = NoRun
      /\ Nil \in Tasks \cup {Nil} /\ m \in ClientIDs \cup {Nil}
  BY DEF Sound, TypeOK, Enqueue
<1>3. Inserts(r, c, Nil)
  BY <1>1, <1>2, InsertsByRow
<1>4. run'[r] = QueuedRow(c, Nil, m)
  BY <1>1 DEF Sound, TypeOK
<1>5. crow(r).msgs = Append(conv[c].msgs, message(r))
  BY <1>2, PostedMessages, SMT
<1>6. ActiveOnly(c, r)
  <2>1. Post(conv[c], message(r)) \in ConvRows /\ Post(conv[c], message(r)).gone = conv[c].gone
    BY <1>2, PostedRow, SMT
  <2>2. crow(r) \in ConvRows /\ crow(r).active = r /\ crow(r).gone = conv[c].gone
    BY <2>1, ConvActive
  <2> HIDE DEF crow
  <2> QED BY <1>1, <2>2, ActiveByRow
<1> HIDE DEF crow, message
<1>7. Messaged(c, Append(conv[c].msgs, message(r)))
  BY <1>1, <1>5, MessagedByRow
<1> QED BY <1>1, <1>3, <1>4, <1>6, <1>7, QueuedColumns, SMT DEF Inserted, message

\* LaunchConversationTask inserts a run for its task, and no client_message_id.
LEMMA LaunchTaskColumns ==
  ASSUME Sound, NEW t \in Tasks, LaunchTask(t)
  PROVE  \E r \in Runs :
           /\ Fresh(r) /\ Inserts(r, TaskConv[t], t) /\ ActiveOnly(TaskConv[t], NoRun)
           /\ Inserted(r, TaskConv[t], Nil)
           /\ task' = [task EXCEPT ![t] = [status |-> "running", run |-> r]]
<1> DEFINE c == TaskConv[t]
           message(r) == Message(r, "user", 0)
           crow(r) == Post(conv[c], message(r))
<1>1. PICK r \in Runs :
        /\ Fresh(r)
        /\ run' = [run EXCEPT ![r] = QueuedRow(c, t, Nil)]
        /\ task' = [task EXCEPT ![t] = [status |-> "running", run |-> r]]
        /\ conv' = [conv EXCEPT ![c] = crow(r)]
  BY DEF LaunchTask
<1>2. c \in Conversations /\ conv[c] \in ConvRows /\ ~conv[c].gone /\ conv[c].active = NoRun
      /\ t \in Tasks \cup {Nil} /\ Nil \in ClientIDs \cup {Nil}
  BY ConversationRunConstants DEF Sound, TypeOK, LaunchTask
<1>3. Inserts(r, c, t)
  BY <1>1, <1>2, InsertsByRow
<1>4. run'[r] = QueuedRow(c, t, Nil)
  BY <1>1 DEF Sound, TypeOK
<1>5. crow(r).msgs = Append(conv[c].msgs, message(r))
  BY <1>2, PostedMessages
<1>6. ActiveOnly(c, NoRun)
  <2>1. crow(r) \in ConvRows /\ crow(r).gone = conv[c].gone /\ crow(r).active = NoRun
    BY <1>2, PostedRow, SMT
  <2> HIDE DEF crow
  <2> QED BY <1>1, <1>2, <2>1, ActiveByRow
<1> HIDE DEF crow, message
<1>7. Messaged(c, Append(conv[c].msgs, message(r)))
  BY <1>1, <1>2, <1>5, MessagedByRow
<1>8. Inserted(r, c, Nil)
  BY <1>4, <1>7, QueuedColumns, SMT DEF Inserted, message
<1> QED BY <1>1, <1>3, <1>6, <1>8

\* Delete empties the conversation, and the rows of its runs.
LEMMA DeleteColumns ==
  ASSUME Sound, NEW c \in Conversations, Delete(c)
  PROVE  /\ Removes(c)
         /\ Messaged(c, <<>>)
         /\ \A r \in Runs : Exists(r) /\ run[r].conv = c =>
              /\ run'[r].inter = NoInteraction /\ run'[r].draft = <<>>
              /\ run'[r].task = Nil
<1>1. Removes(c)
  BY DeleteDoes
<1>2. Messaged(c, <<>>)
  BY DEF Delete, Messaged, Sound, TypeOK
<1>3. \A r \in Runs : Exists(r) /\ run[r].conv = c
                        => run'[r] = [NoRow EXCEPT !.status = "deleted"]
  BY DEF Delete
<1>4. LET new == [NoRow EXCEPT !.status = "deleted"] IN
      new.inter = NoInteraction /\ new.draft = <<>> /\ new.task = Nil
  BY DEF NoRow
<1> QED BY <1>1, <1>2, <1>3, <1>4

\* Time changes none of them.
LEMMA TickColumns ==
  ASSUME Sound, Tick, NEW r \in Runs
  PROVE  Columns(r, run[r].inter, run[r].draft, run[r].input)
<1> DEFINE lease == run[r].lease - 1
<1>1. run[r] \in RunRows /\ (run'[r] = run[r] \/ run'[r] = [run[r] EXCEPT !.lease = lease])
  BY DEF Tick, Sound, TypeOK
<1> HIDE DEF lease
<1>2. ASSUME NEW row \in RunRows, NEW l
      PROVE  LET new == [row EXCEPT !.lease = l] IN
             /\ new.inter = row.inter /\ new.draft = row.draft
             /\ new.input = row.input /\ new.client = row.client
  BY DEF RunRows
<1>3. CASE run'[r] = run[r]
  BY <1>3 DEF Columns
<1>4. CASE run'[r] = [run[r] EXCEPT !.lease = lease]
  BY <1>1, <1>2, <1>4, SMT DEF Columns
<1> QED BY <1>1, <1>3, <1>4

-----------------------------------------------------------------------------
(* Questions and drafts, row by row.                                       *)

\* Only row r changes, and it is in order.
LEMMA RowsByStep ==
  ASSUME Rows, NEW r \in Runs, NEW status, Step(r, status),
         NEW inter, NEW draft, NEW input, Columns(r, inter, draft, input),
         QuestionOK(inter, status), DraftOK(draft, status, run'[r].fence)
  PROVE  Rows'
<1>1. RowOK(run'[r])
  BY DEF RowOK, Step, Columns
<1>2. \A q \in Runs : q # r => run'[q] = run[q]
  BY DEF Step
<1> QED BY <1>1, <1>2 DEF Rows

\* A sequence with one element more.
LEMMA Appended ==
  ASSUME NEW S, NEW s \in Seq(S), NEW x \in S
  PROVE  /\ Append(s, x) \in Seq(S)
         /\ Len(s) \in Nat /\ DOMAIN s = 1..Len(s) /\ Len(Append(s, x)) = Len(s) + 1
         /\ DOMAIN Append(s, x) = 1..(Len(s) + 1)
         /\ \A i \in 1..(Len(s) + 1) : Append(s, x)[i] = IF i <= Len(s) THEN s[i] ELSE x
BY SMT

\* An empty draft is in order.
LEMMA NoDraft == \A status, fence : DraftOK(<<>>, status, fence)
BY SMT DEF DraftOK

\* A draft stays in order when its run is not running any more.
LEMMA KeptDraft ==
  ASSUME NEW draft, NEW s, NEW f, DraftOK(draft, s, f), NEW status, NEW fence,
         status # "running"
  PROVE  DraftOK(draft, status, fence)
BY DEF DraftOK

\* closeRunInteraction for a run that ends.
LEMMA ClosedQuestion ==
  ASSUME NEW inter \in Interactions, NEW s, QuestionOK(inter, s),
         NEW how \in {"expired", "cancelled"}, NEW status \in Terminal
  PROVE  QuestionOK(CloseInteraction(inter, how), status)
BY DEF QuestionOK, CloseInteraction, Interactions, Closed, Terminal, Waiting

\* Transactions of a worker keep questions and drafts in order.
LEMMA RowsWorkerStep ==
  ASSUME Sound, Rows, NEW w \in Workers, WorkerStep(w)
  PROVE  Rows'
<1> DEFINE r == claim[w].run
<1>a. \A q \in Runs : /\ QuestionOK(run[q].inter, run[q].status)
                        /\ DraftOK(run[q].draft, run[q].status, run[q].fence)
                        /\ run[q].inter \in Interactions /\ run[q].draft \in Seq(Nat)
  BY DEF Rows, RowOK, Sound, TypeOK, RunRows
<1>1. CASE Claim(w)
  <2>1. PICK q \in Runs :
           /\ run[q].status \in {"queued", "running"}
           /\ Step(q, "running")
           /\ Columns(q, run[q].inter, <<>>, run[q].input)
    BY <1>1, ClaimColumns
  <2>2. QuestionOK(run[q].inter, "running")
    BY <1>a, <2>1 DEF QuestionOK, Terminal, Waiting
  <2> QED BY <2>1, <2>2, NoDraft, RowsByStep
<1>2. CASE Heartbeat(w)
  <2>1. /\ r \in Runs /\ Step(r, run[r].status)
        /\ Columns(r, run[r].inter, run[r].draft, run[r].input)
    BY <1>2, HeartbeatDoes, HeartbeatColumns
  <2>2. run'[r].fence = run[r].fence
    BY <1>2, <2>1 DEF Heartbeat, Sound, TypeOK, RunRows
  <2> QED BY <1>a, <2>1, <2>2, RowsByStep
<1>3. CASE AppendDelta(w)
  <2> DEFINE draft == Append(run[r].draft, claim[w].fence)
  <2>1. /\ r \in Runs /\ Step(r, run[r].status)
        /\ Columns(r, run[r].inter, draft, run[r].input)
        /\ run'[r].fence = run[r].fence
    BY <1>3, AppendDeltaDoes, AppendDeltaColumns
  <2>2. run[r].status = "running" /\ run[r].fence = claim[w].fence
    BY <1>3 DEF AppendDelta, Claimed
  <2>3. DraftOK(draft, run[r].status, run[r].fence)
    <3>1. claim[w].fence \in Nat /\ run[r].draft \in Seq(Nat)
      BY <1>3, <1>a, <2>1, HeldRun DEF AppendDelta
    <3>2. /\ DOMAIN draft = 1..(Len(run[r].draft) + 1)
          /\ \A i \in 1..(Len(run[r].draft) + 1) :
               draft[i] = IF i <= Len(run[r].draft) THEN run[r].draft[i] ELSE claim[w].fence
          /\ DOMAIN run[r].draft = 1..Len(run[r].draft) /\ Len(run[r].draft) \in Nat
      <4> HIDE DEF r
      <4> QED BY <3>1, Appended, SMT
    <3>3. \A i \in DOMAIN run[r].draft : run[r].draft[i] = claim[w].fence
      BY <1>a, <2>1, <2>2 DEF DraftOK
    <3> HIDE DEF draft
    <3>4. \A i \in DOMAIN draft : draft[i] = claim[w].fence
      BY <3>2, <3>3, SMTT(30)
    <3>5. \A i \in DOMAIN draft : 1 \in DOMAIN draft
      BY <3>2, SMT
    <3> QED BY <2>2, <3>4, <3>5 DEF DraftOK
  <2> HIDE DEF draft
  <2> QED BY <1>a, <2>1, <2>3, RowsByStep
<1>4. CASE FinishCompleted(w)
  <2>1. /\ r \in Runs /\ Step(r, "completed")
        /\ Columns(r, run[r].inter, <<>>, run[r].input)
    BY <1>4, FinishCompletedDoes, FinishCompletedColumns
  <2>2. QuestionOK(run[r].inter, "completed")
    BY <1>a, <2>1 DEF QuestionOK, Terminal, Waiting
  <2> QED BY <2>1, <2>2, NoDraft, RowsByStep
<1>5. CASE FinishFailed(w)
  <2>1. /\ r \in Runs /\ Step(r, "failed")
        /\ Columns(r, run[r].inter, run[r].draft, run[r].input)
    BY <1>5, FinishFailedDoes, FinishFailedColumns
  <2>2. QuestionOK(run[r].inter, "failed")
    BY <1>a, <2>1 DEF QuestionOK, Terminal, Waiting
  <2> QED BY <1>a, <2>1, <2>2, KeptDraft, RowsByStep, SMT
<1>6. ASSUME NEW kind \in Kinds, WaitExecution(w, kind) PROVE Rows'
  <2>1. /\ r \in Runs /\ Step(r, WaitStatus(kind))
        /\ Columns(r, Pending(kind), run[r].draft, run[r].input)
    BY <1>6, WaitExecutionDoes, WaitExecutionColumns
  <2>2. QuestionOK(Pending(kind), WaitStatus(kind)) /\ WaitStatus(kind) # "running"
    BY DEF QuestionOK, Pending, Closed, Kinds, WaitStatus
  <2> QED BY <1>a, <2>1, <2>2, KeptDraft, RowsByStep
<1>7. CASE ResolveReconciliation(w)
  <2> DEFINE inter == CloseInteraction(run[r].inter, "resolved")
  <2>1. /\ r \in Runs /\ Step(r, run[r].status)
        /\ Columns(r, inter, run[r].draft, run[r].input)
        /\ run'[r].fence = run[r].fence
    BY <1>7, ResolveReconciliationDoes, ResolveReconciliationColumns
  <2>2. run[r].status \notin Waiting
    BY <1>7 DEF ResolveReconciliation, Claimed, CancelledReceipt, Waiting
  <2>3. QuestionOK(inter, run[r].status)
    BY <1>a, <2>1, <2>2, ZenonT(30) DEF QuestionOK, CloseInteraction, Interactions, Closed
  <2> HIDE DEF inter
  <2> QED BY <1>a, <2>1, <2>3, RowsByStep
<1>8. CASE Abandon(w)
  BY <1>8 DEF Abandon, Rows
<1> QED BY <1>1, <1>2, <1>3, <1>4, <1>5, <1>6, <1>7, <1>8 DEF WorkerStep

\* Answers, deadlines, expiries, cancellations and resumes keep them in order.
LEMMA RowsRunStep ==
  ASSUME Sound, Rows, NEW r \in Runs, RunStep(r)
  PROVE  Rows'
<1>a. /\ QuestionOK(run[r].inter, run[r].status)
      /\ DraftOK(run[r].draft, run[r].status, run[r].fence)
      /\ run[r].inter \in Interactions
  BY DEF Rows, RowOK, Sound, TypeOK, RunRows
<1>1. ASSUME NEW decision \in Decisions, Respond(r, decision) PROVE Rows'
  <2> DEFINE outcome == Outcome(run[r].inter.kind, decision)
             inter == [run[r].inter EXCEPT !.status = outcome]
             status == IF outcome = "rejected" THEN "cancelled" ELSE "queued"
             input == LastSeq(run[r].conv) + 1
  <2>1. Step(r, status) /\ Columns(r, inter, <<>>, input)
    BY <1>1, RespondDoes, RespondColumns
  <2>2. outcome \in {"answered", "approved", "rejected"}
    BY <1>1 DEF Respond, Outcome
  <2>3. QuestionOK(inter, status)
    BY <1>a, <2>2 DEF QuestionOK, Interactions, Closed, Terminal, Waiting
  <2> HIDE DEF inter, status, input
  <2> QED BY <2>1, <2>3, NoDraft, RowsByStep
<1>2. CASE InteractionDue(r)
  <2> DEFINE inter == [run[r].inter EXCEPT !.due = TRUE]
  <2>1. Step(r, run[r].status) /\ Columns(r, inter, run[r].draft, run[r].input)
    BY <1>2, InteractionDueDoes, InteractionDueColumns
  <2>2. run'[r].fence = run[r].fence
    BY <1>2 DEF InteractionDue, Sound, TypeOK, RunRows
  <2>3. run[r].inter.status = "pending" /\ run[r].inter.kind # "reconciliation"
    BY <1>2 DEF InteractionDue, AwaitsResponse
  <2>4. QuestionOK(inter, run[r].status)
    BY <1>a, <2>3 DEF QuestionOK, Interactions, Kinds, Closed
  <2> HIDE DEF inter
  <2> QED BY <1>a, <2>1, <2>2, <2>4, RowsByStep
<1>3. CASE ExpireInteraction(r)
  <2> DEFINE inter == CloseInteraction(run[r].inter, "expired")
  <2>1. Step(r, "failed") /\ Columns(r, inter, run[r].draft, run[r].input)
    BY <1>3, ExpireInteractionDoes, ExpireInteractionColumns
  <2>2. QuestionOK(inter, "failed")
    BY <1>a, ClosedQuestion DEF Terminal
  <2> HIDE DEF inter
  <2> QED BY <1>a, <2>1, <2>2, KeptDraft, RowsByStep
<1>4. CASE Cancel(r)
  <2> DEFINE inter == CloseInteraction(run[r].inter, "cancelled")
  <2>1. Step(r, "cancelled") /\ Columns(r, inter, run[r].draft, run[r].input)
    BY <1>4, CancelDoes, CancelColumns
  <2>2. QuestionOK(inter, "cancelled")
    BY <1>a, ClosedQuestion DEF Terminal
  <2> HIDE DEF inter
  <2> QED BY <1>a, <2>1, <2>2, KeptDraft, RowsByStep
<1>5. CASE Resume(r)
  <2>1. Step(r, "queued") /\ Columns(r, run[r].inter, <<>>, run[r].input)
    BY <1>5, ResumeDoes, ResumeColumns
  <2>2. QuestionOK(run[r].inter, "queued")
    BY <1>a, <1>5 DEF Resume, QuestionClosed, QuestionOK, Waiting
  <2> QED BY <2>1, <2>2, NoDraft, RowsByStep
<1> QED BY <1>1, <1>2, <1>3, <1>4, <1>5 DEF RunStep

\* Sends, launches, deletions and time keep them in order.
LEMMA RowsNext ==
  ASSUME Sound, Rows, [Next]_vars
  PROVE  Rows'
<1>a. QuestionOK(NoInteraction, "queued") /\ QuestionOK(NoInteraction, "deleted")
  BY DEF QuestionOK, NoInteraction, Closed, Waiting
<1>1. ASSUME NEW r \in Runs, NEW c, NEW t, NEW m, Inserts(r, c, t), Inserted(r, c, m)
      PROVE  Rows'
  <2>1. RowOK(run'[r])
    BY <1>1, <1>a, NoDraft DEF RowOK, Inserts, Inserted
  <2> QED BY <1>1, <2>1 DEF Rows, Inserts
<1>2. ASSUME NEW c \in Conversations, ConversationStep(c) PROVE Rows'
  <2>1. CASE \E m \in ClientIDs : Enqueue(c, m)
    BY <1>1, <2>1, EnqueueColumns
  <2>2. CASE \E b \in BOOLEAN : Update(c, b)
    BY <2>2 DEF Update, Rows
  <2>3. CASE Delete(c)
    <3>1. ASSUME NEW r \in Runs PROVE RowOK(run'[r])
      <4>1. CASE Exists(r) /\ run[r].conv = c
        BY <1>a, <2>3, <4>1, DeleteColumns, NoDraft, SMT DEF RowOK, Removes
      <4>2. CASE ~(Exists(r) /\ run[r].conv = c)
        BY <2>3, <4>2, DeleteColumns, ZenonT(30) DEF Removes, Rows
      <4> QED BY <4>1, <4>2
    <3> QED BY <3>1 DEF Rows
  <2> QED BY <1>2, <2>1, <2>2, <2>3 DEF ConversationStep
<1>3. ASSUME NEW t \in Tasks, TaskStep(t) PROVE Rows'
  <2>1. CASE LaunchTask(t)
    BY <1>1, <2>1, LaunchTaskColumns
  <2>2. CASE ~LaunchTask(t)
    BY <1>3, <2>2 DEF TaskStep, StartTask, CancelQueuedTask, ResumeQueuedTask, Rows
  <2> QED BY <2>1, <2>2
<1>4. CASE Tick
  <2>1. ASSUME NEW r \in Runs PROVE RowOK(run'[r])
    BY <1>4, <2>1, TickColumns, TickDoes DEF RowOK, Rows, Columns, Same
  <2> QED BY <2>1 DEF Rows
<1>5. CASE UNCHANGED vars
  BY <1>5 DEF vars, Rows
<1> QED BY <1>2, <1>3, <1>4, <1>5, RowsWorkerStep, RowsRunStep DEF Next

\* No run has a question or a draft at first.
LEMMA RowsInit == Init => Rows
<1> SUFFICES ASSUME Init PROVE Rows
  OBVIOUS
<1>1. \A r \in Runs : /\ run[r].status = "none"
                      /\ run[r].inter = NoInteraction /\ run[r].draft = <<>>
  BY DEF Init, NoRow
<1> QED BY <1>1, SMT DEF Rows, RowOK, QuestionOK, DraftOK, NoInteraction, Closed, Waiting

\* Questions and drafts are always in order.
LEMMA RowsInvariant == Spec => [](Sound /\ Rows)
<1>1. Inv => Sound
  BY DEF Inv
<1>2. Sound /\ Rows /\ [Next]_vars => Rows'
  BY RowsNext
<1> QED BY <1>1, <1>2, Invariant, RowsInit, PTL DEF Spec

-----------------------------------------------------------------------------
(* Background tasks and their runs.  TaskAndRunAgree is not inductive: a    *)
(* run that failed or was cancelled can be resumed, and must then still be *)
(* the execution its task names.                                           *)

\* The task of a background run that exists is one of the run's conversation
\* and, unless the run completed, still names this run.
OwnTask(r) ==
  LET t == run[r].task IN
  /\ run[r].conv = TaskConv[t]
  /\ run[r].status # "completed" =>
       /\ task[t].run = r /\ task[t].status \in {"running", "failed", "cancelled"}
       /\ run[r].status \in Open => task[t].status = "running"

Executions ==
  /\ \A r \in Runs : Exists(r) /\ Background(r) => OwnTask(r)
  /\ \A t \in Tasks : task[t].status = "running" => task[t].run \in Runs /\ Exists(task[t].run)
  /\ RunningTaskHasExecution

\* A transaction on run r that leaves r's task as r's new status wants it.
LEMMA ExecutionsByStep ==
  ASSUME Sound, Executions, NEW r \in Runs, NEW status, Step(r, status),
         status \notin {"none", "deleted"}, run[r].status # "completed",
         \A u \in Tasks : u # run[r].task => task'[u] = task[u],
         Background(r) =>
           LET t == run[r].task IN
           /\ task'[t].run = task[t].run
           /\ status # "completed" => task'[t].status \in {"running", "failed", "cancelled"}
           /\ status \in Open => task'[t].status = "running"
           /\ task'[t].status = "running"
                => status \in Open \/ run'[r].inter.status \in {"rejected", "expired"}
  PROVE  Executions'
<1>a. \A q \in Runs : run'[q].conv = run[q].conv /\ run'[q].task = run[q].task
  BY DEF Step
<1>b. \A q \in Runs : run'[q].status \notin {"none", "deleted"} <=> Exists(q)
  BY DEF Step, Exists
<1>c. \A q \in Runs : Background(q)' <=> Background(q)
  BY <1>a DEF Background
<1>d. \A q \in Runs : Exists(q) /\ Background(q) => run[q].task \in Tasks
  BY DEF Sound, TypeOK, RunRows, Background
<1>e. Exists(r)
  BY DEF Step
<1>f. Background(r) => task[run[r].task].run = r
  BY <1>e DEF Executions, OwnTask
<1>1. ASSUME NEW q \in Runs, Exists(q)', Background(q)' PROVE OwnTask(q)'
  <2>1. Exists(q) /\ Background(q) /\ OwnTask(q) /\ run[q].task \in Tasks
    BY <1>1, <1>b, <1>c, <1>d DEF Executions, Exists
  <2>2. CASE q = r
    BY <1>a, <1>f, <2>1, <2>2 DEF OwnTask, Step
  <2>3. CASE q # r
    <3>1. run'[q] = run[q]
      BY <2>3 DEF Step
    <3>2. CASE run[q].status = "completed"
      BY <2>1, <3>1, <3>2 DEF OwnTask
    <3>3. CASE run[q].status # "completed"
      <4>1. run[q].task # run[r].task
        BY <2>1, <2>3, <3>3, <1>f DEF OwnTask, Background
      <4> QED BY <2>1, <3>1, <4>1 DEF OwnTask
    <3> QED BY <3>2, <3>3
  <2> QED BY <2>2, <2>3
<1>2. ASSUME NEW t \in Tasks, task'[t].status = "running"
      PROVE  /\ task'[t].run \in Runs /\ run'[task'[t].run].status \notin {"none", "deleted"}
             /\ task'[t].run # NoRun /\ run'[task'[t].run].task = t
             /\ \/ run'[task'[t].run].status \in Open
                \/ run'[task'[t].run].inter.status \in {"rejected", "expired"}
  <2>0. \A q \in Runs : q # NoRun
    BY RunsExist
  <2>1. CASE t = run[r].task
    <3>1. Background(r)
      BY <2>1, ConversationRunConstants DEF Background
    <3>2. task'[t].run = r
      BY <1>f, <2>1, <3>1
    <3> QED BY <1>2, <1>a, <2>0, <2>1, <3>1, <3>2 DEF Step, Exists
  <2>2. CASE t # run[r].task
    <3> DEFINE q == task[t].run
    <3>1. task'[t] = task[t] /\ q \in Runs /\ Exists(q) /\ run[q].task = t
      BY <1>2, <2>2 DEF Executions, RunningTaskHasExecution
    <3>2. q # r
      BY <2>2, <3>1
    <3>3. run'[q] = run[q]
      BY <3>1, <3>2 DEF Step
    <3> QED BY <1>2, <2>0, <3>1, <3>3, ZenonT(30) DEF Executions, RunningTaskHasExecution, Exists
  <2> QED BY <2>1, <2>2
<1> QED BY <1>1, <1>2 DEF Executions, RunningTaskHasExecution, Exists

\* The task of a run that is open is running, one that ended without a closed
\* question has ended.
LEMMA TaskOfRun ==
  ASSUME Sound, Executions, NEW r \in Runs, Exists(r), Background(r), run[r].status # "completed"
  PROVE  LET t == run[r].task IN
         /\ t \in Tasks /\ task[t].run = r /\ task[t].status \in {"running", "failed", "cancelled"}
         /\ run[r].status \in Open => task[t].status = "running"
         /\ task[t].status = "running"
              => run[r].status \in Open \/ run[r].inter.status \in {"rejected", "expired"}
<1>1. run[r].task \in Tasks
  BY DEF Sound, TypeOK, RunRows, Background
<1>2. OwnTask(r)
  BY DEF Executions
<1> QED BY <1>1, <1>2 DEF OwnTask, Executions, RunningTaskHasExecution

\* A transaction on an open run that leaves it open and its task alone.
LEMMA ExecutionsByOpen ==
  ASSUME Sound, Executions, NEW r \in Runs, run[r].status \in Open, NEW status \in Open,
         Step(r, status), task' = task
  PROVE  Executions'
<1>1. /\ Exists(r) /\ run[r].status # "completed"
      /\ status \notin {"none", "deleted", "completed"}
  BY DEF Step, Exists, Open, Waiting
<1> QED BY <1>1, TaskOfRun, ExecutionsByStep

\* finishConversationTask writes the status of the run's task, and no other.
LEMMA FinishTaskDoes ==
  ASSUME Sound, NEW r \in Runs, NEW status, FinishTask(run[r].task, r, status)
  PROVE  /\ \A u \in Tasks : u # run[r].task => task'[u] = task[u]
         /\ Background(r) =>
              LET t == run[r].task IN
              /\ task[t].status = "running" /\ task'[t].run = task[t].run
              /\ IF status = "completed" THEN task'[t].status \in {"completed", "awaiting_review"}
                                         ELSE task'[t].status = status
<1>1. run[r].task \in Tasks \cup {Nil} /\ task \in [Tasks -> TaskRows]
  BY DEF Sound, TypeOK, RunRows
<1>2. CASE run[r].task = Nil
  BY <1>2 DEF FinishTask, Background
<1>3. CASE run[r].task # Nil
  <2> DEFINE t == run[r].task
             T == IF status = "completed" THEN {"completed", "awaiting_review"} ELSE {status}
  <2>1. t \in Tasks /\ task[t].status = "running"
    BY <1>1, <1>3 DEF FinishTask
  <2>2. PICK new \in T : task' = [task EXCEPT ![t].status = new]
    BY <1>3 DEF FinishTask
  <2>3. task'[t].status = new /\ task'[t].run = task[t].run
    BY <1>1, <2>1, <2>2 DEF TaskRows
  <2>4. \A u \in Tasks : u # t => task'[u] = task[u]
    BY <1>1, <2>1, <2>2
  <2> QED BY <2>1, <2>2, <2>3, <2>4
<1> QED BY <1>2, <1>3

\* resumeConversationTask sets the run's task running again.
LEMMA ResumeTaskDoes ==
  ASSUME Sound, NEW r \in Runs, ResumeTask(run[r].task, r)
  PROVE  /\ \A u \in Tasks : u # run[r].task => task'[u] = task[u]
         /\ Background(r) =>
              LET t == run[r].task IN
              task'[t].run = task[t].run /\ task'[t].status = "running"
<1>1. run[r].task \in Tasks \cup {Nil} /\ task \in [Tasks -> TaskRows]
  BY DEF Sound, TypeOK, RunRows
<1>2. CASE run[r].task = Nil \/ task[run[r].task].status = "running"
  BY <1>2 DEF ResumeTask, Background
<1>3. CASE ~(run[r].task = Nil \/ task[run[r].task].status = "running")
  BY <1>1, <1>3, SMT DEF ResumeTask, Background, TaskRows
<1> QED BY <1>2, <1>3

\* Workers' transactions keep tasks and runs in agreement.
LEMMA ExecutionsWorkerStep ==
  ASSUME Sound, Executions, NEW w \in Workers, WorkerStep(w)
  PROVE  Executions'
<1> DEFINE r == claim[w].run
<1>a. "running" \in Open /\ "queued" \in Open
  BY DEF Open
<1>1. CASE Claim(w)
  <2>1. task' = task
    BY <1>1 DEF Claim
  <2> QED BY <1>1, <1>a, <2>1, ClaimDoes, ExecutionsByOpen
<1>2. CASE Heartbeat(w) \/ AppendDelta(w)
  <2>1. task' = task /\ run[r].status = "running"
    BY <1>2 DEF Heartbeat, AppendDelta, Claimed
  <2>2. r \in Runs /\ Step(r, run[r].status)
    BY <1>2, HeartbeatDoes, AppendDeltaDoes
  <2> QED BY <1>a, <2>1, <2>2, ExecutionsByOpen
<1>3. CASE FinishCompleted(w)
  <2>1. r \in Runs /\ run[r].status = "running" /\ Step(r, "completed")
    BY <1>3, FinishCompletedDoes
  <2>2. FinishTask(run[r].task, r, "completed")
    BY <1>3 DEF FinishCompleted
  <2>3. "completed" \notin Open
    BY DEF Open, Waiting
  <2>4. /\ \A u \in Tasks : u # run[r].task => task'[u] = task[u]
        /\ Background(r) =>
             /\ task'[run[r].task].run = task[run[r].task].run
             /\ task'[run[r].task].status \in {"completed", "awaiting_review"}
    BY <2>1, <2>2, FinishTaskDoes
  <2> HIDE DEF r
  <2> QED BY <2>1, <2>3, <2>4, ExecutionsByStep
<1>4. CASE FinishFailed(w)
  <2>1. r \in Runs /\ run[r].status = "running" /\ Step(r, "failed")
    BY <1>4, FinishFailedDoes
  <2>2. FinishTask(run[r].task, r, "failed")
    BY <1>4 DEF FinishFailed
  <2>3. "failed" \notin Open
    BY DEF Open, Waiting
  <2>4. /\ \A u \in Tasks : u # run[r].task => task'[u] = task[u]
        /\ Background(r) =>
             /\ task'[run[r].task].run = task[run[r].task].run
             /\ task'[run[r].task].status \in {"failed"}
    BY <2>1, <2>2, FinishTaskDoes
  <2> HIDE DEF r
  <2> QED BY <2>1, <2>3, <2>4, ExecutionsByStep
<1>5. ASSUME NEW kind \in Kinds, WaitExecution(w, kind) PROVE Executions'
  <2>1. r \in Runs /\ run[r].status = "running" /\ Step(r, WaitStatus(kind))
    BY <1>5, WaitExecutionDoes
  <2>2. task' = task /\ WaitStatus(kind) \in Open
    BY <1>5, RowFacts DEF WaitExecution, Open
  <2> QED BY <1>a, <2>1, <2>2, ExecutionsByOpen
<1>6. CASE ResolveReconciliation(w)
  <2>1. r \in Runs /\ Step(r, run[r].status)
    BY <1>6, ResolveReconciliationDoes
  <2>2. task' = task /\ run[r].status \in {"running", "cancelled"}
    BY <1>6 DEF ResolveReconciliation, Claimed, CancelledReceipt
  <2>3. run[r].inter.status \in {"pending", "cancelled"}
    BY <1>6 DEF ResolveReconciliation, CloseInteraction
  <2>4. Exists(r) /\ run[r].status # "completed"
    BY <2>1, <2>2 DEF Step, Exists
  <2>5. Background(r) =>
          LET t == run[r].task IN
          /\ task'[t].run = task[t].run
          /\ task'[t].status \in {"running", "failed", "cancelled"}
          /\ run[r].status \in Open => task'[t].status = "running"
          /\ task'[t].status = "running" => run[r].status \in Open
    <3> SUFFICES ASSUME Background(r)
                 PROVE  LET t == run[r].task IN
                        /\ task[t].status \in {"running", "failed", "cancelled"}
                        /\ run[r].status \in Open => task[t].status = "running"
                        /\ task[t].status = "running" => run[r].status \in Open
      BY <2>2
    <3> QED BY <2>1, <2>3, <2>4, TaskOfRun
  <2>6. run[r].status \notin {"none", "deleted"} /\ \A u \in Tasks : task'[u] = task[u]
    BY <2>2, <2>4 DEF Exists
  <2> QED BY <2>1, <2>4, <2>5, <2>6, ExecutionsByStep
<1>7. CASE Abandon(w)
  BY <1>7 DEF Abandon, Executions, RunningTaskHasExecution, OwnTask, Exists, Background
<1> QED BY <1>1, <1>2, <1>3, <1>4, <1>5, <1>6, <1>7 DEF WorkerStep

\* So do answers, expiries, cancellations and resumes.
LEMMA ExecutionsRunStep ==
  ASSUME Sound, Executions, NEW r \in Runs, RunStep(r)
  PROVE  Executions'
<1>a. Waiting \subseteq Open /\ "queued" \in Open /\ "cancelled" \notin Open
      /\ "failed" \notin Open /\ "completed" \notin Open
  BY DEF Open, Waiting
<1>1. ASSUME NEW decision \in Decisions, Respond(r, decision) PROVE Executions'
  <2> DEFINE outcome == Outcome(run[r].inter.kind, decision)
             status == IF outcome = "rejected" THEN "cancelled" ELSE "queued"
  <2>1. /\ run[r].status \in Waiting /\ Step(r, status)
        /\ run'[r].inter = [run[r].inter EXCEPT !.status = outcome]
    BY <1>1, RespondDoes, RespondColumns DEF Columns
  <2>2. run'[r].inter.status = outcome
    BY <2>1, SMT DEF Sound, TypeOK, RunRows, Interactions
  <2>3. task' = task
    BY <1>1 DEF Respond
  <2>4. Exists(r) /\ run[r].status # "completed"
    BY <2>1 DEF Step, Exists, Waiting
  <2> HIDE DEF outcome
  <2> QED BY <1>a, <2>1, <2>2, <2>3, <2>4, TaskOfRun, ExecutionsByStep
<1>2. CASE InteractionDue(r)
  <2>1. run[r].status \in Open /\ Step(r, run[r].status) /\ task' = task
    BY <1>2, <1>a, InteractionDueDoes DEF InteractionDue, AwaitsResponse
  <2> QED BY <2>1, ExecutionsByOpen
<1>3. CASE ExpireInteraction(r)
  <2>1. /\ run[r].status \in Waiting /\ Step(r, "failed")
        /\ run'[r].inter = CloseInteraction(run[r].inter, "expired")
    BY <1>3, ExpireInteractionDoes, ExpireInteractionColumns DEF Columns
  <2>2. run[r].inter.status = "pending" /\ task' = task
    BY <1>3 DEF ExpireInteraction, AwaitsResponse
  <2>3. run'[r].inter.status = "expired"
    BY <2>1, <2>2 DEF CloseInteraction, Sound, TypeOK, RunRows, Interactions
  <2>4. Exists(r) /\ run[r].status # "completed"
    BY <2>1 DEF Step, Exists, Waiting
  <2> QED BY <1>a, <2>1, <2>2, <2>3, <2>4, TaskOfRun, ExecutionsByStep
<1>4. CASE Cancel(r)
  <2>1. run[r].status \in Open /\ Step(r, "cancelled")
    BY <1>4, CancelDoes
  <2>2. FinishTask(run[r].task, r, "cancelled")
    BY <1>4 DEF Cancel
  <2>3. run[r].status # "completed"
    BY <1>a, <2>1 DEF Step, Exists
  <2> QED BY <1>a, <2>1, <2>2, <2>3, FinishTaskDoes, ExecutionsByStep
<1>5. CASE Resume(r)
  <2>1. /\ run[r].status \in {"failed", "cancelled", "needs_reconciliation"}
        /\ Step(r, "queued")
    BY <1>5, ResumeDoes
  <2>2. ResumeTask(run[r].task, r)
    BY <1>5 DEF Resume
  <2>3. run[r].status # "completed"
    BY <2>1 DEF Step, Exists
  <2> QED BY <1>a, <2>1, <2>2, <2>3, ResumeTaskDoes, ExecutionsByStep
<1> QED BY <1>1, <1>2, <1>3, <1>4, <1>5 DEF RunStep

\* A run is inserted; its task, if it has one, is set running with this run.
LEMMA ExecutionsByInsert ==
  ASSUME Sound, Executions, NEW r \in Runs, NEW c, NEW t \in Tasks \cup {Nil},
         Inserts(r, c, t),
         \A u \in Tasks : u # t => task'[u] = task[u],
         t # Nil => /\ c = TaskConv[t] /\ task[t].status = "queued"
                    /\ task'[t] = [status |-> "running", run |-> r]
  PROVE  Executions'
<1>a. \A q \in Runs : q # r => run'[q] = run[q]
  BY DEF Inserts
<1>b. run[r].status = "none" /\ run'[r].task = t /\ run'[r].conv = c /\ run'[r].status = "queued"
  BY DEF Inserts
<1>c. \A q \in Runs : q # NoRun
  BY RunsExist
<1>d. Nil \notin Tasks
  BY ConversationRunConstants
<1>1. ASSUME NEW q \in Runs, Exists(q)', Background(q)' PROVE OwnTask(q)'
  <2>1. CASE q = r
    BY <1>1, <1>b, <2>1, SMT DEF OwnTask, Background
  <2>2. CASE q # r
    <3>1. run'[q] = run[q] /\ Exists(q) /\ Background(q) /\ OwnTask(q)
      BY <1>1, <1>a, <2>2 DEF Exists, Background, Executions
    <3>2. run[q].status # "completed" => run[q].task # t
      BY <3>1 DEF OwnTask, Background
    <3>3. run[q].task \in Tasks
      BY <3>1 DEF Sound, TypeOK, RunRows, Background
    <3> QED BY <3>1, <3>2, <3>3 DEF OwnTask
  <2> QED BY <2>1, <2>2
<1>2. ASSUME NEW u \in Tasks, task'[u].status = "running"
      PROVE  /\ task'[u].run \in Runs /\ run'[task'[u].run].status \notin {"none", "deleted"}
             /\ task'[u].run # NoRun /\ run'[task'[u].run].task = u
             /\ \/ run'[task'[u].run].status \in Open
                \/ run'[task'[u].run].inter.status \in {"rejected", "expired"}
  <2>1. CASE u = t
    BY <1>b, <1>c, <1>d, <2>1, SMT DEF Open
  <2>2. CASE u # t
    <3> DEFINE q == task[u].run
    <3>1. task'[u] = task[u] /\ q \in Runs /\ Exists(q) /\ run[q].task = u
      BY <1>2, <2>2 DEF Executions, RunningTaskHasExecution
    <3>2. q # r
      BY <1>b, <3>1 DEF Exists
    <3>3. run'[q] = run[q] /\ task[u].status = "running" /\ q # NoRun
      BY <1>2, <1>a, <1>c, <3>1, <3>2
    <3> QED BY <3>1, <3>3 DEF Executions, RunningTaskHasExecution, Exists
  <2> QED BY <2>1, <2>2
<1> QED BY <1>1, <1>2 DEF Executions, RunningTaskHasExecution, Exists

\* Every step keeps tasks and runs in agreement.
LEMMA ExecutionsNext ==
  ASSUME Sound, Executions, [Next]_vars
  PROVE  Executions'
<1>a. Nil \notin Tasks
  BY ConversationRunConstants
<1>b. \A r \in Runs : Background(r) => run[r].task \in Tasks
  BY DEF Sound, TypeOK, RunRows, Background
<1>1. ASSUME NEW c \in Conversations, ConversationStep(c) PROVE Executions'
  <2>1. ASSUME NEW m \in ClientIDs, Enqueue(c, m) PROVE Executions'
    <3>1. PICK r \in Runs : Inserts(r, c, Nil)
      BY <2>1, EnqueueDoes
    <3>2. task' = task
      BY <2>1 DEF Enqueue
    <3> QED BY <3>1, <3>2, ExecutionsByInsert
  <2>2. CASE \E b \in BOOLEAN : Update(c, b)
    BY <2>2, SMT DEF Update, Executions, RunningTaskHasExecution, OwnTask, Exists, Background
  <2>3. CASE Delete(c)
    <3>1. \A r \in Runs : IF Exists(r) /\ run[r].conv = c
                            THEN run'[r].status = "deleted" ELSE run'[r] = run[r]
      BY <2>3, DeleteDoes DEF Removes
    <3>2. \A t \in Tasks : task'[t] = IF TaskConv[t] = c /\ task[t].status # "none"
                              THEN [status |-> "deleted", run |-> NoRun] ELSE task[t]
      BY <2>3 DEF Delete
    <3>3. ASSUME NEW q \in Runs, Exists(q)', Background(q)' PROVE OwnTask(q)'
      <4>1. Exists(q) /\ run'[q] = run[q] /\ run[q].conv # c /\ Background(q) /\ OwnTask(q)
        BY <3>1, <3>3 DEF Exists, Background, Executions
      <4>2. run[q].task \in Tasks /\ TaskConv[run[q].task] # c
        BY <1>b, <4>1 DEF OwnTask
      <4>3. task'[run[q].task] = task[run[q].task]
        BY <3>2, <4>2
      <4> QED BY <4>1, <4>3 DEF OwnTask
    <3>4. ASSUME NEW u \in Tasks, task'[u].status = "running"
          PROVE  /\ task'[u].run \in Runs /\ task'[u].run # NoRun
                 /\ run'[task'[u].run].status \notin {"none", "deleted"}
                 /\ run'[task'[u].run].task = u
                 /\ \/ run'[task'[u].run].status \in Open
                    \/ run'[task'[u].run].inter.status \in {"rejected", "expired"}
      <4> DEFINE q == task[u].run
      <4>1. task'[u] = task[u] /\ TaskConv[u] # c
        BY <3>2, <3>4, SMT
      <4>2. /\ q \in Runs /\ q # NoRun /\ Exists(q) /\ run[q].task = u
            /\ run[q].status \in Open \/ run[q].inter.status \in {"rejected", "expired"}
        BY <3>4, <4>1 DEF Executions, RunningTaskHasExecution
      <4>3. run[q].conv # c
        BY <1>a, <4>1, <4>2, SMT DEF Executions, OwnTask, Background
      <4>4. run'[q] = run[q]
        BY <3>1, <4>2, <4>3
      <4> QED BY <4>1, <4>2, <4>4 DEF Exists
    <3> QED BY <3>3, <3>4 DEF Executions, RunningTaskHasExecution, Exists
  <2> QED BY <1>1, <2>1, <2>2, <2>3 DEF ConversationStep
<1>2. ASSUME NEW t \in Tasks, TaskStep(t) PROVE Executions'
  <2>1. CASE LaunchTask(t)
    <3>1. PICK r \in Runs :
            /\ Inserts(r, TaskConv[t], t)
            /\ task' = [task EXCEPT ![t] = [status |-> "running", run |-> r]]
      BY <2>1, LaunchTaskColumns
    <3>2. /\ task[t].status = "queued" /\ task'[t] = [status |-> "running", run |-> r]
          /\ \A u \in Tasks : u # t => task'[u] = task[u]
      BY <2>1, <3>1 DEF LaunchTask, Sound, TypeOK
    <3> QED BY <3>1, <3>2, ExecutionsByInsert
  <2>2. CASE StartTask(t) \/ CancelQueuedTask(t) \/ ResumeQueuedTask(t)
    <3>1. /\ run' = run /\ \A u \in Tasks : u # t => task'[u] = task[u]
          /\ task'[t].status \in {"queued", "cancelled"}
          /\ \/ task[t].status \notin {"running", "failed", "cancelled"}
             \/ task[t].run = NoRun
      BY <2>2, SMT DEF StartTask, CancelQueuedTask, ResumeQueuedTask, Sound, TypeOK, TaskRows
    <3>2. \A q \in Runs : q # NoRun
      BY RunsExist
    <3>3. ASSUME NEW q \in Runs, Exists(q), Background(q) PROVE OwnTask(q)'
      <4>1. OwnTask(q) /\ run[q].task \in Tasks
        BY <1>b, <3>3 DEF Executions
      <4>2. run[q].status # "completed" => run[q].task # t
        BY <3>1, <3>2, <4>1 DEF OwnTask
      <4> QED BY <3>1, <4>1, <4>2 DEF OwnTask
    <3>4. \A u \in Tasks : task'[u].status = "running" => task'[u] = task[u]
      BY <3>1
    <3> QED BY <3>1, <3>3, <3>4, ZenonT(30) DEF Executions, RunningTaskHasExecution, Exists, Background
  <2> QED BY <1>2, <2>1, <2>2 DEF TaskStep
<1>3. CASE Tick
  <2>1. \A r \in Runs : Same(run'[r], run[r]) /\ run'[r].inter = run[r].inter
    BY <1>3, TickDoes, TickColumns DEF Columns
  <2>2. task' = task
    BY <1>3 DEF Tick
  <2>3. \A r \in Runs : /\ Exists(r)' <=> Exists(r)
                        /\ Background(r)' <=> Background(r)
                        /\ OwnTask(r) => OwnTask(r)'
    BY <2>1, <2>2 DEF Exists, Background, OwnTask, Same
  <2>4. (\A t \in Tasks : task[t].status = "running" => task[t].run \in Runs) =>
          (RunningTaskHasExecution => RunningTaskHasExecution')
    BY <2>1, <2>2, SMT DEF RunningTaskHasExecution, Same
  <2> QED BY <2>2, <2>3, <2>4 DEF Executions
<1>4. CASE UNCHANGED vars
  BY <1>4 DEF vars, Executions, RunningTaskHasExecution, OwnTask, Exists, Background
<1> QED BY <1>1, <1>2, <1>3, <1>4, ExecutionsWorkerStep, ExecutionsRunStep DEF Next

=============================================================================
