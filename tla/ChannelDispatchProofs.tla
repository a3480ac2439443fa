----------------------- MODULE ChannelDispatchProofs -----------------------
(* Proofs about ChannelDispatch, for every set of messages and             *)
(* conversations and every number of handlers and threads.                 *)
EXTENDS ChannelDispatch, SequenceTheorems, TLAPS

USE ConversationAssumption, KindAssumption, CapacityAssumption, BoundAssumption,
    NoneAssumption

LEMMA InitInv == Init => IndInv
<1>. SUFFICES ASSUME Init PROVE IndInv
  OBVIOUS
<1>1. 1..created \subseteq Threads /\ created \in 0..MaxThreads
  BY DEF Init, Threads
<1>2. /\ disk \in [Conversations -> (1..created) \cup {None}]
      /\ \A c, d \in Conversations : disk[c] = disk[d] /\ disk[c] # None => c = d
  BY DEF Init, Mappings
<1>3. TypeOK
  <2>1. disk \in [Conversations -> Threads \cup {None}]
    BY <1>1, <1>2
  <2>2. << >> \in Seq(Messages)
    OBVIOUS
  <2>. QED
    BY <1>1, <2>1, <2>2 DEF Init, TypeOK, Places
<1>4. Consistent
  BY <1>1, <1>2 DEF Init, Consistent
<1>5. OneConversation
  <2>1. \A c, d \in Conversations : \A t \in {data[c], disk[c]} \cap {data[d], disk[d]} :
          t # None => c = d
    <3>1. ASSUME NEW c \in Conversations, NEW d \in Conversations, disk[c] = disk[d],
                 disk[c] # None
          PROVE  c = d
      BY <1>2, <3>1
    <3>2. data = disk
      BY DEF Init
    <3>3. ASSUME NEW c \in Conversations, NEW d \in Conversations,
                 NEW t \in {data[c], disk[c]} \cap {data[d], disk[d]}, t # None
          PROVE  c = d
      <4>1. t = disk[c] /\ t = disk[d]
        BY <3>2
      <4>. QED
        BY <4>1, <3>1, <3>3
    <3>. QED
      BY <3>3
  <2>2. \A m \in Chats : thread[m] = None
    BY DEF Init, Chats
  <2>. QED
    BY <2>1, <2>2 DEF OneConversation
<1>6. SavedUnlessFailed
  BY DEF Init, SavedUnlessFailed
<1>. QED
  BY <1>3, <1>4, <1>5, <1>6 DEF IndInv

(* What set_thread_id leaves behind, whether its file is written or not.   *)
LEMMA SetThreadFacts ==
  ASSUME TypeOK, NEW c \in Conversations, NEW t \in Threads,
         SetThread(c, t) \/ SetThreadUnsaved(c, t)
  PROVE  /\ data' = [data EXCEPT ![c] = t] /\ data'[c] = t
         /\ disk' = data' \/ disk' = disk
         /\ data' \in [Conversations -> Threads \cup {None}]
         /\ disk' \in [Conversations -> Threads \cup {None}]
         /\ apart' \in BOOLEAN
         /\ SavedUnlessFailed'
<1>1. data' = [data EXCEPT ![c] = t]
  BY DEF SetThread, SetThreadUnsaved
<1>2. data' \in [Conversations -> Threads \cup {None}] /\ data'[c] = t
  BY <1>1 DEF TypeOK
<1>3. CASE SetThread(c, t)
  BY <1>1, <1>2, <1>3 DEF SetThread, SavedUnlessFailed
<1>4. CASE SetThreadUnsaved(c, t)
  BY <1>1, <1>2, <1>4 DEF SetThreadUnsaved, SavedUnlessFailed, TypeOK
<1>. QED
  BY <1>3, <1>4

(* The head of the tasks before the semaphore is a message.                *)
LEMMA HeadFacts ==
  ASSUME NEW q \in Seq(Messages), q # << >>
  PROVE  /\ Head(q) \in Messages /\ Tail(q) \in Seq(Messages)
         /\ Head(q) = q[1] /\ 1 \in DOMAIN q
         /\ \A i \in DOMAIN Tail(q) : i + 1 \in DOMAIN q /\ i + 1 # 1 /\ Tail(q)[i] = q[i + 1]
  BY HeadTailProperties

LEMMA AppendFacts ==
  ASSUME NEW q \in Seq(Messages), NEW m \in Messages
  PROVE  /\ Append(q, m) \in Seq(Messages)
         /\ DOMAIN Append(q, m) = DOMAIN q \cup {Len(q) + 1}
         /\ Len(q) + 1 \notin DOMAIN q
         /\ Append(q, m)[Len(q) + 1] = m
         /\ \A i \in DOMAIN q : Append(q, m)[i] = q[i]
  BY AppendProperties

-----------------------------------------------------------------------------
(* Types: one step per action.                                             *)
LEMMA TypeInv == TypeOK /\ [Next]_vars => TypeOK'
<1>. SUFFICES ASSUME TypeOK, [Next]_vars PROVE TypeOK'
  OBVIOUS
<1>. USE DEF Places, Inside
<1>1. ASSUME NEW m \in Messages, Arrive(m) PROVE TypeOK'
  <2>1. queue' \in Seq(Messages)
    BY <1>1, AppendFacts DEF Arrive, TypeOK
  <2>. QED
    BY <1>1, <2>1 DEF Arrive, TypeOK, Goto, storeVars, gatewayVars
<1>2. ASSUME Dispatch PROVE TypeOK'
  <2>1. Head(queue) \in Messages /\ queue' \in Seq(Messages)
    BY <1>2, HeadFacts DEF Dispatch, TypeOK
  <2>2. waiting' \in Seq(Messages)
    BY <1>2, <2>1, AppendFacts DEF Dispatch, TypeOK
  <2>. QED
    BY <1>2, <2>1, <2>2 DEF Dispatch, TypeOK, Goto, storeVars, gatewayVars
<1>3. ASSUME Enter PROVE TypeOK'
  <2>1. Head(waiting) \in Messages /\ waiting' \in Seq(Messages)
    BY <1>3, HeadFacts DEF Enter, TypeOK
  <2>2. ConversationOf[Head(waiting)] \in Conversations
    BY <2>1
  <2>3. thread' \in [Messages -> Threads \cup {None}]
    BY <1>3, <2>1, <2>2 DEF Enter, TypeOK, Goto, Lookup
  <2>4. pc' \in [Messages -> Places]
    BY <1>3, <2>1 DEF Enter, TypeOK, Goto
  <2>. QED
    BY <1>3, <2>1, <2>3, <2>4 DEF Enter, TypeOK, storeVars, gatewayVars
<1>4. ASSUME NEW m \in Messages, Create(m) PROVE TypeOK'
  <2>1. created + 1 \in Threads /\ created' = created + 1 /\ created' \in 0..MaxThreads
    BY <1>4 DEF Create, TypeOK, Threads
  <2>2. ConversationOf[m] \in Conversations
    OBVIOUS
  <2>3. SetThread(ConversationOf[m], created + 1) \/ SetThreadUnsaved(ConversationOf[m], created + 1)
    BY <1>4 DEF Create
  <2>4. /\ data' \in [Conversations -> Threads \cup {None}]
        /\ disk' \in [Conversations -> Threads \cup {None}] /\ apart' \in BOOLEAN
    BY <2>1, <2>2, <2>3, SetThreadFacts
  <2>5. thread' \in [Messages -> Threads \cup {None}]
    <3>1. thread' = thread \/ thread' = [thread EXCEPT ![m] = created + 1]
      BY <1>4 DEF Create
    <3>. QED
      BY <2>1, <3>1 DEF TypeOK
  <2>6. pc' \in [Messages -> Places]
    <3>1. Goto(m, "answer") \/ Goto(m, "ready") \/ Goto(m, "apology")
      BY <1>4 DEF Create
    <3>. QED
      BY <3>1 DEF TypeOK, Goto
  <2>. QED
    BY <1>4, <2>1, <2>4, <2>5, <2>6 DEF Create, TypeOK, busVars
<1>5. ASSUME NEW m \in Messages, CreateFails(m) \/ PrepareFails(m) \/ AnswerFails(m)
      PROVE TypeOK'
  BY <1>5 DEF CreateFails, PrepareFails, AnswerFails, TypeOK, Goto, busVars, storeVars, gatewayVars
<1>6. ASSUME NEW m \in Messages, StartRun(m) \/ LoseRun(m) PROVE TypeOK'
  <2>1. pc' \in [Messages -> Places]
    <3>1. Goto(m, "running") \/ Goto(m, "answer") \/ Goto(m, "apology")
      BY <1>6 DEF StartRun, LoseRun, Failed
    <3>. QED
      BY <3>1 DEF TypeOK, Goto
  <2>2. running' \in [Threads -> Messages \cup {None}]
    BY <1>6 DEF StartRun, LoseRun, TypeOK, gatewayVars
  <2>. QED
    BY <1>6, <2>1, <2>2 DEF StartRun, LoseRun, TypeOK, busVars, storeVars, gatewayVars
<1>7. ASSUME NEW t \in Threads, EndRun(t) PROVE TypeOK'
  <2>1. pc' \in [Messages -> Places]
    <3>1. running[t] \in Messages
      BY <1>7 DEF EndRun, TypeOK
    <3>2. Goto(running[t], "answer") \/ Goto(running[t], "apology") \/ pc' = pc
      BY <1>7 DEF EndRun, Failed
    <3>. QED
      BY <3>1, <3>2 DEF TypeOK, Goto
  <2>. QED
    BY <1>7, <2>1 DEF EndRun, TypeOK, busVars, storeVars
<1>8. ASSUME NEW m \in Messages, Answer(m) \/ Apologize(m) PROVE TypeOK'
  <2>1. pc' = [pc EXCEPT ![m] = "done"] /\ answers' = [answers EXCEPT ![m] = @ + 1]
    BY <1>8 DEF Answer, Apologize, Goto
  <2>2. pc' \in [Messages -> Places] /\ answers' \in [Messages -> Nat]
    BY <2>1 DEF TypeOK
  <2>. QED
    BY <1>8, <2>2 DEF Answer, Apologize, TypeOK, busVars, storeVars, gatewayVars
<1>9. ASSUME StartManager \/ StartChannel \/ StopChannel \/ StopManager PROVE TypeOK'
  BY <1>9 DEF StartManager, StartChannel, StopChannel, StopManager, TypeOK, storeVars, gatewayVars
<1>10. ASSUME Restart PROVE TypeOK'
  <2>1. pc' \in [Messages -> Places]
    BY <1>10 DEF Restart, TypeOK
  <2>2. running' \in [Threads -> Messages \cup {None}]
    BY <1>10 DEF Restart
  <2>3. queue' \in Seq(Messages) /\ waiting' \in Seq(Messages)
    BY <1>10 DEF Restart
  <2>4. data' \in [Conversations -> Threads \cup {None}] /\ apart' \in BOOLEAN
    BY <1>10 DEF Restart, TypeOK, NoMapping
  <2>. QED
    BY <1>10, <2>1, <2>2, <2>3, <2>4 DEF Restart, TypeOK
<1>11. ASSUME UNCHANGED vars PROVE TypeOK'
  BY <1>11 DEF TypeOK, vars, busVars, storeVars, gatewayVars
<1>. QED
  BY <1>1, <1>2, <1>3, <1>4, <1>5, <1>6, <1>7, <1>8, <1>9, <1>10, <1>11 DEF Next, Step
-----------------------------------------------------------------------------
(* Places and answers.                                                     *)

LEMMA ConsistentInv == TypeOK /\ Consistent /\ [Next]_vars => Consistent'
<1>. SUFFICES ASSUME TypeOK, Consistent, [Next]_vars PROVE Consistent'
  OBVIOUS
<1>. USE DEF Inside
\* Most actions move a message that is neither queued nor waiting.
<1>0. ASSUME NEW m \in Messages, pc[m] \notin {"queued", "waiting"},
             NEW place \in (Inside \ {"creating"}) \cup {"done"},
             Goto(m, place), UNCHANGED <<queue, waiting, thread, data, disk, created>>,
             \/ answers' = answers /\ place # "done" /\ pc[m] # "done"
             \/ answers' = [answers EXCEPT ![m] = @ + 1] /\ place = "done" /\ pc[m] # "done"
      PROVE  Consistent'
  <2>1. pc' = [pc EXCEPT ![m] = place] /\ pc \in [Messages -> Places]
    BY <1>0 DEF Goto, TypeOK
  <2>2. \A i \in DOMAIN queue : queue[i] \in Messages /\ queue[i] # m
    BY <1>0 DEF TypeOK, Consistent
  <2>3. \A i \in DOMAIN waiting : waiting[i] \in Messages /\ waiting[i] # m
    BY <1>0 DEF TypeOK, Consistent
  <2>4. \A n \in Messages : answers'[n] <= 1 /\ (pc'[n] # "done" => answers'[n] = 0)
    BY <1>0, <2>1 DEF TypeOK, Consistent
  <2>. QED
    BY <1>0, <2>1, <2>2, <2>3, <2>4 DEF Consistent
<1>1. ASSUME NEW m \in Messages, Arrive(m) PROVE Consistent'
  <2>1. /\ pc[m] = "away" /\ pc' = [pc EXCEPT ![m] = "queued"] /\ pc \in [Messages -> Places]
        /\ queue' = Append(queue, m) /\ queue \in Seq(Messages)
        /\ UNCHANGED <<waiting, thread, data, disk, created, answers>>
    BY <1>1 DEF Arrive, Goto, TypeOK, storeVars, gatewayVars
  <2>2. \A i \in DOMAIN queue : queue[i] \in Messages /\ pc[queue[i]] = "queued" /\ queue[i] # m
    BY <2>1 DEF Consistent
  <2>3. \A i \in DOMAIN queue' : pc'[queue'[i]] = "queued"
    BY <2>1, <2>2, AppendFacts
  <2>4. \A i, j \in DOMAIN queue' : queue'[i] = queue'[j] => i = j
    BY <2>1, <2>2, AppendFacts DEF Consistent
  <2>5. \A i \in DOMAIN waiting : pc'[waiting[i]] = "waiting"
    BY <2>1 DEF Consistent, TypeOK
  <2>7. \A n \in Messages : answers'[n] <= 1 /\ (pc'[n] # "done" => answers'[n] = 0)
    BY <2>1 DEF Consistent
  <2>. QED
    BY <2>1, <2>3, <2>4, <2>5, <2>7 DEF Consistent
<1>2. ASSUME Dispatch PROVE Consistent'
  <2>. DEFINE m == Head(queue)
  <2>1. /\ pc' = [pc EXCEPT ![m] = "waiting"] /\ pc \in [Messages -> Places]
        /\ queue' = Tail(queue) /\ queue \in Seq(Messages) /\ queue # << >>
        /\ waiting' = Append(waiting, m) /\ waiting \in Seq(Messages)
        /\ UNCHANGED <<thread, data, disk, created, answers>>
    BY <1>2 DEF Dispatch, Goto, TypeOK, storeVars, gatewayVars
  <2>2. m \in Messages /\ m = queue[1] /\ 1 \in DOMAIN queue /\ pc[m] = "queued"
    BY <2>1, HeadFacts DEF Consistent
  <2>. HIDE DEF m
  <2>3. \A i \in DOMAIN queue' : i + 1 \in DOMAIN queue /\ i + 1 # 1 /\ queue'[i] = queue[i + 1]
    BY <2>1, HeadFacts
  <2>4. \A i \in DOMAIN queue' : queue'[i] \in Messages /\ queue'[i] # m /\ pc[queue'[i]] = "queued"
    BY <2>1, <2>2, <2>3 DEF Consistent
  <2>5. \A i, j \in DOMAIN queue' : queue'[i] = queue'[j] => i = j
    <3>1. queue' \in Seq(Messages)
      BY <2>1, HeadFacts
    <3>. QED
      BY <2>3, <3>1 DEF Consistent
  <2>6. \A i \in DOMAIN waiting : waiting[i] \in Messages /\ waiting[i] # m
    BY <2>1, <2>2 DEF Consistent
  <2>7. \A i \in DOMAIN waiting' : pc'[waiting'[i]] = "waiting"
    BY <2>1, <2>2, <2>6, AppendFacts DEF Consistent
  <2>8. \A i, j \in DOMAIN waiting' : waiting'[i] = waiting'[j] => i = j
    BY <2>1, <2>2, <2>6, AppendFacts DEF Consistent
  <2>9. \A n \in Messages : answers'[n] <= 1 /\ (pc'[n] # "done" => answers'[n] = 0)
    BY <2>1, <2>2 DEF Consistent
  <2>. QED
    BY <2>1, <2>4, <2>5, <2>7, <2>8, <2>9 DEF Consistent
<1>3. ASSUME Enter PROVE Consistent'
  <2>. DEFINE m == Head(waiting)
  <2>1. /\ waiting' = Tail(waiting) /\ waiting \in Seq(Messages) /\ waiting # << >>
        /\ pc \in [Messages -> Places] /\ queue \in Seq(Messages)
        /\ UNCHANGED <<queue, data, disk, created, answers>>
    BY <1>3 DEF Enter, Goto, TypeOK, storeVars, gatewayVars
  <2>2. m \in Messages /\ m = waiting[1] /\ 1 \in DOMAIN waiting /\ pc[m] = "waiting"
    BY <2>1, HeadFacts DEF Consistent
  <2>3. PICK place \in Inside : pc' = [pc EXCEPT ![m] = place]
    BY <1>3, <2>2 DEF Enter, Goto, Chats
  <2>4. thread' = thread \/ thread' = [thread EXCEPT ![m] = data[ConversationOf[m]]]
    BY <1>3 DEF Enter, Lookup
  <2>. HIDE DEF m
  <2>5. \A n \in Messages : thread'[n] \in (1..created) \cup {None}
    BY <2>2, <2>4 DEF Consistent, TypeOK
  <2>6. \A i \in DOMAIN waiting' : i + 1 \in DOMAIN waiting /\ i + 1 # 1 /\ waiting'[i] = waiting[i + 1]
    BY <2>1, HeadFacts
  <2>7. \A i \in DOMAIN waiting' : waiting'[i] \in Messages /\ waiting'[i] # m /\ pc[waiting'[i]] = "waiting"
    BY <2>1, <2>2, <2>6 DEF Consistent
  <2>8. \A i, j \in DOMAIN waiting' : waiting'[i] = waiting'[j] => i = j
    <3>1. waiting' \in Seq(Messages)
      BY <2>1, HeadFacts
    <3>. QED
      BY <2>6, <3>1 DEF Consistent
  <2>9. \A i \in DOMAIN queue : queue[i] \in Messages /\ queue[i] # m
    BY <2>1, <2>2 DEF Consistent
  <2>10. \A n \in Messages : answers'[n] <= 1 /\ (pc'[n] # "done" => answers'[n] = 0)
    BY <2>1, <2>2, <2>3 DEF Consistent
  <2>. QED
    BY <2>1, <2>3, <2>5, <2>7, <2>8, <2>9, <2>10 DEF Consistent
<1>4. ASSUME NEW m \in Messages, Create(m) PROVE Consistent'
  <2>. DEFINE c == ConversationOf[m]
              t == created + 1
  <2>1. /\ t \in Threads /\ created' = t /\ created \in Nat /\ c \in Conversations
        /\ SetThread(c, t) \/ SetThreadUnsaved(c, t)
        /\ pc[m] = "creating" /\ pc \in [Messages -> Places]
        /\ UNCHANGED <<queue, waiting, answers>>
    BY <1>4 DEF Create, Threads, TypeOK, busVars
  <2>2. \/ thread' = thread
        \/ thread' = [thread EXCEPT ![m] = t]
    BY <1>4 DEF Create
  <2>3. PICK place \in {"answer", "ready", "apology"} : pc' = [pc EXCEPT ![m] = place]
    BY <1>4 DEF Create, Goto
  <2>4. data' = [data EXCEPT ![c] = t] /\ (disk' = data' \/ disk' = disk)
    BY <2>1, SetThreadFacts
  <2>. HIDE DEF c
  <2>5. 1..created \subseteq 1..t /\ t \in 1..t
    BY <2>1
  <2>. HIDE DEF t
  <2>6. \A d \in Conversations : data'[d] \in (1..t) \cup {None}
    BY <2>1, <2>4, <2>5 DEF Consistent, TypeOK
  <2>7. \A d \in Conversations : disk'[d] \in (1..t) \cup {None}
    BY <2>4, <2>5, <2>6 DEF Consistent
  <2>8. \A n \in Messages : thread'[n] \in (1..t) \cup {None}
    BY <2>2, <2>5 DEF Consistent, TypeOK
  <2>9. \A i \in DOMAIN queue : queue[i] \in Messages /\ queue[i] # m
    BY <2>1 DEF Consistent, TypeOK
  <2>10. \A i \in DOMAIN waiting : waiting[i] \in Messages /\ waiting[i] # m
    BY <2>1 DEF Consistent, TypeOK
  <2>11. \A n \in Messages : answers'[n] <= 1 /\ (pc'[n] # "done" => answers'[n] = 0)
    BY <2>1, <2>3 DEF Consistent
  <2>12. \A d \in Conversations : {data'[d], disk'[d]} \subseteq (1..created') \cup {None}
    BY <2>1, <2>6, <2>7
  <2>13. /\ \A n \in Messages : thread'[n] \in (1..created') \cup {None}
         /\ \A i \in DOMAIN queue' : pc'[queue'[i]] = "queued"
         /\ \A i \in DOMAIN waiting' : pc'[waiting'[i]] = "waiting"
    BY <2>1, <2>3, <2>8, <2>9, <2>10 DEF Consistent
  <2>14. /\ \A i, j \in DOMAIN queue' : queue'[i] = queue'[j] => i = j
         /\ \A i, j \in DOMAIN waiting' : waiting'[i] = waiting'[j] => i = j
    BY <2>1 DEF Consistent
  <2>. QED
    BY <2>11, <2>12, <2>13, <2>14 DEF Consistent
<1>5. ASSUME NEW m \in Messages, CreateFails(m) \/ PrepareFails(m) \/ AnswerFails(m)
      PROVE Consistent'
  BY <1>5, <1>0 DEF CreateFails, PrepareFails, AnswerFails, busVars, storeVars, gatewayVars
<1>6. ASSUME NEW m \in Messages, StartRun(m) \/ LoseRun(m) PROVE Consistent'
  <2>1. Goto(m, "running") \/ Goto(m, "answer") \/ Goto(m, "apology")
    BY <1>6 DEF StartRun, LoseRun, Failed
  <2>2. /\ pc[m] \in {"ready", "running"}
        /\ UNCHANGED <<queue, waiting, thread, data, disk, created, answers>>
    BY <1>6 DEF StartRun, LoseRun, busVars, storeVars, gatewayVars
  <2>. QED
    BY <2>1, <2>2, <1>0
<1>7. ASSUME NEW t \in Threads, EndRun(t) PROVE Consistent'
  <2>1. running[t] \in Messages /\ UNCHANGED <<queue, waiting, thread, data, disk, created, answers>>
    BY <1>7 DEF EndRun, TypeOK, busVars, storeVars
  <2>2. CASE pc[running[t]] = "running"
    <3>1. Goto(running[t], "answer") \/ Goto(running[t], "apology")
      BY <1>7, <2>2 DEF EndRun, Failed
    <3>. QED
      BY <2>1, <2>2, <3>1, <1>0
  <2>3. CASE pc[running[t]] # "running"
    BY <1>7, <2>1, <2>3 DEF EndRun, Consistent
  <2>. QED
    BY <2>2, <2>3
<1>8. ASSUME NEW m \in Messages, Answer(m) \/ Apologize(m) PROVE Consistent'
  <2>1. /\ pc[m] \in {"answer", "apology"} /\ Goto(m, "done")
        /\ answers' = [answers EXCEPT ![m] = @ + 1]
        /\ UNCHANGED <<queue, waiting, thread, data, disk, created>>
    BY <1>8 DEF Answer, Apologize, busVars, storeVars, gatewayVars
  <2>2. pc[m] \notin {"queued", "waiting"} /\ pc[m] # "done"
    BY <2>1
  <2>3. "done" \in (Inside \ {"creating"}) \cup {"done"}
    OBVIOUS
  <2>. QED
    BY <2>1, <2>2, <2>3, <1>0, Zenon
<1>9. ASSUME StartManager \/ StartChannel \/ StopChannel \/ StopManager PROVE Consistent'
  BY <1>9 DEF StartManager, StartChannel, StopChannel, StopManager, Consistent, storeVars, gatewayVars
<1>10. ASSUME Restart PROVE Consistent'
  <2>1. /\ queue' = << >> /\ waiting' = << >> /\ data' \in {disk, NoMapping}
        /\ UNCHANGED <<thread, disk, created, answers>>
    BY <1>10 DEF Restart
  <2>2. \A m \in Messages : pc'[m] = (IF pc[m] \in {"away", "done"} THEN pc[m] ELSE "lost")
    BY <1>10 DEF Restart
  <2>3. DOMAIN queue' = {} /\ DOMAIN waiting' = {}
    BY <2>1
  <2>4. \A m \in Messages : answers'[m] <= 1 /\ (pc'[m] # "done" => answers'[m] = 0)
    BY <2>1, <2>2 DEF Consistent
  <2>5. \A c \in Conversations : data'[c] \in {disk[c], None}
    BY <2>1 DEF NoMapping
  <2>. QED
    BY <2>1, <2>3, <2>4, <2>5 DEF Consistent
<1>11. ASSUME UNCHANGED vars PROVE Consistent'
  BY <1>11 DEF Consistent, vars, busVars, storeVars, gatewayVars
<1>. QED
  BY <1>1, <1>2, <1>3, <1>4, <1>5, <1>6, <1>7, <1>8, <1>9, <1>10, <1>11 DEF Next, Step

-----------------------------------------------------------------------------
(* Conversations and their threads.                                        *)

LEMMA ConversationInv ==
  TypeOK /\ Consistent /\ OneConversation /\ [Next]_vars => OneConversation'
<1>. SUFFICES ASSUME TypeOK, Consistent, OneConversation, [Next]_vars PROVE OneConversation'
  OBVIOUS
<1>0. Chats \subseteq Messages
  BY DEF Chats
<1>1. ASSUME UNCHANGED <<thread, data, disk>> PROVE OneConversation'
  BY <1>1 DEF OneConversation
\* A chat that finds its thread.
<1>2. ASSUME NEW m \in Messages, UNCHANGED <<data, disk>>,
             thread' = [thread EXCEPT ![m] = data[ConversationOf[m]]]
      PROVE  OneConversation'
  <2>1. \A n \in Chats, d \in Conversations :
          thread'[n] # None /\ thread'[n] \in {data[d], disk[d]} => d = ConversationOf[n]
    <3>. SUFFICES ASSUME NEW n \in Chats, NEW d \in Conversations, thread'[n] # None,
                         thread'[n] \in {data[d], disk[d]}
                  PROVE  d = ConversationOf[n]
      OBVIOUS
    <3>1. CASE n # m
      BY <1>0, <1>2, <3>1 DEF OneConversation, TypeOK
    <3>2. CASE n = m
      <4>1. thread'[n] = data[ConversationOf[m]] /\ ConversationOf[m] \in Conversations
        BY <1>2, <3>2 DEF TypeOK
      <4>. QED
        BY <4>1, <3>2 DEF OneConversation
    <3>. QED
      BY <3>1, <3>2
  <2>2. \A n \in Chats : thread'[n] # None /\ n # m => thread'[n] = thread[n]
    BY <1>0, <1>2 DEF TypeOK
  <2>3. thread'[m] = data[ConversationOf[m]] /\ ConversationOf[m] \in Conversations
    BY <1>2 DEF TypeOK
  <2>4. \A n, k \in Chats : thread'[n] = thread'[k] /\ thread'[n] # None
                              => ConversationOf[n] = ConversationOf[k]
    BY <2>1, <2>2, <2>3, <1>2 DEF OneConversation
  <2>. QED
    BY <1>2, <2>1, <2>4 DEF OneConversation
\* A chat or a /new that gets a new one.
<1>3. ASSUME NEW m \in Messages, Create(m) PROVE OneConversation'
  <2>. DEFINE c == ConversationOf[m]
              t == created + 1
  <2>1. /\ t \in Threads /\ created \in Nat /\ c \in Conversations
        /\ SetThread(c, t) \/ SetThreadUnsaved(c, t)
    BY <1>3 DEF Create, Threads, TypeOK
  <2>2. thread' = thread \/ thread' = [thread EXCEPT ![m] = t]
    BY <1>3 DEF Create
  <2>3. data' = [data EXCEPT ![c] = t] /\ (disk' = data' \/ disk' = disk)
    BY <2>1, SetThreadFacts
  <2>4. t \notin 1..created /\ t # None
    BY <2>1
  <2>. HIDE DEF t, c
  <2>5. /\ \A d \in Conversations : data[d] # t /\ disk[d] # t
        /\ \A n \in Messages : thread[n] # t
    BY <2>4 DEF Consistent
  <2>6. \A d \in Conversations : /\ data'[d] = IF d = c THEN t ELSE data[d]
                                 /\ disk'[d] = disk[d] \/ disk'[d] = data'[d]
    BY <2>3 DEF TypeOK
  <2>7. \A n \in Messages : thread'[n] = thread[n] \/ (n = m /\ thread'[n] = t)
    BY <2>2 DEF TypeOK
  <2>8. \A d \in Conversations : \A u \in {data'[d], disk'[d]} :
          u \in {data[d], disk[d]} \/ (d = c /\ u = t)
    BY <2>6
  <2>9. \A d, e \in Conversations : \A u \in {data'[d], disk'[d]} \cap {data'[e], disk'[e]} :
          u # None => d = e
    <3>. SUFFICES ASSUME NEW d \in Conversations, NEW e \in Conversations, NEW u,
                         u \in {data'[d], disk'[d]}, u \in {data'[e], disk'[e]}, u # None
                  PROVE  d = e
      OBVIOUS
    <3>1. u \in {data[d], disk[d]} \/ (d = c /\ u = t)
      BY <2>8
    <3>2. u \in {data[e], disk[e]} \/ (e = c /\ u = t)
      BY <2>8
    <3>. QED
      BY <3>1, <3>2, <2>5 DEF OneConversation
  <2>10. \A n \in Chats, d \in Conversations :
           thread'[n] # None /\ thread'[n] \in {data'[d], disk'[d]} => d = ConversationOf[n]
    <3>. SUFFICES ASSUME NEW n \in Chats, NEW d \in Conversations, thread'[n] # None,
                         thread'[n] \in {data'[d], disk'[d]}
                  PROVE  d = ConversationOf[n]
      OBVIOUS
    <3>1. n \in Messages
      BY <1>0
    <3>2. thread'[n] \in {data[d], disk[d]} \/ (d = c /\ thread'[n] = t)
      BY <2>8
    <3>3. CASE thread'[n] = thread[n]
      BY <3>1, <3>2, <3>3, <2>5 DEF OneConversation
    <3>4. CASE n = m /\ thread'[n] = t
      BY <3>2, <3>4, <2>5 DEF c
    <3>. QED
      BY <3>1, <3>3, <3>4, <2>7
  <2>11. \A n, k \in Chats : thread'[n] = thread'[k] /\ thread'[n] # None
                               => ConversationOf[n] = ConversationOf[k]
    BY <1>0, <2>5, <2>7 DEF OneConversation
  <2>. QED
    BY <2>9, <2>10, <2>11 DEF OneConversation
<1>4. ASSUME Restart PROVE OneConversation'
  <2>1. /\ data' \in {disk, NoMapping} /\ UNCHANGED <<thread, disk>>
    BY <1>4 DEF Restart
  <2>2. \A c \in Conversations : data'[c] \in {disk[c], None} /\ disk'[c] = disk[c]
    BY <2>1 DEF NoMapping
  <2>3. \A c \in Conversations : \A t \in {data'[c], disk'[c]} : t # None => t = disk[c]
    BY <2>2
  <2>4. \A c, d \in Conversations : \A t \in {data'[c], disk'[c]} \cap {data'[d], disk'[d]} :
          t # None => c = d
    BY <2>3 DEF OneConversation
  <2>5. \A m \in Chats, c \in Conversations :
          thread[m] # None /\ thread[m] \in {data'[c], disk'[c]} => c = ConversationOf[m]
    BY <2>3 DEF OneConversation
  <2>. QED
    BY <2>1, <2>4, <2>5 DEF OneConversation
<1>5. ASSUME Enter PROVE OneConversation'
  <2>1. Head(waiting) \in Messages
    BY <1>5, HeadFacts DEF Enter, TypeOK
  <2>2. /\ UNCHANGED <<data, disk>>
        /\ \/ thread' = thread
           \/ thread' = [thread EXCEPT ![Head(waiting)] = data[ConversationOf[Head(waiting)]]]
    BY <1>5 DEF Enter, Lookup, storeVars
  <2>. QED
    BY <2>1, <2>2, <1>1, <1>2
<1>6. ASSUME NEW m \in Messages,
             \/ Arrive(m) \/ CreateFails(m) \/ PrepareFails(m) \/ StartRun(m) \/ LoseRun(m)
             \/ Answer(m) \/ AnswerFails(m) \/ Apologize(m)
      PROVE  OneConversation'
  BY <1>6, <1>1 DEF Arrive, CreateFails, PrepareFails, StartRun, LoseRun, Answer, AnswerFails,
     Apologize, storeVars
<1>7. ASSUME \/ Dispatch \/ (\E t \in Threads : EndRun(t))
             \/ StartManager \/ StartChannel \/ StopChannel \/ StopManager \/ UNCHANGED vars
      PROVE  OneConversation'
  BY <1>7, <1>1 DEF Dispatch, EndRun, StartManager, StartChannel, StopChannel, StopManager, vars,
     storeVars
<1>. QED
  BY <1>3, <1>4, <1>5, <1>6, <1>7 DEF Next, Step

LEMMA SavedInv == TypeOK /\ SavedUnlessFailed /\ [Next]_vars => SavedUnlessFailed'
<1>. SUFFICES ASSUME TypeOK, SavedUnlessFailed, [Next]_vars PROVE SavedUnlessFailed'
  OBVIOUS
<1>1. ASSUME NEW m \in Messages, Create(m) PROVE SavedUnlessFailed'
  <2>1. created + 1 \in Threads /\ ConversationOf[m] \in Conversations
    BY <1>1 DEF Create, Threads, TypeOK
  <2>2. SetThread(ConversationOf[m], created + 1) \/ SetThreadUnsaved(ConversationOf[m], created + 1)
    BY <1>1 DEF Create
  <2>. QED
    BY <2>1, <2>2, SetThreadFacts
<1>2. ASSUME Restart PROVE SavedUnlessFailed'
  BY <1>2 DEF Restart, SavedUnlessFailed
<1>3. ASSUME UNCHANGED <<data, disk, apart>> PROVE SavedUnlessFailed'
  BY <1>3 DEF SavedUnlessFailed
<1>4. ASSUME NEW m \in Messages,
             \/ Arrive(m) \/ CreateFails(m) \/ PrepareFails(m) \/ StartRun(m) \/ LoseRun(m)
             \/ Answer(m) \/ AnswerFails(m) \/ Apologize(m)
      PROVE  SavedUnlessFailed'
  BY <1>4, <1>3 DEF Arrive, CreateFails, PrepareFails, StartRun, LoseRun, Answer, AnswerFails,
     Apologize, storeVars
<1>5. ASSUME \/ Dispatch \/ Enter \/ (\E t \in Threads : EndRun(t))
             \/ StartManager \/ StartChannel \/ StopChannel \/ StopManager \/ UNCHANGED vars
      PROVE  SavedUnlessFailed'
  BY <1>5, <1>3 DEF Dispatch, Enter, EndRun, StartManager, StartChannel, StopChannel, StopManager,
     vars, storeVars
<1>. QED
  BY <1>1, <1>2, <1>4, <1>5 DEF Next, Step

-----------------------------------------------------------------------------
(* The results.                                                            *)

\* The inductive invariant: conversations keep apart, every message is in one place, and
\* memory and file agree unless a save has failed.
THEOREM Invariance == Spec => []IndInv
<1>1. Init => IndInv
  BY InitInv
<1>2. IndInv /\ [Next]_vars => IndInv'
  BY TypeInv, ConsistentInv, ConversationInv, SavedInv DEF IndInv
<1>. QED
  BY <1>1, <1>2, PTL DEF Spec

\* The variables keep their types.
THEOREM TypeCorrect == Spec => []TypeOK
<1>1. IndInv => TypeOK
  BY DEF IndInv
<1>. QED
  BY <1>1, Invariance, PTL

\* No two conversations share a thread, in memory, in the file or in what their messages ran
\* on, whatever handlers race, saves fail and processes restart.
THEOREM ConversationCorrect == Spec => []OneConversation
<1>1. IndInv => OneConversation
  BY DEF IndInv
<1>. QED
  BY <1>1, Invariance, PTL

\* No message is answered twice: an error message is never sent after an answer.
THEOREM AnswerCorrect == Spec => []OneAnswer
<1>1. IndInv => OneAnswer
  BY DEF IndInv, Consistent, OneAnswer
<1>. QED
  BY <1>1, Invariance, PTL

\* Memory and file of the store differ only after a save that failed.
THEOREM SavedCorrect == Spec => []SavedUnlessFailed
<1>1. IndInv => SavedUnlessFailed
  BY DEF IndInv
<1>. QED
  BY <1>1, Invariance, PTL

LEMMA SettledStep ==
  ASSUME TypeOK, Consistent, [Next]_vars, NEW c \in Conversations, Settled(c)
  PROVE  \/ Settled(c)' /\ data'[c] = data[c]
         \/ \E m \in Messages : KindOf[m] = "command" /\ Create(m) /\ Settled(c)'
         \/ Restart
<1>0. Chats \subseteq Messages
  BY DEF Chats
\* Nobody begins to create a thread.
<1>1. ASSUME data' = data, \A m \in Chats : pc'[m] = "creating" => pc[m] = "creating"
      PROVE  Settled(c)' /\ data'[c] = data[c]
  BY <1>1 DEF Settled
<1>2. ASSUME NEW m \in Messages, NEW place \in Places \ {"creating"}, Goto(m, place), data' = data
      PROVE  Settled(c)' /\ data'[c] = data[c]
  BY <1>0, <1>1, <1>2 DEF Goto, TypeOK
<1>3. ASSUME NEW m \in Messages, Create(m)
      PROVE  \/ Settled(c)' /\ data'[c] = data[c]
             \/ KindOf[m] = "command" /\ Settled(c)'
  <2>1. /\ created + 1 \in Threads /\ created + 1 # None /\ ConversationOf[m] \in Conversations
        /\ SetThread(ConversationOf[m], created + 1) \/ SetThreadUnsaved(ConversationOf[m], created + 1)
        /\ pc[m] = "creating"
    BY <1>3 DEF Create, Threads, TypeOK, Consistent
  <2>2. data' = [data EXCEPT ![ConversationOf[m]] = created + 1]
    BY <2>1, SetThreadFacts
  <2>3. PICK place \in Places \ {"creating"} : pc' = [pc EXCEPT ![m] = place]
    BY <1>3 DEF Create, Goto, Places, Inside
  <2>4. \A n \in Chats : pc'[n] = "creating" => pc[n] = "creating"
    BY <1>0, <2>3 DEF TypeOK
  <2>5. data'[c] # None
    BY <2>1, <2>2 DEF Settled, TypeOK
  <2>6. Settled(c)'
    BY <2>4, <2>5 DEF Settled
  <2>7. CASE ConversationOf[m] # c
    BY <2>2, <2>6, <2>7 DEF TypeOK
  <2>8. CASE ConversationOf[m] = c
    <3>1. m \notin Chats
      BY <2>1, <2>8 DEF Settled
    <3>2. KindOf[m] = "command"
      BY <2>1, <3>1 DEF Chats, Kinds
    <3>. QED
      BY <2>6, <3>2
  <2>. QED
    BY <2>7, <2>8
<1>4. ASSUME Enter PROVE Settled(c)' /\ data'[c] = data[c]
  <2>. DEFINE m == Head(waiting)
  <2>1. m \in Messages /\ data' = data
    BY <1>4, HeadFacts DEF Enter, TypeOK, storeVars
  <2>2. \/ \E place \in Places \ {"creating"} : Goto(m, place)
        \/ Goto(m, "creating") /\ (m \in Chats => data[ConversationOf[m]] = None)
    BY <1>4 DEF Enter, Lookup, Places, Inside, Chats
  <2>. HIDE DEF m
  <2>3. CASE \E place \in Places \ {"creating"} : Goto(m, place)
    BY <2>1, <2>3, <1>2
  <2>4. CASE Goto(m, "creating") /\ (m \in Chats => data[ConversationOf[m]] = None)
    <3>1. \A n \in Chats : pc'[n] = "creating" => n = m \/ pc[n] = "creating"
      BY <1>0, <2>1, <2>4 DEF Goto, TypeOK
    <3>2. m \in Chats => ConversationOf[m] # c
      BY <2>4 DEF Settled
    <3>. QED
      BY <2>1, <3>1, <3>2 DEF Settled
  <2>. QED
    BY <2>2, <2>3, <2>4
<1>5. ASSUME NEW m \in Messages,
             \/ Arrive(m) \/ CreateFails(m) \/ PrepareFails(m) \/ StartRun(m) \/ LoseRun(m)
             \/ Answer(m) \/ AnswerFails(m) \/ Apologize(m)
      PROVE  Settled(c)' /\ data'[c] = data[c]
  <2>1. data' = data
    BY <1>5 DEF Arrive, CreateFails, PrepareFails, StartRun, LoseRun, Answer, AnswerFails,
       Apologize, storeVars
  <2>2. \E place \in {"queued", "running", "answer", "apology", "done"} : Goto(m, place)
    BY <1>5 DEF Arrive, CreateFails, PrepareFails, StartRun, LoseRun, Answer, AnswerFails,
       Apologize, Failed
  <2>. QED
    BY <2>1, <2>2, <1>2 DEF Places, Inside
<1>6. ASSUME Dispatch PROVE Settled(c)' /\ data'[c] = data[c]
  <2>1. Head(queue) \in Messages /\ data' = data /\ Goto(Head(queue), "waiting")
    BY <1>6, HeadFacts DEF Dispatch, TypeOK, storeVars
  <2>. QED
    BY <2>1, <1>2 DEF Places
<1>7. ASSUME NEW t \in Threads, EndRun(t) PROVE Settled(c)' /\ data'[c] = data[c]
  <2>1. running[t] \in Messages /\ data' = data
    BY <1>7 DEF EndRun, TypeOK, storeVars
  <2>2. pc' = pc \/ Goto(running[t], "answer") \/ Goto(running[t], "apology")
    BY <1>7 DEF EndRun, Failed
  <2>. QED
    BY <2>1, <2>2, <1>1, <1>2 DEF Places, Inside
<1>8. ASSUME StartManager \/ StartChannel \/ StopChannel \/ StopManager \/ UNCHANGED vars
      PROVE  Settled(c)' /\ data'[c] = data[c]
  BY <1>8, <1>1 DEF StartManager, StartChannel, StopChannel, StopManager, vars, storeVars
<1>. QED
  BY <1>3, <1>4, <1>5, <1>6, <1>7, <1>8 DEF Next, Step

\* Only a first message that is still being handled, a /new or the end of the process can
\* change the thread of a conversation that has one.
THEOREM SettledCorrect == Spec => SettledStays
<1>1. IndInv /\ [Next]_vars =>
        [\A c \in Conversations : Settled(c) =>
           \/ Settled(c)' /\ data'[c] = data[c]
           \/ \E m \in Messages : KindOf[m] = "command" /\ Create(m) /\ Settled(c)'
           \/ Restart]_vars
  BY SettledStep DEF IndInv
<1>. QED
  BY <1>1, Invariance, PTL DEF Spec, SettledStays
=============================================================================
