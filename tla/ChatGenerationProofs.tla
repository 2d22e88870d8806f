------------------------ MODULE ChatGenerationProofs ------------------------
(* Proofs about ChatGeneration.  One inductive invariant, Sound, carries    *)
(* every safety property of the module.  It is stated of a state given as   *)
(* five values, because a handler of the code is a sequence of operations   *)
(* without an await between them (save the summary, release the lock, claim *)
(* the chat, store the question): one lemma per operation shows that it     *)
(* leads from a sound state to a sound state, and an action is proved by    *)
(* putting its operations together.                                         *)
EXTENDS ChatGeneration, TLAPS, SequenceTheorems

-----------------------------------------------------------------------------
(* The invariant.  In what follows rows, t, cl, ho and ha are values of     *)
(* chats, tasks, claimed, holder and handler.                               *)

Awaiting == {"stored", "streaming", "generating"}

LiveRow == [state : {"live"}, kind : Kinds, owner : Users, title : {"default", "auto", "chosen"},
            msgs : Seq(MessageType), upto : Nat, told : Seq(Nat \ {0})]
GoneRow == [state : {"gone"}, kind : Kinds, msgs : Seq(MessageType), upto : Nat]

(* The values have their types.                                             *)
Typed(rows, t, cl, ho, ha) ==
    /\ rows \in [Chats -> ChatType]
    /\ t \in [Chats -> TaskType]
    /\ cl \subseteq Chats
    /\ ho \in [Chats -> Handlers \cup {None}]
    /\ ha \in [Handlers -> HandlerType]

(* Each answer follows its question, and no message answers a later one.    *)
IsAnswer(m, i) == IF m[i].by = "task" THEN AnswersItsTask(m, i) ELSE AnswersItsSender(m, i)
Follows(m) == \A i \in DOMAIN m : /\ m[i].role = "assistant" => IsAnswer(m, i)
                                  /\ m[i].to < i

(* The question of a task that is still to be answered.                     *)
Unanswered(m, p) == /\ p \in 1..Len(m)
                    /\ m[p] = Message("task", "user")
                    /\ \A j \in 1..Len(m) : m[j].to # p

(* The summary accounts for the messages up to its boundary.                *)
Count(n) == [i \in 1..n |-> i]
Accounted(r) == /\ r.told = Count(r.upto)
                /\ r.upto + Keep <= Len(r.msgs) \/ r.upto = 0

RowSound(r) ==
    /\ r.state = "live" => Follows(r.msgs) /\ Accounted(r)
    /\ r.state = "gone" => /\ Len(r.msgs) <= 1
                           /\ r.kind = "hermes_agent" => r.msgs = <<>>

(* A handler that waits for its answer finds its question, with nothing but *)
(* answers of tasks after it, unless the chat is full; of a deleted chat it *)
(* finds nothing.                                                           *)
Waiting(m, h) == \E j \in 1..Len(m) : m[j] = Message(h, "user") /\ Between(m, j, Len(m) + 1)
Pending(m, h) == Len(m) >= MaxMessages \/ Waiting(m, h)

(* What the summary in the making was read from is what the row still says. *)
Fresh(k, r) ==
    /\ k.told = r.told
    /\ k.from = r.upto + 1
    /\ k.from <= k.to
    /\ k.to + Keep <= Len(r.msgs)

Summarizing(h, k, r, cl, ho) ==
    k.pc = "summarizing" => /\ ho[k.chat] = h
                            /\ r.state = "live" => Fresh(k, r)

Answering(h, k, r, cl) ==
    /\ k.pc \in Generating =>
          /\ h \in Senders
          /\ k.chat \in cl
          /\ r.state = "live" \/ r.kind = "classic"
    /\ k.pc \in Awaiting =>
          /\ r.state = "live" => Pending(r.msgs, h)
          /\ r.state = "gone" => r.msgs = <<>>

HandlerSound(h, k, rows, cl, ho) ==
    k.pc # "idle" => /\ rows[k.chat].state # "none"
                     /\ Summarizing(h, k, rows[k.chat], cl, ho)
                     /\ Answering(h, k, rows[k.chat], cl)

(* No two handlers answer in one chat.                                      *)
Apart(ha) == \A s, u \in Handlers :
                ha[s].pc \in Generating /\ ha[u].pc \in Generating /\ s # u
                => ha[s].chat # ha[u].chat

(* A lock that is held is held by the handler that is summarising its chat. *)
LocksHeld(ho, ha) ==
    \A c \in Chats : ho[c] # None => ha[ho[c]].pc = "summarizing" /\ ha[ho[c]].chat = c

(* What a chat's tasks, x, may rely on of its row: a bound task on the chat, *)
(* and a task that may still answer on its question.                        *)
Owing(r, x) ==
    /\ r.state = "none" => x = NoTask
    /\ x.bound => r.state = "live"
    /\ ~x.bound => x.asked = 0
    /\ r.state = "live" =>
          /\ \A p \in x.owed : Unanswered(r.msgs, p)
          /\ x.asked # 0 => Unanswered(r.msgs, x.asked) /\ x.asked \notin x.owed

TasksSound(rows, t, cl) == \A c \in Chats : /\ Owing(rows[c], t[c])
                                            /\ t[c].bound => c \notin cl

Sound(rows, t, cl, ho, ha) ==
    /\ Typed(rows, t, cl, ho, ha)
    /\ \A c \in Chats : RowSound(rows[c])
    /\ \A h \in Handlers : HandlerSound(h, ha[h], rows, cl, ho)
    /\ Apart(ha)
    /\ LocksHeld(ho, ha)
    /\ TasksSound(rows, t, cl)

Inv == /\ Sound(chats, tasks, claimed, holder, handler)
       /\ dropped \subseteq Chats /\ naming \subseteq Chats

-----------------------------------------------------------------------------
(* Sequences: counting, extending a summary, appending a message.           *)

LEMMA CountIsSeq ==
  ASSUME NEW n \in Nat
  PROVE  /\ Count(n) \in Seq(Nat \ {0})
         /\ Len(Count(n)) = n
         /\ \A i \in 1..n : Count(n)[i] = i
<1>1. Count(n) \in [1..n -> Nat \ {0}]
  BY DEF Count
<1> QED
  BY <1>1, SMT DEF Count

(* The summary of the messages to v is that of those to u, and the rest.    *)
LEMMA CountExtends ==
  ASSUME NEW u \in Nat, NEW v \in Nat, u <= v
  PROVE  Count(u) \o [i \in 1..(v + 1 - (u + 1)) |-> u + 1 + i - 1] = Count(v)
<1> DEFINE n == v + 1 - (u + 1)
           rest == [i \in 1..n |-> u + 1 + i - 1]
<1>1. n \in Nat /\ n = v - u
  OBVIOUS
<1>2. rest \in [1..n -> Nat \ {0}]
  BY <1>1
<1>3. rest \in Seq(Nat \ {0}) /\ Len(rest) = n
  BY <1>1, <1>2
<1>4. \A i \in 1..n : rest[i] = u + i
  BY <1>1
<1> HIDE DEF rest, n
<1>5. Count(u) \in Seq(Nat \ {0}) /\ Len(Count(u)) = u
  BY CountIsSeq
<1>6. /\ Count(u) \o rest \in Seq(Nat \ {0})
      /\ Len(Count(u) \o rest) = u + n
      /\ \A i \in 1..(u + n) : (Count(u) \o rest)[i] =
                                IF i <= u THEN Count(u)[i] ELSE rest[i - u]
  <2>1. Len(Count(u) \o rest) = Len(Count(u)) + Len(rest)
    BY <1>3, <1>5, ConcatProperties
  <2>2. \A i \in 1..(Len(Count(u)) + Len(rest)) : (Count(u) \o rest)[i] =
           IF i <= Len(Count(u)) THEN Count(u)[i] ELSE rest[i - Len(Count(u))]
    BY <1>3, <1>5, ConcatProperties
  <2>3. Count(u) \o rest \in Seq(Nat \ {0})
    BY <1>3, <1>5, ConcatProperties
  <2> QED
    BY <1>3, <1>5, <2>1, <2>2, <2>3
<1>7. u + n = v
  BY <1>1
<1>8. \A i \in 1..v : (Count(u) \o rest)[i] = i
  <2> SUFFICES ASSUME NEW i \in 1..v
               PROVE  (Count(u) \o rest)[i] = i
    OBVIOUS
  <2>1. i \in Nat /\ i > 0 /\ i <= v
    OBVIOUS
  <2>2. CASE i <= u
    <3>1. i \in 1..u
      BY <2>1, <2>2
    <3> QED
      BY <1>6, <1>7, <2>2, <3>1, CountIsSeq
  <2>3. CASE ~(i <= u)
    <3>1. i - u \in 1..n /\ u + (i - u) = i
      BY <1>1, <2>1, <2>3
    <3> QED
      BY <1>4, <1>6, <1>7, <2>3, <3>1
  <2> QED
    BY <2>2, <2>3
<1>9. Count(v) \in Seq(Nat \ {0}) /\ Len(Count(v)) = v /\ \A i \in 1..v : Count(v)[i] = i
  BY CountIsSeq
<1>10. Count(u) \o rest = Count(v)
  BY <1>6, <1>7, <1>8, <1>9, SeqEqual
<1> QED
  BY <1>10 DEF rest, n

LEMMA AppendIs ==
  ASSUME NEW S, NEW m \in Seq(S), NEW e \in S
  PROVE  /\ Append(m, e) \in Seq(S)
         /\ Len(Append(m, e)) = Len(m) + 1
         /\ Append(m, e)[Len(m) + 1] = e
         /\ \A i \in 1..Len(m) : Append(m, e)[i] = m[i]
  OBVIOUS

(* A message of AddMessage is added unless the chat is full.                *)
Added(m, e) == IF Len(m) < MaxMessages THEN Append(m, e) ELSE m

LEMMA AddedIs ==
  ASSUME NEW m \in Seq(MessageType), NEW e \in MessageType
  PROVE  /\ Added(m, e) \in Seq(MessageType)
         /\ Len(Added(m, e)) >= Len(m)
         /\ Len(Added(m, e)) <= Len(m) + 1
         /\ Len(m) < MaxMessages => Len(Added(m, e)) = Len(m) + 1
                                    /\ Added(m, e)[Len(m) + 1] = e
         /\ ~(Len(m) < MaxMessages) => Added(m, e) = m
         /\ \A i \in 1..Len(m) : Added(m, e)[i] = m[i]
<1>1. Len(m) \in Nat
  BY LenProperties
<1>2. CASE Len(m) < MaxMessages
  <2>1. Added(m, e) = Append(m, e)
    BY <1>2 DEF Added
  <2> QED
    BY <1>1, <1>2, <2>1, AppendIs
<1>3. CASE ~(Len(m) < MaxMessages)
  <2>1. Added(m, e) = m
    BY <1>3 DEF Added
  <2> QED
    BY <1>1, <1>3, <2>1
<1> QED
  BY <1>2, <1>3

LEMMA MessageIs ==
  ASSUME NEW w \in Senders \cup {"task"}, NEW role \in {"user", "assistant"}
  PROVE  /\ Message(w, role) \in MessageType
         /\ Message(w, role).role = role
         /\ Message(w, role).by = w
         /\ Message(w, role).to = 0
  BY DEF Message, MessageType

LEMMA AnswerToIs ==
  ASSUME NEW p \in Nat
  PROVE  /\ AnswerTo(p) \in MessageType
         /\ AnswerTo(p).role = "assistant"
         /\ AnswerTo(p).by = "task"
         /\ AnswerTo(p).to = p
  BY DEF AnswerTo, MessageType

(* q is m and one message more, which answers no question answered before.  *)
Longer(m, q, e) ==
    /\ q \in Seq(MessageType)
    /\ Len(q) = Len(m) + 1 /\ q[Len(m) + 1] = e
    /\ \A i \in 1..Len(m) : q[i] = m[i]
    /\ e.to = 0 \/ \A i \in 1..Len(m) : m[i].to # e.to
    /\ e.to <= Len(m)

(* The exchanges of m are those of q but for the last message.              *)
LEMMA LongerFollows ==
  ASSUME NEW m \in Seq(MessageType), Follows(m), NEW q, NEW e, Longer(m, q, e),
         e.to \in Nat, e.role = "assistant" => IsAnswer(q, Len(m) + 1)
  PROVE  Follows(q)
<1>1. Len(m) \in Nat /\ Len(q) = Len(m) + 1 /\ DOMAIN q = 1..Len(q) /\ DOMAIN m = 1..Len(m)
  BY LenProperties DEF Longer
<1>2. /\ q[Len(m) + 1] = e
      /\ \A i \in 1..Len(m) : q[i] = m[i]
      /\ e.to = 0 \/ \A i \in 1..Len(m) : m[i].to # e.to
  BY DEF Longer
<1>5. \A i \in 1..Len(q) : q[i].to < i
  <2> SUFFICES ASSUME NEW i \in 1..Len(q) PROVE q[i].to < i
    OBVIOUS
  <2>1. CASE i = Len(m) + 1
    BY <1>1, <1>2, <2>1 DEF Longer
  <2>2. CASE i # Len(m) + 1
    <3>1. i \in 1..Len(m)
      BY <1>1, <2>2
    <3> QED
      BY <1>1, <1>2, <3>1 DEF Follows
  <2> QED
    BY <2>1, <2>2
<1> SUFFICES ASSUME NEW i \in 1..Len(q), q[i].role = "assistant"
             PROVE  IsAnswer(q, i)
  BY <1>1, <1>5 DEF Follows
<1>3. CASE i = Len(m) + 1
  BY <1>2, <1>3
<1>4. CASE i # Len(m) + 1
  <2>1. i \in 1..Len(m) /\ i \in Nat
    BY <1>1, <1>4
  <2>2. q[i] = m[i]
    BY <1>2, <2>1
  <2>3. CASE m[i].by = "task"
    <3>1. AnswersItsTask(m, i)
      BY <1>1, <2>1, <2>2, <2>3 DEF Follows, IsAnswer
    <3> DEFINE p == m[i].to
    <3>2. p \in 1..(i - 1) /\ m[p] = Message("task", "user")
          /\ \A j \in 1..Len(m) : m[j].to = p => j = i
      BY <1>1, <3>1 DEF AnswersItsTask
    <3> HIDE DEF p
    <3>3. p \in 1..Len(m) /\ p # 0
      BY <1>1, <2>1, <3>2
    <3>4. q[p] = Message("task", "user")
      BY <1>2, <3>2, <3>3
    <3>5. e.to # p
      BY <1>2, <2>1, <3>3 DEF p
    <3>6. \A j \in 1..Len(q) : q[j].to = p => j = i
      <4> SUFFICES ASSUME NEW j \in 1..Len(q), q[j].to = p PROVE j = i
        OBVIOUS
      <4>1. j # Len(m) + 1
        BY <1>2, <3>5
      <4>2. j \in 1..Len(m)
        BY <1>1, <4>1
      <4> QED
        BY <1>2, <3>2, <4>2
    <3>7. q[i].to = p
      BY <2>2 DEF p
    <3> QED
      BY <1>1, <2>2, <2>3, <3>2, <3>4, <3>6, <3>7 DEF AnswersItsTask, IsAnswer
  <2>4. CASE m[i].by # "task"
    <3>1. AnswersItsSender(m, i)
      BY <1>1, <2>1, <2>2, <2>4 DEF Follows, IsAnswer
    <3>2. PICK j \in 1..(i - 1) : m[j] = Message(m[i].by, "user") /\ Between(m, j, i)
      BY <3>1 DEF AnswersItsSender
    <3>3. j \in 1..Len(m) /\ q[j] = m[j]
      BY <1>1, <1>2, <2>1, <3>2
    <3>4. \A k \in (j + 1)..(i - 1) : k \in 1..Len(m) /\ q[k] = m[k]
      BY <1>1, <1>2, <2>1, <3>3
    <3>5. Between(q, j, i)
      BY <3>2, <3>4 DEF Between
    <3> QED
      BY <2>2, <2>4, <3>2, <3>3, <3>5 DEF AnswersItsSender, IsAnswer
  <2> QED
    BY <2>3, <2>4
<1> QED
  BY <1>3, <1>4

LEMMA AddedIsLonger ==
  ASSUME NEW m \in Seq(MessageType), NEW e \in MessageType, Len(m) < MaxMessages,
         e.to = 0 \/ Unanswered(m, e.to)
  PROVE  Longer(m, Added(m, e), e)
<1>1. Len(m) \in Nat
  BY LenProperties
<1>2. e.to <= Len(m)
  BY <1>1 DEF Unanswered
<1> QED
  BY <1>2, AddedIs DEF Longer, Unanswered

(* Questions do not disturb the exchanges before them.                      *)
LEMMA QuestionFollows ==
  ASSUME NEW m \in Seq(MessageType), Follows(m),
         NEW w \in Senders \cup {"task"}
  PROVE  Follows(Added(m, Message(w, "user")))
<1> DEFINE e == Message(w, "user")
<1>1. e \in MessageType /\ e.role = "user" /\ e.to = 0
  BY MessageIs
<1> HIDE DEF e
<1>2. CASE Len(m) < MaxMessages
  <2>1. Longer(m, Added(m, e), e)
    BY <1>1, <1>2, AddedIsLonger
  <2> QED
    BY <1>1, <2>1, LongerFollows DEF e
<1>3. CASE ~(Len(m) < MaxMessages)
  BY <1>1, <1>3, AddedIs DEF e
<1> QED
  BY <1>2, <1>3

(* A handler that waits for its answer may store it.                        *)
LEMMA AnswerFollows ==
  ASSUME NEW m \in Seq(MessageType), Follows(m),
         NEW w \in Senders, Pending(m, w)
  PROVE  Follows(Added(m, Message(w, "assistant")))
<1> DEFINE e == Message(w, "assistant")
           q == Added(m, e)
<1>1. e \in MessageType /\ e.to = 0 /\ e.by = w /\ w # "task"
  BY MessageIs, ChatsAssumption
<1> HIDE DEF e
<1>2. CASE Len(m) < MaxMessages
  <2>1. Longer(m, q, e)
    BY <1>1, <1>2, AddedIsLonger
  <2>2. Len(m) \in Nat
    BY LenProperties
  <2>3. Waiting(m, w)
    BY <1>2, <2>2, ChatsAssumption DEF Pending
  <2>4. PICK j \in 1..Len(m) : m[j] = Message(w, "user") /\ Between(m, j, Len(m) + 1)
    BY <2>3 DEF Waiting
  <2> HIDE DEF q
  <2>5. q[Len(m) + 1] = e /\ \A i \in 1..Len(m) : q[i] = m[i]
    BY <2>1 DEF Longer
  <2>6. \A k \in (j + 1)..(Len(m) + 1 - 1) : k \in 1..Len(m)
    BY <2>2
  <2>7. Between(q, j, Len(m) + 1)
    BY <2>4, <2>5, <2>6 DEF Between
  <2>8. j \in 1..(Len(m) + 1 - 1) /\ q[j] = Message(w, "user")
    BY <2>2, <2>4, <2>5
  <2>9. IsAnswer(q, Len(m) + 1)
    BY <1>1, <2>5, <2>7, <2>8 DEF AnswersItsSender, IsAnswer
  <2>10. Follows(q)
    BY <1>1, <2>1, <2>9, LongerFollows
  <2> QED
    BY <2>10 DEF q, e
<1>3. CASE ~(Len(m) < MaxMessages)
  BY <1>1, <1>3, AddedIs DEF e
<1> QED
  BY <1>2, <1>3

(* A task that has yet to be answered may be, and whoever waits still does. *)
LEMMA TaskAnswerFollows ==
  ASSUME NEW m \in Seq(MessageType), Follows(m), NEW p \in Nat,
         Unanswered(m, p), Len(m) < MaxMessages
  PROVE  /\ Follows(Added(m, AnswerTo(p)))
         /\ \A h : Pending(m, h) => Pending(Added(m, AnswerTo(p)), h)
<1> DEFINE e == AnswerTo(p)
           q == Added(m, e)
<1>1. e \in MessageType /\ e.to = p /\ e.by = "task" /\ e.role = "assistant"
  BY AnswerToIs
<1> HIDE DEF e
<1>2. Longer(m, q, e)
  BY <1>1, AddedIsLonger
<1>3. Len(m) \in Nat /\ Len(q) = Len(m) + 1 /\ DOMAIN q = 1..Len(q)
  BY <1>2, LenProperties DEF Longer
<1> HIDE DEF q
<1>4. q[Len(m) + 1] = e /\ \A i \in 1..Len(m) : q[i] = m[i]
  BY <1>2 DEF Longer
<1>5. p \in 1..(Len(m) + 1 - 1) /\ p \in 1..Len(m) /\ m[p] = Message("task", "user")
      /\ \A j \in 1..Len(m) : m[j].to # p
  BY <1>3 DEF Unanswered
<1>6. \A j \in 1..Len(q) : q[j].to = p => j = Len(m) + 1
  <2> SUFFICES ASSUME NEW j \in 1..Len(q), j # Len(m) + 1 PROVE q[j].to # p
    OBVIOUS
  <2>1. j \in 1..Len(m)
    BY <1>3
  <2> QED
    BY <1>4, <1>5, <2>1
<1>7. q[p] = Message("task", "user")
  BY <1>4, <1>5
<1>8. q[Len(m) + 1].to = p
  BY <1>1, <1>4
<1>9. IsAnswer(q, Len(m) + 1)
  BY <1>1, <1>3, <1>4, <1>5, <1>6, <1>7, <1>8 DEF AnswersItsTask, IsAnswer
<1>10. Follows(q)
  BY <1>1, <1>2, <1>9, LongerFollows
<1>11. ASSUME NEW h, Pending(m, h) PROVE Pending(q, h)
  <2>1. Waiting(m, h)
    BY <1>3, <1>11, ChatsAssumption DEF Pending
  <2>2. PICK j \in 1..Len(m) : m[j] = Message(h, "user") /\ Between(m, j, Len(m) + 1)
    BY <2>1 DEF Waiting
  <2>3. ASSUME NEW k \in (j + 1)..(Len(q) + 1 - 1)
        PROVE  q[k].role = "assistant" /\ q[k].by = "task"
    <3>1. CASE k = Len(m) + 1
      BY <1>1, <1>4, <3>1
    <3>2. CASE k # Len(m) + 1
      <4>1. k \in (j + 1)..(Len(m) + 1 - 1) /\ k \in 1..Len(m)
        BY <1>3, <3>2
      <4> QED
        BY <1>4, <2>2, <4>1 DEF Between
    <3> QED
      BY <3>1, <3>2
  <2>4. j \in 1..Len(q) /\ q[j] = Message(h, "user")
    BY <1>3, <1>4, <2>2
  <2> QED
    BY <2>3, <2>4 DEF Pending, Waiting, Between
<1> QED
  BY <1>10, <1>11 DEF q, e

(* What tasks rely on survives another message, unless it is the answer.    *)
LEMMA UnansweredStays ==
  ASSUME NEW m \in Seq(MessageType), NEW e \in MessageType, NEW p,
         Unanswered(m, p), e.to # p
  PROVE  Unanswered(Added(m, e), p)
<1> DEFINE q == Added(m, e)
<1>1. Len(m) \in Nat /\ Len(q) \in Nat /\ Len(q) >= Len(m)
  BY AddedIs, LenProperties
<1>2. CASE Len(m) < MaxMessages
  <2>1. Len(q) = Len(m) + 1 /\ q[Len(m) + 1] = e /\ \A i \in 1..Len(m) : q[i] = m[i]
    BY <1>2, AddedIs
  <2> HIDE DEF q
  <2>2. ASSUME NEW j \in 1..Len(q) PROVE q[j].to # p
    <3>1. CASE j = Len(m) + 1
      BY <2>1, <3>1
    <3>2. CASE j # Len(m) + 1
      <4>1. j \in 1..Len(m)
        BY <1>1, <2>1, <3>2
      <4> QED
        BY <2>1, <4>1 DEF Unanswered
    <3> QED
      BY <3>1, <3>2
  <2>3. p \in 1..Len(q) /\ q[p] = Message("task", "user")
    BY <1>1, <2>1 DEF Unanswered
  <2>4. Unanswered(q, p)
    BY <2>2, <2>3 DEF Unanswered
  <2> QED
    BY <2>4 DEF q
<1>3. CASE ~(Len(m) < MaxMessages)
  BY <1>3, AddedIs
<1> QED
  BY <1>2, <1>3

LEMMA OwingKept ==
  ASSUME NEW r, NEW q, NEW x \in TaskType, Owing(r, x),
         q.state = r.state,
         r.state = "live" => r.msgs \in Seq(MessageType)
                             /\ (\/ q.msgs = r.msgs
                                 \/ \E e \in MessageType :
                                       /\ q.msgs = Added(r.msgs, e)
                                       /\ e.to = 0 \/ e.to \notin x.owed \cup {x.asked})
  PROVE  Owing(q, x)
<1>1. CASE r.state # "live"
  BY <1>1 DEF Owing
<1>2. CASE r.state = "live" /\ q.msgs = r.msgs
  BY <1>2 DEF Owing
<1>3. CASE r.state = "live" /\ q.msgs # r.msgs
  <2>1. PICK e \in MessageType : /\ q.msgs = Added(r.msgs, e)
                                 /\ e.to = 0 \/ e.to \notin x.owed \cup {x.asked}
    BY <1>3
  <2>2. \A p \in x.owed : Unanswered(r.msgs, p) /\ e.to # p
    BY <1>3, <2>1 DEF Owing, Unanswered
  <2>3. x.asked # 0 => Unanswered(r.msgs, x.asked) /\ e.to # x.asked /\ x.asked \notin x.owed
    BY <1>3, <2>1 DEF Owing
  <2>4. \A p \in x.owed : Unanswered(q.msgs, p)
    BY <1>3, <2>1, <2>2, UnansweredStays
  <2>5. x.asked # 0 => Unanswered(q.msgs, x.asked)
    BY <1>3, <2>1, <2>3, UnansweredStays
  <2> QED
    BY <1>3, <2>3, <2>4, <2>5 DEF Owing
<1> QED
  BY <1>1, <1>2, <1>3

-----------------------------------------------------------------------------
(* Rows and handlers.                                                       *)

LEMMA RowIs ==
  ASSUME NEW r \in ChatType
  PROVE  /\ r.state \in {"none", "live", "gone"}
         /\ r.state = "none" <=> r = NoChat
         /\ r.state = "live" <=> r \in LiveRow
         /\ r.state = "gone" <=> r \in GoneRow
         /\ r.state # "none" => /\ r.msgs \in Seq(MessageType) /\ Len(r.msgs) \in Nat
                                /\ r.upto \in Nat /\ r.kind \in Kinds
  BY LenProperties DEF ChatType, LiveRow, GoneRow, NoChat

LEMMA RowType == NoChat \in ChatType /\ LiveRow \subseteq ChatType /\ GoneRow \subseteq ChatType
  BY DEF ChatType, LiveRow, GoneRow

LEMMA HandlerIs ==
  ASSUME NEW k \in HandlerType
  PROVE  /\ k.pc \in {"idle", "waiting", "summarizing"} \cup Generating
         /\ k.pc = "idle" <=> k = Idle
         /\ k.pc # "idle" => k.chat \in Chats
         /\ k.pc = "summarizing" => /\ k.told \in Seq(Nat \ {0})
                                      /\ k.from \in Nat \ {0} /\ k.to \in Nat
         /\ k.pc \in {"waiting"} \cup Generating => \A pc \in {"waiting"} \cup Generating :
               [k EXCEPT !.pc = pc] = [pc |-> pc, chat |-> k.chat]
  BY DEF HandlerType, Idle, Generating

LEMMA HandlerTypes ==
  /\ Idle \in HandlerType
  /\ Idle.pc = "idle"
  /\ \A pc \in {"waiting"} \cup Generating, c \in Chats :
        /\ [pc |-> pc, chat |-> c] \in HandlerType
        /\ [pc |-> pc, chat |-> c].pc = pc
        /\ [pc |-> pc, chat |-> c].chat = c
  BY DEF HandlerType, Idle, Generating

WithMessage(r, e) == [r EXCEPT !.msgs = Added(r.msgs, e)]
WithTitle(r, title) == [r EXCEPT !.title = title]
WithSummary(r, n) ==
    IF r.state = "live" THEN [r EXCEPT !.upto = n, !.told = Count(n)]
                        ELSE [r EXCEPT !.upto = n]

LEMMA WithMessageIs ==
  ASSUME NEW r \in LiveRow \cup GoneRow, NEW e \in MessageType
  PROVE  /\ WithMessage(r, e) \in ChatType
         /\ WithMessage(r, e).state = r.state
         /\ WithMessage(r, e).kind = r.kind
         /\ WithMessage(r, e).upto = r.upto
         /\ WithMessage(r, e).msgs = Added(r.msgs, e)
         /\ r.state = "live" => /\ WithMessage(r, e).told = r.told
                                /\ WithMessage(r, e).title = r.title
                                /\ WithMessage(r, e).owner = r.owner
<1>1. Added(r.msgs, e) \in Seq(MessageType)
  BY AddedIs DEF LiveRow, GoneRow
<1>2. CASE r \in LiveRow
  BY <1>1, <1>2, RowType DEF LiveRow, WithMessage
<1>3. CASE r \in GoneRow
  BY <1>1, <1>3, RowType DEF GoneRow, WithMessage
<1> QED
  BY <1>2, <1>3

LEMMA WithTitleIs ==
  ASSUME NEW r \in LiveRow, NEW title \in {"default", "auto", "chosen"}
  PROVE  /\ WithTitle(r, title) \in LiveRow
         /\ WithTitle(r, title).msgs = r.msgs
         /\ WithTitle(r, title).upto = r.upto
         /\ WithTitle(r, title).told = r.told
         /\ WithTitle(r, title).kind = r.kind
         /\ WithTitle(r, title).title = title
  BY DEF LiveRow, WithTitle

LEMMA WithSummaryIs ==
  ASSUME NEW r \in LiveRow \cup GoneRow, NEW n \in Nat
  PROVE  /\ WithSummary(r, n) \in ChatType
         /\ WithSummary(r, n).state = r.state
         /\ WithSummary(r, n).kind = r.kind
         /\ WithSummary(r, n).upto = n
         /\ WithSummary(r, n).msgs = r.msgs
         /\ r.state = "live" => /\ WithSummary(r, n).told = Count(n)
                                /\ WithSummary(r, n).title = r.title
<1>1. Count(n) \in Seq(Nat \ {0})
  BY CountIsSeq
<1>2. CASE r \in LiveRow
  BY <1>1, <1>2, RowType DEF LiveRow, WithSummary
<1>3. CASE r \in GoneRow
  BY <1>1, <1>3, RowType DEF GoneRow, WithSummary
<1> QED
  BY <1>2, <1>3

LEMMA NewChatIs ==
  ASSUME NEW u \in Users, NEW kind \in Kinds
  PROVE  /\ NewChat(u, kind) \in LiveRow
         /\ NewChat(u, kind).title = "default"
         /\ RowSound(NewChat(u, kind))
<1>1. NewChat(u, kind) \in LiveRow
  BY DEF NewChat, LiveRow
<1>2. Follows(NewChat(u, kind).msgs)
  BY DEF NewChat, Follows
<1>3. Count(0) = <<>>
  BY CountIsSeq, EmptySeq, SeqEqual
<1>4. Accounted(NewChat(u, kind))
  BY <1>3 DEF NewChat, Accounted
<1> QED
  BY <1>1, <1>2, <1>4 DEF RowSound, NewChat

LEMMA GoneChatIs ==
  ASSUME NEW kind \in Kinds
  PROVE  /\ GoneChat(kind) \in GoneRow
         /\ GoneChat(kind).msgs = <<>>
         /\ GoneChat(kind).kind = kind
         /\ RowSound(GoneChat(kind))
  BY DEF GoneChat, GoneRow, RowSound

-----------------------------------------------------------------------------
(* A row changes, or a handler moves.                                       *)

(* What handler record k asks of the row of its chat.                       *)
Suited(h, k, r, cl, ho) == /\ r.state # "none"
                           /\ Summarizing(h, k, r, cl, ho)
                           /\ Answering(h, k, r, cl)

LEMMA RowChanges ==
  ASSUME NEW rows, NEW t, NEW cl, NEW ho, NEW ha,
         Sound(rows, t, cl, ho, ha),
         NEW c \in Chats, NEW q \in ChatType,
         RowSound(q),
         Owing(q, t[c]),
         \A h \in Handlers : ha[h].pc # "idle" /\ ha[h].chat = c
                              => Suited(h, ha[h], q, cl, ho)
  PROVE  Sound([rows EXCEPT ![c] = q], t, cl, ho, ha)
<1> DEFINE new == [rows EXCEPT ![c] = q]
<1>1. /\ new \in [Chats -> ChatType]
      /\ new[c] = q
      /\ \A d \in Chats : d # c => new[d] = rows[d]
  BY DEF Sound, Typed
<1> HIDE DEF new
<1>2. Typed(new, t, cl, ho, ha)
  BY <1>1 DEF Sound, Typed
<1>3. \A d \in Chats : RowSound(new[d])
  BY <1>1 DEF Sound
<1>4. \A h \in Handlers : HandlerSound(h, ha[h], new, cl, ho)
  <2> SUFFICES ASSUME NEW h \in Handlers, ha[h].pc # "idle"
               PROVE  Suited(h, ha[h], new[ha[h].chat], cl, ho)
    BY DEF HandlerSound, Suited
  <2>1. ha[h].chat \in Chats
    BY HandlerIs DEF Sound, Typed
  <2>2. Suited(h, ha[h], rows[ha[h].chat], cl, ho)
    BY DEF Sound, HandlerSound, Suited
  <2>3. CASE ha[h].chat = c
    BY <1>1, <2>3
  <2>4. CASE ha[h].chat # c
    BY <1>1, <2>1, <2>2, <2>4
  <2> QED
    BY <2>3, <2>4
<1>5. TasksSound(new, t, cl)
  BY <1>1 DEF Sound, Typed, TasksSound
<1>6. Sound(new, t, cl, ho, ha)
  BY <1>2, <1>3, <1>4, <1>5 DEF Sound
<1> QED
  BY <1>6 DEF new

LEMMA HandlerMoves ==
  ASSUME NEW rows, NEW t, NEW cl, NEW ho, NEW ha,
         Sound(rows, t, cl, ho, ha),
         NEW h \in Handlers, NEW k \in HandlerType,
         NEW cl2 \in SUBSET Chats,
         NEW ho2 \in [Chats -> Handlers \cup {None}],
         \A c \in Chats : t[c].bound => c \notin cl2,
         \A g \in Handlers : g # h /\ ha[g].pc \in Generating =>
            ha[g].chat \in cl2 /\ (k.pc \in Generating => ha[g].chat # k.chat),
         \A c \in Chats : ho2[c] # None =>
            IF ho2[c] = h THEN k.pc = "summarizing" /\ k.chat = c ELSE ho2[c] = ho[c],
         \A g \in Handlers : g # h /\ ha[g].pc = "summarizing" => ho2[ha[g].chat] = g,
         k.pc # "idle" => Suited(h, k, rows[k.chat], cl2, ho2)
  PROVE  Sound(rows, t, cl2, ho2, [ha EXCEPT ![h] = k])
<1> DEFINE new == [ha EXCEPT ![h] = k]
<1>1. /\ new \in [Handlers -> HandlerType]
      /\ new[h] = k
      /\ \A g \in Handlers : g # h => new[g] = ha[g]
  BY DEF Sound, Typed
<1> HIDE DEF new
<1>2. Typed(rows, t, cl2, ho2, new)
  BY <1>1 DEF Sound, Typed
<1>3. \A g \in Handlers : HandlerSound(g, new[g], rows, cl2, ho2)
  <2> SUFFICES ASSUME NEW g \in Handlers, new[g].pc # "idle"
               PROVE  Suited(g, new[g], rows[new[g].chat], cl2, ho2)
    BY DEF HandlerSound, Suited
  <2>1. CASE g = h
    BY <1>1, <2>1
  <2>2. CASE g # h
    <3>1. new[g] = ha[g]
      BY <1>1, <2>2
    <3>2. Suited(g, ha[g], rows[ha[g].chat], cl, ho)
      BY <3>1 DEF Sound, HandlerSound, Suited
    <3> QED
      BY <2>2, <3>1, <3>2 DEF Suited, Summarizing, Answering
  <2> QED
    BY <2>1, <2>2
<1>4. Apart(new)
  BY <1>1 DEF Sound, Apart
<1>5. LocksHeld(ho2, new)
  <2> SUFFICES ASSUME NEW c \in Chats, ho2[c] # None
               PROVE  new[ho2[c]].pc = "summarizing" /\ new[ho2[c]].chat = c
    BY DEF LocksHeld
  <2>1. ho2[c] \in Handlers
    OBVIOUS
  <2>2. CASE ho2[c] = h
    BY <1>1, <2>2
  <2>3. CASE ho2[c] # h
    BY <1>1, <2>1, <2>3 DEF Sound, LocksHeld
  <2> QED
    BY <2>2, <2>3
<1>6. TasksSound(rows, t, cl2)
  BY DEF Sound, TasksSound
<1>7. Sound(rows, t, cl2, ho2, new)
  BY <1>2, <1>3, <1>4, <1>5, <1>6 DEF Sound
<1> QED
  BY <1>7 DEF new

-----------------------------------------------------------------------------
(* The operations of the handlers.                                          *)

(* A handler without the lock ends its request, and may release its claim.  *)
LEMMA Leaves ==
  ASSUME NEW rows, NEW t, NEW cl, NEW ho, NEW ha,
         Sound(rows, t, cl, ho, ha),
         NEW h \in Handlers, ha[h].pc # "summarizing",
         NEW cl2, cl2 = cl \/ (ha[h].pc \in Generating /\ cl2 = cl \ {ha[h].chat})
  PROVE  Sound(rows, t, cl2, ho, [ha EXCEPT ![h] = Idle])
<1>1. cl2 \in SUBSET Chats /\ \A c \in Chats : t[c].bound => c \notin cl2
  BY DEF Sound, Typed, TasksSound
<1>2. ho \in [Chats -> Handlers \cup {None}]
  BY DEF Sound, Typed
<1>3. ASSUME NEW g \in Handlers, g # h, ha[g].pc \in Generating
      PROVE  ha[g].chat \in cl2
  <2>1. ha[g].pc # "idle"
    BY <1>3 DEF Generating
  <2>2. ha[g].chat \in cl
    BY <1>3, <2>1 DEF Sound, HandlerSound, Answering
  <2>3. ha[h].pc \in Generating => ha[h].chat # ha[g].chat
    BY <1>3 DEF Sound, Apart
  <2> QED
    BY <2>2, <2>3
<1>4. ASSUME NEW c \in Chats, ho[c] # None
      PROVE  ho[c] # h
  BY <1>4 DEF Sound, LocksHeld
<1>5. ASSUME NEW g \in Handlers, ha[g].pc = "summarizing"
      PROVE  ho[ha[g].chat] = g
  BY <1>5 DEF Sound, HandlerSound, Summarizing
<1>6. Idle.pc = "idle" /\ Idle \in HandlerType /\ Idle.pc \notin Generating
  BY HandlerTypes DEF Generating
<1> QED
  BY <1>1, <1>2, <1>3, <1>4, <1>5, <1>6, HandlerMoves

Release(ho, k) == [ho EXCEPT ![k.chat] = None]

(* The handler that summarises releases the lock.                           *)
LEMMA Releases ==
  ASSUME NEW rows, NEW t, NEW cl, NEW ho, NEW ha,
         Sound(rows, t, cl, ho, ha),
         NEW h \in Handlers, ha[h].pc = "summarizing"
  PROVE  Sound(rows, t, cl, Release(ho, ha[h]), [ha EXCEPT ![h] = Idle])
<1> DEFINE ho2 == Release(ho, ha[h])
<1>1. cl \in SUBSET Chats /\ \A c \in Chats : t[c].bound => c \notin cl
  BY DEF Sound, Typed, TasksSound
<1>2. ha[h].chat \in Chats /\ ho[ha[h].chat] = h
  BY HandlerIs DEF Sound, Typed, HandlerSound, Summarizing
<1>3. /\ ho2 \in [Chats -> Handlers \cup {None}]
      /\ ho2[ha[h].chat] = None
      /\ \A c \in Chats : c # ha[h].chat => ho2[c] = ho[c]
  BY <1>2 DEF Sound, Typed, Release
<1> HIDE DEF ho2
<1>4. ASSUME NEW g \in Handlers, ha[g].pc \in Generating
      PROVE  ha[g].chat \in cl
  BY <1>4 DEF Sound, HandlerSound, Answering, Generating
<1>5. ASSUME NEW c \in Chats, ho2[c] # None
      PROVE  ho2[c] # h /\ ho2[c] = ho[c]
  BY <1>3, <1>5 DEF Sound, LocksHeld
<1>6. ASSUME NEW g \in Handlers, g # h, ha[g].pc = "summarizing"
      PROVE  ho2[ha[g].chat] = g
  <2>1. ho[ha[g].chat] = g /\ ha[g].chat \in Chats
    BY <1>6, HandlerIs DEF Sound, Typed, HandlerSound, Summarizing
  <2> QED
    BY <1>2, <1>3, <1>6, <2>1
<1>7. Idle.pc = "idle" /\ Idle \in HandlerType /\ Idle.pc \notin Generating
  BY HandlerTypes DEF Generating
<1>8. Sound(rows, t, cl, ho2, [ha EXCEPT ![h] = Idle])
  BY <1>1, <1>3, <1>4, <1>5, <1>6, <1>7, HandlerMoves
<1> QED
  BY <1>8 DEF ho2

(* The other handlers of an unchanged state, as HandlerMoves asks of them.  *)
LEMMA OthersKeep ==
  ASSUME NEW rows, NEW t, NEW cl, NEW ho, NEW ha,
         Sound(rows, t, cl, ho, ha)
  PROVE  /\ cl \in SUBSET Chats
         /\ ho \in [Chats -> Handlers \cup {None}]
         /\ \A c \in Chats : t[c].bound => c \notin cl
         /\ \A g \in Handlers : ha[g].pc \in Generating => ha[g].chat \in cl
         /\ \A g \in Handlers : ha[g].pc = "summarizing" => ho[ha[g].chat] = g
         /\ \A c \in Chats : ho[c] # None => ha[ho[c]].pc = "summarizing" /\ ha[ho[c]].chat = c
         /\ \A g \in Handlers : ha[g].pc # "idle" => ha[g].chat \in Chats
<1>1. \A g \in Handlers : ha[g] \in HandlerType
  BY DEF Sound, Typed
<1>2. \A g \in Handlers : ha[g].pc \in Generating => ha[g].chat \in cl
  BY DEF Sound, HandlerSound, Answering, Generating
<1>3. \A g \in Handlers : ha[g].pc = "summarizing" => ho[ha[g].chat] = g
  BY DEF Sound, HandlerSound, Summarizing
<1> QED
  BY <1>1, <1>2, <1>3, HandlerIs DEF Sound, Typed, TasksSound, LocksHeld

(* A handler finds the lock of a chat taken, and waits.                     *)
LEMMA Waits ==
  ASSUME NEW rows, NEW t, NEW cl, NEW ho, NEW ha,
         Sound(rows, t, cl, ho, ha),
         NEW h \in Handlers, ha[h].pc = "idle",
         NEW c \in Chats, rows[c].state # "none"
  PROVE  Sound(rows, t, cl, ho, [ha EXCEPT ![h] = [pc |-> "waiting", chat |-> c]])
<1> DEFINE k == [pc |-> "waiting", chat |-> c]
<1>1. k \in HandlerType /\ k.pc = "waiting" /\ k.chat = c
  BY HandlerTypes
<1> HIDE DEF k
<1>2. k.pc \notin Generating /\ k.pc \notin Awaiting /\ k.pc # "summarizing"
  BY <1>1 DEF Generating, Awaiting
<1>3. Suited(h, k, rows[k.chat], cl, ho)
  BY <1>1, <1>2 DEF Suited, Summarizing, Answering
<1>4. \A d \in Chats : ho[d] # None => ho[d] # h
  BY OthersKeep
<1>5. Sound(rows, t, cl, ho, [ha EXCEPT ![h] = k])
  BY <1>1, <1>2, <1>3, <1>4, OthersKeep, HandlerMoves
<1> QED
  BY <1>5 DEF k

(* A handler takes the lock and reads what there is to summarise.           *)
Summary(c, r) == [pc |-> "summarizing", chat |-> c, told |-> r.told,
                  from |-> r.upto + 1, to |-> Len(r.msgs) - Keep]

LEMMA Summarizes ==
  ASSUME NEW rows, NEW t, NEW cl, NEW ho, NEW ha,
         Sound(rows, t, cl, ho, ha),
         NEW h \in Handlers, ha[h].pc \in {"idle", "waiting"},
         NEW c \in Chats, rows[c].state = "live",
         ho[c] = None,
         rows[c].upto + 1 <= Len(rows[c].msgs) - Keep
  PROVE  Sound(rows, t, cl, [ho EXCEPT ![c] = h], [ha EXCEPT ![h] = Summary(c, rows[c])])
<1> DEFINE k == Summary(c, rows[c])
           ho2 == [ho EXCEPT ![c] = h]
<1>1. rows[c] \in LiveRow
  BY RowIs DEF Sound, Typed
<1>2. /\ rows[c].upto \in Nat /\ Len(rows[c].msgs) \in Nat
      /\ rows[c].told \in Seq(Nat \ {0})
  BY <1>1, LenProperties DEF LiveRow
<1>3. Keep \in Nat /\ Len(rows[c].msgs) - Keep \in Nat
  BY <1>2, ChatsAssumption
<1>4. k \in HandlerType
  BY <1>2, <1>3 DEF HandlerType, Summary
<1>5. /\ k.pc = "summarizing" /\ k.chat = c /\ k.told = rows[c].told
      /\ k.from = rows[c].upto + 1 /\ k.to = Len(rows[c].msgs) - Keep
  BY DEF Summary
<1>6. /\ ho2 \in [Chats -> Handlers \cup {None}]
      /\ ho2[c] = h
      /\ \A d \in Chats : d # c => ho2[d] = ho[d]
  BY OthersKeep
<1> HIDE DEF k, ho2
<1>7. k.pc \notin Generating /\ k.pc \notin Awaiting
  BY <1>5 DEF Generating, Awaiting
<1>8. Fresh(k, rows[c])
  BY <1>2, <1>3, <1>5 DEF Fresh
<1>9. Suited(h, k, rows[k.chat], cl, ho2)
  BY <1>5, <1>6, <1>7, <1>8 DEF Suited, Summarizing, Answering
<1>10. \A d \in Chats : ho2[d] # None =>
          IF ho2[d] = h THEN k.pc = "summarizing" /\ k.chat = d ELSE ho2[d] = ho[d]
  BY <1>5, <1>6, OthersKeep
<1>11. h # None
  BY ChatsAssumption DEF Handlers
<1>12. \A g \in Handlers : g # h /\ ha[g].pc = "summarizing" => ho2[ha[g].chat] = g
  <2> SUFFICES ASSUME NEW g \in Handlers, ha[g].pc = "summarizing"
               PROVE  ho2[ha[g].chat] = g
    OBVIOUS
  <2>1. ho[ha[g].chat] = g /\ ha[g].chat \in Chats
    BY OthersKeep
  <2>2. g # None
    BY ChatsAssumption DEF Handlers
  <2> QED
    BY <1>6, <2>1, <2>2
<1>13. Sound(rows, t, cl, ho2, [ha EXCEPT ![h] = k])
  BY <1>4, <1>6, <1>7, <1>9, <1>10, <1>12, OthersKeep, HandlerMoves
<1> QED
  BY <1>13 DEF k, ho2

(* A handler that answers goes on, and does not come to wait for its answer *)
(* again.                                                                   *)
LEMMA GoesOn ==
  ASSUME NEW rows, NEW t, NEW cl, NEW ho, NEW ha,
         Sound(rows, t, cl, ho, ha),
         NEW s \in Handlers, ha[s].pc \in Generating,
         NEW pc \in Generating, pc \in Awaiting => ha[s].pc \in Awaiting
  PROVE  Sound(rows, t, cl, ho, [ha EXCEPT ![s].pc = pc])
<1> DEFINE c == ha[s].chat
           k == [pc |-> pc, chat |-> c]
<1>1. ha[s] \in HandlerType /\ ha[s].pc # "idle"
  BY DEF Sound, Typed, Generating
<1>2. c \in Chats
  BY <1>1, HandlerIs
<1>3. [ha EXCEPT ![s].pc = pc] = [ha EXCEPT ![s] = k]
  BY <1>1, HandlerIs DEF Generating
<1>4. k \in HandlerType /\ k.pc = pc /\ k.chat = c
  BY <1>2, HandlerTypes
<1>5. Suited(s, ha[s], rows[c], cl, ho)
  BY <1>1 DEF Sound, HandlerSound, Suited
<1>6. \A g \in Handlers : g # s /\ ha[g].pc \in Generating => ha[g].chat # c
  BY DEF Sound, Apart
<1>7. \A d \in Chats : ho[d] # None => ho[d] # s
  BY OthersKeep DEF Generating
<1> HIDE DEF k, c
<1>8. k.pc # "summarizing" /\ k.pc # "idle"
  BY <1>4 DEF Generating
<1>9. Suited(s, k, rows[k.chat], cl, ho)
  BY <1>4, <1>5, <1>8 DEF Suited, Summarizing, Answering, c
<1>10. \A g \in Handlers : g # s /\ ha[g].pc \in Generating =>
            ha[g].chat \in cl /\ (k.pc \in Generating => ha[g].chat # k.chat)
  BY <1>4, <1>6, OthersKeep
<1>11. Sound(rows, t, cl, ho, [ha EXCEPT ![s] = k])
  BY <1>4, <1>7, <1>9, <1>10, OthersKeep, HandlerMoves
<1> QED
  BY <1>3, <1>11

(* An idle sender claims a chat and stores its question in it.              *)
Asked(rows, s, c) == [rows EXCEPT ![c] = WithMessage(rows[c], Message(s, "user"))]
Stored(c) == [pc |-> "stored", chat |-> c]

LEMMA Asks ==
  ASSUME NEW rows, NEW t, NEW cl, NEW ho, NEW ha,
         Sound(rows, t, cl, ho, ha),
         NEW s \in Senders, ha[s].pc = "idle",
         NEW c \in Chats, rows[c].state = "live", c \notin cl, ~t[c].bound
  PROVE  Sound(Asked(rows, s, c), t, cl \cup {c}, ho, [ha EXCEPT ![s] = Stored(c)])
<1> DEFINE e == Message(s, "user")
           q == WithMessage(rows[c], e)
           k == Stored(c)
<1>1. rows[c] \in LiveRow
  BY RowIs DEF Sound, Typed
<1>2. e \in MessageType /\ e.to = 0
  BY MessageIs
<1>3. rows[c].msgs \in Seq(MessageType) /\ Len(rows[c].msgs) \in Nat /\ rows[c].upto \in Nat
  BY <1>1, LenProperties DEF LiveRow
<1>4. /\ q \in ChatType /\ q.state = "live" /\ q.upto = rows[c].upto
      /\ q.msgs = Added(rows[c].msgs, e) /\ q.told = rows[c].told
  BY <1>1, <1>2, WithMessageIs
<1>5. Follows(rows[c].msgs) /\ Accounted(rows[c])
  BY DEF Sound, RowSound
<1>6. Len(q.msgs) \in Nat /\ Len(q.msgs) >= Len(rows[c].msgs)
  BY <1>2, <1>3, <1>4, AddedIs, LenProperties
<1>7. Follows(q.msgs)
  BY <1>3, <1>4, <1>5, QuestionFollows
<1>8. Keep \in Nat
  BY ChatsAssumption
<1>9. Pending(q.msgs, s)
  <2> HIDE DEF q, e
  <2>1. CASE Len(rows[c].msgs) < MaxMessages
    <3> DEFINE m == rows[c].msgs
    <3>4. m \in Seq(MessageType) /\ Len(m) < MaxMessages /\ q.msgs = Added(m, e)
      BY <1>3, <1>4, <2>1
    <3> HIDE DEF m
    <3>5. Len(Added(m, e)) = Len(m) + 1 /\ Added(m, e)[Len(m) + 1] = e
      BY <1>2, <3>4, AddedIs
    <3>1. Len(q.msgs) = Len(rows[c].msgs) + 1 /\ q.msgs[Len(rows[c].msgs) + 1] = e
      BY <3>4, <3>5 DEF m
    <3>2. Len(q.msgs) \in 1..Len(q.msgs) /\ q.msgs[Len(q.msgs)] = e
      BY <1>3, <3>1
    <3>3. Between(q.msgs, Len(q.msgs), Len(q.msgs) + 1)
      BY <1>6 DEF Between
    <3> QED
      BY <3>2, <3>3 DEF Pending, Waiting, e
  <2>2. CASE ~(Len(rows[c].msgs) < MaxMessages)
    <3>1. q.msgs = rows[c].msgs
      BY <1>2, <1>3, <1>4, <2>2, AddedIs
    <3> QED
      BY <1>3, <2>2, <3>1, ChatsAssumption DEF Pending
  <2> QED
    BY <2>1, <2>2
<1> HIDE DEF q
<1>10. Accounted(q)
  BY <1>3, <1>4, <1>5, <1>6, <1>8 DEF Accounted
<1>11. RowSound(q)
  BY <1>4, <1>7, <1>10 DEF RowSound
<1>12. ASSUME NEW h \in Handlers, ha[h].pc # "idle", ha[h].chat = c
       PROVE  Suited(h, ha[h], q, cl, ho)
  <2>1. ha[h] \in HandlerType
    BY DEF Sound, Typed
  <2>2. Suited(h, ha[h], rows[c], cl, ho)
    BY <1>12 DEF Sound, HandlerSound, Suited
  <2>3. ha[h].pc \notin Generating
    BY <1>12, OthersKeep
  <2>4. ha[h].pc = "summarizing" => ha[h].to \in Nat /\ Fresh(ha[h], rows[c])
    BY <2>1, <2>2, HandlerIs DEF Suited, Summarizing
  <2>5. ha[h].pc = "summarizing" => Fresh(ha[h], q)
    BY <1>3, <1>4, <1>6, <1>8, <2>4 DEF Fresh
  <2> QED
    BY <1>4, <2>2, <2>3, <2>5 DEF Suited, Summarizing, Answering, Generating, Awaiting
<1>23. Owing(q, t[c])
  <2>1. Owing(rows[c], t[c]) /\ t[c] \in TaskType
    BY DEF Sound, Typed, TasksSound
  <2> QED
    BY <1>2, <1>3, <1>4, <2>1, OwingKept
<1>13. Sound(Asked(rows, s, c), t, cl, ho, ha)
  BY <1>4, <1>11, <1>12, <1>23, RowChanges DEF Asked, q
<1>14. Asked(rows, s, c)[c] = q
  BY DEF Asked, Sound, Typed, q
<1>15. k \in HandlerType /\ k.pc = "stored" /\ k.chat = c
  BY HandlerTypes DEF Stored, Generating
<1> HIDE DEF k
<1>16. Suited(s, k, Asked(rows, s, c)[k.chat], cl \cup {c}, ho)
  BY <1>4, <1>9, <1>14, <1>15 DEF Suited, Summarizing, Answering, Generating, Awaiting
<1>17. \A d \in Chats : ho[d] # None => ho[d] # s
  BY OthersKeep
<1>18. cl \cup {c} \in SUBSET Chats /\ (\A d \in Chats : t[d].bound => d \notin cl \cup {c})
  BY OthersKeep
<1>19. \A g \in Handlers : g # s /\ ha[g].pc \in Generating =>
          ha[g].chat \in cl \cup {c} /\ (k.pc \in Generating => ha[g].chat # k.chat)
  BY <1>15, OthersKeep
<1>20. \A g \in Handlers : ha[g].pc = "summarizing" => ho[ha[g].chat] = g
  BY OthersKeep
<1>21. ho \in [Chats -> Handlers \cup {None}] /\ s \in Handlers
  BY OthersKeep DEF Handlers
<1>22. Sound(Asked(rows, s, c), t, cl \cup {c}, ho, [ha EXCEPT ![s] = k])
  BY <1>13, <1>15, <1>16, <1>17, <1>18, <1>19, <1>20, <1>21, HandlerMoves
<1> QED
  BY <1>22 DEF k

(* A sender that waits for its answer stores it, and waits no more.         *)
WithAnswer(rows, s, c) == [rows EXCEPT ![c] = WithMessage(rows[c], Message(s, "assistant"))]

LEMMA Answers ==
  ASSUME NEW rows, NEW t, NEW cl, NEW ho, NEW ha,
         Sound(rows, t, cl, ho, ha),
         NEW s \in Handlers, ha[s].pc \in Awaiting,
         NEW pc \in {"titling", "closing"}
  PROVE  Sound(WithAnswer(rows, s, ha[s].chat), t, cl, ho, [ha EXCEPT ![s].pc = pc])
<1> DEFINE c == ha[s].chat
           e == Message(s, "assistant")
           q == WithMessage(rows[c], e)
           new == [ha EXCEPT ![s].pc = pc]
<1>1. ha[s] \in HandlerType /\ ha[s].pc \in Generating /\ ha[s].pc # "idle"
  BY DEF Sound, Typed, Generating, Awaiting
<1>2. c \in Chats
  BY <1>1, HandlerIs
<1>3. Suited(s, ha[s], rows[c], cl, ho)
  BY <1>1 DEF Sound, HandlerSound, Suited
<1>4. s \in Senders /\ c \in cl
  BY <1>1, <1>3 DEF Suited, Answering
<1>5. rows[c] \in LiveRow \cup GoneRow
  BY <1>2, <1>3, RowIs DEF Sound, Typed, Suited
<1>6. e \in MessageType /\ e.to = 0
  BY <1>4, MessageIs
<1>7. rows[c].msgs \in Seq(MessageType) /\ Len(rows[c].msgs) \in Nat /\ rows[c].upto \in Nat
  BY <1>5, LenProperties DEF LiveRow, GoneRow
<1>8. /\ q \in ChatType /\ q.state = rows[c].state /\ q.kind = rows[c].kind
      /\ q.upto = rows[c].upto /\ q.msgs = Added(rows[c].msgs, e)
      /\ q.state = "live" => q.told = rows[c].told
  BY <1>5, <1>6, WithMessageIs
<1>9. /\ Len(q.msgs) \in Nat /\ Len(q.msgs) >= Len(rows[c].msgs)
      /\ Len(q.msgs) <= Len(rows[c].msgs) + 1
  BY <1>6, <1>7, <1>8, AddedIs, LenProperties
<1>10. pc \in Generating /\ pc \notin Awaiting
  BY DEF Generating, Awaiting
<1>11. Sound(rows, t, cl, ho, new)
  BY <1>1, <1>10, GoesOn
<1>12. /\ new[s] = [pc |-> pc, chat |-> c]
       /\ \A h \in Handlers : h # s => new[h] = ha[h]
  BY <1>1, HandlerIs DEF Sound, Typed, Generating
<1>13. RowSound(rows[c])
  BY <1>2 DEF Sound
<1>14. Keep \in Nat
  BY ChatsAssumption
<1>15. q.state = "live" => Follows(q.msgs)
  BY <1>3, <1>4, <1>7, <1>8, <1>13, AnswerFollows DEF RowSound, Suited, Answering
<1>16. q.state = "gone" => rows[c].msgs = <<>> /\ rows[c].kind = "classic"
  BY <1>1, <1>3, <1>8 DEF Suited, Answering
<1> HIDE DEF q, new
<1>17. q.state = "live" => Accounted(q)
  BY <1>7, <1>8, <1>9, <1>13, <1>14 DEF RowSound, Accounted
<1>18. q.state = "gone" => Len(q.msgs) <= 1 /\ q.kind # "hermes_agent"
  BY <1>8, <1>9, <1>16
<1>19. RowSound(q)
  BY <1>15, <1>17, <1>18 DEF RowSound
<1>20. ASSUME NEW h \in Handlers, new[h].pc # "idle", new[h].chat = c
       PROVE  Suited(h, new[h], q, cl, ho)
  <2>1. new[h] \in HandlerType
    BY <1>11 DEF Sound, Typed
  <2>2. Suited(h, new[h], rows[c], cl, ho)
    BY <1>11, <1>20 DEF Sound, HandlerSound, Suited
  <2>3. new[h].pc \notin Awaiting
    <3>1. CASE h = s
      BY <1>10, <1>12, <3>1
    <3>2. CASE h # s
      <4>1. ha[h].pc \notin Generating
        BY <1>1, <1>12, <1>20, <3>2 DEF Sound, Apart
      <4> QED
        BY <1>12, <3>2, <4>1 DEF Generating, Awaiting
    <3> QED
      BY <3>1, <3>2
  <2>4. new[h].pc = "summarizing" => new[h].to \in Nat
    BY <2>1, HandlerIs
  <2>5. new[h].pc = "summarizing" /\ q.state = "live" => Fresh(new[h], q)
    BY <1>7, <1>8, <1>9, <1>14, <2>2, <2>4 DEF Fresh, Suited, Summarizing
  <2> QED
    BY <1>8, <2>2, <2>3, <2>5 DEF Suited, Summarizing, Answering
<1>21. Owing(q, t[c])
  <2>1. Owing(rows[c], t[c]) /\ t[c] \in TaskType
    BY <1>2 DEF Sound, Typed, TasksSound
  <2> QED
    BY <1>6, <1>7, <1>8, <2>1, OwingKept
<1>22. Sound([rows EXCEPT ![c] = q], t, cl, ho, new)
  BY <1>2, <1>8, <1>11, <1>19, <1>20, <1>21, RowChanges
<1> QED
  BY <1>22 DEF q, new, WithAnswer

(* The handler that summarises saves its summary and releases the lock.     *)
Saved(rows, k) == [rows EXCEPT ![k.chat] = WithSummary(rows[k.chat], k.to)]

LEMMA SavesSummary ==
  ASSUME NEW rows, NEW t, NEW cl, NEW ho, NEW ha,
         Sound(rows, t, cl, ho, ha),
         NEW h \in Handlers, ha[h].pc = "summarizing"
  PROVE  Sound(Saved(rows, ha[h]), t, cl, Release(ho, ha[h]), [ha EXCEPT ![h] = Idle])
<1> DEFINE k == ha[h]
           c == k.chat
           q == WithSummary(rows[c], k.to)
           new == [ha EXCEPT ![h] = Idle]
           ho2 == Release(ho, k)
<1>1. k \in HandlerType
  BY DEF Sound, Typed
<1>2. c \in Chats /\ k.to \in Nat /\ k.from \in Nat
  BY <1>1, HandlerIs
<1>3. Suited(h, k, rows[c], cl, ho)
  BY DEF Sound, HandlerSound, Suited
<1>4. rows[c] \in LiveRow \cup GoneRow
  BY <1>2, <1>3, RowIs DEF Sound, Typed, Suited
<1>5. /\ q \in ChatType /\ q.state = rows[c].state /\ q.kind = rows[c].kind
      /\ q.upto = k.to /\ q.msgs = rows[c].msgs
      /\ q.state = "live" => q.told = Count(k.to)
  BY <1>2, <1>4, WithSummaryIs
<1>6. Sound(rows, t, cl, ho2, new)
  BY Releases
<1>7. new[h] = Idle /\ Idle.pc = "idle" /\ \A g \in Handlers : g # h => new[g] = ha[g]
  BY HandlerTypes DEF Sound, Typed
<1>8. RowSound(rows[c])
  BY <1>2 DEF Sound
<1> HIDE DEF q, new
<1>9. q.state = "live" => Accounted(q)
  BY <1>3, <1>5 DEF Suited, Summarizing, Fresh, Accounted
<1>10. RowSound(q)
  BY <1>5, <1>8, <1>9 DEF RowSound
<1>11. ASSUME NEW g \in Handlers, new[g].pc # "idle", new[g].chat = c
       PROVE  Suited(g, new[g], q, cl, ho2)
  <2>1. g # h /\ new[g] = ha[g]
    BY <1>7, <1>11
  <2>2. Suited(g, new[g], rows[c], cl, ho2)
    BY <1>6, <1>11 DEF Sound, HandlerSound, Suited
  <2>3. new[g].pc # "summarizing"
    BY <1>11, <2>1, OthersKeep
  <2> QED
    BY <1>5, <2>2, <2>3 DEF Suited, Summarizing, Answering
<1>12. Owing(q, t[c])
  <2>1. Owing(rows[c], t[c]) /\ t[c] \in TaskType
    BY <1>2 DEF Sound, Typed, TasksSound
  <2>2. rows[c].state = "live" => rows[c].msgs \in Seq(MessageType)
    BY <1>4 DEF LiveRow, GoneRow
  <2> QED
    BY <1>5, <2>1, <2>2, OwingKept
<1>13. Sound([rows EXCEPT ![c] = q], t, cl, ho2, new)
  BY <1>2, <1>5, <1>6, <1>10, <1>11, <1>12, RowChanges
<1> QED
  BY <1>13 DEF q, new, Saved

-----------------------------------------------------------------------------
(* The other operations on chats, and the restart.                          *)

LEMMA Creates ==
  ASSUME NEW rows, NEW t, NEW cl, NEW ho, NEW ha,
         Sound(rows, t, cl, ho, ha),
         NEW c \in Chats, rows[c] = NoChat, NEW u \in Users, NEW kind \in Kinds
  PROVE  Sound([rows EXCEPT ![c] = NewChat(u, kind)], t, cl, ho, ha)
<1>1. /\ NewChat(u, kind) \in ChatType /\ NewChat(u, kind).state = "live"
      /\ RowSound(NewChat(u, kind))
  BY NewChatIs, RowType DEF LiveRow
<1>2. rows[c].state = "none"
  BY DEF NoChat
<1>3. \A h \in Handlers : ha[h].pc # "idle" => ha[h].chat # c
  BY <1>2 DEF Sound, HandlerSound
<1>4. Owing(NewChat(u, kind), t[c])
  <2>1. t[c] = NoTask
    BY <1>2 DEF Sound, TasksSound, Owing
  <2> QED
    BY <1>1, <2>1 DEF Owing, NoTask
<1> QED
  BY <1>1, <1>3, <1>4, RowChanges

LEMMA Titles ==
  ASSUME NEW rows, NEW t, NEW cl, NEW ho, NEW ha,
         Sound(rows, t, cl, ho, ha),
         NEW c \in Chats, rows[c].state = "live",
         NEW title \in {"default", "auto", "chosen"}
  PROVE  Sound([rows EXCEPT ![c] = WithTitle(rows[c], title)], t, cl, ho, ha)
<1> DEFINE q == WithTitle(rows[c], title)
<1>1. rows[c] \in LiveRow
  BY RowIs DEF Sound, Typed
<1>2. /\ q \in ChatType /\ q.state = "live" /\ q.msgs = rows[c].msgs
      /\ q.upto = rows[c].upto /\ q.told = rows[c].told
  BY <1>1, WithTitleIs, RowType DEF LiveRow
<1> HIDE DEF q
<1>3. RowSound(q)
  BY <1>2 DEF Sound, RowSound, Accounted
<1>4. ASSUME NEW h \in Handlers, ha[h].pc # "idle", ha[h].chat = c
      PROVE  Suited(h, ha[h], q, cl, ho)
  <2>1. Suited(h, ha[h], rows[c], cl, ho)
    BY <1>4 DEF Sound, HandlerSound, Suited
  <2> QED
    BY <1>2, <2>1 DEF Suited, Summarizing, Answering, Fresh
<1>5. Owing(q, t[c])
  <2>1. Owing(rows[c], t[c]) /\ t[c] \in TaskType
    BY DEF Sound, Typed, TasksSound
  <2>2. rows[c].msgs \in Seq(MessageType)
    BY <1>1 DEF LiveRow
  <2> QED
    BY <1>2, <2>1, <2>2, OwingKept
<1> QED
  BY <1>2, <1>3, <1>4, <1>5, RowChanges DEF q

(* Chats are deleted: none that a task is bound to, and of the private ones *)
(* none in which an answer is being made.                                   *)
Without(rows, S) == [c \in Chats |-> IF c \in S THEN GoneChat(rows[c].kind) ELSE rows[c]]

LEMMA Deletes ==
  ASSUME NEW rows, NEW t, NEW cl, NEW ho, NEW ha,
         Sound(rows, t, cl, ho, ha),
         NEW S \in SUBSET Chats,
         \A c \in S : rows[c].state = "live" /\ ~t[c].bound /\ (c \in cl => rows[c].kind = "classic")
  PROVE  Sound(Without(rows, S), t, cl, ho, ha)
<1> DEFINE new == Without(rows, S)
<1>1. \A c \in S : rows[c].kind \in Kinds
  BY RowIs DEF Sound, Typed
<1>2. \A c \in S : /\ new[c] \in ChatType /\ new[c].state = "gone" /\ new[c].msgs = <<>>
                   /\ new[c].kind = rows[c].kind /\ RowSound(new[c])
  <2> SUFFICES ASSUME NEW c \in S
               PROVE  /\ new[c] \in ChatType /\ new[c].state = "gone" /\ new[c].msgs = <<>>
                      /\ new[c].kind = rows[c].kind /\ RowSound(new[c])
    OBVIOUS
  <2>1. new[c] = GoneChat(rows[c].kind)
    BY DEF Without
  <2> QED
    BY <1>1, <2>1, GoneChatIs, RowType DEF GoneRow
<1>3. \A c \in Chats : c \notin S => new[c] = rows[c]
  BY DEF Without
<1>4. new \in [Chats -> ChatType]
  <2>1. \A c \in Chats : new[c] \in ChatType
    BY <1>2, <1>3 DEF Sound, Typed
  <2> QED
    BY <2>1 DEF Without
<1> HIDE DEF new
<1>5. Typed(new, t, cl, ho, ha)
  BY <1>4 DEF Sound, Typed
<1>6. \A c \in Chats : RowSound(new[c])
  BY <1>2, <1>3 DEF Sound
<1>7. \A h \in Handlers : HandlerSound(h, ha[h], new, cl, ho)
  <2> SUFFICES ASSUME NEW h \in Handlers, ha[h].pc # "idle"
               PROVE  Suited(h, ha[h], new[ha[h].chat], cl, ho)
    BY DEF HandlerSound, Suited
  <2>1. ha[h].chat \in Chats
    BY OthersKeep
  <2>2. Suited(h, ha[h], rows[ha[h].chat], cl, ho)
    BY DEF Sound, HandlerSound, Suited
  <2>3. CASE ha[h].chat \in S
    BY <1>2, <2>2, <2>3, OthersKeep DEF Suited, Summarizing, Answering
  <2>4. CASE ha[h].chat \notin S
    BY <1>3, <2>1, <2>2, <2>4
  <2> QED
    BY <2>3, <2>4
<1>8. TasksSound(new, t, cl)
  <2> SUFFICES ASSUME NEW c \in Chats
               PROVE  Owing(new[c], t[c]) /\ (t[c].bound => c \notin cl)
    BY DEF TasksSound
  <2>1. Owing(rows[c], t[c]) /\ (t[c].bound => c \notin cl)
    BY DEF Sound, TasksSound
  <2>2. CASE c \in S
    BY <1>2, <2>1, <2>2 DEF Owing
  <2>3. CASE c \notin S
    BY <1>3, <2>1, <2>3
  <2> QED
    BY <2>2, <2>3
<1>9. Sound(new, t, cl, ho, ha)
  BY <1>5, <1>6, <1>7, <1>8 DEF Sound
<1> QED
  BY <1>9 DEF new

(* The tasks of a chat change.                                              *)
LEMMA TaskChanges ==
  ASSUME NEW rows, NEW t, NEW cl, NEW ho, NEW ha,
         Sound(rows, t, cl, ho, ha),
         NEW c \in Chats, NEW x \in TaskType,
         Owing(rows[c], x), x.bound => c \notin cl
  PROVE  Sound(rows, [t EXCEPT ![c] = x], cl, ho, ha)
<1> DEFINE new == [t EXCEPT ![c] = x]
<1>1. /\ new \in [Chats -> TaskType] /\ new[c] = x
      /\ \A d \in Chats : d # c => new[d] = t[d]
  BY DEF Sound, Typed
<1> HIDE DEF new
<1>2. TasksSound(rows, new, cl)
  BY <1>1 DEF Sound, TasksSound
<1>3. Sound(rows, new, cl, ho, ha)
  BY <1>1, <1>2 DEF Sound, Typed
<1> QED
  BY <1>3 DEF new

(* A message of a task is added to a chat that is not full.                 *)
Posted(rows, c, e) == [rows EXCEPT ![c] = WithMessage(rows[c], e)]

LEMMA Posts ==
  ASSUME NEW rows, NEW t, NEW cl, NEW ho, NEW ha,
         Sound(rows, t, cl, ho, ha),
         NEW c \in Chats, rows[c].state = "live",
         NEW e \in MessageType,
         e.to = 0 \/ e.to \notin t[c].owed \cup {t[c].asked},
         Follows(Added(rows[c].msgs, e)),
         \A h \in Handlers : ha[h].pc \in Awaiting /\ ha[h].chat = c
                              => Pending(Added(rows[c].msgs, e), h)
  PROVE  Sound(Posted(rows, c, e), t, cl, ho, ha)
<1> DEFINE m == rows[c].msgs
           q == WithMessage(rows[c], e)
<1>1. rows[c] \in LiveRow
  BY RowIs DEF Sound, Typed
<1>2. m \in Seq(MessageType) /\ Len(m) \in Nat /\ rows[c].upto \in Nat
  BY <1>1, LenProperties DEF LiveRow
<1>3. /\ q \in ChatType /\ q.state = "live" /\ q.upto = rows[c].upto
      /\ q.msgs = Added(m, e) /\ q.told = rows[c].told
  BY <1>1, WithMessageIs
<1>4. Accounted(rows[c])
  BY DEF Sound, RowSound
<1> HIDE DEF q, m
<1>5. Len(q.msgs) \in Nat /\ Len(q.msgs) >= Len(m)
  BY <1>2, <1>3, AddedIs, LenProperties
<1>6. Keep \in Nat
  BY ChatsAssumption
<1>7. Accounted(q)
  BY <1>2, <1>3, <1>4, <1>5, <1>6 DEF Accounted, m
<1>8. RowSound(q)
  BY <1>3, <1>7 DEF RowSound, m
<1>9. ASSUME NEW h \in Handlers, ha[h].pc # "idle", ha[h].chat = c
      PROVE  Suited(h, ha[h], q, cl, ho)
  <2>1. ha[h] \in HandlerType
    BY DEF Sound, Typed
  <2>2. Suited(h, ha[h], rows[c], cl, ho)
    BY <1>9 DEF Sound, HandlerSound, Suited
  <2>3. ha[h].pc \in Awaiting => Pending(q.msgs, h)
    BY <1>3, <1>9 DEF m
  <2>4. ha[h].pc = "summarizing" => ha[h].to \in Nat /\ Fresh(ha[h], rows[c])
    BY <2>1, <2>2, HandlerIs DEF Suited, Summarizing
  <2>5. ha[h].pc = "summarizing" => Fresh(ha[h], q)
    BY <1>2, <1>3, <1>5, <1>6, <2>4 DEF Fresh, m
  <2> QED
    BY <1>3, <2>2, <2>3, <2>5 DEF Suited, Summarizing, Answering
<1>10. Owing(q, t[c])
  <2>1. Owing(rows[c], t[c]) /\ t[c] \in TaskType
    BY DEF Sound, Typed, TasksSound
  <2> QED
    BY <1>2, <1>3, <2>1, OwingKept DEF m
<1>11. Sound([rows EXCEPT ![c] = q], t, cl, ho, ha)
  BY <1>3, <1>8, <1>9, <1>10, RowChanges
<1> QED
  BY <1>11 DEF q, Posted

LEMMA EndedIs ==
  ASSUME NEW y \in TaskType, NEW p \in Nat,
         NEW x \in Ended(y, p)
  PROVE  /\ x \in TaskType /\ x.asked = 0 /\ ~x.bound
         /\ x.owed = y.owed \/ x.owed = y.owed \cup {p}
<1>1. CASE x = [y EXCEPT !.bound = FALSE, !.asked = 0]
  BY <1>1 DEF TaskType
<1>2. CASE x = [y EXCEPT !.bound = FALSE, !.asked = 0, !.owed = @ \cup {p}]
  <2>1. y.owed \cup {p} \in SUBSET Nat
    BY DEF TaskType
  <2>2. x = [bound |-> FALSE, asked |-> 0, owed |-> y.owed \cup {p}]
    BY <1>2 DEF TaskType
  <2> QED
    BY <2>1, <2>2 DEF TaskType
<1> QED
  BY <1>1, <1>2 DEF Ended

(* A task is accepted: nobody waits for an answer in its chat, and its      *)
(* question is not among those answered or owed.                            *)
LEMMA Accepts ==
  ASSUME NEW rows, NEW t, NEW cl, NEW ho, NEW ha,
         Sound(rows, t, cl, ho, ha),
         NEW c \in Chats, t[c].bound, t[c].asked = 0,
         Len(rows[c].msgs) < MaxMessages,
         NEW p, p = Len(rows[c].msgs) + 1,
         NEW x \in {[t[c] EXCEPT !.asked = p]} \cup Ended(t[c], p)
  PROVE  Sound(Posted(rows, c, Message("task", "user")), [t EXCEPT ![c] = x], cl, ho, ha)
<1> DEFINE e == Message("task", "user")
           m == rows[c].msgs
           new == Posted(rows, c, e)
<1>1. /\ t[c] \in TaskType /\ Owing(rows[c], t[c]) /\ c \notin cl
      /\ rows \in [Chats -> ChatType]
  BY DEF Sound, Typed, TasksSound
<1>2. rows[c].state = "live"
  BY <1>1 DEF Owing
<1>3. rows[c] \in LiveRow /\ Follows(m)
  BY <1>2, RowIs DEF Sound, Typed, RowSound
<1>4. m \in Seq(MessageType) /\ Len(m) \in Nat
  BY <1>3, LenProperties DEF LiveRow
<1>5. e \in MessageType /\ e.to = 0
  BY MessageIs
<1>6. Follows(Added(m, e))
  BY <1>3, <1>4, QuestionFollows
<1>7. \A h \in Handlers : ha[h].pc \in Awaiting => ha[h].chat # c
  BY <1>1, OthersKeep DEF Awaiting, Generating
<1> HIDE DEF e, m
<1>8. Sound(new, t, cl, ho, ha)
  BY <1>2, <1>5, <1>6, <1>7, Posts DEF m
<1>9. new[c] = WithMessage(rows[c], e)
  BY <1>1 DEF Posted
<1> HIDE DEF new
<1>10. new[c].state = "live" /\ new[c].msgs = Added(m, e)
  BY <1>2, <1>3, <1>5, <1>9, WithMessageIs DEF m
<1>11. p \in Nat /\ p # 0 /\ p = Len(m) + 1
  BY <1>4 DEF m
<1>12. Unanswered(Added(m, e), p)
  <2>1. /\ Len(Added(m, e)) = Len(m) + 1
        /\ Added(m, e)[Len(m) + 1] = e
        /\ \A i \in 1..Len(m) : Added(m, e)[i] = m[i]
    BY <1>4, <1>5, AddedIs DEF m
  <2>2. ASSUME NEW j \in 1..(Len(m) + 1) PROVE Added(m, e)[j].to # p
    <3>1. CASE j = Len(m) + 1
      BY <1>5, <1>11, <2>1, <3>1
    <3>2. CASE j # Len(m) + 1
      <4>1. j \in 1..Len(m)
        BY <1>4, <3>2
      <4>2. m[j].to < j /\ m[j].to \in Nat
        <5>1. j \in DOMAIN m /\ m[j] \in MessageType
          BY <1>4, <4>1
        <5> QED
          BY <1>3, <5>1 DEF Follows, MessageType
      <4>3. m[j].to # p
        BY <1>4, <1>11, <4>1, <4>2
      <4> QED
        BY <2>1, <4>1, <4>3
    <3> QED
      BY <3>1, <3>2
  <2> QED
    BY <1>4, <1>11, <2>1, <2>2 DEF Unanswered, e
<1>13. Owing(new[c], t[c])
  BY <1>8 DEF Sound, TasksSound
<1>14. p \notin t[c].owed
  BY <1>1, <1>2, <1>4, <1>11 DEF Owing, Unanswered, m
<1>15. x \in TaskType /\ (x.asked = p \/ x.asked = 0) /\ (~x.bound => x.asked = 0)
       /\ x.owed \subseteq t[c].owed \cup {p} /\ (x.asked = p => x.owed = t[c].owed)
  <2>1. CASE x = [t[c] EXCEPT !.asked = p]
    BY <1>1, <1>11, <2>1 DEF TaskType
  <2>2. CASE x \in Ended(t[c], p)
    BY <1>1, <1>11, <2>2, EndedIs
  <2> QED
    BY <2>1, <2>2
<1>16. \A o \in x.owed : Unanswered(new[c].msgs, o)
  BY <1>10, <1>12, <1>13, <1>15 DEF Owing
<1>17. Owing(new[c], x)
  BY <1>10, <1>12, <1>14, <1>15, <1>16 DEF Owing
<1>18. Sound(new, [t EXCEPT ![c] = x], cl, ho, ha)
  BY <1>1, <1>8, <1>15, <1>17, TaskChanges
<1> QED
  BY <1>18 DEF new, e

(* The answer of a task is added, and the task is done with.                *)
LEMMA Projects ==
  ASSUME NEW rows, NEW t, NEW cl, NEW ho, NEW ha,
         Sound(rows, t, cl, ho, ha),
         NEW c \in Chats, rows[c].state = "live", NEW p \in t[c].owed,
         Len(rows[c].msgs) < MaxMessages
  PROVE  Sound(Posted(rows, c, AnswerTo(p)), [t EXCEPT ![c].owed = @ \ {p}], cl, ho, ha)
<1> DEFINE e == AnswerTo(p)
           m == rows[c].msgs
           x == [t[c] EXCEPT !.owed = @ \ {p}]
           new == [t EXCEPT ![c] = x]
<1>1. /\ t[c] \in TaskType /\ Owing(rows[c], t[c]) /\ (t[c].bound => c \notin cl)
      /\ t \in [Chats -> TaskType]
  BY DEF Sound, Typed, TasksSound
<1>2. p \in Nat
  BY <1>1 DEF TaskType
<1>3. rows[c] \in LiveRow /\ Follows(m)
  BY RowIs DEF Sound, Typed, RowSound
<1>4. m \in Seq(MessageType)
  BY <1>3 DEF LiveRow
<1>5. e \in MessageType /\ e.to = p
  BY <1>2, AnswerToIs
<1>6. Unanswered(m, p) /\ t[c].asked # p /\ p # 0
  BY <1>1, <1>2 DEF Owing, Unanswered
<1>7. /\ x \in TaskType /\ x.bound = t[c].bound /\ x.asked = t[c].asked
      /\ x.owed = t[c].owed \ {p}
  BY <1>1 DEF TaskType
<1>8. [t EXCEPT ![c].owed = @ \ {p}] = new /\ new[c] = x
  BY <1>1
<1> HIDE DEF x
<1>9. Owing(rows[c], x)
  BY <1>1, <1>7 DEF Owing
<1>10. Sound(rows, new, cl, ho, ha)
  BY <1>1, <1>7, <1>9, TaskChanges
<1> HIDE DEF new, e, m
<1>11. /\ Follows(Added(m, AnswerTo(p)))
       /\ \A h : Pending(m, h) => Pending(Added(m, AnswerTo(p)), h)
  BY <1>2, <1>3, <1>4, <1>6, TaskAnswerFollows DEF m
<1>12. ASSUME NEW h \in Handlers, ha[h].pc \in Awaiting, ha[h].chat = c
       PROVE  Pending(Added(m, e), h)
  <2>1. ha[h].pc # "idle"
    BY <1>12 DEF Awaiting
  <2>2. Pending(m, h)
    BY <1>12, <2>1 DEF Sound, HandlerSound, Answering, m
  <2> QED
    BY <1>11, <2>2 DEF e
<1>13. e.to \notin new[c].owed \cup {new[c].asked}
  BY <1>5, <1>6, <1>7, <1>8
<1>14. Follows(Added(m, e))
  BY <1>11 DEF e
<1>15. Sound(Posted(rows, c, e), new, cl, ho, ha)
  BY <1>5, <1>10, <1>12, <1>13, <1>14, Posts DEF m
<1> QED
  BY <1>8, <1>15 DEF e

(* The process starts again.                                                *)
LEMMA Restarts ==
  ASSUME NEW rows, NEW t, NEW cl, NEW ho, NEW ha,
         Sound(rows, t, cl, ho, ha)
  PROVE  Sound(rows, t, {}, [c \in Chats |-> None], [h \in Handlers |-> Idle])
<1>1. Idle \in HandlerType /\ Idle.pc = "idle" /\ Idle.pc \notin Generating
  BY HandlerTypes DEF Generating
<1> QED
  BY <1>1 DEF Sound, Typed, HandlerSound, Apart, LocksHeld, TasksSound

-----------------------------------------------------------------------------
(* The actions.  An action is one or more of the operations above, in the   *)
(* order the code performs them.                                            *)

LEMMA Initially == ASSUME Init PROVE Inv
<1>1. Idle \in HandlerType /\ Idle.pc = "idle" /\ Idle.pc \notin Generating
  BY HandlerTypes DEF Generating
<1>2. NoChat \in ChatType /\ RowSound(NoChat)
  BY RowType DEF RowSound, NoChat
<1>3. NoTask \in TaskType /\ Owing(NoChat, NoTask) /\ ~NoTask.bound
  BY DEF NoTask, TaskType, Owing, NoChat
<1> QED
  BY <1>1, <1>2, <1>3 DEF Init, Inv, Sound, Typed, HandlerSound, Apart, LocksHeld, TasksSound

(* What the two additions, the saved summary and the title make of rows.    *)
LEMMA AddMessageIs ==
  ASSUME NEW rows \in [Chats -> ChatType], NEW c \in Chats, NEW e
  PROVE  AddMessage(rows, c, e) = [rows EXCEPT ![c] = WithMessage(rows[c], e)]
  BY DEF AddMessage, WithMessage, Added

LEMMA ClaimSound ==
  ASSUME NEW rows, NEW ho, NEW ha,
         Sound(rows, tasks, claimed, ho, ha),
         NEW s \in Senders, NEW c \in Chats,
         ha[s] = Idle,
         ha = [handler EXCEPT ![s] = Idle],
         handler \in [Handlers -> HandlerType],
         ClaimAndStore(s, c, rows)
  PROVE  Sound(chats', tasks, claimed', ho, handler')
<1>1. rows \in [Chats -> ChatType] /\ s \in Handlers /\ ha[s].pc = "idle"
  BY HandlerTypes DEF Sound, Typed, Handlers
<1>2. CASE Claimable(rows, c)
  <2>1. chats' = Asked(rows, s, c) /\ claimed' = claimed \cup {c}
    BY <1>1, <1>2, AddMessageIs DEF ClaimAndStore, Asked
  <2>2. handler' = [handler EXCEPT ![s] = Stored(c)]
    BY <1>2 DEF ClaimAndStore, Stored
  <2>3. handler' = [ha EXCEPT ![s] = Stored(c)]
    BY <1>1, <2>2
  <2>4. rows[c].state = "live" /\ c \notin claimed /\ ~tasks[c].bound
    BY <1>2 DEF Claimable
  <2> QED
    BY <1>1, <2>1, <2>3, <2>4, Asks
<1>3. CASE ~Claimable(rows, c)
  BY <1>3 DEF ClaimAndStore
<1> QED
  BY <1>2, <1>3

LEMMA ContinueSound ==
  ASSUME NEW rows, NEW ho, NEW ha,
         Sound(rows, tasks, claimed, ho, ha),
         NEW h \in Handlers, NEW c \in Chats,
         ha[h] = Idle,
         ha = [handler EXCEPT ![h] = Idle],
         handler \in [Handlers -> HandlerType],
         Continue(h, c, rows)
  PROVE  Sound(chats', tasks, claimed', ho, handler')
<1>1. CASE h \in Senders
  BY <1>1, ClaimSound DEF Continue
<1>2. CASE h \notin Senders
  BY <1>2 DEF Continue
<1> QED
  BY <1>1, <1>2

LEMMA CompactLockedSound ==
  ASSUME Inv,
         NEW h \in Handlers, handler[h].pc \in {"idle", "waiting"},
         NEW c \in Chats, chats[c].state # "none",
         LockFree(c),
         CompactLocked(h, c)
  PROVE  Sound(chats', tasks, claimed', holder', handler')
<1>1. /\ Sound(chats, tasks, claimed, holder, handler)
      /\ handler \in [Handlers -> HandlerType]
      /\ chats[c] \in ChatType
  BY DEF Inv, Sound, Typed
<1>2. chats[c].upto \in Nat /\ Len(chats[c].msgs) \in Nat
  BY <1>1, RowIs
<1>3. CASE /\ FirstCandidate(c) <= LastCandidate(c)
           /\ holder' = [holder EXCEPT ![c] = h]
           /\ handler' = [handler EXCEPT ![h] =
                            [pc |-> "summarizing", chat |-> c, told |-> chats[c].told,
                             from |-> FirstCandidate(c), to |-> LastCandidate(c)]]
           /\ UNCHANGED <<chats, claimed>>
  <2>1. /\ FirstCandidate(c) = chats[c].upto + 1
        /\ LastCandidate(c) = Len(chats[c].msgs) - Keep
        /\ chats[c].upto + 1 <= Len(chats[c].msgs) - Keep
    BY <1>2, <1>3, ChatsAssumption DEF FirstCandidate, LastCandidate
  <2>2. chats[c].state = "live"
    <3>1. chats[c].state = "gone" => Len(chats[c].msgs) <= 1
      BY <1>1 DEF Sound, RowSound
    <3>2. ~(Len(chats[c].msgs) <= 1)
      BY <1>2, <2>1, ChatsAssumption
    <3> QED
      BY <1>1, <3>1, <3>2, RowIs
  <2>3. handler' = [handler EXCEPT ![h] = Summary(c, chats[c])]
    BY <1>3, <2>1 DEF Summary
  <2>4. chats' = chats /\ claimed' = claimed /\ holder' = [holder EXCEPT ![c] = h]
    BY <1>3
  <2>5. Sound(chats, tasks, claimed, [holder EXCEPT ![c] = h],
              [handler EXCEPT ![h] = Summary(c, chats[c])])
    BY <1>1, <2>1, <2>2, Summarizes DEF LockFree
  <2> QED
    BY <2>3, <2>4, <2>5
<1>4. CASE Continue(h, c, chats) /\ UNCHANGED holder
  <2> DEFINE ha == [handler EXCEPT ![h] = Idle]
  <2>1. Sound(chats, tasks, claimed, holder, ha)
    BY <1>1, Leaves
  <2>2. ha[h] = Idle
    BY <1>1
  <2> HIDE DEF ha
  <2>3. ha = [handler EXCEPT ![h] = Idle]
    BY DEF ha
  <2>4. Sound(chats', tasks, claimed', holder, handler')
    BY <1>1, <1>4, <2>1, <2>2, <2>3, ContinueSound
  <2> QED
    BY <1>4, <2>4
<1> QED
  BY <1>3, <1>4 DEF CompactLocked

LEMMA CompactSound ==
  ASSUME Inv,
         NEW h \in Handlers, handler[h].pc = "idle",
         NEW c \in Chats, chats[c].state # "none",
         Compact(h, c)
  PROVE  Sound(chats', tasks, claimed', holder', handler')
<1>1. CASE LockFree(c)
  BY <1>1, CompactLockedSound DEF Compact
<1>2. CASE ~LockFree(c)
  BY <1>2, Waits DEF Compact, Inv
<1> QED
  BY <1>1, <1>2

LEMMA SaveCompactionIs ==
  ASSUME Inv, NEW h \in Handlers, handler[h].pc = "summarizing"
  PROVE  SaveCompaction(h) = Saved(chats, handler[h])
<1> DEFINE k == handler[h]
           c == k.chat
<1>1. k \in HandlerType /\ chats \in [Chats -> ChatType]
  BY DEF Inv, Sound, Typed
<1>2. c \in Chats /\ k.to \in Nat
  BY <1>1, HandlerIs
<1>3. Suited(h, k, chats[c], claimed, holder)
  BY DEF Inv, Sound, HandlerSound, Suited
<1>4. CASE chats[c].state = "live"
  <2>1. chats[c] \in LiveRow /\ Accounted(chats[c]) /\ Fresh(k, chats[c])
    BY <1>1, <1>2, <1>3, <1>4, RowIs DEF Inv, Sound, RowSound, Suited, Summarizing
  <2>2. chats[c].upto \in Nat
    BY <2>1 DEF LiveRow
  <2> DEFINE u == chats[c].upto
             told == k.told \o [i \in 1..(k.to + 1 - k.from) |-> k.from + i - 1]
  <2>3. k.told = Count(u) /\ k.from = u + 1 /\ u <= k.to
    BY <1>2, <2>1, <2>2 DEF Fresh, Accounted
  <2>4. told = Count(k.to)
    BY <1>2, <2>2, <2>3, CountExtends
  <2> HIDE DEF told
  <2>5. SaveCompaction(h) = [chats EXCEPT ![c].upto = k.to, ![c].told = told]
    BY <1>4 DEF SaveCompaction, Live, told
  <2>6. [chats EXCEPT ![c].upto = k.to, ![c].told = told]
          = [chats EXCEPT ![c] = [chats[c] EXCEPT !.upto = k.to, !.told = told]]
    BY <1>1, <1>2
  <2> QED
    BY <1>4, <2>4, <2>5, <2>6 DEF Saved, WithSummary
<1>5. CASE chats[c].state # "live"
  BY <1>1, <1>2, <1>5 DEF SaveCompaction, Live, Saved, WithSummary
<1> QED
  BY <1>4, <1>5

LEMMA IdleUnchanged ==
  ASSUME Inv, NEW h \in Handlers, handler[h].pc = "idle"
  PROVE  /\ handler[h] = Idle
         /\ handler = [handler EXCEPT ![h] = Idle]
         /\ handler \in [Handlers -> HandlerType]
<1>1. handler \in [Handlers -> HandlerType]
  BY DEF Inv, Sound, Typed
<1>2. handler[h] = Idle
  BY <1>1, HandlerIs
<1> QED
  BY <1>1, <1>2

LEMMA SubmitSound ==
  ASSUME Inv, NEW s \in Senders, NEW c \in Chats, Submit(s, c) \/ SubmitToNewChat(s, c)
  PROVE  Inv'
<1>1. s \in Handlers /\ handler[s].pc = "idle"
  BY DEF Submit, SubmitToNewChat, At, Handlers
<1>2. Sound(chats, tasks, claimed, holder, handler)
  BY DEF Inv
<1>3. CASE ClaimAndStore(s, c, chats) /\ UNCHANGED <<tasks, naming, holder, dropped>>
  <2>1. Sound(chats', tasks, claimed', holder, handler')
    BY <1>1, <1>2, <1>3, IdleUnchanged, ClaimSound
  <2> QED
    BY <1>3, <2>1 DEF Inv
<1>4. CASE Submit(s, c) /\ Compact(s, c)
  <2>1. chats[c].state # "none"
    BY <1>4 DEF Submit, MayAddress, Live
  <2>2. Sound(chats', tasks, claimed', holder', handler')
    BY <1>1, <1>4, <2>1, CompactSound
  <2> QED
    BY <1>4, <2>2 DEF Inv, Submit
<1>5. CASE SubmitToNewChat(s, c)
  <2>1. PICK k \in Kinds : ClaimAndStore(s, c, [chats EXCEPT ![c] = NewChat(UserOf[s], k)])
    BY <1>5 DEF SubmitToNewChat
  <2> DEFINE rows == [chats EXCEPT ![c] = NewChat(UserOf[s], k)]
  <2>2. chats[c] = NoChat /\ UNCHANGED <<tasks, naming, holder, dropped>>
    BY <1>5 DEF SubmitToNewChat
  <2>3. UserOf[s] \in Users
    BY ChatsAssumption
  <2>4. Sound(rows, tasks, claimed, holder, handler)
    BY <1>2, <2>2, <2>3, Creates
  <2>5. ClaimAndStore(s, c, rows)
    BY <2>1
  <2> HIDE DEF rows
  <2>6. Sound(chats', tasks, claimed', holder, handler')
    BY <1>1, <2>4, <2>5, IdleUnchanged, ClaimSound
  <2> QED
    BY <2>2, <2>6 DEF Inv
<1> QED
  BY <1>3, <1>4, <1>5 DEF Submit

LEMMA CompactManuallySound ==
  ASSUME Inv, NEW m \in Compactors, NEW c \in Chats, CompactManually(m, c)
  PROVE  Inv'
<1>1. m \in Handlers /\ handler[m].pc = "idle" /\ chats[c].state # "none" /\ Compact(m, c)
  BY DEF CompactManually, At, Handlers, Live
<1>2. Sound(chats', tasks, claimed', holder', handler')
  BY <1>1, CompactSound
<1> QED
  BY <1>2 DEF Inv, CompactManually

LEMMA AcquireLockSound ==
  ASSUME Inv, NEW h \in Handlers, AcquireLock(h)
  PROVE  Inv'
<1> DEFINE c == handler[h].chat
<1>1. handler[h].pc = "waiting" /\ LockFree(c) /\ CompactLocked(h, c)
  BY DEF AcquireLock, At
<1>2. c \in Chats /\ chats[c].state # "none"
  BY <1>1, OthersKeep DEF Inv, Sound, HandlerSound
<1>3. Sound(chats', tasks, claimed', holder', handler')
  BY <1>1, <1>2, CompactLockedSound
<1> QED
  BY <1>3 DEF Inv, AcquireLock

(* Whether the summary is saved or not, the lock is released, and a         *)
(* submission goes on to claim its chat.                                    *)
LEMMA SummaryEndsSound ==
  ASSUME Inv, NEW h \in Handlers, FinishSummary(h) \/ FailSummary(h)
  PROVE  Inv'
<1> DEFINE c == handler[h].chat
           ha == [handler EXCEPT ![h] = Idle]
           ho == Release(holder, handler[h])
<1>1. /\ handler[h].pc = "summarizing" /\ holder' = ho
      /\ UNCHANGED <<tasks, naming, dropped>>
  BY DEF FinishSummary, FailSummary, At, Released, Release
<1>2. Sound(chats, tasks, claimed, holder, handler)
  BY DEF Inv
<1>3. c \in Chats /\ handler \in [Handlers -> HandlerType]
  BY <1>1, <1>2, OthersKeep DEF Sound, Typed
<1>4. Sound(chats, tasks, claimed, ho, ha)
  BY <1>1, <1>2, Releases
<1>5. Sound(SaveCompaction(h), tasks, claimed, ho, ha)
  BY <1>1, <1>2, SavesSummary, SaveCompactionIs
<1>6. ha[h] = Idle
  BY <1>3
<1> HIDE DEF ha
<1>7. ha = [handler EXCEPT ![h] = Idle]
  BY DEF ha
<1>8. CASE FinishSummary(h)
  <2>1. Continue(h, c, SaveCompaction(h)) \/ Continue(h, c, chats)
    BY <1>8 DEF FinishSummary
  <2>2. Sound(chats', tasks, claimed', ho, handler')
    BY <1>3, <1>4, <1>5, <1>6, <1>7, <2>1, ContinueSound
  <2> QED
    BY <1>1, <2>2 DEF Inv
<1>9. CASE FailSummary(h)
  <2>1. (chats' = chats \/ chats' = SaveCompaction(h)) /\ handler' = ha /\ claimed' = claimed
    BY <1>9 DEF FailSummary, ha
  <2> QED
    BY <1>1, <1>4, <1>5, <2>1 DEF Inv
<1> QED
  BY <1>8, <1>9

LEMMA LoseResponseSound ==
  ASSUME Inv, NEW s \in Senders, LoseResponse(s)
  PROVE  Inv'
<1>1. s \in Handlers /\ handler[s].pc = "stored"
  BY DEF LoseResponse, At, Handlers
<1>2. handler[s].chat \in Chats
  BY <1>1, OthersKeep DEF Inv
<1>3. Sound(chats, tasks, claimed, holder, [handler EXCEPT ![s] = Idle])
  BY <1>1, Leaves DEF Inv
<1> QED
  BY <1>2, <1>3 DEF LoseResponse, Inv

LEMMA AskModelSound ==
  ASSUME Inv, NEW s \in Senders, StartStream(s) \/ CallModel(s)
  PROVE  Inv'
<1>1. /\ s \in Handlers /\ handler[s].pc = "stored"
      /\ UNCHANGED <<chats, tasks, naming, claimed, holder, dropped>>
  BY DEF StartStream, CallModel, At, Handlers
<1>2. PICK pc \in {"streaming", "generating"} : handler' = [handler EXCEPT ![s].pc = pc]
  BY DEF StartStream, CallModel
<1>3. handler[s].pc \in Generating /\ handler[s].pc \in Awaiting /\ pc \in Generating
  BY <1>1, <1>2 DEF Generating, Awaiting
<1>4. Sound(chats, tasks, claimed, holder, [handler EXCEPT ![s].pc = pc])
  BY <1>1, <1>3, GoesOn DEF Inv
<1> QED
  BY <1>1, <1>2, <1>4 DEF Inv

LEMMA SaveAnswerSound ==
  ASSUME Inv, NEW s \in Senders, handler[s].pc \in {"streaming", "generating"}, SaveAnswer(s)
  PROVE  Inv'
<1>1. s \in Handlers /\ handler[s].pc \in Awaiting
  BY DEF Awaiting, Handlers
<1>2. handler[s].chat \in Chats
  BY <1>1, OthersKeep DEF Inv, Awaiting
<1>3. chats' = WithAnswer(chats, s, handler[s].chat)
  <2>1. chats \in [Chats -> ChatType]
    BY DEF Inv, Sound, Typed
  <2>2. chats' = AddMessage(chats, handler[s].chat, Message(s, "assistant"))
    BY DEF SaveAnswer
  <2> DEFINE c == handler[s].chat
             e == Message(s, "assistant")
  <2>3. c \in Chats /\ chats' = AddMessage(chats, c, e)
    BY <1>2, <2>2
  <2> HIDE DEF c, e
  <2>4. chats' = [chats EXCEPT ![c] = WithMessage(chats[c], e)]
    BY <2>1, <2>3, AddMessageIs
  <2> QED
    BY <2>4 DEF WithAnswer, c, e
<1>4. PICK pc \in {"titling", "closing"} : handler' = [handler EXCEPT ![s].pc = pc]
  <2>1. CASE MayTitle(chats', handler[s].chat)
    <3>1. handler' = [handler EXCEPT ![s].pc = "titling"]
      BY <2>1 DEF SaveAnswer
    <3> QED
      BY <3>1
  <2>2. CASE ~MayTitle(chats', handler[s].chat)
    <3>1. handler' = [handler EXCEPT ![s].pc = "closing"]
      BY <2>2 DEF SaveAnswer
    <3> QED
      BY <3>1
  <2> QED
    BY <2>1, <2>2
<1>5. Sound(WithAnswer(chats, s, handler[s].chat), tasks, claimed, holder,
            [handler EXCEPT ![s].pc = pc])
  BY <1>1, Answers DEF Inv
<1> QED
  BY <1>3, <1>4, <1>5 DEF Inv, SaveAnswer

LEMMA AnswerEndsSound ==
  ASSUME Inv, NEW s \in Senders, FinishStream(s) \/ ReceiveAnswer(s)
  PROVE  Inv'
<1>1. CASE SaveAnswer(s)
  BY <1>1, SaveAnswerSound DEF FinishStream, ReceiveAnswer, At
<1>2. CASE /\ handler[s].pc = "streaming"
           /\ handler' = [handler EXCEPT ![s].pc = "closing"]
           /\ UNCHANGED <<chats, tasks, naming, claimed, holder, dropped>>
  <2>1. /\ s \in Handlers /\ handler[s].pc \in Generating
        /\ "closing" \in Generating /\ "closing" \notin Awaiting
    BY <1>2 DEF Handlers, Generating, Awaiting
  <2>2. Sound(chats, tasks, claimed, holder, [handler EXCEPT ![s].pc = "closing"])
    BY <2>1, GoesOn DEF Inv
  <2> QED
    BY <1>2, <2>2 DEF Inv
<1> QED
  BY <1>1, <1>2 DEF FinishStream, ReceiveAnswer, At

LEMMA TitleIs ==
  ASSUME Inv, NEW c \in Chats, NEW title, Live(c)
  PROVE  [chats EXCEPT ![c].title = title] = [chats EXCEPT ![c] = WithTitle(chats[c], title)]
  BY DEF WithTitle

LEMMA FinishTitleSound ==
  ASSUME Inv, NEW s \in Senders, FinishTitle(s)
  PROVE  Inv'
<1> DEFINE c == handler[s].chat
           ha == [handler EXCEPT ![s].pc = "closing"]
<1>1. /\ s \in Handlers /\ handler[s].pc = "titling" /\ handler' = ha
      /\ chats' \in {chats, TitleIfDefault(c)} /\ UNCHANGED <<tasks, naming, claimed, holder, dropped>>
  BY DEF FinishTitle, At, Handlers
<1>2. handler[s].pc \in Generating /\ "closing" \in Generating /\ "closing" \notin Awaiting
  BY <1>1 DEF Generating, Awaiting
<1>3. Sound(chats, tasks, claimed, holder, ha)
  BY <1>1, <1>2, GoesOn DEF Inv
<1>4. c \in Chats
  BY <1>1, OthersKeep DEF Inv
<1> HIDE DEF ha
<1>5. CASE chats' = chats
  BY <1>1, <1>3, <1>5 DEF Inv
<1>6. CASE chats' # chats
  <2>1. Live(c) /\ chats' = [chats EXCEPT ![c] = WithTitle(chats[c], "auto")]
    BY <1>1, <1>4, <1>6, TitleIs DEF TitleIfDefault
  <2>2. Sound(chats', tasks, claimed, holder, ha)
    BY <1>3, <1>4, <2>1, Titles DEF Live
  <2> QED
    BY <1>1, <2>2 DEF Inv
<1> QED
  BY <1>5, <1>6

LEMMA EndResponseSound ==
  ASSUME Inv, NEW s \in Senders, EndResponse(s)
  PROVE  Inv'
<1>1. /\ s \in Handlers /\ handler[s].pc \in Generating
      /\ claimed' = claimed \ {handler[s].chat}
  BY DEF EndResponse, At, Handlers, Generating, ReleaseGeneration
<1>2. handler[s].pc # "summarizing"
  BY <1>1 DEF Generating
<1>3. Sound(chats, tasks, claimed \ {handler[s].chat}, holder, [handler EXCEPT ![s] = Idle])
  BY <1>1, <1>2, Leaves DEF Inv
<1> QED
  BY <1>1, <1>3 DEF Inv, EndResponse

LEMMA CreateChatSound ==
  ASSUME Inv, NEW c \in Chats, NEW u \in Users, CreateChat(u, c)
  PROVE  Inv'
<1>1. PICK k \in Kinds : chats' = [chats EXCEPT ![c] = NewChat(u, k)]
  BY DEF CreateChat
<1>2. Sound([chats EXCEPT ![c] = NewChat(u, k)], tasks, claimed, holder, handler)
  BY Creates DEF CreateChat, Inv
<1> QED
  BY <1>1, <1>2 DEF CreateChat, Inv

LEMMA RenameChatSound ==
  ASSUME Inv, NEW c \in Chats, RenameChat(c)
  PROVE  Inv'
<1>1. PICK title \in {"chosen", "default"} : chats' = [chats EXCEPT ![c].title = title]
  BY DEF RenameChat
<1>2. chats' = [chats EXCEPT ![c] = WithTitle(chats[c], title)]
  BY <1>1, TitleIs DEF RenameChat
<1>3. Sound([chats EXCEPT ![c] = WithTitle(chats[c], title)], tasks, claimed, holder, handler)
  BY Titles DEF RenameChat, Live, Inv
<1> QED
  BY <1>2, <1>3 DEF RenameChat, Inv

LEMMA FinishTaskTitleSound ==
  ASSUME Inv, NEW c \in Chats, FinishTaskTitle(c)
  PROVE  Inv'
<1>1. CASE chats' = chats
  BY <1>1 DEF FinishTaskTitle, Inv
<1>2. CASE chats' # chats
  <2>1. Live(c) /\ chats' = [chats EXCEPT ![c] = WithTitle(chats[c], "auto")]
    BY <1>2, TitleIs DEF FinishTaskTitle, TitleIfDefault
  <2>2. Sound(chats', tasks, claimed, holder, handler)
    BY <2>1, Titles DEF Live, Inv
  <2> QED
    BY <2>2 DEF FinishTaskTitle, Inv
<1> QED
  BY <1>1, <1>2

LEMMA OnlyTasksChange ==
  ASSUME Inv, NEW c \in Chats, NEW x \in TaskType,
         tasks' = [tasks EXCEPT ![c] = x],
         Owing(chats[c], x), x.bound => c \notin claimed,
         UNCHANGED <<chats, naming, claimed, holder, handler, dropped>>
  PROVE  Inv'
<1>1. Sound(chats, [tasks EXCEPT ![c] = x], claimed, holder, handler)
  BY TaskChanges DEF Inv
<1> QED
  BY <1>1 DEF Inv

(* A task comes to its chat and goes.                                       *)
LEMMA TaskBindingSound ==
  ASSUME Inv, NEW c \in Chats, StartTask(c) \/ EndTask(c)
  PROVE  Inv'
<1>1. tasks \in [Chats -> TaskType] /\ tasks[c] \in TaskType /\ Owing(chats[c], tasks[c])
  BY DEF Inv, Sound, Typed, TasksSound
<1>2. UNCHANGED <<chats, naming, claimed, holder, handler, dropped>>
  BY DEF StartTask, EndTask
<1>3. CASE StartTask(c)
  <2> DEFINE x == [tasks[c] EXCEPT !.bound = TRUE]
  <2>1. tasks' = [tasks EXCEPT ![c] = x] /\ chats[c].state = "live" /\ c \notin claimed
    BY <1>1, <1>3 DEF StartTask, Live
  <2>2. x \in TaskType /\ x.asked = tasks[c].asked /\ x.owed = tasks[c].owed /\ x.bound
    BY <1>1 DEF TaskType
  <2> HIDE DEF x
  <2>3. Owing(chats[c], x)
    BY <1>1, <2>1, <2>2 DEF Owing
  <2> QED
    BY <1>2, <2>1, <2>2, <2>3, OnlyTasksChange
<1>4. CASE EndTask(c) /\ tasks[c].asked = 0
  <2> DEFINE x == [tasks[c] EXCEPT !.bound = FALSE]
  <2>1. tasks' = [tasks EXCEPT ![c] = x] /\ chats[c].state = "live"
    BY <1>1, <1>4 DEF EndTask, Owing
  <2>2. x \in TaskType /\ x.asked = 0 /\ x.owed = tasks[c].owed /\ ~x.bound
    BY <1>1, <1>4 DEF TaskType
  <2> HIDE DEF x
  <2>3. Owing(chats[c], x)
    BY <1>1, <2>1, <2>2 DEF Owing
  <2> QED
    BY <1>2, <2>1, <2>2, <2>3, OnlyTasksChange
<1>5. CASE EndTask(c) /\ tasks[c].asked # 0
  <2>1. PICK x \in Ended(tasks[c], tasks[c].asked) : tasks' = [tasks EXCEPT ![c] = x]
    BY <1>5 DEF EndTask
  <2>2. chats[c].state = "live" /\ tasks[c].asked \in Nat
    BY <1>1, <1>5 DEF EndTask, Owing, TaskType
  <2>3. /\ x \in TaskType /\ x.asked = 0 /\ ~x.bound
        /\ x.owed \subseteq tasks[c].owed \cup {tasks[c].asked}
    BY <1>1, <2>1, <2>2, EndedIs
  <2>4. \A o \in x.owed : Unanswered(chats[c].msgs, o)
    BY <1>1, <1>5, <2>2, <2>3 DEF Owing
  <2>5. Owing(chats[c], x)
    BY <2>2, <2>3, <2>4 DEF Owing
  <2>6. tasks' = [tasks EXCEPT ![c] = x]
    BY <2>1
  <2> QED
    BY <1>2, <2>3, <2>5, <2>6, OnlyTasksChange
<1> QED
  BY <1>3, <1>4, <1>5

LEMMA AcceptTaskSound ==
  ASSUME Inv, NEW c \in Chats, AcceptTask(c)
  PROVE  Inv'
<1> DEFINE p == Len(chats[c].msgs) + 1
<1>1. /\ Sound(chats, tasks, claimed, holder, handler)
      /\ chats \in [Chats -> ChatType]
  BY DEF Inv, Sound, Typed
<1>2. /\ tasks[c].bound /\ tasks[c].asked = 0 /\ Live(c) /\ p <= MaxMessages
      /\ chats' = AddMessage(chats, c, Message("task", "user"))
      /\ UNCHANGED <<naming, claimed, holder, handler, dropped>>
  BY DEF AcceptTask
<1>3. PICK x \in {[tasks[c] EXCEPT !.asked = p]} \cup Ended(tasks[c], p) :
         tasks' = [tasks EXCEPT ![c] = x]
  BY DEF AcceptTask
<1>4. Len(chats[c].msgs) < MaxMessages
  BY <1>1, <1>2, RowIs, ChatsAssumption DEF Live
<1>5. chats' = Posted(chats, c, Message("task", "user"))
  BY <1>1, <1>2, AddMessageIs DEF Posted
<1>6. Sound(Posted(chats, c, Message("task", "user")), [tasks EXCEPT ![c] = x],
            claimed, holder, handler)
  BY <1>1, <1>2, <1>4, Accepts
<1> QED
  BY <1>2, <1>3, <1>5, <1>6 DEF Inv

LEMMA AnswerTaskSound ==
  ASSUME Inv, NEW c \in Chats, NEW p \in tasks[c].owed, AnswerTask(c, p)
  PROVE  Inv'
<1>1. /\ Sound(chats, tasks, claimed, holder, handler)
      /\ chats \in [Chats -> ChatType]
  BY DEF Inv, Sound, Typed
<1>2. /\ chats[c].state = "live" /\ Len(chats[c].msgs) < MaxMessages
      /\ tasks' = [tasks EXCEPT ![c].owed = @ \ {p}]
      /\ naming' \subseteq naming \cup {c}
      /\ UNCHANGED <<claimed, holder, handler, dropped>>
  BY DEF AnswerTask, Live, Settled
<1>3. chats' = Posted(chats, c, AnswerTo(p))
  BY <1>1, AddMessageIs DEF AnswerTask, Posted
<1>4. Sound(chats', tasks', claimed, holder, handler)
  BY <1>1, <1>2, <1>3, Projects
<1> QED
  BY <1>2, <1>4 DEF Inv

LEMMA SuppressAnswerSound ==
  ASSUME Inv, NEW c \in Chats, NEW p \in tasks[c].owed, SuppressAnswer(c, p)
  PROVE  Inv'
<1> DEFINE x == [tasks[c] EXCEPT !.owed = @ \ {p}]
<1>1. /\ Sound(chats, tasks, claimed, holder, handler)
      /\ tasks \in [Chats -> TaskType] /\ tasks[c] \in TaskType /\ Owing(chats[c], tasks[c])
      /\ chats[c].state # "live"
  BY DEF Inv, Sound, Typed, TasksSound, SuppressAnswer, Live
<1>2. tasks' = [tasks EXCEPT ![c] = x]
  BY <1>1 DEF SuppressAnswer, Settled
<1>3. /\ x \in TaskType /\ x.bound = tasks[c].bound /\ x.asked = tasks[c].asked
      /\ tasks[c] = NoTask => x.owed = {} /\ p \in {}
  BY <1>1 DEF TaskType, NoTask
<1> HIDE DEF x
<1>4. Owing(chats[c], x) /\ ~x.bound
  BY <1>1, <1>3 DEF Owing
<1>5. Sound(chats, [tasks EXCEPT ![c] = x], claimed, holder, handler)
  BY <1>1, <1>3, <1>4, TaskChanges
<1> QED
  BY <1>2, <1>5 DEF SuppressAnswer, Inv

LEMMA DeletionSound ==
  ASSUME Inv, NEW S \in SUBSET Chats, chats' = Gone(S),
         \A c \in S : /\ Live(c) /\ ~tasks[c].bound
                      /\ c \in claimed => chats[c].kind # "hermes_agent",
         UNCHANGED <<tasks, naming, claimed, holder, handler, dropped>>
  PROVE  Inv'
<1>1. \A c \in S : chats[c].state = "live" /\ ~tasks[c].bound
                   /\ (c \in claimed => chats[c].kind = "classic")
  BY RowIs DEF Inv, Sound, Typed, Live, Kinds
<1>2. chats' = Without(chats, S)
  BY DEF Gone, Without
<1>3. Sound(Without(chats, S), tasks, claimed, holder, handler)
  BY <1>1, Deletes DEF Inv
<1> QED
  BY <1>2, <1>3 DEF Inv

LEMMA DeleteChatSound ==
  ASSUME Inv, NEW c \in Chats, DeleteChat(c)
  PROVE  Inv'
  BY DeletionSound DEF DeleteChat, Private

LEMMA DeleteIdleSound ==
  ASSUME Inv, NEW u \in Users, DeleteIdleAgentChats(u)
  PROVE  Inv'
<1>1. PICK S \in SUBSET AgentChatsOf(u) :
         (\A d \in S : d \notin claimed /\ ~tasks[d].bound) /\ chats' = Gone(S)
  <2>1. ASSUME NEW d \in AgentChatsOf(u), d \in IdleChats({d}), chats' = Gone({d})
        PROVE  d \notin claimed /\ ~tasks[d].bound
    BY <2>1 DEF IdleChats
  <2>2. \A d \in IdleChats(AgentChatsOf(u)) : d \notin claimed /\ ~tasks[d].bound
    BY DEF IdleChats
  <2>3. IdleChats(AgentChatsOf(u)) \in SUBSET AgentChatsOf(u)
    BY DEF IdleChats
  <2> QED
    BY <2>1, <2>2, <2>3 DEF DeleteIdleAgentChats
<1>2. S \in SUBSET Chats /\ \A d \in S : Live(d)
  BY DEF AgentChatsOf, Private
<1> QED
  BY <1>1, <1>2, DeletionSound DEF DeleteIdleAgentChats

LEMMA RestartSound == ASSUME Inv, Restart PROVE Inv'
  BY Restarts DEF Inv, Restart

LEMMA StepSound == ASSUME Inv, [Next]_vars PROVE Inv'
<1>1. CASE \E s \in Senders, c \in Chats : Submit(s, c) \/ SubmitToNewChat(s, c)
  BY <1>1, SubmitSound
<1>2. CASE \E s \in Senders : SenderStep(s)
  BY <1>2, LoseResponseSound, AskModelSound, AnswerEndsSound, FinishTitleSound, EndResponseSound
     DEF SenderStep
<1>3. CASE \E m \in Compactors, c \in Chats : CompactManually(m, c)
  BY <1>3, CompactManuallySound
<1>4. CASE \E h \in Handlers : CompactionStep(h)
  BY <1>4, AcquireLockSound, SummaryEndsSound DEF CompactionStep
<1>5. CASE \E u \in Users, c \in Chats : CreateChat(u, c)
  BY <1>5, CreateChatSound
<1>6. CASE \E c \in Chats : RenameChat(c) \/ DeleteChat(c)
  BY <1>6, RenameChatSound, DeleteChatSound
<1>10. CASE \E c \in Chats : StartTask(c) \/ AcceptTask(c) \/ EndTask(c)
  BY <1>10, TaskBindingSound, AcceptTaskSound
<1>11. CASE \E c \in Chats : \E p \in tasks[c].owed : AnswerTask(c, p) \/ SuppressAnswer(c, p)
  BY <1>11, AnswerTaskSound, SuppressAnswerSound
<1>12. CASE \E c \in Chats : FinishTaskTitle(c)
  BY <1>12, FinishTaskTitleSound
<1>7. CASE \E u \in Users : DeleteIdleAgentChats(u)
  BY <1>7, DeleteIdleSound
<1>8. CASE Restart
  BY <1>8, RestartSound
<1>9. CASE UNCHANGED vars
  BY <1>9 DEF vars, Inv
<1> QED
  BY <1>1, <1>2, <1>3, <1>4, <1>5, <1>6, <1>7, <1>8, <1>9, <1>10, <1>11, <1>12 DEF Next

-----------------------------------------------------------------------------
(* The properties.                                                          *)

THEOREM Soundness == Spec => []Inv
<1>1. Init => Inv
  BY Initially
<1>2. Inv /\ [Next]_vars => Inv'
  BY StepSound
<1> QED
  BY <1>1, <1>2, PTL DEF Spec

(* The values keep their types, and a chat's compaction lock is held by     *)
(* exactly the handler that is summarising it.                              *)
THEOREM TypeCorrect == Spec => []TypeOK
<1>1. Inv => TypeOK
  <2> SUFFICES ASSUME Inv PROVE TypeOK
    OBVIOUS
  <2>1. ASSUME NEW h \in Handlers
        PROVE  At(h, {"summarizing"})
                 <=> \E c \in Chats : holder[c] = h /\ handler[h] # Idle /\ handler[h].chat = c
    <3>1. handler[h] \in HandlerType /\ h # None
      BY ChatsAssumption DEF Inv, Sound, Typed, Handlers
    <3>2. ASSUME handler[h].pc = "summarizing"
          PROVE  holder[handler[h].chat] = h /\ handler[h].chat \in Chats /\ handler[h] # Idle
      BY <3>1, <3>2, OthersKeep, HandlerTypes DEF Inv
    <3>3. ASSUME NEW c \in Chats, holder[c] = h
          PROVE  handler[h].pc = "summarizing"
      BY <3>1, <3>3, OthersKeep DEF Inv
    <3> QED
      BY <3>2, <3>3 DEF At
  <2> QED
    BY <2>1 DEF TypeOK, Inv, Sound, Typed
<1> QED
  BY <1>1, Soundness, PTL

(* At most one answer is made for a chat at a time, the module task bound   *)
(* to it included: the claim and the check of the tasks are one step.       *)
THEOREM OneGenerationHolds == Spec => []OneGeneration
<1>1. Inv => OneGeneration
  <2> SUFFICES ASSUME Inv, NEW s \in Senders, NEW u \in Senders, At(s, Generating)
               PROVE  /\ ~tasks[handler[s].chat].bound
                      /\ At(u, Generating) /\ s # u => handler[u].chat # handler[s].chat
    BY DEF OneGeneration
  <2>1. s \in Handlers /\ u \in Handlers /\ handler[s].pc \in Generating
    BY DEF At, Generating, Handlers
  <2>2. ~tasks[handler[s].chat].bound
    <3>1. handler[s].pc # "idle"
      BY <2>1 DEF Generating
    <3> QED
      BY <2>1, <3>1, OthersKeep DEF Inv
  <2>3. At(u, Generating) /\ s # u => handler[u].chat # handler[s].chat
    BY <2>1 DEF Inv, Sound, Apart, At, Generating
  <2> QED
    BY <2>2, <2>3
<1> QED
  BY <1>1, Soundness, PTL

(* Each answer to a submission follows its question, with only answers of   *)
(* earlier tasks between; a task's answer comes once, after its question.   *)
THEOREM AnswersFollowHolds == Spec => []AnswersFollow
<1>1. Inv => AnswersFollow
  BY DEF Inv, Sound, RowSound, Follows, IsAnswer, AnswersFollow, Live
<1> QED
  BY <1>1, Soundness, PTL

(* The stored summary accounts for every message up to its boundary, once   *)
(* and in order, and the boundary leaves the messages that are kept.        *)
THEOREM NothingForgottenHolds == Spec => []NothingForgotten
<1>1. Inv => NothingForgotten
  BY DEF Inv, Sound, RowSound, Accounted, Count, NothingForgotten, Live
<1> QED
  BY <1>1, Soundness, PTL

(* A private chat that was deleted keeps no message and gets no late answer.*)
THEOREM AgentChatsVanishHolds == Spec => []AgentChatsVanish
<1>1. Inv => AgentChatsVanish
  BY DEF Inv, Sound, RowSound, AgentChatsVanish
<1> QED
  BY <1>1, Soundness, PTL

(* A live chat of rows is still live in new, under the same title.          *)
SameTitles(rows, new) ==
    \A c \in Chats : rows[c].state = "live" => new[c].state = "live" /\ new[c].title = rows[c].title

LEMMA TitlesCompose ==
  ASSUME NEW rows, NEW mid, NEW new, SameTitles(rows, mid), SameTitles(mid, new)
  PROVE  SameTitles(rows, new)
  BY DEF SameTitles

LEMMA AddMessageKeepsTitles ==
  ASSUME NEW rows \in [Chats -> ChatType], NEW c \in Chats, rows[c].state # "none",
         NEW e \in MessageType
  PROVE  /\ SameTitles(rows, AddMessage(rows, c, e))
         /\ AddMessage(rows, c, e) \in [Chats -> ChatType]
         /\ AddMessage(rows, c, e)[c].state = rows[c].state
<1> DEFINE q == WithMessage(rows[c], e)
<1>1. rows[c] \in LiveRow \cup GoneRow
  BY RowIs
<1>2. q \in ChatType /\ q.state = rows[c].state /\ (q.state = "live" => q.title = rows[c].title)
  BY <1>1, WithMessageIs
<1>3. AddMessage(rows, c, e) = [rows EXCEPT ![c] = q]
  BY AddMessageIs
<1> HIDE DEF q
<1> QED
  BY <1>2, <1>3 DEF SameTitles

LEMMA ContinueKeepsTitles ==
  ASSUME NEW rows \in [Chats -> ChatType], NEW h \in Handlers, NEW c \in Chats,
         Continue(h, c, rows) \/ (h \in Senders /\ ClaimAndStore(h, c, rows))
  PROVE  SameTitles(rows, chats')
<1>1. CASE chats' = rows
  BY <1>1 DEF SameTitles
<1>2. CASE h \in Senders /\ ClaimAndStore(h, c, rows)
  <2>1. CASE Claimable(rows, c)
    <3>1. chats' = AddMessage(rows, c, Message(h, "user")) /\ rows[c].state = "live"
      BY <1>2, <2>1 DEF ClaimAndStore, Claimable
    <3> QED
      BY <1>2, <3>1, MessageIs, AddMessageKeepsTitles
  <2>2. CASE ~Claimable(rows, c)
    BY <1>1, <1>2, <2>2 DEF ClaimAndStore
  <2> QED
    BY <2>1, <2>2
<1> QED
  BY <1>1, <1>2 DEF Continue

LEMMA SaveCompactionKeepsTitles ==
  ASSUME Inv, NEW h \in Handlers, handler[h].pc = "summarizing"
  PROVE  SameTitles(chats, SaveCompaction(h)) /\ SaveCompaction(h) \in [Chats -> ChatType]
<1> DEFINE k == handler[h]
           c == k.chat
           q == WithSummary(chats[c], k.to)
<1>1. /\ k \in HandlerType /\ c \in Chats /\ k.to \in Nat
      /\ chats \in [Chats -> ChatType] /\ chats[c].state # "none"
  BY HandlerIs DEF Inv, Sound, Typed, HandlerSound
<1>2. chats[c] \in LiveRow \cup GoneRow
  BY <1>1, RowIs
<1>3. q \in ChatType /\ q.state = chats[c].state /\ (q.state = "live" => q.title = chats[c].title)
  BY <1>1, <1>2, WithSummaryIs
<1>4. SaveCompaction(h) = [chats EXCEPT ![c] = q]
  BY SaveCompactionIs DEF Saved
<1> HIDE DEF q, c
<1> QED
  BY <1>1, <1>3, <1>4 DEF SameTitles

LEMMA SubmissionKeepsTitles ==
  ASSUME Inv, NEW s \in Senders, NEW c \in Chats, Submit(s, c) \/ SubmitToNewChat(s, c)
  PROVE  SameTitles(chats, chats')
<1>1. s \in Handlers /\ chats \in [Chats -> ChatType]
  BY DEF Handlers, Inv, Sound, Typed
<1>2. CASE SubmitToNewChat(s, c)
  <2>1. PICK k \in Kinds : ClaimAndStore(s, c, [chats EXCEPT ![c] = NewChat(UserOf[s], k)])
    BY <1>2 DEF SubmitToNewChat
  <2> DEFINE rows == [chats EXCEPT ![c] = NewChat(UserOf[s], k)]
  <2>2. NewChat(UserOf[s], k) \in ChatType
    BY ChatsAssumption, NewChatIs, RowType
  <2>3. rows \in [Chats -> ChatType]
    BY <1>1, <2>2
  <2>4. chats[c].state = "none"
    BY <1>2 DEF SubmitToNewChat, NoChat
  <2>5. SameTitles(chats, rows)
    BY <1>1, <2>4 DEF SameTitles
  <2>6. SameTitles(rows, chats')
    BY <1>1, <2>1, <2>3, ContinueKeepsTitles
  <2> QED
    BY <2>5, <2>6, TitlesCompose
<1>3. CASE Submit(s, c)
  <2>1. \/ ClaimAndStore(s, c, chats) \/ Continue(s, c, chats)
        \/ chats' = chats
    BY <1>3 DEF Submit, Compact, CompactLocked
  <2> QED
    BY <1>1, <2>1, ContinueKeepsTitles DEF SameTitles
<1> QED
  BY <1>2, <1>3

LEMMA CompactionKeepsTitles ==
  ASSUME Inv, NEW h \in Handlers, NEW c \in Chats, CompactionStep(h) \/ CompactManually(h, c)
  PROVE  SameTitles(chats, chats')
<1>1. chats \in [Chats -> ChatType] /\ SameTitles(chats, chats)
  BY DEF Inv, Sound, Typed, SameTitles
<1>2. CASE CompactManually(h, c)
  <2>1. Continue(h, c, chats) \/ chats' = chats
    BY <1>2 DEF CompactManually, Compact, CompactLocked
  <2> QED
    BY <1>1, <2>1, ContinueKeepsTitles
<1>3. CASE AcquireLock(h)
  <2>1. handler[h].chat \in Chats
    BY <1>3, OthersKeep DEF AcquireLock, At, Inv
  <2>2. Continue(h, handler[h].chat, chats) \/ chats' = chats
    BY <1>3 DEF AcquireLock, CompactLocked
  <2> QED
    BY <1>1, <2>1, <2>2, ContinueKeepsTitles
<1>4. CASE FinishSummary(h) \/ FailSummary(h)
  <2>1. handler[h].pc = "summarizing" /\ handler[h].chat \in Chats
    BY <1>4, OthersKeep DEF FinishSummary, FailSummary, At, Inv
  <2>2. SameTitles(chats, SaveCompaction(h)) /\ SaveCompaction(h) \in [Chats -> ChatType]
    BY <2>1, SaveCompactionKeepsTitles
  <2>3. PICK rows \in {chats, SaveCompaction(h)} :
           Continue(h, handler[h].chat, rows) \/ chats' = rows
    BY <1>4 DEF FinishSummary, FailSummary
  <2>4. SameTitles(rows, chats')
    BY <1>1, <2>1, <2>2, <2>3, ContinueKeepsTitles DEF SameTitles
  <2> QED
    BY <1>1, <2>2, <2>3, <2>4, TitlesCompose
<1> QED
  BY <1>2, <1>3, <1>4 DEF CompactionStep

LEMMA AnswerKeepsTitles ==
  ASSUME Inv, NEW s \in Senders, SenderStep(s), ~FinishTitle(s)
  PROVE  SameTitles(chats, chats')
<1>1. CASE chats' = chats
  BY <1>1 DEF SameTitles
<1>2. CASE SaveAnswer(s) /\ handler[s].pc \in {"streaming", "generating"}
  <2>1. s \in Handlers /\ handler[s].pc # "idle" /\ chats \in [Chats -> ChatType]
    BY <1>2 DEF Handlers, Inv, Sound, Typed
  <2>2. handler[s].chat \in Chats /\ chats[handler[s].chat].state # "none"
    BY <2>1, OthersKeep DEF Inv, Sound, HandlerSound
  <2>3. chats' = AddMessage(chats, handler[s].chat, Message(s, "assistant"))
    BY <1>2 DEF SaveAnswer
  <2> QED
    BY <2>1, <2>2, <2>3, MessageIs, AddMessageKeepsTitles
<1> QED
  BY <1>1, <1>2 DEF SenderStep, LoseResponse, StartStream, CallModel, FinishStream,
                    ReceiveAnswer, EndResponse, At

LEMMA TasksKeepTitles ==
  ASSUME Inv, NEW c \in Chats,
         AcceptTask(c) \/ \E p \in tasks[c].owed : AnswerTask(c, p)
  PROVE  SameTitles(chats, chats')
<1>1. chats \in [Chats -> ChatType] /\ chats[c].state = "live"
  BY DEF AcceptTask, AnswerTask, Live, Inv, Sound, Typed
<1>2. tasks[c].owed \subseteq Nat
  BY DEF Inv, Sound, Typed, TaskType
<1>3. PICK e \in MessageType : chats' = AddMessage(chats, c, e)
  BY <1>2, MessageIs, AnswerToIs DEF AcceptTask, AnswerTask
<1> QED
  BY <1>1, <1>3, AddMessageKeepsTitles

(* A title a person chose is never replaced by a generated one: the title   *)
(* model's answer is used only if the title is then still the default.      *)
THEOREM ChosenTitleStaysHolds == Spec => ChosenTitleStays
<1> DEFINE Kept == \A c \in Chats : Live(c) /\ Live(c)' /\ chats[c].title = "chosen"
                                    => chats'[c].title # "auto"
<1>1. ASSUME SameTitles(chats, chats') PROVE Kept
  BY <1>1 DEF SameTitles, Live
<1>2. Inv /\ [Next]_vars => Kept
  <2> SUFFICES ASSUME Inv, [Next]_vars PROVE Kept
    OBVIOUS
  <2>1. chats \in [Chats -> ChatType]
    BY DEF Inv, Sound, Typed
  <2>2. CASE \E s \in Senders, c \in Chats : Submit(s, c) \/ SubmitToNewChat(s, c)
    BY <1>1, <2>2, SubmissionKeepsTitles
  <2>3. CASE \E s \in Senders : SenderStep(s) /\ ~FinishTitle(s)
    BY <1>1, <2>3, AnswerKeepsTitles
  <2>4. CASE \/ \E s \in Senders : FinishTitle(s)
             \/ \E c \in Chats : FinishTaskTitle(c)
    <3>1. PICK d : chats' = chats \/ chats' = TitleIfDefault(d)
      BY <2>4 DEF FinishTitle, FinishTaskTitle
    <3>3. \A c \in Chats : chats'[c].title = chats[c].title
                           \/ (c = d /\ chats[c].title = "default")
      BY <2>1, <3>1 DEF TitleIfDefault
    <3> QED
      BY <3>3
  <2>5. CASE \E m \in Compactors, c \in Chats : CompactManually(m, c)
    BY <1>1, <2>5, CompactionKeepsTitles DEF Handlers
  <2>6. CASE \E h \in Handlers : CompactionStep(h)
    <3>1. ASSUME NEW c \in Chats PROVE Kept
      BY <1>1, <2>6, CompactionKeepsTitles
    <3> QED
      BY <3>1
  <2>7. CASE \E u \in Users, c \in Chats : CreateChat(u, c)
    <3>1. PICK c \in Chats : chats[c] = NoChat /\ \A d \in Chats : d # c => chats'[d] = chats[d]
      BY <2>1, <2>7 DEF CreateChat
    <3> QED
      BY <3>1 DEF Live, NoChat
  <2>8. CASE \E c \in Chats : RenameChat(c)
    <3>1. PICK c \in Chats, title \in {"chosen", "default"} :
             Live(c) /\ chats' = [chats EXCEPT ![c].title = title]
      BY <2>8 DEF RenameChat
    <3>2. chats' = [chats EXCEPT ![c] = WithTitle(chats[c], title)]
      BY <3>1, TitleIs
    <3>3. WithTitle(chats[c], title).title = title
      BY <2>1, <3>1, RowIs, WithTitleIs DEF Live
    <3> QED
      BY <2>1, <3>2, <3>3
  <2>9. CASE \E S : chats' = Gone(S)
    <3>1. PICK S : chats' = Gone(S)
      BY <2>9
    <3>2. \A c \in Chats : chats'[c] = chats[c] \/ chats'[c].state = "gone"
      BY <3>1 DEF Gone, GoneChat
    <3> QED
      BY <3>2 DEF Live
  <2>10. CASE \E c \in Chats : AcceptTask(c) \/ \E p \in tasks[c].owed : AnswerTask(c, p)
    BY <1>1, <2>10, TasksKeepTitles
  <2>11. CASE chats' = chats
    BY <2>11
  <2> QED
    BY <2>2, <2>3, <2>4, <2>5, <2>6, <2>7, <2>8, <2>9, <2>10, <2>11
       DEF Next, DeleteChat, DeleteIdleAgentChats, StartTask, EndTask, SuppressAnswer, Restart, vars
<1>3. Inv /\ [Next]_vars => [Kept]_vars
  BY <1>2
<1> QED
  BY <1>3, Soundness, PTL DEF Spec, ChosenTitleStays

=============================================================================
