--------------------------- MODULE ChatGeneration ---------------------------
(* The chats of backend/main.py: submitting a question, compacting the     *)
(* history it is asked with, generating and storing the answer, the first  *)
(* title, renaming and deleting.  All handlers run on one event loop and   *)
(* interleave at their awaits: the compaction lock, the summary model, the *)
(* start of the response, the chat model and the title model.              *)
EXTENDS Naturals, Sequences, FiniteSets

CONSTANTS
    Chats,        \* identifiers of chats; one is never used again
    Users,
    Senders,      \* handlers of /api/chat and of the Hermes chat routes
    Compactors,   \* handlers of /api/chats/{id}/compact
    UserOf,       \* the principal of each sender
    Keep,         \* CONTEXT_COMPRESSOR_KEEP_MESSAGES
    MaxMessages,  \* bound on the messages of a chat
    None

ASSUME ChatsAssumption ==
    /\ Senders \cap Compactors = {}
    /\ UserOf \in [Senders -> Users]
    /\ Keep \in Nat \ {0} /\ MaxMessages \in Nat
    /\ None \notin Senders \cup Compactors
    /\ "task" \notin Senders

Handlers == Senders \cup Compactors

VARIABLES
    chats,    \* the rows of chats, with their messages and compaction
    tasks,    \* what each chat's module tasks do to it
    naming,   \* the chats a title is awaited for after a task's answer
    claimed,  \* _active_chat_generations
    holder,   \* who holds the compaction lock of a chat
    handler,  \* the progress of each handler
    dropped   \* the claims whose response was never started (a record only)

vars == <<chats, tasks, naming, claimed, holder, handler, dropped>>

(* told is what the stored summary accounts for, message by message; upto  *)
(* is the message the row names as its boundary (0 without a row).         *)
Kinds == {"classic", "hermes_agent"}
NewChat(u, k) == [state |-> "live", kind |-> k, owner |-> u, title |-> "default",
                  msgs |-> <<>>, upto |-> 0, told |-> <<>>]
NoChat == [state |-> "none"]
GoneChat(k) == [state |-> "gone", kind |-> k, msgs |-> <<>>, upto |-> 0]

(* Whether a task that has not ended is bound to a chat, where the chat    *)
(* has its question (0 until it is accepted), and the questions of the     *)
(* tasks that succeeded and have still to post their answer.               *)
NoTask == [bound |-> FALSE, asked |-> 0, owed |-> {}]

Idle == [pc |-> "idle"]
Live(c) == chats[c].state = "live"
Private(c) == Live(c) /\ chats[c].kind = "hermes_agent"
At(h, pcs) == handler[h].pc \in pcs

Init ==
    /\ chats = [c \in Chats |-> NoChat]
    /\ tasks = [c \in Chats |-> NoTask]
    /\ naming = {}
    /\ claimed = {}
    /\ holder = [c \in Chats |-> None]
    /\ handler = [h \in Handlers |-> Idle]
    /\ dropped = {}

-----------------------------------------------------------------------------
(* The claim and the question.  Both are stored without an await between   *)
(* them; a refusal ends the request.                                       *)

MutantClaimable(rows, c) == rows[c].state = "live" /\ c \notin claimed
MutantUnclaimed(rows, c) == rows[c].state = "live" /\ ~tasks[c].bound
Claimable(rows, c) ==
    rows[c].state = "live" /\ c \notin claimed /\ ~tasks[c].bound

(* The answer of a task names the question it is to.                       *)
Message(who, role) == [role |-> role, by |-> who, to |-> 0]
AnswerTo(p) == [role |-> "assistant", by |-> "task", to |-> p]
AddMessage(rows, c, m) ==
    [rows EXCEPT ![c].msgs = IF Len(@) < MaxMessages THEN Append(@, m) ELSE @]

ClaimAndStore(s, c, rows) ==
    IF Claimable(rows, c)
    THEN /\ chats' = AddMessage(rows, c, Message(s, "user"))
         /\ claimed' = claimed \cup {c}
         /\ handler' = [handler EXCEPT ![s] = [pc |-> "stored", chat |-> c]]
    ELSE /\ chats' = rows
         /\ handler' = [handler EXCEPT ![s] = Idle]
         /\ UNCHANGED claimed

-----------------------------------------------------------------------------
(* Compaction.                                                             *)

(* What follows a compaction that saved nothing, or gave these rows.       *)
Continue(h, c, rows) ==
    IF h \in Senders
    THEN ClaimAndStore(h, c, rows)
    ELSE /\ chats' = rows
         /\ handler' = [handler EXCEPT ![h] = Idle]
         /\ UNCHANGED claimed

MutantFirstCandidate(c) == 1
FirstCandidate(c) == chats[c].upto + 1
LastCandidate(c) == IF Len(chats[c].msgs) <= Keep THEN 0
                    ELSE Len(chats[c].msgs) - Keep

(* The lock is taken: the history is read and the summary model is asked,  *)
(* unless there is nothing, or too little, to compact.                     *)
CompactLocked(h, c) ==
    \/ /\ FirstCandidate(c) <= LastCandidate(c)
       /\ holder' = [holder EXCEPT ![c] = h]
       /\ handler' = [handler EXCEPT ![h] =
                        [pc |-> "summarizing", chat |-> c,
                         told |-> chats[c].told,
                         from |-> FirstCandidate(c), to |-> LastCandidate(c)]]
       /\ UNCHANGED <<chats, claimed>>
    \/ Continue(h, c, chats) /\ UNCHANGED holder

LockFree(c) == holder[c] = None

Compact(h, c) ==
    IF LockFree(c)
    THEN CompactLocked(h, c)
    ELSE /\ handler' = [handler EXCEPT ![h] = [pc |-> "waiting", chat |-> c]]
         /\ UNCHANGED <<chats, claimed, holder>>

AcquireLock(h) ==
    /\ At(h, {"waiting"})
    /\ LockFree(handler[h].chat)
    /\ CompactLocked(h, handler[h].chat)
    /\ UNCHANGED <<tasks, naming, dropped>>

Released(h) == [holder EXCEPT ![handler[h].chat] = None]

(* The summary is saved with its boundary, whether or not the chat is      *)
(* still there: chat_compactions refers to chats by no foreign key.        *)
SaveCompaction(h) ==
    LET c == handler[h].chat
        told == handler[h].told
                \o [i \in 1..(handler[h].to + 1 - handler[h].from)
                       |-> handler[h].from + i - 1]
    IN  IF Live(c)
        THEN [chats EXCEPT ![c].upto = handler[h].to, ![c].told = told]
        ELSE [chats EXCEPT ![c].upto = handler[h].to]

(* The model answers; its summary is saved or is found no shorter.         *)
FinishSummary(h) ==
    /\ At(h, {"summarizing"})
    /\ holder' = Released(h)
    /\ \/ Continue(h, handler[h].chat, SaveCompaction(h))
       \/ Continue(h, handler[h].chat, chats)
    /\ UNCHANGED <<tasks, naming, dropped>>

(* The model fails, or the history is still too long: a manual compaction  *)
(* answers the error and a submission is refused.                          *)
FailSummary(h) ==
    /\ At(h, {"summarizing"})
    /\ holder' = Released(h)
    /\ \/ chats' = chats
       \/ chats' = SaveCompaction(h)
    /\ handler' = [handler EXCEPT ![h] = Idle]
    /\ UNCHANGED <<tasks, naming, claimed, dropped>>

CompactManually(m, c) ==
    /\ At(m, {"idle"})
    /\ Live(c) /\ ~Private(c)
    /\ Compact(m, c)
    /\ UNCHANGED <<tasks, naming, dropped>>

-----------------------------------------------------------------------------
(* A submission.  An agent chat is found by its owner only; an identifier  *)
(* that is empty or stale is answered with a new chat.                     *)

MayAddress(s, c) == Live(c) /\ (Private(c) => chats[c].owner = UserOf[s])

Submit(s, c) ==
    /\ At(s, {"idle"})
    /\ MayAddress(s, c)
    /\ Len(chats[c].msgs) < MaxMessages
    /\ \/ ClaimAndStore(s, c, chats) /\ UNCHANGED holder
       \/ Compact(s, c)
    /\ UNCHANGED <<tasks, naming, dropped>>

SubmitToNewChat(s, c) ==
    /\ At(s, {"idle"})
    /\ chats[c] = NoChat
    /\ \E k \in Kinds :
          ClaimAndStore(s, c, [chats EXCEPT ![c] = NewChat(UserOf[s], k)])
    /\ UNCHANGED <<tasks, naming, holder, dropped>>

(* The activations of its skills cannot be stored, or the client is gone   *)
(* before the response body is started: nothing then releases the claim.   *)
LoseResponse(s) ==
    /\ At(s, {"stored"})
    /\ dropped' = dropped \cup {handler[s].chat}
    /\ handler' = [handler EXCEPT ![s] = Idle]
    /\ UNCHANGED <<chats, tasks, naming, claimed, holder>>

(* A streamed response is started by the server, and then asks the model;  *)
(* any other asks it at once.                                              *)
StartStream(s) ==
    /\ At(s, {"stored"})
    /\ handler' = [handler EXCEPT ![s].pc = "streaming"]
    /\ UNCHANGED <<chats, tasks, naming, claimed, holder, dropped>>

CallModel(s) ==
    /\ At(s, {"stored"})
    /\ handler' = [handler EXCEPT ![s].pc = "generating"]
    /\ UNCHANGED <<chats, tasks, naming, claimed, holder, dropped>>

(* The first exchange of the owner of a chat goes on to a title.  A task   *)
(* may be anyone's.                                                        *)
MayBeBy(who, u) == who \in Senders => UserOf[who] = u

MayTitle(rows, c) ==
    /\ rows[c].state = "live"
    /\ rows[c].title = "default"
    /\ Len(rows[c].msgs) = 2
    /\ rows[c].msgs[1].role = "user" /\ rows[c].msgs[2].role = "assistant"
    /\ MayBeBy(rows[c].msgs[1].by, rows[c].owner)

(* The answer is complete: it is stored, though the chat may be gone.      *)
SaveAnswer(s) ==
    /\ chats' = AddMessage(chats, handler[s].chat, Message(s, "assistant"))
    /\ handler' = [handler EXCEPT ![s].pc =
                     IF MayTitle(chats', handler[s].chat)
                     THEN "titling" ELSE "closing"]
    /\ UNCHANGED <<tasks, naming, claimed, holder, dropped>>

(* The stream is over.  Without any content nothing is stored.             *)
FinishStream(s) ==
    /\ At(s, {"streaming"})
    /\ \/ SaveAnswer(s)
       \/ /\ handler' = [handler EXCEPT ![s].pc = "closing"]
          /\ UNCHANGED <<chats, tasks, naming, claimed, holder, dropped>>

ReceiveAnswer(s) == At(s, {"generating"}) /\ SaveAnswer(s)

MutantTitleIfDefault(c) == [chats EXCEPT ![c].title = "auto"]
TitleIfDefault(c) ==
    IF Live(c) /\ chats[c].title = "default"
    THEN [chats EXCEPT ![c].title = "auto"]
    ELSE chats

FinishTitle(s) ==
    /\ At(s, {"titling"})
    /\ \/ chats' = TitleIfDefault(handler[s].chat)
       \/ chats' = chats
    /\ handler' = [handler EXCEPT ![s].pc = "closing"]
    /\ UNCHANGED <<tasks, naming, claimed, holder, dropped>>

(* The response ends: normally, by an error of the model, by a timeout or  *)
(* because its client went away.  The claim is released in a finally.      *)
MutantReleaseGeneration(s) ==
    IF At(s, {"closing"}) THEN claimed \ {handler[s].chat} ELSE claimed
ReleaseGeneration(s) == claimed \ {handler[s].chat}

EndResponse(s) ==
    /\ At(s, {"streaming", "generating", "titling", "closing"})
    /\ claimed' = ReleaseGeneration(s)
    /\ handler' = [handler EXCEPT ![s] = Idle]
    /\ UNCHANGED <<chats, tasks, naming, holder, dropped>>

-----------------------------------------------------------------------------
(* The other operations on chats.                                          *)

CreateChat(u, c) ==
    /\ chats[c] = NoChat
    /\ \E k \in Kinds : chats' = [chats EXCEPT ![c] = NewChat(u, k)]
    /\ UNCHANGED <<tasks, naming, claimed, holder, handler, dropped>>

RenameChat(c) ==
    /\ Live(c)
    /\ \E title \in {"chosen", "default"} :
          chats' = [chats EXCEPT ![c].title = title]
    /\ UNCHANGED <<tasks, naming, claimed, holder, handler, dropped>>

Gone(S) == [c \in Chats |-> IF c \in S THEN GoneChat(chats[c].kind) ELSE chats[c]]

(* A shared chat is deleted although an answer is being generated for it;  *)
(* only a module task keeps it.                                            *)
DeleteChat(c) ==
    /\ Live(c) /\ ~Private(c)
    /\ ~tasks[c].bound
    /\ chats' = Gone({c})
    /\ UNCHANGED <<tasks, naming, claimed, holder, handler, dropped>>

AgentChatsOf(u) == {c \in Chats : Private(c) /\ chats[c].owner = u}
MutantIdleChats(S) == {c \in S : ~tasks[c].bound}
IdleChats(S) == {c \in S \ claimed : ~tasks[c].bound}

DeleteIdleAgentChats(u) ==
    /\ \/ \E c \in AgentChatsOf(u) :
             c \in IdleChats({c}) /\ chats' = Gone({c})
       \/ /\ IdleChats(AgentChatsOf(u)) # {}
          /\ chats' = Gone(IdleChats(AgentChatsOf(u)))
    /\ UNCHANGED <<tasks, naming, claimed, holder, handler, dropped>>

(* A module task is bound to a chat nothing else is answering.  Its later  *)
(* commits are steps of their own, other handlers come between them, and   *)
(* so may the end of the process.  Accepted, it adds its question; it may  *)
(* have ended already.                                                     *)
StartTask(c) ==
    /\ Live(c)
    /\ c \notin claimed /\ ~tasks[c].bound
    /\ tasks' = [tasks EXCEPT ![c].bound = TRUE]
    /\ UNCHANGED <<chats, naming, claimed, holder, handler, dropped>>

(* The end of a task whose question is at p unbinds it; if the task has    *)
(* succeeded it owes the answer.                                           *)
Ended(t, p) ==
    {[t EXCEPT !.bound = FALSE, !.asked = 0],
     [t EXCEPT !.bound = FALSE, !.asked = 0, !.owed = @ \cup {p}]}

AcceptTask(c) ==
    LET p == Len(chats[c].msgs) + 1
    IN  /\ tasks[c].bound /\ tasks[c].asked = 0
        /\ Live(c)
        /\ p <= MaxMessages
        /\ chats' = AddMessage(chats, c, Message("task", "user"))
        /\ \E t \in {[tasks[c] EXCEPT !.asked = p]} \cup Ended(tasks[c], p) :
              tasks' = [tasks EXCEPT ![c] = t]
        /\ UNCHANGED <<naming, claimed, holder, handler, dropped>>

EndTask(c) ==
    /\ tasks[c].bound
    /\ IF tasks[c].asked = 0
       THEN tasks' = [tasks EXCEPT ![c].bound = FALSE]
       ELSE \E t \in Ended(tasks[c], tasks[c].asked) :
              tasks' = [tasks EXCEPT ![c] = t]
    /\ UNCHANGED <<chats, naming, claimed, holder, handler, dropped>>

(* The answer of a task that succeeded is added whatever the chat has got  *)
(* since, and is suppressed if the chat is gone.                           *)
Settled(c, p) == [tasks EXCEPT ![c].owed = @ \ {p}]

AnswerTask(c, p) ==
    /\ p \in tasks[c].owed
    /\ Live(c)
    /\ Len(chats[c].msgs) < MaxMessages
    /\ chats' = AddMessage(chats, c, AnswerTo(p))
    /\ tasks' = Settled(c, p)
    /\ \/ naming' = naming
       \/ MayTitle(chats', c) /\ naming' = naming \cup {c}
    /\ UNCHANGED <<claimed, holder, handler, dropped>>

SuppressAnswer(c, p) ==
    /\ p \in tasks[c].owed
    /\ ~Live(c)
    /\ tasks' = Settled(c, p)
    /\ UNCHANGED <<chats, naming, claimed, holder, handler, dropped>>

FinishTaskTitle(c) ==
    /\ c \in naming
    /\ naming' = naming \ {c}
    /\ \/ chats' = TitleIfDefault(c)
       \/ chats' = chats
    /\ UNCHANGED <<tasks, claimed, holder, handler, dropped>>

(* The process starts again: claims, locks and requests were in memory.    *)
Restart ==
    /\ claimed' = {}
    /\ holder' = [c \in Chats |-> None]
    /\ handler' = [h \in Handlers |-> Idle]
    /\ dropped' = {}
    /\ naming' = {}
    /\ UNCHANGED <<chats, tasks>>

SenderStep(s) ==
    \/ LoseResponse(s)
    \/ StartStream(s)
    \/ CallModel(s)
    \/ FinishStream(s)
    \/ ReceiveAnswer(s)
    \/ FinishTitle(s)
    \/ EndResponse(s)

CompactionStep(h) ==
    \/ AcquireLock(h)
    \/ FinishSummary(h)
    \/ FailSummary(h)

Next ==
    \/ \E s \in Senders, c \in Chats : Submit(s, c) \/ SubmitToNewChat(s, c)
    \/ \E s \in Senders : SenderStep(s)
    \/ \E m \in Compactors, c \in Chats : CompactManually(m, c)
    \/ \E h \in Handlers : CompactionStep(h)
    \/ \E u \in Users, c \in Chats : CreateChat(u, c)
    \/ \E c \in Chats : RenameChat(c) \/ DeleteChat(c)
    \/ \E c \in Chats : StartTask(c) \/ AcceptTask(c) \/ EndTask(c)
    \/ \E c \in Chats : \E p \in tasks[c].owed : AnswerTask(c, p) \/ SuppressAnswer(c, p)
    \/ \E c \in Chats : FinishTaskTitle(c)
    \/ \E u \in Users : DeleteIdleAgentChats(u)
    \/ Restart

(* Each sender goes on: the awaits on the models end by an answer or by    *)
(* the timeout of the HTTP session.                                        *)
Fairness == \A s \in Senders : WF_vars(SenderStep(s))

Spec == Init /\ [][Next]_vars
FairSpec == Spec /\ Fairness

-----------------------------------------------------------------------------
(* Properties.                                                             *)

Generating == {"stored", "streaming", "generating", "titling", "closing"}

MessageType == [role : {"user", "assistant"}, by : Senders \cup {"task"}, to : Nat]
TaskType == [bound : BOOLEAN, asked : Nat, owed : SUBSET Nat]
ChatType ==
    {NoChat}
    \cup [state : {"gone"}, kind : Kinds, msgs : Seq(MessageType), upto : Nat]
    \cup [state : {"live"}, kind : Kinds, owner : Users, title : {"default", "auto", "chosen"},
          msgs : Seq(MessageType), upto : Nat, told : Seq(Nat \ {0})]
HandlerType ==
    {Idle}
    \cup [pc : {"waiting"} \cup Generating, chat : Chats]
    \cup [pc : {"summarizing"}, chat : Chats, told : Seq(Nat \ {0}),
          from : Nat \ {0}, to : Nat]

(* The types, with what ties the parts together: the lock of a chat is     *)
(* held by the handler that is summarising it and by nobody else.          *)
TypeOK ==
    /\ chats \in [Chats -> ChatType]
    /\ tasks \in [Chats -> TaskType]
    /\ naming \subseteq Chats /\ claimed \subseteq Chats /\ dropped \subseteq Chats
    /\ holder \in [Chats -> Handlers \cup {None}]
    /\ handler \in [Handlers -> HandlerType]
    /\ \A h \in Handlers : At(h, {"summarizing"})
                           <=> \E c \in Chats : holder[c] = h /\ handler[h] # Idle
                                                /\ handler[h].chat = c

(* At most one answer is in the making for a chat, counting the module     *)
(* task bound to it, from the claim to the end of the response.            *)
OneGeneration ==
    \A s, t \in Senders :
       At(s, Generating) =>
          /\ ~tasks[handler[s].chat].bound
          /\ At(t, Generating) /\ s # t => handler[t].chat # handler[s].chat

(* In the history of a chat the answer to a submission follows its         *)
(* question, and only answers of tasks that ended earlier come between the *)
(* two.  A task's answer comes after the question of that task, wherever   *)
(* it is, and no question of a task is answered twice.                     *)
Between(m, j, i) == \A k \in (j + 1)..(i - 1) : m[k].role = "assistant" /\ m[k].by = "task"

AnswersItsSender(m, i) ==
    \E j \in 1..(i - 1) : m[j] = Message(m[i].by, "user") /\ Between(m, j, i)

AnswersItsTask(m, i) ==
    /\ m[i].to \in 1..(i - 1) /\ m[m[i].to] = Message("task", "user")
    /\ \A j \in DOMAIN m : m[j].to = m[i].to => j = i

AnswersFollow ==
    \A c \in Chats : Live(c) =>
       LET m == chats[c].msgs
       IN  \A i \in DOMAIN m :
              m[i].role = "assistant" =>
                 IF m[i].by = "task" THEN AnswersItsTask(m, i) ELSE AnswersItsSender(m, i)

(* The model is sent the summary and then the messages after the boundary: *)
(* the summary accounts for each message up to there, in order and once.   *)
NothingForgotten ==
    \A c \in Chats : Live(c) =>
       /\ chats[c].told = [i \in 1..chats[c].upto |-> i]
       /\ chats[c].upto + Keep <= Len(chats[c].msgs) \/ chats[c].upto = 0

(* Of a private chat that was deleted no message is left or added later.   *)
AgentChatsVanish ==
    \A c \in Chats : chats[c].state = "gone" /\ chats[c].kind = "hermes_agent"
                     => chats[c].msgs = <<>>

(* A title a person chose is never replaced by a generated one, however    *)
(* long the title model takes.                                             *)
ChosenTitleStays ==
    [][\A c \in Chats : Live(c) /\ Live(c)' /\ chats[c].title = "chosen"
                        => chats'[c].title # "auto"]_vars

(* A claim ends, unless its response was never started.                    *)
ClaimsEnd == \A c \in Chats : c \in claimed ~> (c \notin claimed \/ c \in dropped)

=============================================================================
