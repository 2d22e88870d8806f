--------------------------- MODULE TaskLifecycle ---------------------------
(***************************************************************************)
(* What the task gateway promises its clients, without tokens, handlers,   *)
(* modules or failures: an accepted task stands in its chat as one user    *)
(* message, moves through the public states, ends once, and answers in its *)
(* chat at most once and only after it has succeeded.                      *)
(***************************************************************************)
EXTENDS Sequences

CONSTANTS Tasks, Chats, NoChat

VARIABLES phase,    \* the public state of each task, "none" before acceptance
          chat,     \* the chat each accepted task is bound to
          thread,   \* the messages of tasks in each chat
          alive     \* the chats that exist

vars == <<phase, chat, thread, alive>>

Ended == {"succeeded", "failed", "cancelled"}
Working == {"queued", "running", "waiting_approval", "cancel_requested"}

Said(k, role) == [task |-> k, role |-> role]
IsSaid(c, k, role) == \E i \in DOMAIN thread[c] : thread[c][i] = Said(k, role)

With(log, c, k, role) == [log EXCEPT ![c] = Append(@, Said(k, role))]
MayAnswer(log, c, k, s) ==
    {log} \cup IF s = "succeeded" /\ c \in Chats
               THEN {With(log, c, k, "assistant")} ELSE {}

Init ==
    /\ phase = [k \in Tasks |-> "none"]
    /\ chat = [k \in Tasks |-> NoChat]
    /\ thread = [c \in Chats |-> <<>>]
    /\ alive = [c \in Chats |-> TRUE]

(* The task appears; it may have ended already, and may answer at once. *)
Accept(k, c, s) ==
    /\ phase[k] = "none"
    /\ c \in Chats => alive[c]
    /\ phase' = [phase EXCEPT ![k] = s]
    /\ chat' = [chat EXCEPT ![k] = c]
    /\ thread' \in MayAnswer(IF c \in Chats THEN With(thread, c, k, "user")
                                             ELSE thread, c, k, s)
    /\ UNCHANGED alive

Move(k, s) ==
    /\ phase[k] \in Working
    /\ s # "queued" /\ s # phase[k]
    /\ phase[k] = "cancel_requested" => s # "waiting_approval"
    /\ phase' = [phase EXCEPT ![k] = s]
    /\ thread' \in IF chat[k] \in Chats /\ alive[chat[k]]
                   THEN MayAnswer(thread, chat[k], k, s) ELSE {thread}
    /\ UNCHANGED <<chat, alive>>

Answer(k) ==
    /\ phase[k] = "succeeded"
    /\ chat[k] \in Chats
    /\ alive[chat[k]]
    /\ IsSaid(chat[k], k, "user")
    /\ ~IsSaid(chat[k], k, "assistant")
    /\ thread' = With(thread, chat[k], k, "assistant")
    /\ UNCHANGED <<phase, chat, alive>>

DeleteChat(c) ==
    /\ alive[c]
    /\ \A k \in Tasks : chat[k] = c => phase[k] \notin Working
    /\ alive' = [alive EXCEPT ![c] = FALSE]
    /\ thread' = [thread EXCEPT ![c] = <<>>]
    /\ UNCHANGED <<phase, chat>>

Next ==
    \/ \E k \in Tasks, c \in Chats \cup {NoChat}, s \in Working \cup Ended :
          Accept(k, c, s)
    \/ \E k \in Tasks, s \in Working \cup Ended : Move(k, s)
    \/ \E k \in Tasks : Answer(k)
    \/ \E c \in Chats : DeleteChat(c)

Spec == Init /\ [][Next]_vars
=============================================================================
