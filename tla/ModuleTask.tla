----------------------------- MODULE ModuleTask -----------------------------
(***************************************************************************)
(* The task gateway of ChatRaw Server (backend/module_tasks.py) together   *)
(* with the module it talks to.                                            *)
(*                                                                         *)
(* The Server keeps one database row per (creator, Idempotency-Key).  Its  *)
(* handlers are coroutines of one event loop: between two awaits a handler *)
(* runs alone, and every await is a request to the module.  A handler is   *)
(* therefore a slot that remembers which request it waits for, and each    *)
(* action below is the code between two awaits.                            *)
(*                                                                         *)
(* Creators, Watchers and Cancellers are the handlers that may be in       *)
(* flight at once: POST /tasks, the readers (GET task, list, open a chat,  *)
(* follow the event stream), and POST cancel.                              *)
(***************************************************************************)
EXTENDS Naturals, Sequences, FiniteSets

CONSTANTS
    Keys,         \* idempotency keys; a key names at most one task row
    Chats,        \* the chats a task may be bound to
    AgentChats,   \* those of kind 'hermes_agent' (deleted by another route)
    NoChat,       \* the chat_id of a task that is bound to no chat
    Creators, Watchers, Cancellers,
    MayReject,    \* whether the module ever answers POST /tasks with a 4xx
    MayTear,      \* whether the Server may stop between two commits of a handler
    MaxEvents,    \* bound on the events a module emits for one task
    MaxIssues     \* bound on the create attempts made with one key

ASSUME ConstantsAssumption ==
    /\ AgentChats \subseteq Chats
    /\ NoChat \notin Chats
    /\ MayReject \in BOOLEAN
    /\ MayTear \in BOOLEAN
    /\ MaxEvents \in Nat
    /\ MaxIssues \in Nat

VARIABLES
    row,          \* module_tasks, its capability tokens and bound inputs
    registered,   \* the module_registrations row exists
    alive,        \* chats that exist
    generating,   \* _active_chat_generations
    msgs,         \* messages the tasks have put into each chat
    creator, watcher, canceller,   \* the handlers in flight
    remote        \* what the module durably knows of each task

vars == <<row, registered, alive, generating, msgs,
          creator, watcher, canceller, remote>>
chatVars == <<alive, generating, msgs>>
handlers == <<creator, watcher, canceller>>

-----------------------------------------------------------------------------
(* Task states.                                                            *)

TerminalStates == {"succeeded", "failed", "cancelled"}
ActiveStates == {"queued", "running", "waiting_approval", "cancel_requested"}
PublicStates == ActiveStates \cup TerminalStates
(* Mutant: a provisional row does not count as work on its chat. *)
MutantLocalActiveStates == ActiveStates
LocalActiveStates == ActiveStates \cup {"submitting"}
HiddenStates == {"absent", "submitting", "abandoned"}

(* Mutant: a terminal state may still be left. *)
MutantTransitionAllowed(old, new) ==
    \/ old = new
    \/ new \in PublicStates \ {"queued"}

TransitionAllowed(old, new) ==
    \/ old = new
    \/ /\ old \notin TerminalStates
       /\ \/ new \in TerminalStates
          \/ old = "submitting" /\ new \in PublicStates
          \/ old = "queued"
               /\ new \in {"running", "waiting_approval", "cancel_requested"}
          \/ old = "running" /\ new \in {"waiting_approval", "cancel_requested"}
          \/ old = "waiting_approval" /\ new \in {"running", "cancel_requested"}
          \/ old = "cancel_requested" /\ new = "running"

-----------------------------------------------------------------------------
(* Rows.  live says that the newest generation of capability tokens is not *)
(* revoked (issuing one revokes the older ones); inputs is the fate of the *)
(* uploaded input resources bound to the task.  Two fields are history:    *)
(* refused, the task was accepted and its create request answered by an    *)
(* error all the same; dismissed, it is with the account of its creator    *)
(* that its live tokens were revoked.  The failure codes are left out.     *)

Row == [state   : PublicStates \cup HiddenStates,
        visible : BOOLEAN,
        sync    : {"current", "unreachable"},
        cursor  : Nat,
        chat    : Chats \cup {NoChat},
        proj    : {"pending", "projected", "suppressed"},
        gen     : Nat,
        live    : BOOLEAN,
        inputs  : {"kept", "scheduled", "deleted"},
        refused : BOOLEAN,
        dismissed : BOOLEAN]

AbsentRow == [state |-> "absent", visible |-> FALSE, sync |-> "current",
              cursor |-> 0, chat |-> NoChat, proj |-> "pending",
              gen |-> 0, live |-> FALSE, inputs |-> "kept",
              refused |-> FALSE, dismissed |-> FALSE]

(* revoke_task_capabilities and _schedule_input_resource_cleanup. *)
Retire(r) == [r EXCEPT !.live = FALSE, !.dismissed = FALSE,
                       !.inputs = IF @ = "kept" THEN "scheduled" ELSE @]

(* The same after the task was accepted: create() answers an error.  A     *)
(* stop may come between the two commits.                                  *)
Refuse(r) == [Retire(r) EXCEPT !.refused = TRUE]
HalfRefuse(r) == [r EXCEPT !.live = FALSE, !.refused = TRUE]

(* _revoke_user_capabilities. *)
Dismiss(r) == IF r.live THEN [r EXCEPT !.live = FALSE, !.dismissed = TRUE] ELSE r

(* Mutant: a new attempt does not take the inputs back from cleanup. *)
MutantIssue(r) == [r EXCEPT !.gen = @ + 1, !.live = TRUE, !.dismissed = FALSE]

(* _issue_capabilities after _reactivate_input_resources. *)
Issue(r) == [r EXCEPT !.gen = @ + 1, !.live = TRUE, !.inputs = "kept",
                      !.dismissed = FALSE]

(* What every transaction that stores a reported state writes; id is the   *)
(* last event the row then knows of.                                       *)
Report(r, s, id) ==
    [r EXCEPT !.state = s, !.sync = "current", !.cursor = id]

Suppress(r) == IF r.state \in {"failed", "cancelled"}
               THEN [r EXCEPT !.proj = "suppressed"] ELSE r

(* The transactions that follow it when the task has ended. *)
Settle(r) == IF r.state \in TerminalStates THEN Retire(r) ELSE r

(* Mutant: an older summary moves the cursor back. *)
MutantUpdateSummary(r, s, id) == Suppress(Report(r, s, id))

(* _update_summary: an older summary does not move the cursor back. *)
UpdateSummary(r, s, id) ==
    Suppress(Report(r, s, IF id > r.cursor THEN id ELSE r.cursor))

(* Mutant: every event is taken for a status. *)
MutantApplyEvent(r, e, id) == Suppress(Report(r, e, id))

(* _apply_event: a task.status, task.terminal or another event. *)
ApplyEvent(r, e, id) ==
    IF e = "progress" THEN Suppress([r EXCEPT !.sync = "current", !.cursor = id])
                      ELSE Suppress(Report(r, e, id))

(* _fail_stream: durable failure under a cursor the Server makes up. *)
Fail(r) ==
    IF r.state \in TerminalStates
    THEN r
    ELSE [r EXCEPT !.state = "failed", !.sync = "unreachable",
                   !.cursor = @ + 1, !.proj = "suppressed"]
FailStream(r) == Retire(Fail(r))

(* _finalize_acceptance: it stores no projection state. *)
Finalize(r, s, id) == Report([r EXCEPT !.visible = TRUE], s, id)

(* Mutants: the answer is posted before success, or again. *)
MutantProjectsEarly(r, s) == r.chat \in Chats /\ r.proj = "pending"
MutantProjectsAgain(r, s) == s = "succeeded" /\ r.chat \in Chats

(* _apply_projection for a summary in state s. *)
Projects(r, s) == s = "succeeded" /\ r.chat \in Chats /\ r.proj = "pending"
ApplyProjection(r, s) ==
    [r EXCEPT !.proj =
        IF Projects(r, s)
        THEN IF alive[r.chat] THEN "projected" ELSE "suppressed"
        ELSE IF s \in {"failed", "cancelled"} /\ @ = "pending"
             THEN "suppressed" ELSE @]

Message(k, role) == [task |-> k, role |-> role]
Post(log, c, k, role) == [log EXCEPT ![c] = Append(@, Message(k, role))]
Posts(r, s) == Projects(r, s) /\ alive[r.chat]
ProjectInto(log, r, s, k) ==
    IF Posts(r, s) THEN Post(log, r.chat, k, "assistant") ELSE log

(* What create() stores before it next awaits: where the answer was posted *)
(* that is the model call which titles the chat, and only after it is an   *)
(* ended task retired.                                                     *)
Conclude(r, s) ==
    IF s \in TerminalStates /\ ~Posts(r, s) THEN Retire(ApplyProjection(r, s))
                                            ELSE ApplyProjection(r, s)

-----------------------------------------------------------------------------
(* Handlers.  "answered" carries the summary the module sent, as it was    *)
(* when the module sent it.                                                *)

Idle == [pc |-> "idle"]

CreatorStates ==
    {Idle}
    \cup [pc : {"posting", "rejected", "errored", "titling"}, key : Keys, gen : Nat]
    \cup [pc : {"answered"}, key : Keys, gen : Nat,
          state : PublicStates, last : Nat]

WatcherStates ==
    {Idle}
    \cup [pc : {"reading", "streaming", "confirming"}, key : Keys, pos : Nat]
    \cup [pc : {"read", "confirmed"}, key : Keys, pos : Nat,
          state : PublicStates, last : Nat]

CancellerStates ==
    {Idle}
    \cup [pc : {"cancelling"}, key : Keys]
    \cup [pc : {"answered"}, key : Keys, state : PublicStates, last : Nat]

RemoteTask == [state : PublicStates \cup {"none"},
               log   : Seq(PublicStates \cup {"progress"}),
               tok   : Nat]

Init ==
    /\ row = [k \in Keys |-> AbsentRow]
    /\ registered = TRUE
    /\ alive = [c \in Chats |-> TRUE]
    /\ generating = [c \in Chats |-> FALSE]
    /\ msgs = [c \in Chats |-> <<>>]
    /\ creator = [p \in Creators |-> Idle]
    /\ watcher = [w \in Watchers |-> Idle]
    /\ canceller = [x \in Cancellers |-> Idle]
    /\ remote = [k \in Keys |-> [state |-> "none", log |-> <<>>, tok |-> 0]]

-----------------------------------------------------------------------------
(* POST /api/module-tasks: up to the request to the module.                *)

HasActiveTask(c) ==
    \E k \in Keys : row[k].chat = c /\ row[k].state \in LocalActiveStates

ChatFree(c) == ~generating[c] /\ ~HasActiveTask(c)

SendPost(p, k) ==
    creator' = [creator EXCEPT
                  ![p] = [pc |-> "posting", key |-> k, gen |-> row[k].gen + 1]]

MaySubmit(k, c) ==
    /\ registered
    /\ row[k].state = "absent"
    /\ row[k].gen < MaxIssues
    /\ c \in Chats => alive[c] /\ ChatFree(c)
Submitted(k, c) == [row[k] EXCEPT !.state = "submitting", !.chat = c]

(* Mutant: an accepted task is submitted once more. *)
MutantMayResubmit(k) ==
    /\ registered
    /\ row[k].state # "absent"
    /\ row[k].gen < MaxIssues
    /\ row[k].chat \in Chats => alive[row[k].chat]
    /\ row[k].inputs # "deleted"

MayResubmit(k) ==
    /\ registered
    /\ row[k].state # "absent"
    /\ ~row[k].visible
    /\ row[k].gen < MaxIssues
    /\ row[k].chat \in Chats => alive[row[k].chat]
    /\ row[k].inputs # "deleted"

(* A first attempt: the provisional row and its tokens. *)
CreateFirst(p, k, c) ==
    /\ creator[p].pc = "idle"
    /\ MaySubmit(k, c)
    /\ row' = [row EXCEPT ![k] = Issue(Submitted(k, c))]
    /\ SendPost(p, k)
    /\ UNCHANGED <<registered, chatVars, watcher, canceller, remote>>

(* Another attempt with the same key and the same request while the task   *)
(* is not yet accepted: the row is reused as it is, with new tokens.       *)
CreateAgain(p, k) ==
    /\ creator[p].pc = "idle"
    /\ MayResubmit(k)
    /\ row' = [row EXCEPT ![k] = Issue(@)]
    /\ SendPost(p, k)
    /\ UNCHANGED <<registered, chatVars, watcher, canceller, remote>>

(* Mutant: a repetition does not replace the tokens the module holds. *)
MutantRemoteCreate(p) ==
    /\ creator[p].pc = "posting"
    /\ LET k == creator[p].key
           accepted == IF remote[k].state = "none"
                       THEN [remote[k] EXCEPT !.state = "queued",
                                              !.tok = creator[p].gen]
                       ELSE remote[k]
       IN  /\ remote' = [remote EXCEPT ![k] = accepted]
           /\ creator' = [creator EXCEPT
                            ![p] = [pc |-> "answered", key |-> k,
                                    gen |-> creator[p].gen,
                                    state |-> accepted.state,
                                    last |-> Len(accepted.log)]]
    /\ UNCHANGED <<row, registered, chatVars, watcher, canceller>>

(* The module's side of POST /tasks: it accepts a task id once, and        *)
(* answers every repetition with the task's present summary; or it refuses *)
(* before it looks the task up.                                            *)
RemoteCreate(p) ==
    /\ creator[p].pc = "posting"
    /\ LET k == creator[p].key
           accepted == IF remote[k].state = "none"
                       THEN [remote[k] EXCEPT !.state = "queued"]
                       ELSE remote[k]
       IN  /\ remote' = [remote EXCEPT
                           ![k] = [accepted EXCEPT !.tok = creator[p].gen]]
           /\ creator' = [creator EXCEPT
                            ![p] = [pc |-> "answered", key |-> k,
                                    gen |-> creator[p].gen,
                                    state |-> accepted.state,
                                    last |-> Len(accepted.log)]]
    /\ UNCHANGED <<row, registered, chatVars, watcher, canceller>>

StepCreate(p, pc) ==
    creator' = [creator EXCEPT ![p] = [pc |-> pc, key |-> creator[p].key,
                                       gen |-> creator[p].gen]]

RemoteReject(p) ==
    /\ MayReject
    /\ creator[p].pc = "posting"
    /\ StepCreate(p, "rejected")
    /\ UNCHANGED <<row, registered, chatVars, watcher, canceller, remote>>

(* A 5xx answer, whether or not the module has handled the request.        *)
RemoteError(p) ==
    /\ creator[p].pc \in {"posting", "answered"}
    /\ StepCreate(p, "errored")
    /\ UNCHANGED <<row, registered, chatVars, watcher, canceller, remote>>

-----------------------------------------------------------------------------
(* POST /api/module-tasks: after the answer.                               *)

EndCreate(p) == creator' = [creator EXCEPT ![p] = Idle]

(* ModuleTransportError: the row stays as it is, its tokens live. *)
CreateLost(p) ==
    /\ creator[p].pc \in {"posting", "answered"}
    /\ EndCreate(p)
    /\ UNCHANGED <<row, registered, chatVars, watcher, canceller, remote>>

(* A 4xx abandons a row that is not visible; tokens and inputs are retired *)
(* whatever the row has become meanwhile.                                  *)
Abandon(k) == IF row[k].visible THEN row[k]
                                ELSE [row[k] EXCEPT !.state = "abandoned"]
CreateRejected(p) ==
    /\ creator[p].pc = "rejected"
    /\ LET k == creator[p].key
       IN  row' = [row EXCEPT ![k] = Retire(Abandon(k))]
    /\ EndCreate(p)
    /\ UNCHANGED <<registered, chatVars, watcher, canceller, remote>>

CreateErrored(p) ==
    /\ creator[p].pc = "errored"
    /\ row' = [row EXCEPT ![creator[p].key] = Retire(@)]
    /\ EndCreate(p)
    /\ UNCHANGED <<registered, chatVars, watcher, canceller, remote>>

AfterAnswer(p, r) ==
    IF Posts(r, creator[p].state) THEN StepCreate(p, "titling") ELSE EndCreate(p)

(* Mutant: a second attempt finalizes the task once more. *)
MutantAcceptable(k) == row[k].chat \in Chats => alive[row[k].chat]

Acceptable(k) == ~row[k].visible /\ (row[k].chat \in Chats => alive[row[k].chat])
Ask(k) == IF row[k].chat \in Chats THEN Post(msgs, row[k].chat, k, "user")
                                    ELSE msgs

(* _finalize_acceptance, then _apply_projection. *)
CreateAccepted(p) ==
    /\ creator[p].pc = "answered"
    /\ LET k == creator[p].key
           s == creator[p].state
           shown == Finalize(row[k], s, creator[p].last)
       IN  /\ Acceptable(k)
           /\ row' = [row EXCEPT ![k] = Conclude(shown, s)]
           /\ msgs' = ProjectInto(Ask(k), shown, s, k)
           /\ AfterAnswer(p, shown)
    /\ UNCHANGED <<registered, alive, generating, watcher, canceller, remote>>

(* Another attempt has already made the task visible: the row is not       *)
(* finalized again, but this attempt's summary is projected all the same.  *)
CreateDuplicate(p) ==
    /\ creator[p].pc = "answered"
    /\ LET k == creator[p].key
           s == creator[p].state
       IN  /\ row[k].visible
           /\ row' = [row EXCEPT ![k] = Conclude(row[k], s)]
           /\ msgs' = ProjectInto(msgs, row[k], s, k)
           /\ AfterAnswer(p, row[k])
    /\ UNCHANGED <<registered, alive, generating, watcher, canceller, remote>>

(* _register_artifacts refuses an artifact of the answer: the task is      *)
(* accepted, but its caller is told of an error, its tokens are revoked    *)
(* and its inputs scheduled, whether or not it has ended; its answer is    *)
(* not posted.  The second action is the repeated attempt.                 *)
AcceptSpoiled(p) ==
    /\ creator[p].pc = "answered"
    /\ LET k == creator[p].key
           s == creator[p].state
       IN  /\ Acceptable(k)
           /\ row' = [row EXCEPT ![k] = Refuse(Finalize(@, s, creator[p].last))]
           /\ msgs' = Ask(k)
    /\ EndCreate(p)
    /\ UNCHANGED <<registered, alive, generating, watcher, canceller, remote>>

DuplicateSpoiled(p) ==
    /\ creator[p].pc = "answered"
    /\ LET k == creator[p].key
       IN  /\ row[k].visible
           /\ row' = [row EXCEPT ![k] = Refuse(@)]
    /\ EndCreate(p)
    /\ UNCHANGED <<registered, chatVars, watcher, canceller, remote>>

(* The chat has its title. *)
FinishTitle(p) ==
    /\ creator[p].pc = "titling"
    /\ row' = [row EXCEPT ![creator[p].key] = Retire(@)]
    /\ EndCreate(p)
    /\ UNCHANGED <<registered, chatVars, watcher, canceller, remote>>

(* The chat was deleted while the module was asked. *)
CreateChatGone(p) ==
    /\ creator[p].pc = "answered"
    /\ LET k == creator[p].key
       IN  /\ ~row[k].visible
           /\ row[k].chat \in Chats /\ ~alive[row[k].chat]
           /\ row' = [row EXCEPT ![k] = Retire(@)]
    /\ EndCreate(p)
    /\ UNCHANGED <<registered, chatVars, watcher, canceller, remote>>

-----------------------------------------------------------------------------
(* Reading a task: reconcile().                                            *)

(* Mutants: a task the Server lost contact with, or an ended one, is not    *)
(* read again.                                                             *)
MutantMayReconcileLost(k) == row[k].visible /\ row[k].sync = "current"
MutantMayReconcileEnded(k) == row[k].visible /\ row[k].state \notin TerminalStates

MayReconcile(k) ==
    /\ row[k].visible
    /\ ~(row[k].state \in TerminalStates /\ row[k].sync = "unreachable")

ReadTask(w, k) ==
    /\ watcher[w].pc = "idle"
    /\ registered
    /\ MayReconcile(k)
    /\ watcher' = [watcher EXCEPT ![w] = [pc |-> "reading", key |-> k, pos |-> 0]]
    /\ UNCHANGED <<row, registered, chatVars, creator, canceller, remote>>

(* The registration is gone: task_target() fails without an await. *)
ReadOrphan(k) ==
    /\ ~registered
    /\ MayReconcile(k)
    /\ row' = [row EXCEPT ![k] = FailStream(@)]
    /\ UNCHANGED <<registered, chatVars, handlers, remote>>

Awaiting == {"reading", "confirming"}
Received == {"read", "confirmed"}
AfterGet(w) ==
    IF watcher[w].pc \in {"confirming", "confirmed"}
    THEN [pc |-> "streaming", key |-> watcher[w].key, pos |-> watcher[w].pos]
    ELSE Idle

RemoteGet(w) ==
    /\ watcher[w].pc \in Awaiting
    /\ LET k == watcher[w].key
       IN  /\ remote[k].state # "none"
           /\ watcher' = [watcher EXCEPT
                            ![w] = [pc |-> IF watcher[w].pc = "reading"
                                           THEN "read" ELSE "confirmed",
                                    key |-> k, pos |-> watcher[w].pos,
                                    state |-> remote[k].state,
                                    last |-> Len(remote[k].log)]]
    /\ UNCHANGED <<row, registered, chatVars, creator, canceller, remote>>

(* The summary arrives.  One that the row's state may not follow is taken  *)
(* for a protocol error, and that fails the task.                          *)
FinishGet(w) ==
    /\ watcher[w].pc \in Received
    /\ LET k == watcher[w].key
           s == watcher[w].state
           updated == UpdateSummary(row[k], s, watcher[w].last)
       IN  IF TransitionAllowed(row[k].state, s)
           THEN /\ row' = [row EXCEPT ![k] = ApplyProjection(Settle(updated), s)]
                /\ msgs' = ProjectInto(msgs, updated, s, k)
           ELSE /\ row' = [row EXCEPT ![k] = FailStream(@)]
                /\ UNCHANGED msgs
    /\ watcher' = [watcher EXCEPT ![w] = AfterGet(w)]
    /\ UNCHANGED <<registered, alive, generating, creator, canceller, remote>>

(* _register_artifacts refuses an artifact of the summary just stored. *)
GetSpoiled(w) ==
    /\ watcher[w].pc \in Received
    /\ LET k == watcher[w].key
           s == watcher[w].state
           updated == UpdateSummary(row[k], s, watcher[w].last)
       IN  /\ TransitionAllowed(row[k].state, s)
           /\ row' = [row EXCEPT ![k] = FailStream(updated)]
    /\ watcher' = [watcher EXCEPT ![w] = AfterGet(w)]
    /\ UNCHANGED <<registered, chatVars, creator, canceller, remote>>

(* No answer, one other than 200, or one that is refused before anything   *)
(* of it is stored (malformed, or a resource that changed).                *)
GetLost(w) ==
    /\ watcher[w].pc \in Awaiting \cup Received
    /\ row' = [row EXCEPT
                 ![watcher[w].key] = FailStream(@)]
    /\ watcher' = [watcher EXCEPT ![w] = AfterGet(w)]
    /\ UNCHANGED <<registered, chatVars, creator, canceller, remote>>

-----------------------------------------------------------------------------
(* Following the event stream: stream_events().                            *)

(* The client resumes from 0 or from the last event the Server knows.      *)
OpenStream(w, k, from) ==
    /\ watcher[w].pc = "idle"
    /\ registered
    /\ row[k].visible
    /\ from \in {0, row[k].cursor}
    /\ watcher' = [watcher EXCEPT
                     ![w] = [pc |-> "streaming", key |-> k, pos |-> from]]
    /\ UNCHANGED <<row, registered, chatVars, creator, canceller, remote>>

NextEvent(w) == remote[watcher[w].key].log[watcher[w].pos + 1]
EventReady(w) ==
    /\ watcher[w].pc = "streaming"
    /\ watcher[w].pos < Len(remote[watcher[w].key].log)
EventIsNew(w) == watcher[w].pos + 1 > row[watcher[w].key].cursor
EventFits(w) ==
    NextEvent(w) = "progress"
    \/ TransitionAllowed(row[watcher[w].key].state, NextEvent(w))

(* An event the row already accounts for is only passed on. *)
RelayEvent(w) ==
    /\ EventReady(w)
    /\ ~EventIsNew(w)
    /\ watcher' = [watcher EXCEPT ![w].pos = @ + 1]
    /\ UNCHANGED <<row, registered, chatVars, creator, canceller, remote>>

(* A new event is applied; after a terminal one the summary is fetched     *)
(* before the event is passed on.                                          *)
StreamEvent(w) ==
    /\ EventReady(w)
    /\ EventIsNew(w)
    /\ EventFits(w)
    /\ LET k == watcher[w].key
           id == watcher[w].pos + 1
       IN  /\ row' = [row EXCEPT ![k] = Settle(ApplyEvent(@, NextEvent(w), id))]
           /\ watcher' = [watcher EXCEPT
                            ![w] = [pc |-> IF NextEvent(w) \in TerminalStates
                                           THEN "confirming" ELSE "streaming",
                                    key |-> k, pos |-> id]]
    /\ UNCHANGED <<registered, chatVars, creator, canceller, remote>>

(* A transport error, or a new event the row's state may not follow: the   *)
(* stream ends, and the task fails unless it is known to be terminal.      *)
EndStream(w) ==
    /\ LET k == watcher[w].key
       IN  row' = [row EXCEPT ![k] = IF @.state \in TerminalStates
                                     THEN @ ELSE FailStream(@)]
    /\ watcher' = [watcher EXCEPT ![w] = Idle]
    /\ UNCHANGED <<registered, chatVars, creator, canceller, remote>>

StreamMisfit(w) ==
    /\ EventReady(w)
    /\ EventIsNew(w)
    /\ ~EventFits(w)
    /\ EndStream(w)

StreamLost(w) ==
    /\ watcher[w].pc = "streaming"
    /\ EndStream(w)

(* An event that tells of an artifact is stored, then the artifact is      *)
(* refused.                                                                *)
StreamSpoiled(w) ==
    /\ EventReady(w)
    /\ EventIsNew(w)
    /\ NextEvent(w) = "progress"
    /\ LET k == watcher[w].key
           told == ApplyEvent(row[k], "progress", watcher[w].pos + 1)
       IN  row' = [row EXCEPT ![k] = IF told.state \in TerminalStates
                                     THEN told
                                     ELSE FailStream(told)]
    /\ watcher' = [watcher EXCEPT ![w] = Idle]
    /\ UNCHANGED <<registered, chatVars, creator, canceller, remote>>

(* The module has sent everything, or the browser has gone. *)
StreamClosed(w) ==
    /\ watcher[w].pc \in {"streaming", "confirming", "confirmed"}
    /\ watcher' = [watcher EXCEPT ![w] = Idle]
    /\ UNCHANGED <<row, registered, chatVars, creator, canceller, remote>>

-----------------------------------------------------------------------------
(* POST /api/module-tasks/{id}/cancel.                                     *)

StartCancel(x, k) ==
    /\ canceller[x].pc = "idle"
    /\ registered
    /\ row[k].visible
    /\ row[k].state \notin TerminalStates
    /\ canceller' = [canceller EXCEPT ![x] = [pc |-> "cancelling", key |-> k]]
    /\ UNCHANGED <<row, registered, chatVars, creator, watcher, remote>>

RemoteCancel(x) ==
    /\ canceller[x].pc = "cancelling"
    /\ LET k == canceller[x].key
           t == remote[k]
           after == IF t.state \in TerminalStates \cup {"cancel_requested"}
                    THEN t
                    ELSE [t EXCEPT !.state = "cancel_requested",
                                   !.log = Append(@, "cancel_requested")]
       IN  /\ t.state # "none"
           /\ after = t \/ Len(t.log) < MaxEvents
           /\ remote' = [remote EXCEPT ![k] = after]
           /\ canceller' = [canceller EXCEPT
                              ![x] = [pc |-> "answered", key |-> k,
                                      state |-> after.state,
                                      last |-> Len(after.log)]]
    /\ UNCHANGED <<row, registered, chatVars, creator, watcher>>

EndCancel(x) == canceller' = [canceller EXCEPT ![x] = Idle]

(* The summary is stored but not projected; a summary that does not fit is *)
(* an error for the caller and leaves the row alone.                       *)
FinishCancel(x) ==
    /\ canceller[x].pc = "answered"
    /\ LET k == canceller[x].key
       IN  row' = [row EXCEPT
                     ![k] = IF TransitionAllowed(@.state, canceller[x].state)
                            THEN Settle(UpdateSummary(@, canceller[x].state,
                                                      canceller[x].last))
                            ELSE @]
    /\ EndCancel(x)
    /\ UNCHANGED <<registered, chatVars, creator, watcher, remote>>

(* The module declines, or its answer is refused. *)
CancelRefused(x) ==
    /\ canceller[x].pc \in {"cancelling", "answered"}
    /\ EndCancel(x)
    /\ UNCHANGED <<row, registered, chatVars, creator, watcher, remote>>

(* Mutant: a cancellation that got no answer is taken for granted. *)
MutantCancelLost(x) ==
    /\ canceller[x].pc \in {"cancelling", "answered"}
    /\ LET k == canceller[x].key
       IN  row' = [row EXCEPT
                     ![k] = IF @.state \in TerminalStates THEN @
                            ELSE [@ EXCEPT !.state = "cancelled",
                                           !.sync = "unreachable"]]
    /\ EndCancel(x)
    /\ UNCHANGED <<registered, chatVars, creator, watcher, remote>>

(* The module cannot be reached: the request is remembered in the row. *)
CancelLost(x) ==
    /\ canceller[x].pc \in {"cancelling", "answered"}
    /\ LET k == canceller[x].key
       IN  row' = [row EXCEPT
                     ![k] = IF @.state \in TerminalStates THEN @
                            ELSE [@ EXCEPT !.state = "cancel_requested",
                                           !.sync = "unreachable"]]
    /\ EndCancel(x)
    /\ UNCHANGED <<registered, chatVars, creator, watcher, remote>>

-----------------------------------------------------------------------------
(* The module works on its own: it moves a task along and tells of it.     *)

RemoteSuccessors(s) ==
    CASE s = "queued"           -> {"running"} \cup TerminalStates
      [] s = "running"          -> {"waiting_approval", "progress"}
                                     \cup TerminalStates
      [] s = "waiting_approval" -> {"running"} \cup TerminalStates
      [] s = "cancel_requested" -> TerminalStates
      [] OTHER                  -> {}

RemoteStep(k) ==
    /\ Len(remote[k].log) < MaxEvents
    /\ \E e \in RemoteSuccessors(remote[k].state) :
          remote' = [remote EXCEPT
                       ![k].state = IF e = "progress" THEN @ ELSE e,
                       ![k].log = Append(@, e)]
    /\ UNCHANGED <<row, registered, chatVars, handlers>>

-----------------------------------------------------------------------------
(* Chats, disconnection, the hourly cleanup and a crash.                   *)

ClaimGeneration(c) ==
    /\ alive[c]
    /\ ChatFree(c)
    /\ generating' = [generating EXCEPT ![c] = TRUE]
    /\ UNCHANGED <<row, registered, alive, msgs, handlers, remote>>

ReleaseGeneration(c) ==
    /\ generating[c]
    /\ generating' = [generating EXCEPT ![c] = FALSE]
    /\ UNCHANGED <<row, registered, alive, msgs, handlers, remote>>

(* delete_chat looks for tasks only; delete_idle_agent_chats also for a    *)
(* generation.                                                             *)
DeleteChat(c) ==
    /\ alive[c]
    /\ ~HasActiveTask(c)
    /\ c \in AgentChats => ~generating[c]
    /\ alive' = [alive EXCEPT ![c] = FALSE]
    /\ msgs' = [msgs EXCEPT ![c] = <<>>]
    /\ UNCHANGED <<row, registered, generating, handlers, remote>>

(* disconnect(), then force_disconnect(). *)
Disconnect ==
    /\ registered
    /\ registered' = FALSE
    /\ row' = [k \in Keys |->
                 IF row[k].state = "absent" THEN row[k]
                 ELSE [row[k] EXCEPT !.live = FALSE,
                                     !.sync = IF row[k].state \in TerminalStates
                                              THEN @ ELSE "unreachable"]]
    /\ UNCHANGED <<chatVars, handlers, remote>>

(* An administrator disables an account or takes its administrator role    *)
(* away: the tokens of all its tasks, here ks, are revoked.                *)
DismissCreator(ks) ==
    /\ row' = [k \in Keys |-> IF k \in ks THEN Dismiss(row[k]) ELSE row[k]]
    /\ UNCHANGED <<registered, chatVars, handlers, remote>>

(* cleanup_input_resources, once the scheduled time has passed. *)
CleanupInputs(k) ==
    /\ row[k].inputs = "scheduled"
    /\ row' = [row EXCEPT ![k].inputs = "deleted"]
    /\ UNCHANGED <<registered, chatVars, handlers, remote>>

(* A restart of the Server: handlers and generation claims are memory.     *)
Restart ==
    /\ creator' = [p \in Creators |-> Idle]
    /\ watcher' = [w \in Watchers |-> Idle]
    /\ canceller' = [x \in Cancellers |-> Idle]
    /\ generating' = [c \in Chats |-> FALSE]

Crash ==
    /\ Restart
    /\ UNCHANGED <<row, registered, alive, msgs, remote>>

(* The Server stops between two commits of one handler.  A row that has    *)
(* ended is revoked in a second commit and its inputs scheduled in a third; *)
(* Stages(r) are the rows a stop can leave once r is committed.            *)
Stages(r) ==
    {r} \cup (IF r.state \in TerminalStates
              THEN {[r EXCEPT !.live = FALSE], Retire(r)} ELSE {})

Stopped(k, rows) ==
    /\ MayTear
    /\ \E r \in rows : row' = [row EXCEPT ![k] = r]
    /\ Restart
    /\ UNCHANGED <<registered, alive, remote>>

(* After the provisional row, or after the inputs are reactivated, but     *)
(* before the tokens are issued and the module is asked.                   *)
TornFirst(k, c) ==
    /\ MaySubmit(k, c)
    /\ Stopped(k, {Submitted(k, c)})
    /\ UNCHANGED msgs

TornAgain(k) ==
    /\ MayResubmit(k)
    /\ Stopped(k, {[row[k] EXCEPT !.inputs = "kept"]})
    /\ UNCHANGED msgs

TornAccept(p) ==
    /\ creator[p].pc = "answered"
    /\ LET k == creator[p].key
           s == creator[p].state
           shown == Finalize(row[k], s, creator[p].last)
       IN  /\ Acceptable(k)
           /\ \/ Stopped(k, {shown, HalfRefuse(shown)}) /\ msgs' = Ask(k)
              \/ /\ Stopped(k, Stages(ApplyProjection(shown, s)))
                 /\ msgs' = ProjectInto(Ask(k), shown, s, k)

TornDuplicate(p) ==
    /\ creator[p].pc = "answered"
    /\ LET k == creator[p].key
           s == creator[p].state
           projected == ApplyProjection(row[k], s)
       IN  /\ row[k].visible
           /\ s \in TerminalStates
           /\ Stopped(k, {projected, [projected EXCEPT !.live = FALSE]})
           /\ msgs' = ProjectInto(msgs, row[k], s, k)

TornSpoiled(p) ==
    /\ creator[p].pc = "answered"
    /\ LET k == creator[p].key
       IN  row[k].visible /\ Stopped(k, {HalfRefuse(row[k])})
    /\ UNCHANGED msgs

TornRetire(p) ==
    /\ creator[p].pc \in {"rejected", "errored", "titling"}
    /\ LET k == creator[p].key
       IN  Stopped(k, IF creator[p].pc = "rejected"
                      THEN {Abandon(k), [Retire(Abandon(k)) EXCEPT !.live = row[k].live]}
                      ELSE {[row[k] EXCEPT !.live = FALSE]})
    /\ UNCHANGED msgs

TornGet(w) ==
    /\ watcher[w].pc \in Received
    /\ LET k == watcher[w].key
           s == watcher[w].state
           updated == UpdateSummary(row[k], s, watcher[w].last)
       IN  /\ TransitionAllowed(row[k].state, s)
           /\ Stopped(k, Stages(updated) \cup Stages(Fail(updated)))
    /\ UNCHANGED msgs

TornEvent(w) ==
    /\ EventReady(w) /\ EventIsNew(w) /\ EventFits(w)
    /\ LET k == watcher[w].key
           told == ApplyEvent(row[k], NextEvent(w), watcher[w].pos + 1)
       IN  Stopped(k, Stages(told) \cup IF NextEvent(w) = "progress"
                                        THEN Stages(Fail(told))
                                        ELSE {})
    /\ UNCHANGED msgs

TornFailure(w) ==
    /\ watcher[w].pc # "idle"
    /\ LET k == watcher[w].key
       IN  /\ watcher[w].pc = "streaming" => row[k].state \notin TerminalStates
           /\ Stopped(k, Stages(Fail(row[k])))
    /\ UNCHANGED msgs

TornOrphan(k) ==
    /\ ~registered
    /\ MayReconcile(k)
    /\ Stopped(k, Stages(Fail(row[k])))
    /\ UNCHANGED msgs

TornCancel(x) ==
    /\ canceller[x].pc = "answered"
    /\ LET k == canceller[x].key
           s == canceller[x].state
       IN  /\ TransitionAllowed(row[k].state, s)
           /\ Stopped(k, Stages(UpdateSummary(row[k], s, canceller[x].last)))
    /\ UNCHANGED msgs

TornDisconnect ==
    /\ MayTear
    /\ registered
    /\ registered' = FALSE
    /\ \/ UNCHANGED row
       \/ row' = [k \in Keys |-> [row[k] EXCEPT !.live = FALSE]]
    /\ Restart
    /\ UNCHANGED <<alive, msgs, remote>>

-----------------------------------------------------------------------------
CreateStep(p) ==
    \/ \E k \in Keys, c \in Chats \cup {NoChat} : CreateFirst(p, k, c)
    \/ \E k \in Keys : CreateAgain(p, k)
    \/ RemoteCreate(p) \/ RemoteReject(p) \/ RemoteError(p)
    \/ CreateLost(p) \/ CreateRejected(p) \/ CreateErrored(p)
    \/ CreateAccepted(p) \/ CreateDuplicate(p) \/ CreateChatGone(p)
    \/ AcceptSpoiled(p) \/ DuplicateSpoiled(p) \/ FinishTitle(p)

WatchStep(w) ==
    \/ \E k \in Keys : ReadTask(w, k)
    \/ \E k \in Keys : \E from \in {0, row[k].cursor} : OpenStream(w, k, from)
    \/ RemoteGet(w) \/ FinishGet(w) \/ GetSpoiled(w) \/ GetLost(w)
    \/ RelayEvent(w) \/ StreamEvent(w) \/ StreamMisfit(w)
    \/ StreamSpoiled(w) \/ StreamLost(w) \/ StreamClosed(w)

CancelStep(x) ==
    \/ \E k \in Keys : StartCancel(x, k)
    \/ RemoteCancel(x) \/ FinishCancel(x) \/ CancelRefused(x) \/ CancelLost(x)

ServerStep ==
    \/ \E k \in Keys : ReadOrphan(k) \/ CleanupInputs(k)
    \/ \E c \in Chats : ClaimGeneration(c) \/ ReleaseGeneration(c) \/ DeleteChat(c)
    \/ \E ks \in SUBSET Keys : DismissCreator(ks)
    \/ Disconnect
    \/ Crash
    \/ TornDisconnect
    \/ \E k \in Keys : \/ TornAgain(k) \/ TornOrphan(k)
                       \/ \E c \in Chats \cup {NoChat} : TornFirst(k, c)
    \/ \E p \in Creators : \/ TornAccept(p) \/ TornDuplicate(p)
                          \/ TornSpoiled(p) \/ TornRetire(p)
    \/ \E w \in Watchers : TornGet(w) \/ TornEvent(w) \/ TornFailure(w)
    \/ \E x \in Cancellers : TornCancel(x)

Next ==
    \/ \E p \in Creators : CreateStep(p)
    \/ \E w \in Watchers : WatchStep(w)
    \/ \E x \in Cancellers : CancelStep(x)
    \/ \E k \in Keys : RemoteStep(k)
    \/ ServerStep

Spec == Init /\ [][Next]_vars

(* What the environment may be trusted with: a task is read again and      *)
(* again, of infinitely many requests to read it the module answers one    *)
(* and of infinitely many answers one arrives with nothing in it that the  *)
(* Server refuses, and a stream that has nothing more to deliver is closed. *)
FairSpec ==
    /\ Spec
    /\ \A w \in Watchers :
          /\ \A k \in Keys : SF_vars(ReadTask(w, k))
          /\ SF_vars(RemoteGet(w))
          /\ SF_vars(FinishGet(w))
          /\ WF_vars(StreamClosed(w))

-----------------------------------------------------------------------------
(* Properties.                                                             *)

(* Every variable keeps its shape. *)
TypeOK ==
    /\ row \in [Keys -> Row]
    /\ registered \in BOOLEAN
    /\ alive \in [Chats -> BOOLEAN]
    /\ generating \in [Chats -> BOOLEAN]
    /\ msgs \in [Chats -> Seq([task : Keys, role : {"user", "assistant"}])]
    /\ creator \in [Creators -> CreatorStates]
    /\ watcher \in [Watchers -> WatcherStates]
    /\ canceller \in [Cancellers -> CancellerStates]
    /\ remote \in [Keys -> RemoteTask]

(* A terminal task stays in its terminal state, whichever handler of those *)
(* in flight resumes next and however old the summary it holds is.         *)
TerminalIsFinal ==
    [][\A k \in Keys : row[k].state \in TerminalStates
                          => row'[k].state = row[k].state]_vars

(* The event cursor that clients resume from never moves back, and an      *)
(* accepted task never becomes invisible again.                            *)
CursorNeverBack ==
    [][\A k \in Keys : row[k].visible
                          => row'[k].visible /\ row'[k].cursor >= row[k].cursor]_vars

(* The Server reports success or cancellation only when that is how the    *)
(* module ended the task, in spite of stale summaries, duplicated creates, *)
(* lost answers and restarts.                                              *)
HonestOutcome ==
    \A k \in Keys : row[k].state \in {"succeeded", "cancelled"}
                       => remote[k].state = row[k].state

(* A terminal task has no live capability token and its input resources    *)
(* are given up for cleanup, although a second create attempt may have     *)
(* issued tokens and reactivated the inputs while the first was in flight. *)
(* Only a task that answered within its create request may still hold them *)
(* (its chat is being titled, or the Server stopped meanwhile), and then   *)
(* its row is one that the next read retires.                              *)
TerminalIsRetired ==
    \A k \in Keys :
        row[k].state \in TerminalStates
            => \/ ~row[k].live /\ row[k].inputs # "kept"
               \/ /\ row[k].state = "succeeded" /\ row[k].proj = "projected"
                  /\ MayReconcile(k)

(* A task puts at most one user and one assistant message into a chat, the *)
(* user's first, only into the chat it is bound to.                        *)
Posted(c, m) == {i \in DOMAIN msgs[c] : msgs[c][i] = m}
OneExchange ==
    \A c \in Chats, k \in Keys :
        LET asked == Posted(c, Message(k, "user"))
            told  == Posted(c, Message(k, "assistant"))
        IN  /\ Cardinality(asked) <= 1 /\ Cardinality(told) <= 1
            /\ \A i \in told : \E j \in asked : j < i
            /\ asked # {} => row[k].chat = c

(* A task whose answer stands in its chat has succeeded. *)
Answered(k) == \E c \in Chats : Posted(c, Message(k, "assistant")) # {}
AnswerMeansSuccess ==
    \A k \in Keys : Answered(k) => row[k].state = "succeeded"

(* At most one task or generation works on a chat at any time. *)
Workers(c) == {k \in Keys : row[k].chat = c /\ row[k].state \in LocalActiveStates}
ExclusiveChat ==
    \A c \in Chats : /\ \A k, l \in Workers(c) : k = l
                     /\ generating[c] => Workers(c) = {}

(* The inputs of an accepted task are not given up before it has ended:    *)
(* not by a retry, a lost answer, a stop of the Server or what a later     *)
(* answer or event brings.  Only a task whose own create request answered  *)
(* an error after accepting it may run without them.                       *)
Running(k) == row[k].visible /\ row[k].state \in ActiveStates
InputsOutliveTask ==
    \A k \in Keys : Running(k) /\ ~row[k].refused => row[k].inputs = "kept"

(* While the Server is in contact with a running task, the tokens the      *)
(* module holds for it are the ones that are not revoked, unless create()  *)
(* answered an error after accepting it, or its creator's account was      *)
(* disabled or demoted since.                                              *)
TokensUsable ==
    \A k \in Keys :
        registered /\ Running(k) /\ ~row[k].refused /\ ~row[k].dismissed
            => row[k].live /\ remote[k].tok = row[k].gen

(* Once the module has ended an accepted task, the Server learns that it   *)
(* has ended, though stream, summary or restart may have lost the news.    *)
EndIsLearnt ==
    \A k \in Keys : (row[k].visible /\ remote[k].state \in TerminalStates)
                       ~> (row[k].state \in TerminalStates \/ ~registered)

(* The answer of a task that succeeded reaches its chat in the end, also   *)
(* when success was learnt by a handler that does not post it, or the      *)
(* Server stopped before it did.                                           *)
AnswerIsRecovered ==
    \A k \in Keys : (row[k].state = "succeeded" /\ row[k].chat \in Chats)
                       ~> (row[k].proj # "pending" \/ ~registered)

-----------------------------------------------------------------------------
(* Not kept by the code (README, section 3): no run checks what follows.   *)

(* A task that failed or was cancelled has no answer in its chat. *)
FailureSuppressed ==
    \A k \in Keys : row[k].state \in {"failed", "cancelled"} => ~Answered(k)

(* The inputs of a task that has ended are given up for cleanup, also when *)
(* the Server stopped while it stored the end.                             *)
InputsAreReleased ==
    \A k \in Keys : row[k].state \in TerminalStates
                       ~> (row[k].inputs # "kept" \/ ~registered)

(* The module follows the task protocol, so no summary that arrives for a  *)
(* running task is one its state may not follow, and fails it.             *)
NoSpuriousFailure ==
    \A w \in Watchers :
        watcher[w].pc \in Received /\ Running(watcher[w].key)
            => TransitionAllowed(row[watcher[w].key].state, watcher[w].state)

=============================================================================
