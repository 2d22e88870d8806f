---------------------------- MODULE Capabilities ----------------------------
(***************************************************************************)
(* The capabilities a task lends to its module (backend/module_tasks.py):  *)
(* tokens with which the module reads the chat, the creator's role, the    *)
(* documents and inputs of the task, and asks the Server's model.          *)
(*                                                                         *)
(* They are issued in the name of an account, whose administrators may     *)
(* disable or demote it at any time: so this module extends Accounts.      *)
(* A call looks at its token, reconciles the task with the module, which   *)
(* awaits, and then looks again and takes one use of the token.            *)
(***************************************************************************)
EXTENDS Accounts, Naturals

CONSTANTS
    Tasks,        \* tasks
    Tokens,       \* capability tokens, each drawn once
    Calls,        \* the calls of modules that may be in flight
    MaxUses       \* max_uses of a token

ASSUME CapabilitiesAssumption == MaxUses \in Nat \ {0}

VARIABLES
    task,         \* rows of module_tasks
    token,        \* rows of module_capability_tokens
    forfeit,      \* the tokens whose creator has lost standing (history)
    call          \* the calls in flight

capabilityVars == <<task, token, forfeit, call>>
vars == <<accountVars, capabilityVars>>

-----------------------------------------------------------------------------
Task == [creator : Users \cup {None}, ended : BOOLEAN, current : BOOLEAN]
NewTask(u) == [creator |-> u, ended |-> FALSE, current |-> TRUE]

(* live: neither revoked nor expired. *)
Token == [task : Tasks \cup {None}, live : BOOLEAN, uses : Nat]

(* The token of a call that awaits the reconcile of its task. *)
Call == Tokens \cup {None}
Become(c, h) == call' = [call EXCEPT ![c] = h]

Drawn(t) == token[t].task # None
TaskOf(t) == task[token[t].task]
Issued(k) == {t \in Tokens : token[t].task = k}
TasksOf(u) == {k \in Tasks : task[k].creator = u}
TokensOf(u) == {t \in Tokens : Drawn(t) /\ TaskOf(t).creator = u}

(* UPDATE module_capability_tokens SET revoked_at for the tokens ts. *)
Revoked(ts) == [t \in Tokens |-> [token[t] EXCEPT !.live = @ /\ t \notin ts]]

Init ==
    /\ AccountsInit
    /\ task = [k \in Tasks |-> [NewTask(None) EXCEPT !.ended = TRUE]]
    /\ token = [t \in Tokens |-> [task |-> None, live |-> FALSE, uses |-> 0]]
    /\ forfeit = {}
    /\ call = [c \in Calls |-> None]

-----------------------------------------------------------------------------
(* Tasks.                                                                  *)

(* _issue_capabilities(): the tokens issued before are revoked. *)
Issue(k, t) ==
    /\ ~Drawn(t)
    /\ token' = [Revoked(Issued(k))
                    EXCEPT ![t] = [task |-> k, live |-> TRUE, uses |-> 0]]

(* create(): in the name of whom the middleware took for the user. *)
CreateTask(b, k, t) ==
    /\ Serve(b, FALSE)
    /\ task[k].creator = None
    /\ task' = [task EXCEPT ![k] = NewTask(request[b].actor)]
    /\ Issue(k, t)
    /\ UNCHANGED <<users, session, forfeit, call>>

(* Its submission is retried; so the module gets new tokens. *)
Resubmit(b, k, t) ==
    /\ Serve(b, FALSE)
    /\ task[k].creator = request[b].actor /\ ~task[k].ended
    /\ Issue(k, t)
    /\ UNCHANGED <<users, session, task, forfeit, call>>

(* A terminal state is recorded, and the tokens are revoked. *)
EndTask(k) ==
    /\ up /\ task[k].creator # None /\ ~task[k].ended
    /\ task' = [task EXCEPT ![k].ended = TRUE]
    /\ token' = Revoked(Issued(k))
    /\ UNCHANGED <<accountVars, forfeit, call>>

(* status_sync as the module answers, or does not. *)
SyncTask(k) ==
    /\ up /\ task[k].creator # None /\ ~task[k].ended
    /\ task' = [task EXCEPT ![k].current = ~@]
    /\ UNCHANGED <<accountVars, token, forfeit, call>>

(* force_disconnect() of the module: revoke_registration_capabilities().   *)
Disconnect(k) ==
    /\ up
    /\ token' = Revoked(Issued(k))
    /\ task' = [task EXCEPT ![k].current = @ /\ task[k].ended]
    /\ UNCHANGED <<accountVars, forfeit, call>>

Expire(t) ==
    /\ token[t].live
    /\ token' = Revoked({t})
    /\ UNCHANGED <<accountVars, task, forfeit, call>>

-----------------------------------------------------------------------------
(* Calls.                                                                  *)

(* _preflight_capability() up to its await. *)
Preflight(c, t) ==
    /\ up /\ call[c] = None
    /\ token[t].live
    /\ users[TaskOf(t).creator].enabled
    /\ Become(c, t)
    /\ UNCHANGED <<accountVars, task, token, forfeit>>

(* Mutant: the limit is left to the preflight. *)
MutantConsumable(t) ==
    /\ token[t].live
    /\ ~TaskOf(t).ended /\ TaskOf(t).current
    /\ users[TaskOf(t).creator].enabled

Consumable(t) ==
    /\ token[t].live
    /\ ~TaskOf(t).ended /\ TaskOf(t).current
    /\ users[TaskOf(t).creator].enabled
    /\ token[t].uses < MaxUses

(* _consume_capability(), one transaction: the call gets through.  What it *)
(* asks for is read at once, or the model is awaited, which changes        *)
(* nothing here; a request that is found invalid or out of scope has spent *)
(* its use all the same.                                                   *)
Consume(c) ==
    /\ call[c] # None
    /\ Consumable(call[c])
    /\ token' = [token EXCEPT ![call[c]].uses = @ + 1]
    /\ Become(c, None)
    /\ UNCHANGED <<accountVars, task, forfeit>>

(* capability_token_invalid, or a task that could not be reconciled. *)
CallRefused(c) ==
    /\ call[c] # None
    /\ Become(c, None)
    /\ UNCHANGED <<accountVars, task, token, forfeit>>

-----------------------------------------------------------------------------
(* Mutant: set_user_role() leaves the capabilities alone. *)
MutantLoseStanding(u) ==
    /\ token' = IF \E b \in Browsers : DisableUser(b, u)
                THEN Revoked(TokensOf(u)) ELSE token
    /\ forfeit' = forfeit \cup TokensOf(u)
    /\ UNCHANGED <<task, call>>

(* _revoke_user_capabilities(), within the accounts' transactions. *)
LoseStanding(u) ==
    /\ token' = Revoked(TokensOf(u))
    /\ forfeit' = forfeit \cup TokensOf(u)
    /\ UNCHANGED <<task, call>>

(* The other steps of the accounts; a call ends with the process. *)
OtherAccountStep ==
    /\ HarmlessStep
    /\ call' = IF up' THEN call ELSE [c \in Calls |-> None]
    /\ UNCHANGED <<task, token, forfeit>>

TaskStep(k) ==
    \/ \E b \in Browsers, t \in Tokens : CreateTask(b, k, t) \/ Resubmit(b, k, t)
    \/ EndTask(k) \/ SyncTask(k) \/ Disconnect(k)

CallStep(c) ==
    \/ \E t \in Tokens : Preflight(c, t)
    \/ Consume(c) \/ CallRefused(c)

Next ==
    \/ OtherAccountStep
    \/ \E u \in Users : Demotion(u) /\ LoseStanding(u)
    \/ \E k \in Tasks : TaskStep(k)
    \/ \E t \in Tokens : Expire(t)
    \/ \E c \in Calls : CallStep(c)

Spec == Init /\ [][Next]_vars

-----------------------------------------------------------------------------
(* Properties.                                                             *)

(* Every table and every call keeps its shape. *)
TypeOK ==
    /\ AccountsTyped
    /\ task \in [Tasks -> Task]
    /\ token \in [Tokens -> Token]
    /\ forfeit \subseteq Tokens
    /\ call \in [Calls -> Call]

(* However many calls overlap, a token serves no more of them than it may. *)
ServedIsBounded == \A t \in Tokens : token[t].uses <= MaxUses

(* A token whose creator was disabled or demoted after it was issued stays *)
(* dead, also when the account is enabled or promoted again.               *)
ForfeitedStaysDead == \A t \in forfeit : ~token[t].live

=============================================================================
