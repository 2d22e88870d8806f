----------------------------- MODULE HermesRuns -----------------------------
(* The Hermes bridge of backend/main.py in its 'runs' mode: a consumer     *)
(* creates a run, reads its events, keeps it in the registry of active     *)
(* runs, stores the canonical answer and asks for a stop when it leaves    *)
(* early, while people answer the approvals Hermes asks for.  Hermes       *)
(* itself is external: it behaves as backend/hermes_fake_server.py does,   *)
(* but may ask more than once and may answer in any number of turns.       *)
EXTENDS Naturals, Sequences, FiniteSets

CONSTANTS
    Runs,       \* one consumer each, with the run it creates
    Approvers,  \* handlers of the approval endpoint
    Users,
    Admins,
    UserOf,     \* the principal of a consumer or of an approver
    MaxAsks,    \* bound on the approvals one run asks for
    MaxTurns,   \* bound on the tool calls of a run
    MaxQueue,   \* bound on the events that wait to be read
    None

ASSUME RunsAssumption ==
    /\ Admins \subseteq Users
    /\ UserOf \in [Runs \cup Approvers -> Users]
    /\ MaxAsks \in Nat /\ MaxTurns \in Nat /\ MaxQueue \in Nat
    /\ None \notin Nat

VARIABLES
    remote,    \* Hermes' own record of each run
    queue,     \* events sent and not yet read
    active,    \* _active_hermes_runs
    consumer,  \* the progress of _consume_hermes_run
    approver,  \* the progress of hermes_run_approval
    saved      \* the turns an answer was stored of (None without one)

vars == <<remote, queue, active, consumer, approver, saved>>

Finished == {"completed", "failed", "cancelled"}
Idle == [pc |-> "idle"]
At(r, pcs) == consumer[r].pc \in pcs

Init ==
    /\ remote = [r \in Runs |-> [state |-> "none", ask |-> 0, turn |-> 0,
                            spoke |-> FALSE]]
    /\ queue = [r \in Runs |-> <<>>]
    /\ active = [r \in Runs |-> None]
    /\ consumer = [r \in Runs |-> Idle]
    /\ approver = [a \in Approvers |-> Idle]
    /\ saved = [r \in Runs |-> None]

-----------------------------------------------------------------------------
(* Hermes.                                                                 *)

Emit(r, e) == queue' = [queue EXCEPT ![r] = Append(@, e)]
Room(r) == Len(queue[r]) < MaxQueue
Event(type, n) == [type |-> type, n |-> n]

HermesStart(r) ==
    /\ At(r, {"creating"}) /\ remote[r].state = "none"
    /\ remote' = [remote EXCEPT ![r].state = "running"]
    /\ UNCHANGED <<queue, active, consumer, approver, saved>>

(* Prose, possibly before the turn turns out to be a tool call; a call.    *)
(* All the prose of a turn is one event.                                   *)
HermesWork(r) ==
    /\ remote[r].state = "running" /\ Room(r)
    /\ \/ /\ ~remote[r].spoke
          /\ Emit(r, Event("prose", remote[r].turn))
          /\ remote' = [remote EXCEPT ![r].spoke = TRUE]
       \/ /\ remote[r].turn < MaxTurns
          /\ Emit(r, Event("tool.started", remote[r].turn))
          /\ remote' = [remote EXCEPT ![r].turn = @ + 1, ![r].spoke = FALSE]
    /\ UNCHANGED <<active, consumer, approver, saved>>

HermesAsk(r) ==
    /\ remote[r].state = "running" /\ Room(r) /\ remote[r].ask < MaxAsks
    /\ remote' = [remote EXCEPT ![r].state = "asking", ![r].ask = @ + 1]
    /\ Emit(r, Event("approval.request", remote'[r].ask))
    /\ UNCHANGED <<active, consumer, approver, saved>>

HermesEnd(r) ==
    /\ remote[r].state = "running" /\ Room(r)
    /\ \E s \in {"completed", "failed"} :
          /\ remote' = [remote EXCEPT ![r].state = s]
          /\ Emit(r, Event(s, remote[r].turn))
    /\ UNCHANGED <<active, consumer, approver, saved>>

-----------------------------------------------------------------------------
(* The consumer.                                                           *)

(* A run of /api/agent/chat, or a legacy one.                              *)
Entrypoints == {"agent", "legacy"}

CreateRun(r) ==
    /\ At(r, {"idle"})
    /\ \E stream \in BOOLEAN, entry \in Entrypoints :
          consumer' = [consumer EXCEPT ![r] =
                         [pc |-> "creating", stream |-> stream, entry |-> entry,
                          seen |-> "unknown", turns |-> {},
                          requested |-> FALSE, stops |-> 0]]
    /\ UNCHANGED <<remote, queue, active, approver, saved>>

Record == [status |-> "running", pending |-> None]

(* The answer to the creation names the run, which is registered at once.  *)
RegisterRun(r) ==
    /\ At(r, {"creating"}) /\ remote[r].state # "none"
    /\ consumer' = [consumer EXCEPT ![r].pc = "reading", ![r].seen = "none"]
    /\ active' = [active EXCEPT ![r] = Record]
    /\ UNCHANGED <<remote, queue, approver, saved>>

(* The creation fails or its request is cancelled.  Without a run id there *)
(* is nothing to stop, whatever Hermes did with the request.               *)
LoseRun(r) ==
    /\ At(r, {"creating"})
    /\ consumer' = [consumer EXCEPT ![r].pc = "ended"]
    /\ UNCHANGED <<remote, queue, active, approver, saved>>

(* update_active_hermes_run: a record that was purged is not brought back. *)
MutantUpdate(r, status, pending) ==
    [active EXCEPT ![r] = [status |-> status, pending |-> pending]]
Update(r, status, pending) ==
    [active EXCEPT ![r] = IF @ = None THEN None
                          ELSE [status |-> status, pending |-> pending]]

Leaving(c) == [c EXCEPT !.pc = "leaving"]
Stopping(c) == [c EXCEPT !.pc = "stopping", !.requested = TRUE, !.stops = @ + 1]
Quitting(c) == [Stopping(c) EXCEPT !.pc = "quitting"]

(* What an event does to the consumer: the prose of a turn that ends in a  *)
(* tool call is dropped, and an approval needs a streamed response.        *)
MutantRead(c, e) ==
    CASE e.type = "prose" -> [c EXCEPT !.turns = @ \cup {e.n}]
      [] e.type = "tool.started" -> c
      [] e.type = "approval.request" -> IF c.stream THEN c ELSE Stopping(c)
      [] e.type = "approval.responded" -> c
      [] e.type = "completed" -> [c EXCEPT !.seen = "completed", !.pc = "saving"]
      [] OTHER -> Leaving([c EXCEPT !.seen = e.type])
Read(c, e) ==
    CASE e.type = "prose" -> [c EXCEPT !.turns = @ \cup {e.n}]
      [] e.type = "tool.started" -> [c EXCEPT !.turns = {}]
      [] e.type = "approval.request" -> IF c.stream THEN c ELSE Stopping(c)
      [] e.type = "approval.responded" -> c
      [] e.type = "completed" -> [c EXCEPT !.seen = "completed", !.pc = "saving"]
      [] OTHER -> Leaving([c EXCEPT !.seen = e.type])

Noted(r, e) ==
    CASE e.type = "approval.request" -> Update(r, "pending_approval", e.n)
      [] e.type = "approval.responded" -> Update(r, "running", None)
      [] e.type \in Finished -> Update(r, e.type, None)
      [] OTHER -> active

ReadEvent(r) ==
    /\ At(r, {"reading"}) /\ queue[r] # <<>>
    /\ queue' = [queue EXCEPT ![r] = Tail(@)]
    /\ active' = Noted(r, Head(queue[r]))
    /\ consumer' = [consumer EXCEPT ![r] = Read(@, Head(queue[r]))]
    /\ UNCHANGED <<remote, approver, saved>>

(* The stream ends early, times out or fails; or the client is found gone, *)
(* and then the stop is sent without being remembered as requested.        *)
BreakOff(r) ==
    /\ At(r, {"reading"})
    /\ \/ consumer' = [consumer EXCEPT ![r] = Stopping(@)]
       \/ consumer' = [consumer EXCEPT ![r].pc = "disconnecting", ![r].stops = @ + 1]
    /\ UNCHANGED <<remote, queue, active, approver, saved>>

(* The stop reaches Hermes or is lost; a failure is only logged.           *)
MutantFinishStop(r) ==
    /\ At(r, {"stopping", "disconnecting", "quitting"})
    /\ remote[r].state \in {"running", "asking"}
    /\ remote' = [remote EXCEPT ![r].state = "cancelled"]
    /\ consumer' = [consumer EXCEPT ![r] = Leaving([@ EXCEPT !.requested = TRUE])]
    /\ UNCHANGED <<queue, active, approver, saved>>
FinishStop(r) ==
    /\ At(r, {"stopping", "disconnecting", "quitting"})
    /\ \/ /\ remote[r].state \in {"running", "asking"}
          /\ remote' = [remote EXCEPT ![r].state = "cancelled"]
       \/ UNCHANGED remote
    /\ consumer' = [consumer EXCEPT ![r] = Leaving([@ EXCEPT !.requested = TRUE])]
    /\ UNCHANGED <<queue, active, approver, saved>>

(* The turns the buffer holds are stored as the answer of the run, and     *)
(* then a title for the chat may be awaited.                               *)
SaveAnswer(r) ==
    /\ At(r, {"saving"})
    /\ saved' = IF consumer[r].turns = {} THEN saved
                ELSE [saved EXCEPT ![r] = consumer[r].turns]
    /\ consumer' = [consumer EXCEPT ![r].pc = "titling"]
    /\ UNCHANGED <<remote, queue, active, approver>>

FinishAnswer(r) ==
    /\ At(r, {"titling"})
    /\ consumer' = [consumer EXCEPT ![r] = Leaving(@)]
    /\ UNCHANGED <<remote, queue, active, approver, saved>>

(* The response is cancelled at an await, which asks for a stop; or it is  *)
(* closed where it yields, or ended by an error no clause catches, which   *)
(* leaves the stop to the finally.  A stop under way is cut short, and one *)
(* for a client that was found gone is sent again.  The finally has nobody *)
(* behind it: cut at its own stop, it never reaches the removal from the   *)
(* registry.                                                               *)
Cut(r) ==
    /\ \/ /\ At(r, {"reading", "disconnecting", "titling"})
          /\ consumer' = [consumer EXCEPT ![r] = Stopping(@)]
       \/ /\ At(r, {"reading", "stopping", "saving", "titling"})
          /\ consumer' = [consumer EXCEPT ![r] = Leaving(@)]
       \/ /\ At(r, {"quitting"})
          /\ consumer' = [consumer EXCEPT ![r].pc = "abandoned"]
    /\ UNCHANGED <<remote, queue, active, approver, saved>>

(* The finally: a run that did not end is stopped, and then forgotten.     *)
MutantUnstopped(r) == FALSE
Unstopped(r) == consumer[r].seen = "none" /\ ~consumer[r].requested
Forget(r) == [active EXCEPT ![r] = None]

Leave(r) ==
    /\ At(r, {"leaving"})
    /\ IF Unstopped(r)
       THEN consumer' = [consumer EXCEPT ![r] = Quitting(@)] /\ UNCHANGED active
       ELSE /\ consumer' = [consumer EXCEPT ![r].pc = "ended"]
            /\ active' = Forget(r)
    /\ UNCHANGED <<remote, queue, approver, saved>>

(* Whoever touches the registry drops the records older than an hour.      *)
Purge(r) ==
    /\ active[r] # None
    /\ active' = [active EXCEPT ![r] = None]
    /\ UNCHANGED <<remote, queue, consumer, approver, saved>>

-----------------------------------------------------------------------------
(* Approvals.                                                              *)

MayApprove(a, r) ==
    \/ UserOf[a] = UserOf[r]
    \/ consumer[r].entry = "legacy" /\ UserOf[a] \in Admins

(* The checks of the endpoint, up to the call.                             *)
Approve(a, r) ==
    /\ approver[a] = Idle
    /\ active[r] # None
    /\ MayApprove(a, r)
    /\ active[r].status \notin Finished
    /\ active[r].pending # None
    /\ approver' = [approver EXCEPT ![a] = [pc |-> "posting", run |-> r]]
    /\ UNCHANGED <<remote, queue, active, consumer, saved>>

(* Hermes takes the choice for what it asks now, or refuses it.            *)
HermesApproval(a) ==
    /\ approver[a].pc = "posting"
    /\ LET r == approver[a].run
       IN  /\ Room(r)
           /\ IF remote[r].state = "asking"
              THEN /\ remote' = [remote EXCEPT ![r].state = "running"]
                   /\ Emit(r, Event("approval.responded", remote[r].ask))
                   /\ approver' = [approver EXCEPT ![a].pc = "accepted"]
              ELSE /\ approver' = [approver EXCEPT ![a] = Idle]
                   /\ UNCHANGED <<remote, queue>>
    /\ UNCHANGED <<active, consumer, saved>>

FailApproval(a) ==
    /\ approver[a].pc \in {"posting", "accepted"}
    /\ approver' = [approver EXCEPT ![a] = Idle]
    /\ UNCHANGED <<remote, queue, active, consumer, saved>>

(* The answer sets the status and clears what is pending, whatever the     *)
(* consumer noted while it was on its way.                                 *)
FinishApproval(a) ==
    /\ approver[a].pc = "accepted"
    /\ active' = Update(approver[a].run, "running", None)
    /\ approver' = [approver EXCEPT ![a] = Idle]
    /\ UNCHANGED <<remote, queue, consumer, saved>>

-----------------------------------------------------------------------------

HermesStep(r) == HermesStart(r) \/ HermesWork(r) \/ HermesAsk(r) \/ HermesEnd(r)
ConsumerStep(r) ==
    \/ RegisterRun(r) \/ LoseRun(r)
    \/ ReadEvent(r) \/ BreakOff(r) \/ FinishStop(r)
    \/ SaveAnswer(r) \/ FinishAnswer(r) \/ Cut(r) \/ Leave(r)
ApproverStep(a) == HermesApproval(a) \/ FailApproval(a) \/ FinishApproval(a)

Next ==
    \/ \E r \in Runs : CreateRun(r) \/ HermesStep(r) \/ ConsumerStep(r) \/ Purge(r)
    \/ \E a \in Approvers, r \in Runs : Approve(a, r)
    \/ \E a \in Approvers : ApproverStep(a)

(* Events are read, and the idle timeout of the event stream and the       *)
(* limits of a stop and of a title's request end the waiting; nobody has   *)
(* to cancel the response.                                                 *)
Fairness == \A r \in Runs :
               WF_vars(ReadEvent(r) \/ BreakOff(r) \/ FinishStop(r)
                       \/ SaveAnswer(r) \/ FinishAnswer(r) \/ Leave(r))

Spec == Init /\ [][Next]_vars
FairSpec == Spec /\ Fairness

-----------------------------------------------------------------------------
(* Properties.                                                             *)

EventType == [type : {"prose", "tool.started", "approval.request",
                      "approval.responded", "completed", "failed"}, n : Nat]
ConsumerType ==
    {Idle} \cup
    [pc : {"creating", "reading", "stopping", "disconnecting", "saving",
           "titling", "leaving", "quitting", "ended", "abandoned"},
     stream : BOOLEAN, entry : Entrypoints,
     seen : {"unknown", "none", "completed", "failed"},
     turns : SUBSET (0..MaxTurns), requested : BOOLEAN, stops : 0..2]

(* The types; in particular a run is asked to stop at most twice.          *)
TypeOK ==
    /\ remote \in [Runs -> [state : {"none", "running", "asking"} \cup Finished,
                            ask : 0..MaxAsks, turn : 0..MaxTurns, spoke : BOOLEAN]]
    /\ queue \in [Runs -> Seq(EventType)]
    /\ active \in [Runs -> {None} \cup
                     [status : {"running", "pending_approval"} \cup Finished,
                      pending : 1..MaxAsks \cup {None}]]
    /\ consumer \in [Runs -> ConsumerType]
    /\ approver \in [Approvers -> {Idle} \cup
                       [pc : {"posting", "accepted"}, run : Runs]]
    /\ saved \in [Runs -> {None} \cup SUBSET (0..MaxTurns)]

(* A run is known to the approval endpoint only while its consumer is at   *)
(* work, whoever else touches the registry: an answer to an approval that  *)
(* comes late brings no record back.  The one consumer that leaves its     *)
(* record behind is that whose finally was cut at its stop.                *)
RegisteredIsConsumed ==
    \A r \in Runs : active[r] # None => ~At(r, {"idle", "creating", "ended"})

(* A response that ended without the terminal event of its run has begun   *)
(* to ask Hermes to stop it, however the response ended.                   *)
LeftMeansStopped ==
    \A r \in Runs :
       At(r, {"ended", "abandoned"}) /\ consumer[r].seen = "none" =>
          consumer[r].stops > 0

(* A stored answer is the last turn of a run that completed: neither part  *)
(* of a run that broke off, nor prose from before a tool call.             *)
AnswerIsCanonical ==
    \A r \in Runs : saved[r] # None =>
       /\ remote[r].state = "completed"
       /\ saved[r] = {remote[r].turn}

(* A consumer that reads gets to its end, also where Hermes says no more.  *)
RunsEnd == \A r \in Runs : At(r, {"reading"}) ~> At(r, {"ended", "abandoned"})

------------------------------------------------------------------------------
(* Not kept by the code (README, section 3): no run checks what follows.   *)

(* docs/hermes.md:147: a generation that was stopped has its active run    *)
(* cleared, "so later approvals for that run are rejected as stale".  The  *)
(* code does not keep it for a consumer that is cut at its last stop: the  *)
(* record stays until it is an hour old.                                   *)
LeftIsForgotten ==
    \A r \in Runs : At(r, {"ended", "abandoned"}) => active[r] = None

=============================================================================
