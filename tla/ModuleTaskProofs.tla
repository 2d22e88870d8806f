-------------------------- MODULE ModuleTaskProofs --------------------------
(***************************************************************************)
(* Proofs about the task gateway, for every set of keys, chats and         *)
(* handlers and every bound: first the types, then the safety of the       *)
(* protocol, then two properties that hold under an assumption: no two     *)
(* tasks or generations work on one chat, if modules never answer POST     *)
(* /tasks with a 4xx; and an ended task keeps neither tokens nor inputs,   *)
(* if the Server never stops between two commits of a handler.  Then the   *)
(* messages of the tasks in their chats; and last what holds as long as    *)
(* clients do not have two requests with one Idempotency-Key in flight at  *)
(* once (OneAttempt): inputs and tokens last but for the tasks excepted,   *)
(* answers mean success, and the gateway implements TaskLifecycle.         *)
(***************************************************************************)
EXTENDS ModuleTaskRefinement, FiniteSetTheorems, TLAPS

-----------------------------------------------------------------------------
(* Every operation on a row yields a row.                                  *)

LEMMA RetireIsRow == ASSUME NEW r \in Row PROVE Retire(r) \in Row
BY DEF Retire, Row

LEMMA RefuseIsRow ==
    ASSUME NEW r \in Row PROVE Refuse(r) \in Row /\ HalfRefuse(r) \in Row
<1>1. HalfRefuse(r) \in Row
    BY DEF HalfRefuse, Row
<1> QED BY <1>1, RetireIsRow DEF Refuse, Row

LEMMA DismissIsRow == ASSUME NEW r \in Row PROVE Dismiss(r) \in Row
BY DEF Dismiss, Row

LEMMA IssueIsRow == ASSUME NEW r \in Row PROVE Issue(r) \in Row
<1>1. r.gen + 1 \in Nat
    BY DEF Row
<1> QED BY <1>1 DEF Issue, Row

LEMMA SuppressIsRow == ASSUME NEW r \in Row PROVE Suppress(r) \in Row
BY DEF Suppress, Row

LEMMA SettleIsRow == ASSUME NEW r \in Row PROVE Settle(r) \in Row
BY RetireIsRow DEF Settle

LEMMA ReportIsRow ==
    ASSUME NEW r \in Row, NEW s \in PublicStates, NEW id \in Nat
    PROVE  Report(r, s, id) \in Row
BY DEF Report, Row

LEMMA UpdateSummaryIsRow ==
    ASSUME NEW r \in Row, NEW s \in PublicStates, NEW id \in Nat
    PROVE  UpdateSummary(r, s, id) \in Row
<1>1. r.cursor \in Nat
    BY DEF Row
<1>2. Report(r, s, IF id > r.cursor THEN id ELSE r.cursor) \in Row
    BY <1>1, ReportIsRow
<1> QED BY <1>2, SuppressIsRow DEF UpdateSummary

LEMMA ApplyEventIsRow ==
    ASSUME NEW r \in Row, NEW e \in PublicStates \cup {"progress"},
           NEW id \in Nat
    PROVE  ApplyEvent(r, e, id) \in Row
<1>1. [r EXCEPT !.sync = "current", !.cursor = id] \in Row
    BY DEF Row
<1>2. e # "progress" => Report(r, e, id) \in Row
    BY ReportIsRow
<1> QED BY <1>1, <1>2, SuppressIsRow DEF ApplyEvent

LEMMA FailIsRow ==
    ASSUME NEW r \in Row
    PROVE  Fail(r) \in Row /\ FailStream(r) \in Row
<1>1. r.cursor + 1 \in Nat
    BY DEF Row
<1>2. Fail(r) \in Row
    BY <1>1 DEF Fail, Row, PublicStates, TerminalStates
<1> QED BY <1>2, RetireIsRow DEF FailStream

LEMMA FinalizeIsRow ==
    ASSUME NEW r \in Row, NEW s \in PublicStates, NEW id \in Nat
    PROVE  Finalize(r, s, id) \in Row
<1>1. [r EXCEPT !.visible = TRUE] \in Row
    BY DEF Row
<1> QED BY <1>1, ReportIsRow DEF Finalize

LEMMA ApplyProjectionIsRow ==
    ASSUME NEW r \in Row, NEW s PROVE ApplyProjection(r, s) \in Row
BY DEF ApplyProjection, Row

LEMMA ConcludeIsRow ==
    ASSUME NEW r \in Row, NEW s PROVE Conclude(r, s) \in Row
BY ApplyProjectionIsRow, RetireIsRow DEF Conclude

LEMMA StagesAreRows ==
    ASSUME NEW r \in Row PROVE Stages(r) \subseteq Row
<1>1. [r EXCEPT !.live = FALSE] \in Row
    BY DEF Row
<1> QED BY <1>1, RetireIsRow DEF Stages

-----------------------------------------------------------------------------
(* Type correctness.                                                       *)

Messages == [task : Keys, role : {"user", "assistant"}]

LEMMA PostIsTyped ==
    ASSUME NEW log \in [Chats -> Seq(Messages)], NEW c \in Chats,
           NEW k \in Keys, NEW role \in {"user", "assistant"}
    PROVE  Post(log, c, k, role) \in [Chats -> Seq(Messages)]
<1>1. Message(k, role) \in Messages
    BY DEF Message, Messages
<1>2. Append(log[c], Message(k, role)) \in Seq(Messages)
    BY <1>1
<1> QED BY <1>2 DEF Post

LEMMA ProjectIsTyped ==
    ASSUME NEW log \in [Chats -> Seq(Messages)], NEW r, NEW s, NEW k \in Keys
    PROVE  ProjectInto(log, r, s, k) \in [Chats -> Seq(Messages)]
BY PostIsTyped DEF ProjectInto, Posts, Projects

LEMMA AskIsTyped ==
    ASSUME TypeOK, NEW k \in Keys
    PROVE  Ask(k) \in [Chats -> Seq(Messages)]
BY PostIsTyped DEF Ask, TypeOK, Messages

(* What a slot holds. *)
LEMMA AnsweredCreator ==
    ASSUME TypeOK, NEW p \in Creators, creator[p].pc = "answered"
    PROVE  /\ creator[p].key \in Keys /\ creator[p].gen \in Nat
           /\ creator[p].state \in PublicStates /\ creator[p].last \in Nat
<1>1. creator[p] \in CreatorStates \ {Idle}
    BY DEF TypeOK, Idle
<1> QED BY <1>1 DEF CreatorStates

LEMMA BusyCreator ==
    ASSUME TypeOK, NEW p \in Creators, creator[p].pc # "idle"
    PROVE  creator[p].key \in Keys /\ creator[p].gen \in Nat
<1>1. creator[p] \in CreatorStates \ {Idle}
    BY DEF TypeOK, Idle
<1> QED BY <1>1 DEF CreatorStates

LEMMA ReceivedWatcher ==
    ASSUME TypeOK, NEW w \in Watchers, watcher[w].pc \in Received
    PROVE  /\ watcher[w].key \in Keys /\ watcher[w].pos \in Nat
           /\ watcher[w].state \in PublicStates /\ watcher[w].last \in Nat
<1>1. watcher[w] \in WatcherStates \ {Idle}
    BY DEF TypeOK, Idle, Received
<1> QED BY <1>1 DEF WatcherStates, Received

LEMMA BusyWatcher ==
    ASSUME TypeOK, NEW w \in Watchers, watcher[w].pc # "idle"
    PROVE  watcher[w].key \in Keys /\ watcher[w].pos \in Nat
<1>1. watcher[w] \in WatcherStates \ {Idle}
    BY DEF TypeOK, Idle
<1> QED BY <1>1 DEF WatcherStates

LEMMA AnsweredCanceller ==
    ASSUME TypeOK, NEW x \in Cancellers, canceller[x].pc = "answered"
    PROVE  /\ canceller[x].key \in Keys
           /\ canceller[x].state \in PublicStates /\ canceller[x].last \in Nat
BY DEF TypeOK, CancellerStates, Idle

LEMMA BusyCanceller ==
    ASSUME TypeOK, NEW x \in Cancellers, canceller[x].pc # "idle"
    PROVE  canceller[x].key \in Keys
BY DEF TypeOK, CancellerStates, Idle

LEMMA InitTyped == Init => TypeOK
<1> SUFFICES ASSUME Init PROVE TypeOK
    OBVIOUS
<1>1. AbsentRow \in Row
    BY DEF AbsentRow, Row, HiddenStates
<1>2. [state |-> "none", log |-> <<>>, tok |-> 0] \in RemoteTask
    BY DEF RemoteTask
<1> QED BY <1>1, <1>2 DEF Init, TypeOK, CreatorStates, WatcherStates,
                          CancellerStates

(* A slot that a handler leaves or enters keeps its shape. *)
LEMMA StepCreateIsTyped ==
    ASSUME TypeOK, NEW p \in Creators, creator[p].pc # "idle",
           NEW pc \in {"rejected", "errored", "titling"}, StepCreate(p, pc)
    PROVE  creator' \in [Creators -> CreatorStates]
<1>1. [pc |-> pc, key |-> creator[p].key, gen |-> creator[p].gen] \in CreatorStates
    BY BusyCreator DEF CreatorStates
<1> QED BY <1>1 DEF StepCreate, TypeOK

LEMMA EndCreateIsTyped ==
    ASSUME TypeOK, NEW p \in Creators, EndCreate(p)
    PROVE  creator' \in [Creators -> CreatorStates]
BY DEF TypeOK, EndCreate, CreatorStates

LEMMA AfterAnswerIsTyped ==
    ASSUME TypeOK, NEW p \in Creators, creator[p].pc # "idle", NEW r, AfterAnswer(p, r)
    PROVE  creator' \in [Creators -> CreatorStates]
BY StepCreateIsTyped, EndCreateIsTyped DEF AfterAnswer

LEMMA SendPostIsTyped ==
    ASSUME TypeOK, NEW p \in Creators, NEW k \in Keys, SendPost(p, k)
    PROVE  creator' \in [Creators -> CreatorStates]
<1>1. row[k].gen + 1 \in Nat
    BY DEF TypeOK, Row
<1>2. [pc |-> "posting", key |-> k, gen |-> row[k].gen + 1] \in CreatorStates
    BY <1>1 DEF CreatorStates
<1> QED BY <1>2 DEF SendPost, TypeOK

LEMMA SubmittedIsRow ==
    ASSUME TypeOK, NEW k \in Keys, NEW c \in Chats \cup {NoChat}
    PROVE  Submitted(k, c) \in Row
<1>1. row[k] \in Row /\ "submitting" \in HiddenStates
    BY DEF TypeOK, HiddenStates
<1> QED BY <1>1 DEF Submitted, Row

LEMMA AbandonIsRow ==
    ASSUME TypeOK, NEW k \in Keys PROVE Abandon(k) \in Row
<1>1. row[k] \in Row
    BY DEF TypeOK
<1>2. [row[k] EXCEPT !.state = "abandoned"] \in Row
    BY <1>1 DEF Row, HiddenStates
<1> QED BY <1>1, <1>2 DEF Abandon

LEMMA CreateStepTyped ==
    ASSUME TypeOK, NEW p \in Creators, CreateStep(p)
    PROVE  TypeOK'
<1>1. ASSUME NEW k \in Keys, NEW c \in Chats \cup {NoChat}, CreateFirst(p, k, c)
      PROVE  TypeOK'
    <2>1. Issue(Submitted(k, c)) \in Row
        BY SubmittedIsRow, IssueIsRow
    <2>2. creator' \in [Creators -> CreatorStates]
        BY <1>1, SendPostIsTyped DEF CreateFirst
    <2> QED BY <1>1, <2>1, <2>2 DEF CreateFirst, TypeOK, chatVars
<1>2. ASSUME NEW k \in Keys, CreateAgain(p, k) PROVE TypeOK'
    <2>1. Issue(row[k]) \in Row
        BY IssueIsRow DEF TypeOK
    <2>2. creator' \in [Creators -> CreatorStates]
        BY <1>2, SendPostIsTyped DEF CreateAgain
    <2> QED BY <1>2, <2>1, <2>2 DEF CreateAgain, TypeOK, chatVars
<1>3. CASE RemoteCreate(p)
    <2> DEFINE k == creator[p].key
               accepted == IF remote[k].state = "none"
                           THEN [remote[k] EXCEPT !.state = "queued"]
                           ELSE remote[k]
    <2>1. k \in Keys /\ creator[p].gen \in Nat
        BY <1>3, BusyCreator DEF RemoteCreate
    <2>2. /\ accepted \in RemoteTask
          /\ accepted.state \in PublicStates
        BY <2>1 DEF TypeOK, RemoteTask, PublicStates, ActiveStates
    <2>3. [accepted EXCEPT !.tok = creator[p].gen] \in RemoteTask
        BY <2>1, <2>2 DEF RemoteTask
    <2>4. Len(accepted.log) \in Nat
        BY <2>2 DEF RemoteTask
    <2>5. [pc |-> "answered", key |-> k, gen |-> creator[p].gen,
           state |-> accepted.state, last |-> Len(accepted.log)] \in CreatorStates
        BY <2>1, <2>2, <2>4 DEF CreatorStates
    <2> QED BY <1>3, <2>1, <2>3, <2>5 DEF RemoteCreate, TypeOK, chatVars
<1>4. CASE RemoteReject(p)
    <2>1. creator' \in [Creators -> CreatorStates]
        BY <1>4, StepCreateIsTyped DEF RemoteReject
    <2> QED BY <1>4, <2>1 DEF RemoteReject, TypeOK, chatVars
<1>5. CASE RemoteError(p)
    <2>1. creator' \in [Creators -> CreatorStates]
        BY <1>5, StepCreateIsTyped DEF RemoteError
    <2> QED BY <1>5, <2>1 DEF RemoteError, TypeOK, chatVars
<1>6. CASE CreateLost(p)
    BY <1>6, EndCreateIsTyped DEF CreateLost, TypeOK, chatVars
<1>7. CASE CreateRejected(p)
    <2>1. creator[p].key \in Keys
        BY <1>7, BusyCreator DEF CreateRejected
    <2>2. Retire(Abandon(creator[p].key)) \in Row
        BY <2>1, AbandonIsRow, RetireIsRow
    <2> QED BY <1>7, <2>1, <2>2, EndCreateIsTyped
            DEF CreateRejected, TypeOK, chatVars
<1>8. CASE CreateErrored(p)
    <2>1. creator[p].key \in Keys
        BY <1>8, BusyCreator DEF CreateErrored
    <2>2. Retire(row[creator[p].key]) \in Row
        BY <2>1, RetireIsRow DEF TypeOK
    <2> QED BY <1>8, <2>1, <2>2, EndCreateIsTyped
            DEF CreateErrored, TypeOK, chatVars
<1>9. CASE CreateAccepted(p)
    <2> DEFINE k == creator[p].key
               s == creator[p].state
               shown == Finalize(row[k], s, creator[p].last)
    <2>1. k \in Keys /\ s \in PublicStates /\ creator[p].last \in Nat
        BY <1>9, AnsweredCreator DEF CreateAccepted
    <2>2. shown \in Row
        BY <2>1, FinalizeIsRow DEF TypeOK
    <2>3. Conclude(shown, s) \in Row
        BY <2>2, ConcludeIsRow
    <2>4. ProjectInto(Ask(k), shown, s, k) \in [Chats -> Seq(Messages)]
        BY <2>1, AskIsTyped, ProjectIsTyped
    <2>5. creator' \in [Creators -> CreatorStates]
        BY <1>9, AfterAnswerIsTyped DEF CreateAccepted
    <2> QED BY <1>9, <2>1, <2>3, <2>4, <2>5
            DEF CreateAccepted, TypeOK, Messages
<1>10. CASE CreateDuplicate(p)
    <2> DEFINE k == creator[p].key
               s == creator[p].state
    <2>1. k \in Keys
        BY <1>10, BusyCreator DEF CreateDuplicate
    <2>2. Conclude(row[k], s) \in Row
        BY <2>1, ConcludeIsRow DEF TypeOK
    <2>3. ProjectInto(msgs, row[k], s, k) \in [Chats -> Seq(Messages)]
        BY <2>1, ProjectIsTyped DEF TypeOK, Messages
    <2>4. creator' \in [Creators -> CreatorStates]
        BY <1>10, AfterAnswerIsTyped DEF CreateDuplicate
    <2> QED BY <1>10, <2>1, <2>2, <2>3, <2>4
            DEF CreateDuplicate, TypeOK, Messages
<1>11. CASE CreateChatGone(p)
    <2>1. creator[p].key \in Keys
        BY <1>11, BusyCreator DEF CreateChatGone
    <2>2. Retire(row[creator[p].key]) \in Row
        BY <2>1, RetireIsRow DEF TypeOK
    <2> QED BY <1>11, <2>1, <2>2, EndCreateIsTyped
            DEF CreateChatGone, TypeOK, chatVars
<1>12. CASE FinishTitle(p)
    <2>1. creator[p].key \in Keys
        BY <1>12, BusyCreator DEF FinishTitle
    <2>2. Retire(row[creator[p].key]) \in Row
        BY <2>1, RetireIsRow DEF TypeOK
    <2> QED BY <1>12, <2>1, <2>2, EndCreateIsTyped
            DEF FinishTitle, TypeOK, chatVars
<1>13. CASE AcceptSpoiled(p)
    <2> DEFINE k == creator[p].key
               shown == Finalize(row[k], creator[p].state, creator[p].last)
    <2>1. /\ k \in Keys /\ creator[p].state \in PublicStates
          /\ creator[p].last \in Nat
        BY <1>13, AnsweredCreator DEF AcceptSpoiled
    <2>2. Refuse(shown) \in Row
        BY <2>1, FinalizeIsRow, RefuseIsRow DEF TypeOK
    <2>3. Ask(k) \in [Chats -> Seq(Messages)]
        BY <2>1, AskIsTyped
    <2> QED BY <1>13, <2>1, <2>2, <2>3, EndCreateIsTyped
            DEF AcceptSpoiled, TypeOK, Messages
<1>14. CASE DuplicateSpoiled(p)
    <2>1. creator[p].key \in Keys
        BY <1>14, BusyCreator DEF DuplicateSpoiled
    <2>2. Refuse(row[creator[p].key]) \in Row
        BY <2>1, RefuseIsRow DEF TypeOK
    <2> QED BY <1>14, <2>1, <2>2, EndCreateIsTyped
            DEF DuplicateSpoiled, TypeOK, chatVars
<1> QED BY <1>1, <1>2, <1>3, <1>4, <1>5, <1>6, <1>7, <1>8, <1>9, <1>10, <1>11,
           <1>12, <1>13, <1>14
        DEF CreateStep

LEMMA AfterGetIsTyped ==
    ASSUME TypeOK, NEW w \in Watchers, watcher[w].pc # "idle"
    PROVE  AfterGet(w) \in WatcherStates
BY BusyWatcher DEF AfterGet, WatcherStates

LEMMA RemoteLogIsTyped ==
    ASSUME TypeOK, NEW k \in Keys
    PROVE  /\ remote[k].log \in Seq(PublicStates \cup {"progress"})
           /\ Len(remote[k].log) \in Nat
BY DEF TypeOK, RemoteTask

LEMMA NextEventIsTyped ==
    ASSUME TypeOK, NEW w \in Watchers, EventReady(w)
    PROVE  /\ watcher[w].key \in Keys
           /\ watcher[w].pos + 1 \in Nat
           /\ NextEvent(w) \in PublicStates \cup {"progress"}
<1>1. watcher[w].key \in Keys /\ watcher[w].pos \in Nat
    BY BusyWatcher DEF EventReady
<1>2. watcher[w].pos + 1 \in 1..Len(remote[watcher[w].key].log)
    BY <1>1, RemoteLogIsTyped DEF EventReady
<1> QED BY <1>1, <1>2, RemoteLogIsTyped DEF NextEvent

LEMMA EndStreamIsTyped ==
    ASSUME TypeOK, NEW w \in Watchers, watcher[w].pc # "idle", EndStream(w)
    PROVE  TypeOK'
<1>1. watcher[w].key \in Keys
    BY BusyWatcher
<1>2. row[watcher[w].key] \in Row
    BY <1>1 DEF TypeOK
<1>3. FailStream(row[watcher[w].key]) \in Row
    BY <1>2, FailIsRow
<1>4. row' \in [Keys -> Row]
    BY <1>1, <1>2, <1>3 DEF EndStream, TypeOK
<1>5. watcher' \in [Watchers -> WatcherStates]
    BY DEF EndStream, TypeOK, WatcherStates
<1> QED BY <1>4, <1>5 DEF EndStream, TypeOK, chatVars

LEMMA WatchStepTyped ==
    ASSUME TypeOK, NEW w \in Watchers, WatchStep(w)
    PROVE  TypeOK'
<1>1. ASSUME NEW k \in Keys, ReadTask(w, k) PROVE TypeOK'
    <2>1. [pc |-> "reading", key |-> k, pos |-> 0] \in WatcherStates
        BY DEF WatcherStates
    <2> QED BY <1>1, <2>1 DEF ReadTask, TypeOK, chatVars
<1>2. ASSUME NEW k \in Keys, NEW from \in {0, row[k].cursor}, OpenStream(w, k, from)
      PROVE  TypeOK'
    <2>1. from \in Nat
        BY DEF TypeOK, Row
    <2>2. [pc |-> "streaming", key |-> k, pos |-> from] \in WatcherStates
        BY <2>1 DEF WatcherStates
    <2> QED BY <1>2, <2>2 DEF OpenStream, TypeOK, chatVars
<1>3. CASE RemoteGet(w)
    <2> DEFINE k == watcher[w].key
               pc == IF watcher[w].pc = "reading" THEN "read" ELSE "confirmed"
    <2>1. k \in Keys /\ watcher[w].pos \in Nat
        BY <1>3, BusyWatcher DEF RemoteGet, Awaiting
    <2>2. remote[k].state \in PublicStates
        BY <1>3, <2>1 DEF RemoteGet, TypeOK, RemoteTask
    <2>3. [pc |-> pc, key |-> k, pos |-> watcher[w].pos,
           state |-> remote[k].state, last |-> Len(remote[k].log)] \in WatcherStates
        BY <2>1, <2>2, RemoteLogIsTyped DEF WatcherStates
    <2> QED BY <1>3, <2>3 DEF RemoteGet, TypeOK, chatVars
<1>4. CASE FinishGet(w)
    <2> DEFINE k == watcher[w].key
               s == watcher[w].state
               updated == UpdateSummary(row[k], s, watcher[w].last)
    <2>1. k \in Keys /\ s \in PublicStates /\ watcher[w].last \in Nat
        BY <1>4, ReceivedWatcher DEF FinishGet
    <2>2. row[k] \in Row
        BY <2>1 DEF TypeOK
    <2>3. ApplyProjection(Settle(updated), s) \in Row
        BY <2>1, <2>2, UpdateSummaryIsRow, SettleIsRow, ApplyProjectionIsRow
    <2>4. FailStream(row[k]) \in Row
        BY <2>2, FailIsRow
    <2>5. ProjectInto(msgs, updated, s, k) \in [Chats -> Seq(Messages)]
        BY <2>1, ProjectIsTyped DEF TypeOK, Messages
    <2>6. AfterGet(w) \in WatcherStates
        BY <1>4, AfterGetIsTyped DEF FinishGet, Received
    <2>7. row' \in [Keys -> Row]
        BY <1>4, <2>1, <2>3, <2>4 DEF FinishGet, TypeOK
    <2>8. msgs' \in [Chats -> Seq(Messages)]
        BY <1>4, <2>5 DEF FinishGet, TypeOK, Messages
    <2>9. watcher' \in [Watchers -> WatcherStates]
        BY <1>4, <2>6 DEF FinishGet, TypeOK
    <2> QED BY <1>4, <2>7, <2>8, <2>9 DEF FinishGet, TypeOK, Messages
<1>5. CASE GetLost(w)
    <2>1. watcher[w].pc # "idle" /\ watcher[w].key \in Keys
        BY <1>5, BusyWatcher DEF GetLost, Awaiting, Received
    <2>2. FailStream(row[watcher[w].key]) \in Row
        BY <2>1, FailIsRow DEF TypeOK
    <2>3. AfterGet(w) \in WatcherStates
        BY <2>1, AfterGetIsTyped
    <2> QED BY <1>5, <2>1, <2>2, <2>3 DEF GetLost, TypeOK, chatVars
<1>6. CASE RelayEvent(w)
    <2>1. /\ watcher[w] \in WatcherStates
          /\ watcher[w].pc = "streaming"
          /\ watcher[w].key \in Keys
          /\ watcher[w].pos + 1 \in Nat
        BY <1>6, NextEventIsTyped DEF RelayEvent, EventReady, TypeOK
    <2>2. watcher[w] = [pc |-> "streaming", key |-> watcher[w].key,
                        pos |-> watcher[w].pos]
        BY <2>1 DEF WatcherStates, Idle
    <2>3. [watcher[w] EXCEPT !.pos = @ + 1] \in WatcherStates
        BY <2>1, <2>2 DEF WatcherStates
    <2> QED BY <1>6, <2>3 DEF RelayEvent, TypeOK, chatVars
<1>7. CASE StreamEvent(w)
    <2> DEFINE k == watcher[w].key
               id == watcher[w].pos + 1
               pc == IF NextEvent(w) \in TerminalStates
                     THEN "confirming" ELSE "streaming"
    <2>1. k \in Keys /\ id \in Nat /\ NextEvent(w) \in PublicStates \cup {"progress"}
        BY <1>7, NextEventIsTyped DEF StreamEvent
    <2>2. Settle(ApplyEvent(row[k], NextEvent(w), id)) \in Row
        BY <2>1, ApplyEventIsRow, SettleIsRow DEF TypeOK
    <2>3. [pc |-> pc, key |-> k, pos |-> id] \in WatcherStates
        BY <2>1 DEF WatcherStates
    <2> QED BY <1>7, <2>1, <2>2, <2>3 DEF StreamEvent, TypeOK, chatVars
<1>8. CASE StreamMisfit(w)
    BY <1>8, EndStreamIsTyped DEF StreamMisfit, EventReady
<1>9. CASE StreamLost(w)
    BY <1>9, EndStreamIsTyped DEF StreamLost
<1>10. CASE StreamClosed(w)
    BY <1>10 DEF StreamClosed, TypeOK, WatcherStates, chatVars
<1>11. CASE GetSpoiled(w)
    <2> DEFINE k == watcher[w].key
               updated == UpdateSummary(row[k], watcher[w].state, watcher[w].last)
    <2>1. /\ k \in Keys /\ watcher[w].state \in PublicStates
          /\ watcher[w].last \in Nat
        BY <1>11, ReceivedWatcher DEF GetSpoiled
    <2>2. FailStream(updated) \in Row
        BY <2>1, UpdateSummaryIsRow, FailIsRow DEF TypeOK
    <2>3. AfterGet(w) \in WatcherStates
        BY <1>11, AfterGetIsTyped DEF GetSpoiled, Received
    <2> QED BY <1>11, <2>1, <2>2, <2>3 DEF GetSpoiled, TypeOK, chatVars
<1>12. CASE StreamSpoiled(w)
    <2> DEFINE k == watcher[w].key
               told == ApplyEvent(row[k], "progress", watcher[w].pos + 1)
    <2>1. k \in Keys /\ watcher[w].pos + 1 \in Nat
        BY <1>12, NextEventIsTyped DEF StreamSpoiled
    <2>2. told \in Row
        BY <2>1, ApplyEventIsRow DEF TypeOK
    <2>3. FailStream(told) \in Row
        BY <2>2, FailIsRow
    <2>4. row' \in [Keys -> Row]
        BY <1>12, <2>2, <2>3 DEF StreamSpoiled, TypeOK
    <2>5. watcher' \in [Watchers -> WatcherStates]
        BY <1>12 DEF StreamSpoiled, TypeOK, WatcherStates
    <2> QED BY <1>12, <2>4, <2>5 DEF StreamSpoiled, TypeOK, chatVars
<1> QED BY <1>1, <1>2, <1>3, <1>4, <1>5, <1>6, <1>7, <1>8, <1>9, <1>10, <1>11,
           <1>12
        DEF WatchStep

LEMMA EndCancelIsTyped ==
    ASSUME TypeOK, NEW x \in Cancellers, EndCancel(x)
    PROVE  canceller' \in [Cancellers -> CancellerStates]
BY DEF TypeOK, EndCancel, CancellerStates

LEMMA CancelStepTyped ==
    ASSUME TypeOK, NEW x \in Cancellers, CancelStep(x)
    PROVE  TypeOK'
<1>1. ASSUME NEW k \in Keys, StartCancel(x, k) PROVE TypeOK'
    <2>1. [pc |-> "cancelling", key |-> k] \in CancellerStates
        BY DEF CancellerStates
    <2> QED BY <1>1, <2>1 DEF StartCancel, TypeOK, chatVars
<1>2. CASE RemoteCancel(x)
    <2> DEFINE k == canceller[x].key
               t == remote[k]
               after == IF t.state \in TerminalStates \cup {"cancel_requested"}
                        THEN t
                        ELSE [t EXCEPT !.state = "cancel_requested",
                                       !.log = Append(@, "cancel_requested")]
    <2>1. k \in Keys /\ t \in RemoteTask /\ t.state # "none"
        BY <1>2, BusyCanceller DEF RemoteCancel, TypeOK
    <2>2. Append(t.log, "cancel_requested") \in Seq(PublicStates \cup {"progress"})
        BY <2>1, RemoteLogIsTyped DEF PublicStates, ActiveStates
    <2>3. after \in RemoteTask /\ after.state \in PublicStates
        BY <2>1, <2>2 DEF RemoteTask, PublicStates, ActiveStates
    <2>4. Len(after.log) \in Nat
        BY <2>3 DEF RemoteTask
    <2>5. [pc |-> "answered", key |-> k, state |-> after.state,
           last |-> Len(after.log)] \in CancellerStates
        BY <2>1, <2>3, <2>4 DEF CancellerStates
    <2>6. remote' \in [Keys -> RemoteTask]
        BY <1>2, <2>3 DEF RemoteCancel, TypeOK
    <2> QED BY <1>2, <2>5, <2>6 DEF RemoteCancel, TypeOK, chatVars
<1>3. CASE FinishCancel(x)
    <2> DEFINE k == canceller[x].key
    <2>1. k \in Keys /\ canceller[x].state \in PublicStates /\ canceller[x].last \in Nat
        BY <1>3, AnsweredCanceller DEF FinishCancel
    <2>2. Settle(UpdateSummary(row[k], canceller[x].state, canceller[x].last)) \in Row
        BY <2>1, UpdateSummaryIsRow, SettleIsRow DEF TypeOK
    <2> QED BY <1>3, <2>1, <2>2, EndCancelIsTyped DEF FinishCancel, TypeOK, chatVars
<1>4. CASE CancelRefused(x)
    BY <1>4, EndCancelIsTyped DEF CancelRefused, TypeOK, chatVars
<1>5. CASE CancelLost(x)
    <2> DEFINE k == canceller[x].key
    <2>1. row[k] \in Row
        BY <1>5, BusyCanceller DEF CancelLost, TypeOK
    <2>2. [row[k] EXCEPT !.state = "cancel_requested",
                         !.sync = "unreachable"] \in Row
        BY <2>1 DEF Row, PublicStates, ActiveStates
    <2> QED BY <1>5, <2>1, <2>2, EndCancelIsTyped DEF CancelLost, TypeOK, chatVars
<1> QED BY <1>1, <1>2, <1>3, <1>4, <1>5 DEF CancelStep

LEMMA RemoteStepTyped ==
    ASSUME TypeOK, NEW k \in Keys, RemoteStep(k)
    PROVE  TypeOK'
<1>1. PICK e \in RemoteSuccessors(remote[k].state) :
          remote' = [remote EXCEPT
                       ![k].state = IF e = "progress" THEN @ ELSE e,
                       ![k].log = Append(@, e)]
    BY DEF RemoteStep
<1>2. e \in PublicStates \cup {"progress"}
    BY <1>1 DEF RemoteSuccessors, PublicStates, ActiveStates
<1>3. Append(remote[k].log, e) \in Seq(PublicStates \cup {"progress"})
    BY <1>2, RemoteLogIsTyped
<1>4. [remote[k] EXCEPT !.state = IF e = "progress" THEN @ ELSE e,
                        !.log = Append(@, e)] \in RemoteTask
    BY <1>2, <1>3 DEF TypeOK, RemoteTask
<1>5. remote' \in [Keys -> RemoteTask]
    BY <1>1, <1>4 DEF TypeOK
<1> QED BY <1>5 DEF RemoteStep, TypeOK, chatVars, handlers

LEMMA RestartIsTyped ==
    ASSUME TypeOK, Restart
    PROVE  /\ creator' \in [Creators -> CreatorStates]
           /\ watcher' \in [Watchers -> WatcherStates]
           /\ canceller' \in [Cancellers -> CancellerStates]
           /\ generating' \in [Chats -> BOOLEAN]
BY DEF Restart, CreatorStates, WatcherStates, CancellerStates

LEMMA StoppedIsTyped ==
    ASSUME TypeOK, NEW k \in Keys, NEW rows \in SUBSET Row, Stopped(k, rows),
           msgs' \in [Chats -> Seq(Messages)]
    PROVE  TypeOK'
BY RestartIsTyped DEF Stopped, TypeOK, Messages

LEMMA ServerStepTyped ==
    ASSUME TypeOK, ServerStep
    PROVE  TypeOK'
<1>0. /\ msgs \in [Chats -> Seq(Messages)]
      /\ \A k \in Keys : row[k] \in Row
    BY DEF TypeOK, Messages
<1>1. ASSUME NEW k \in Keys, ReadOrphan(k) PROVE TypeOK'
    BY <1>0, <1>1, FailIsRow DEF ReadOrphan, TypeOK, chatVars, handlers
<1>2. ASSUME NEW k \in Keys, CleanupInputs(k) PROVE TypeOK'
    <2>1. [row[k] EXCEPT !.inputs = "deleted"] \in Row
        BY <1>0 DEF Row
    <2> QED BY <1>2, <2>1 DEF CleanupInputs, TypeOK, chatVars, handlers
<1>3. ASSUME NEW c \in Chats, ClaimGeneration(c) PROVE TypeOK'
    BY <1>3 DEF ClaimGeneration, TypeOK, handlers
<1>4. ASSUME NEW c \in Chats, ReleaseGeneration(c) PROVE TypeOK'
    BY <1>4 DEF ReleaseGeneration, TypeOK, handlers
<1>5. ASSUME NEW c \in Chats, DeleteChat(c) PROVE TypeOK'
    <2>1. [msgs EXCEPT ![c] = <<>>] \in [Chats -> Seq(Messages)]
        BY <1>0
    <2> QED BY <1>5, <2>1 DEF DeleteChat, TypeOK, handlers, Messages
<1>6. CASE Disconnect
    <2>1. ASSUME NEW k \in Keys
          PROVE  [row[k] EXCEPT !.live = FALSE,
                                !.sync = IF row[k].state \in TerminalStates
                                         THEN @ ELSE "unreachable"] \in Row
        <3> DEFINE r == row[k]
        <3>1. r \in Row
            BY <1>0
        <3> HIDE DEF r
        <3>2. /\ [r EXCEPT !.live = FALSE, !.sync = r.sync] \in Row
              /\ [r EXCEPT !.live = FALSE, !.sync = "unreachable"] \in Row
            BY <3>1 DEF Row
        <3>3. [r EXCEPT !.live = FALSE,
                        !.sync = IF r.state \in TerminalStates
                                 THEN @ ELSE "unreachable"] \in Row
            BY <3>2
        <3> QED BY <3>3 DEF r
    <2> QED BY <1>6, <1>0, <2>1 DEF Disconnect, TypeOK, chatVars, handlers
<1>7. CASE Crash
    BY <1>7, RestartIsTyped DEF Crash, TypeOK
<1>8. CASE TornDisconnect
    <2>1. ASSUME NEW k \in Keys PROVE [row[k] EXCEPT !.live = FALSE] \in Row
        BY <1>0 DEF Row
    <2> QED BY <1>8, <2>1, RestartIsTyped DEF TornDisconnect, TypeOK
<1>9. ASSUME NEW k \in Keys, TornAgain(k) PROVE TypeOK'
    <2>1. [row[k] EXCEPT !.inputs = "kept"] \in Row
        BY <1>0 DEF Row
    <2> QED BY <1>0, <1>9, <2>1, StoppedIsTyped DEF TornAgain
<1>10. ASSUME NEW k \in Keys, TornOrphan(k) PROVE TypeOK'
    BY <1>0, <1>10, FailIsRow, StagesAreRows, StoppedIsTyped DEF TornOrphan
<1>11. ASSUME NEW k \in Keys, NEW c \in Chats \cup {NoChat}, TornFirst(k, c)
       PROVE  TypeOK'
    BY <1>0, <1>11, SubmittedIsRow, StoppedIsTyped DEF TornFirst
<1>12. ASSUME NEW p \in Creators, TornAccept(p) PROVE TypeOK'
    <2> DEFINE k == creator[p].key
               s == creator[p].state
               shown == Finalize(row[k], s, creator[p].last)
    <2>1. k \in Keys /\ s \in PublicStates /\ creator[p].last \in Nat
        BY <1>12, AnsweredCreator DEF TornAccept
    <2>2. /\ shown \in Row /\ ApplyProjection(shown, s) \in Row
          /\ HalfRefuse(shown) \in Row
        BY <1>0, <2>1, FinalizeIsRow, ApplyProjectionIsRow, RefuseIsRow
    <2>3. Stages(ApplyProjection(shown, s)) \in SUBSET Row
        BY <2>2, StagesAreRows
    <2>4. /\ Ask(k) \in [Chats -> Seq(Messages)]
          /\ ProjectInto(Ask(k), shown, s, k) \in [Chats -> Seq(Messages)]
        BY <2>1, AskIsTyped, ProjectIsTyped
    <2>5. PICK rows \in SUBSET Row : Stopped(k, rows)
        BY <1>12, <2>2, <2>3 DEF TornAccept
    <2>6. msgs' \in [Chats -> Seq(Messages)]
        BY <1>12, <2>4 DEF TornAccept
    <2> QED BY <2>1, <2>5, <2>6, StoppedIsTyped
<1>13. ASSUME NEW p \in Creators, TornDuplicate(p) PROVE TypeOK'
    <2> DEFINE k == creator[p].key
               s == creator[p].state
               projected == ApplyProjection(row[k], s)
    <2>1. k \in Keys
        BY <1>13, BusyCreator DEF TornDuplicate
    <2>2. projected \in Row
        BY <1>0, <2>1, ApplyProjectionIsRow
    <2>3. [projected EXCEPT !.live = FALSE] \in Row
        BY <2>2 DEF Row
    <2>4. msgs' \in [Chats -> Seq(Messages)]
        BY <1>0, <1>13, <2>1, ProjectIsTyped DEF TornDuplicate
    <2>5. PICK rows \in SUBSET Row : Stopped(k, rows)
        BY <1>13, <2>2, <2>3 DEF TornDuplicate
    <2> QED BY <2>1, <2>4, <2>5, StoppedIsTyped
<1>14. ASSUME NEW p \in Creators, TornRetire(p) PROVE TypeOK'
    <2> DEFINE k == creator[p].key
    <2>1. k \in Keys
        BY <1>14, BusyCreator DEF TornRetire
    <2>2. /\ Abandon(k) \in Row /\ Retire(Abandon(k)) \in Row
          /\ row[k].live \in BOOLEAN
        BY <1>0, <2>1, AbandonIsRow, RetireIsRow DEF Row
    <2>3. /\ [Retire(Abandon(k)) EXCEPT !.live = row[k].live] \in Row
          /\ [row[k] EXCEPT !.live = FALSE] \in Row
        BY <1>0, <2>1, <2>2 DEF Row
    <2>4. PICK rows \in SUBSET Row : Stopped(k, rows)
        BY <1>14, <2>2, <2>3 DEF TornRetire
    <2> QED BY <1>0, <1>14, <2>1, <2>4, StoppedIsTyped DEF TornRetire
<1>15. ASSUME NEW w \in Watchers, TornGet(w) PROVE TypeOK'
    <2> DEFINE k == watcher[w].key
               updated == UpdateSummary(row[k], watcher[w].state, watcher[w].last)
    <2>1. k \in Keys /\ updated \in Row
        BY <1>0, <1>15, ReceivedWatcher, UpdateSummaryIsRow DEF TornGet
    <2>2. Stages(updated) \cup Stages(Fail(updated)) \in SUBSET Row
        BY <2>1, FailIsRow, StagesAreRows
    <2> QED BY <1>0, <1>15, <2>1, <2>2, StoppedIsTyped DEF TornGet
<1>16. ASSUME NEW w \in Watchers, TornEvent(w) PROVE TypeOK'
    <2> DEFINE k == watcher[w].key
               told == ApplyEvent(row[k], NextEvent(w), watcher[w].pos + 1)
               rows == Stages(told) \cup IF NextEvent(w) = "progress"
                                        THEN Stages(Fail(told)) ELSE {}
    <2>1. k \in Keys /\ told \in Row
        BY <1>0, <1>16, NextEventIsTyped, ApplyEventIsRow DEF TornEvent
    <2>2. rows \in SUBSET Row
        BY <2>1, FailIsRow, StagesAreRows
    <2>3. Stopped(k, rows) /\ msgs' = msgs
        BY <1>16 DEF TornEvent
    <2> QED BY <1>0, <2>1, <2>2, <2>3, StoppedIsTyped
<1>17. ASSUME NEW w \in Watchers, TornFailure(w) PROVE TypeOK'
    BY <1>0, <1>17, BusyWatcher, FailIsRow, StagesAreRows, StoppedIsTyped
       DEF TornFailure
<1>18. ASSUME NEW x \in Cancellers, TornCancel(x) PROVE TypeOK'
    BY <1>0, <1>18, AnsweredCanceller, UpdateSummaryIsRow, StagesAreRows,
       StoppedIsTyped DEF TornCancel
<1>19. ASSUME NEW ks \in SUBSET Keys, DismissCreator(ks) PROVE TypeOK'
    BY <1>0, <1>19, DismissIsRow DEF DismissCreator, TypeOK, chatVars, handlers
<1>20. ASSUME NEW p \in Creators, TornSpoiled(p) PROVE TypeOK'
    BY <1>0, <1>20, BusyCreator, RefuseIsRow, StoppedIsTyped DEF TornSpoiled
<1> QED BY <1>1, <1>2, <1>3, <1>4, <1>5, <1>6, <1>7, <1>8, <1>9, <1>10, <1>11,
           <1>12, <1>13, <1>14, <1>15, <1>16, <1>17, <1>18, <1>19, <1>20
        DEF ServerStep

(* Every variable keeps its shape, for every instance of the gateway. *)
THEOREM TypeCorrect == Spec => []TypeOK
<1>1. TypeOK /\ [Next]_vars => TypeOK'
    <2> SUFFICES ASSUME TypeOK, [Next]_vars PROVE TypeOK'
        OBVIOUS
    <2>1. CASE UNCHANGED vars
        BY <2>1 DEF vars, TypeOK
    <2>2. CASE Next
        BY <2>2, CreateStepTyped, WatchStepTyped, CancelStepTyped,
           RemoteStepTyped, ServerStepTyped DEF Next
    <2> QED BY <2>1, <2>2
<1> QED BY <1>1, InitTyped, PTL DEF Spec

-----------------------------------------------------------------------------
(* What a step may make of one row.  learnt is the state that the step     *)
(* stores on the module's word, "none" if it stores none.                  *)

Shown(r) == r.visible <=> r.state \in PublicStates

RowStep(r, q, learnt) ==
    /\ Shown(q)
    /\ r.state \in TerminalStates => q.state = r.state
    /\ r.visible => q.visible /\ q.cursor >= r.cursor
    /\ r.state # "absent" => q.state # "absent" /\ q.chat = r.chat
    /\ q.state = "abandoned" => r.state = "abandoned" \/ MayReject
    /\ q.state \in {"succeeded", "cancelled"} => q.state \in {r.state, learnt}

LEMMA RowStays ==
    ASSUME NEW r \in Row, Shown(r) PROVE RowStep(r, r, "none")
BY DEF RowStep, Row

(* Operations that leave state, visibility and cursor alone. *)
LEMMA RetireKeepsStep ==
    ASSUME NEW r \in Row, NEW q \in Row, NEW s, RowStep(r, q, s)
    PROVE  /\ RowStep(r, Retire(q), s)
           /\ RowStep(r, Settle(q), s)
           /\ RowStep(r, [q EXCEPT !.live = FALSE], s)
           /\ \A u \in Stages(q) : RowStep(r, u, s)
<1>1. RowStep(r, Retire(q), s)
    BY DEF RowStep, Shown, Retire, Row
<1>2. RowStep(r, [q EXCEPT !.live = FALSE], s)
    BY DEF RowStep, Shown, Row
<1> QED BY <1>1, <1>2 DEF Settle, Stages

LEMMA RefuseKeepsStep ==
    ASSUME NEW r \in Row, NEW q \in Row, NEW s, RowStep(r, q, s)
    PROVE  RowStep(r, Refuse(q), s) /\ RowStep(r, HalfRefuse(q), s)
<1>1. RowStep(r, Retire(q), s) /\ Retire(q) \in Row
    BY RetireKeepsStep, RetireIsRow
<1>2. ASSUME NEW u \in Row, RowStep(r, u, s)
      PROVE  RowStep(r, [u EXCEPT !.refused = TRUE], s)
    BY <1>2 DEF RowStep, Shown, Row
<1>3. RowStep(r, HalfRefuse(q), s)
    BY DEF HalfRefuse, RowStep, Shown, Row
<1> QED BY <1>1, <1>2, <1>3 DEF Refuse

LEMMA DismissStep ==
    ASSUME NEW r \in Row, Shown(r) PROVE RowStep(r, Dismiss(r), "none")
BY DEF RowStep, Shown, Dismiss, Row

LEMMA ProjectionKeepsStep ==
    ASSUME NEW r \in Row, NEW q \in Row, NEW s, NEW t, RowStep(r, q, s)
    PROVE  RowStep(r, ApplyProjection(q, t), s)
BY DEF RowStep, Shown, ApplyProjection, Row

LEMMA ConcludeKeepsStep ==
    ASSUME NEW r \in Row, NEW q \in Row, NEW s, NEW t, RowStep(r, q, s)
    PROVE  RowStep(r, Conclude(q, t), s)
BY ProjectionKeepsStep, ApplyProjectionIsRow, RetireKeepsStep DEF Conclude

LEMMA ReportStep ==
    ASSUME NEW r \in Row, r.visible, NEW s \in PublicStates, NEW id \in Nat,
           TransitionAllowed(r.state, s), id >= r.cursor
    PROVE  RowStep(r, Suppress(Report(r, s, id)), s)
<1>1. s \notin {"absent", "abandoned"}
    BY DEF PublicStates, ActiveStates, TerminalStates
<1> QED BY <1>1 DEF RowStep, Shown, Suppress, Report, TransitionAllowed, Row

LEMMA UpdateStep ==
    ASSUME NEW r \in Row, r.visible, NEW s \in PublicStates, NEW id \in Nat,
           TransitionAllowed(r.state, s)
    PROVE  RowStep(r, UpdateSummary(r, s, id), s)
<1>1. r.cursor \in Nat
    BY DEF Row
<1> DEFINE last == IF id > r.cursor THEN id ELSE r.cursor
<1>2. last \in Nat /\ last >= r.cursor
    BY <1>1
<1> QED BY <1>2, ReportStep DEF UpdateSummary

LEMMA EventStep ==
    ASSUME NEW r \in Row, Shown(r), r.visible,
           NEW e \in PublicStates \cup {"progress"},
           NEW id \in Nat, id > r.cursor,
           e = "progress" \/ TransitionAllowed(r.state, e)
    PROVE  RowStep(r, ApplyEvent(r, e, id), e)
<1>1. r.cursor \in Nat /\ id >= r.cursor
    BY DEF Row
<1>2. CASE e = "progress"
    BY <1>1, <1>2 DEF ApplyEvent, RowStep, Shown, Suppress, Row
<1>3. CASE e # "progress"
    BY <1>1, <1>3, ReportStep DEF ApplyEvent
<1> QED BY <1>2, <1>3

LEMMA FailStep ==
    ASSUME NEW r \in Row, Shown(r), r.visible
    PROVE  /\ RowStep(r, Fail(r), "none")
           /\ RowStep(r, FailStream(r), "none")
           /\ \A u \in Stages(Fail(r)) : RowStep(r, u, "none")
<1>1. r.cursor \in Nat
    BY DEF Row
<1>2. RowStep(r, Fail(r), "none")
    BY <1>1 DEF RowStep, Shown, Fail, Row, PublicStates, TerminalStates
<1>3. Fail(r) \in Row
    BY FailIsRow
<1> QED BY <1>2, <1>3, RetireKeepsStep DEF FailStream

(* The failure that follows what a handler has just stored. *)
LEMMA FailAfterStep ==
    ASSUME NEW r \in Row, NEW q \in Row, NEW s, RowStep(r, q, s), q.visible
    PROVE  /\ RowStep(r, FailStream(q), s)
           /\ \A u \in Stages(Fail(q)) : RowStep(r, u, s)
<1>1. r.cursor \in Nat /\ q.cursor \in Nat
    BY DEF Row
<1>2. RowStep(r, Fail(q), s)
    <2>1. CASE q.state \in TerminalStates
        BY <2>1 DEF Fail
    <2>2. CASE q.state \notin TerminalStates
        <3> DEFINE f == [q EXCEPT !.state = "failed", !.sync = "unreachable",
                                  !.cursor = @ + 1, !.proj = "suppressed"]
        <3>1. /\ f.state = "failed" /\ f.visible
              /\ f.cursor = q.cursor + 1 /\ f.chat = q.chat
            BY DEF Row
        <3>2. Fail(q) = f
            BY <2>2 DEF Fail
        <3>3. r.state \notin TerminalStates
            BY <2>2 DEF RowStep
        <3> HIDE DEF f
        <3> QED BY <1>1, <3>1, <3>2, <3>3
                DEF RowStep, Shown, PublicStates, TerminalStates
    <2> QED BY <2>1, <2>2
<1>3. Fail(q) \in Row
    BY FailIsRow
<1> QED BY <1>2, <1>3, RetireKeepsStep DEF FailStream

LEMMA FinalizeStep ==
    ASSUME NEW r \in Row, Shown(r), ~r.visible,
           NEW s \in PublicStates, NEW id \in Nat
    PROVE  RowStep(r, Finalize(r, s, id), s)
<1>1. s \notin {"absent", "abandoned"}
    BY DEF PublicStates, ActiveStates, TerminalStates
<1> QED BY <1>1 DEF RowStep, Shown, Finalize, Report, Row, PublicStates

-----------------------------------------------------------------------------
(* Every step of the gateway is such a step for every row, and what it     *)
(* learns was told: an answer some handler holds, or an event of the task. *)

Told(k, s) ==
    \/ s = "none"
    \/ \E p \in Creators : /\ creator[p].pc = "answered"
                           /\ creator[p].key = k /\ creator[p].state = s
    \/ \E w \in Watchers : /\ watcher[w].pc \in Received
                           /\ watcher[w].key = k /\ watcher[w].state = s
    \/ \E x \in Cancellers : /\ canceller[x].pc = "answered"
                             /\ canceller[x].key = k /\ canceller[x].state = s
    \/ \E i \in DOMAIN remote[k].log : remote[k].log[i] = s

RowsMove ==
    \A k \in Keys : \E s \in PublicStates \cup {"none", "progress"} :
        Told(k, s) /\ RowStep(row[k], row'[k], s)

(* Readers and cancellers only ever work on tasks that are visible, and    *)
(* creators on rows that exist.                                            *)
SlotsVisible ==
    /\ \A p \in Creators :
          /\ creator[p].pc # "idle" => row[creator[p].key].state # "absent"
          /\ creator[p].pc = "rejected" => MayReject
    /\ \A w \in Watchers : watcher[w].pc # "idle" => row[watcher[w].key].visible
    /\ \A x \in Cancellers :
          canceller[x].pc # "idle" => row[canceller[x].key].visible

ShownInv ==
    /\ TypeOK
    /\ \A k \in Keys : Shown(row[k])
    /\ SlotsVisible

LEMMA NoRowMoves == ASSUME ShownInv, row' = row PROVE RowsMove
<1>1. ASSUME NEW k \in Keys
      PROVE  Told(k, "none") /\ RowStep(row[k], row'[k], "none")
    BY RowStays DEF ShownInv, TypeOK, Told
<1> QED BY <1>1 DEF RowsMove

LEMMA OneRowMoves ==
    ASSUME ShownInv, NEW j \in Keys, NEW q, row' = [row EXCEPT ![j] = q],
           NEW s \in PublicStates \cup {"none", "progress"},
           Told(j, s), RowStep(row[j], q, s)
    PROVE  RowsMove
<1>1. ASSUME NEW k \in Keys
      PROVE  \E t \in PublicStates \cup {"none", "progress"} :
                Told(k, t) /\ RowStep(row[k], row'[k], t)
    <2>1. CASE k = j
        BY <2>1 DEF ShownInv, TypeOK
    <2>2. CASE k # j
        <3>1. row'[k] = row[k] /\ row[k] \in Row /\ Shown(row[k])
            BY <2>2 DEF ShownInv, TypeOK
        <3>2. Told(k, "none") /\ RowStep(row[k], row'[k], "none")
            BY <3>1, RowStays DEF Told
        <3> QED BY <3>2
    <2> QED BY <2>1, <2>2
<1> QED BY <1>1 DEF RowsMove

(* The same for a handler that is stopped between two commits. *)
LEMMA StoppedMoves ==
    ASSUME ShownInv, NEW j \in Keys, NEW rows, Stopped(j, rows),
           NEW s \in PublicStates \cup {"none", "progress"}, Told(j, s),
           \A q \in rows : RowStep(row[j], q, s)
    PROVE  RowsMove
BY OneRowMoves DEF Stopped

LEMMA SubmitStep ==
    ASSUME NEW k \in Keys, row[k] \in Row, Shown(row[k]),
           NEW c \in Chats \cup {NoChat}, MaySubmit(k, c)
    PROVE  /\ RowStep(row[k], Submitted(k, c), "none")
           /\ RowStep(row[k], Issue(Submitted(k, c)), "none")
BY DEF RowStep, Shown, Submitted, Issue, MaySubmit, Row, PublicStates,
       ActiveStates, TerminalStates

LEMMA ResubmitStep ==
    ASSUME NEW k \in Keys, row[k] \in Row, Shown(row[k]), MayResubmit(k)
    PROVE  /\ RowStep(row[k], Issue(row[k]), "none")
           /\ RowStep(row[k], [row[k] EXCEPT !.inputs = "kept"], "none")
BY DEF RowStep, Shown, Issue, MayResubmit, Row, PublicStates

LEMMA AbandonStep ==
    ASSUME NEW k \in Keys, row[k] \in Row, Shown(row[k]), MayReject,
           row[k].state # "absent"
    PROVE  /\ RowStep(row[k], Abandon(k), "none")
           /\ RowStep(row[k], Retire(Abandon(k)), "none")
BY DEF RowStep, Shown, Abandon, Retire, Row, PublicStates, ActiveStates,
       TerminalStates

LEMMA CreateStepMoves ==
    ASSUME ShownInv, NEW p \in Creators, CreateStep(p)
    PROVE  RowsMove
<1> DEFINE k == creator[p].key
           s == creator[p].state
<1>0. \A j \in Keys : row[j] \in Row /\ Shown(row[j]) /\ Told(j, "none")
    BY DEF ShownInv, TypeOK, Told
<1>1. ASSUME NEW j \in Keys, NEW c \in Chats \cup {NoChat}, CreateFirst(p, j, c)
      PROVE  RowsMove
    BY <1>0, <1>1, SubmitStep, OneRowMoves DEF CreateFirst
<1>2. ASSUME NEW j \in Keys, CreateAgain(p, j) PROVE RowsMove
    BY <1>0, <1>2, ResubmitStep, OneRowMoves DEF CreateAgain
<1>3. CASE RemoteCreate(p) \/ RemoteReject(p) \/ RemoteError(p) \/ CreateLost(p)
    BY <1>3, NoRowMoves
       DEF RemoteCreate, RemoteReject, RemoteError, CreateLost
<1>4. CASE CreateRejected(p)
    <2>1. k \in Keys /\ row[k].state # "absent" /\ MayReject
        BY <1>4, BusyCreator DEF CreateRejected, ShownInv, SlotsVisible
    <2> QED BY <1>0, <1>4, <2>1, AbandonStep, OneRowMoves DEF CreateRejected
<1>5. CASE CreateErrored(p) \/ CreateChatGone(p) \/ FinishTitle(p)
    <2>1. k \in Keys /\ row' = [row EXCEPT ![k] = Retire(row[k])]
        BY <1>5, BusyCreator DEF CreateErrored, CreateChatGone, FinishTitle, ShownInv
    <2>2. RowStep(row[k], Retire(row[k]), "none")
        BY <1>0, <2>1, RowStays, RetireKeepsStep
    <2> QED BY <1>0, <2>1, <2>2, OneRowMoves
<1>6. CASE CreateAccepted(p)
    <2> DEFINE shown == Finalize(row[k], s, creator[p].last)
    <2>1. k \in Keys /\ s \in PublicStates /\ creator[p].last \in Nat
        BY <1>6, AnsweredCreator DEF CreateAccepted, ShownInv
    <2>2. Told(k, s)
        BY <1>6 DEF CreateAccepted, Told
    <2>3. shown \in Row /\ RowStep(row[k], shown, s)
        BY <1>0, <1>6, <2>1, FinalizeIsRow, FinalizeStep
           DEF CreateAccepted, Acceptable
    <2>4. RowStep(row[k], Conclude(shown, s), s)
        BY <1>0, <2>1, <2>3, ConcludeKeepsStep
    <2> QED BY <1>6, <2>1, <2>2, <2>4, OneRowMoves DEF CreateAccepted
<1>7. CASE CreateDuplicate(p)
    <2>1. k \in Keys
        BY <1>7, BusyCreator DEF CreateDuplicate, ShownInv
    <2>2. RowStep(row[k], Conclude(row[k], s), "none")
        BY <1>0, <2>1, RowStays, ConcludeKeepsStep
    <2> QED BY <1>0, <1>7, <2>1, <2>2, OneRowMoves DEF CreateDuplicate
<1>8. CASE AcceptSpoiled(p)
    <2> DEFINE shown == Finalize(row[k], s, creator[p].last)
    <2>1. k \in Keys /\ s \in PublicStates /\ creator[p].last \in Nat
        BY <1>8, AnsweredCreator DEF AcceptSpoiled, ShownInv
    <2>2. Told(k, s)
        BY <1>8 DEF AcceptSpoiled, Told
    <2>3. shown \in Row /\ RowStep(row[k], shown, s)
        BY <1>0, <1>8, <2>1, FinalizeIsRow, FinalizeStep
           DEF AcceptSpoiled, Acceptable
    <2>4. RowStep(row[k], Refuse(shown), s)
        BY <1>0, <2>1, <2>3, RefuseKeepsStep
    <2> QED BY <1>8, <2>1, <2>2, <2>4, OneRowMoves DEF AcceptSpoiled
<1>9. CASE DuplicateSpoiled(p)
    <2>1. k \in Keys
        BY <1>9, BusyCreator DEF DuplicateSpoiled, ShownInv
    <2>2. RowStep(row[k], Refuse(row[k]), "none")
        BY <1>0, <2>1, RowStays, RefuseKeepsStep
    <2> QED BY <1>0, <1>9, <2>1, <2>2, OneRowMoves DEF DuplicateSpoiled
<1> QED BY <1>1, <1>2, <1>3, <1>4, <1>5, <1>6, <1>7, <1>8, <1>9 DEF CreateStep

LEMMA NextEventStep ==
    ASSUME ShownInv, NEW w \in Watchers, EventReady(w), EventIsNew(w), EventFits(w)
    PROVE  LET k == watcher[w].key
               q == ApplyEvent(row[k], NextEvent(w), watcher[w].pos + 1)
           IN  /\ q \in Row
               /\ RowStep(row[k], q, NextEvent(w))
               /\ Told(k, NextEvent(w))
<1> DEFINE k == watcher[w].key
           id == watcher[w].pos + 1
<1>1. k \in Keys /\ id \in Nat /\ NextEvent(w) \in PublicStates \cup {"progress"}
    BY NextEventIsTyped DEF ShownInv
<1>2. row[k] \in Row /\ Shown(row[k]) /\ row[k].visible
    BY <1>1 DEF ShownInv, TypeOK, SlotsVisible, EventReady
<1>3. id > row[k].cursor
    BY DEF EventIsNew
<1>4. NextEvent(w) = "progress" \/ TransitionAllowed(row[k].state, NextEvent(w))
    BY DEF EventFits
<1>5. ApplyEvent(row[k], NextEvent(w), id) \in Row
    BY <1>1, <1>2, ApplyEventIsRow
<1>6. RowStep(row[k], ApplyEvent(row[k], NextEvent(w), id), NextEvent(w))
    BY <1>1, <1>2, <1>3, <1>4, EventStep
<1>7. watcher[w].pos \in Nat /\ Len(remote[k].log) \in Nat
    BY <1>1, BusyWatcher, RemoteLogIsTyped DEF EventReady, ShownInv
<1>8. id \in DOMAIN remote[k].log
    BY <1>1, <1>7, RemoteLogIsTyped DEF EventReady, ShownInv
<1>9. Told(k, NextEvent(w))
    BY <1>8 DEF Told, NextEvent
<1> QED BY <1>5, <1>6, <1>9

LEMMA WatchedRow ==
    ASSUME ShownInv, NEW w \in Watchers, watcher[w].pc # "idle"
    PROVE  /\ watcher[w].key \in Keys
           /\ row[watcher[w].key] \in Row
           /\ Shown(row[watcher[w].key])
           /\ row[watcher[w].key].visible
BY BusyWatcher DEF ShownInv, TypeOK, SlotsVisible

LEMMA WatchStepMoves ==
    ASSUME ShownInv, NEW w \in Watchers, WatchStep(w)
    PROVE  RowsMove
<1> DEFINE k == watcher[w].key
           s == watcher[w].state
<1>0. Told(k, "none")
    BY DEF Told
<1>1. ASSUME NEW j \in Keys, ReadTask(w, j) PROVE RowsMove
    BY <1>1, NoRowMoves DEF ReadTask
<1>2. ASSUME NEW j \in Keys, NEW from, OpenStream(w, j, from) PROVE RowsMove
    BY <1>2, NoRowMoves DEF OpenStream
<1>3. CASE RemoteGet(w) \/ RelayEvent(w) \/ StreamClosed(w)
    BY <1>3, NoRowMoves DEF RemoteGet, RelayEvent, StreamClosed
<1>4. CASE FinishGet(w)
    <2> DEFINE updated == UpdateSummary(row[k], s, watcher[w].last)
    <2>1. /\ watcher[w].pc # "idle"
          /\ s \in PublicStates /\ watcher[w].last \in Nat /\ Told(k, s)
        BY <1>4, ReceivedWatcher DEF FinishGet, Received, ShownInv, Told
    <2>2. k \in Keys /\ row[k] \in Row /\ Shown(row[k]) /\ row[k].visible
        BY <2>1, WatchedRow
    <2>3. CASE TransitionAllowed(row[k].state, s)
        <3>1. updated \in Row /\ RowStep(row[k], updated, s)
            BY <2>1, <2>2, <2>3, UpdateSummaryIsRow, UpdateStep
        <3>2. Settle(updated) \in Row /\ RowStep(row[k], Settle(updated), s)
            BY <2>2, <3>1, SettleIsRow, RetireKeepsStep
        <3>3. RowStep(row[k], ApplyProjection(Settle(updated), s), s)
            BY <2>2, <3>2, ProjectionKeepsStep
        <3> QED BY <1>4, <2>1, <2>2, <2>3, <3>3, OneRowMoves DEF FinishGet
    <2>4. CASE ~TransitionAllowed(row[k].state, s)
        BY <1>0, <1>4, <2>2, <2>4, FailStep, OneRowMoves DEF FinishGet
    <2> QED BY <2>3, <2>4
<1>5. CASE GetLost(w)
    <2>1. watcher[w].pc # "idle"
        BY <1>5 DEF GetLost, Awaiting, Received
    <2> QED BY <1>0, <1>5, <2>1, WatchedRow, FailStep, OneRowMoves DEF GetLost
<1>6. CASE StreamEvent(w)
    <2> DEFINE q == ApplyEvent(row[k], NextEvent(w), watcher[w].pos + 1)
    <2>1. /\ k \in Keys /\ row[k] \in Row
          /\ NextEvent(w) \in PublicStates \cup {"progress"}
        BY <1>6, WatchedRow, NextEventIsTyped DEF StreamEvent, EventReady, ShownInv
    <2>2. q \in Row /\ RowStep(row[k], q, NextEvent(w)) /\ Told(k, NextEvent(w))
        BY <1>6, NextEventStep DEF StreamEvent
    <2>3. RowStep(row[k], Settle(q), NextEvent(w))
        BY <2>1, <2>2, RetireKeepsStep
    <2> QED BY <1>6, <2>1, <2>2, <2>3, OneRowMoves DEF StreamEvent
<1>7. ASSUME watcher[w].pc # "idle", EndStream(w)
      PROVE  RowsMove
    <2>1. /\ k \in Keys
          /\ RowStep(row[k], row[k], "none")
          /\ RowStep(row[k], FailStream(row[k]), "none")
        BY <1>7, WatchedRow, RowStays, FailStep
    <2> QED BY <1>0, <1>7, <2>1, OneRowMoves DEF EndStream
<1>8. CASE StreamMisfit(w)
    BY <1>7, <1>8 DEF StreamMisfit, EventReady
<1>9. CASE StreamLost(w)
    BY <1>7, <1>9 DEF StreamLost
<1>10. CASE GetSpoiled(w)
    <2> DEFINE updated == UpdateSummary(row[k], s, watcher[w].last)
    <2>1. /\ watcher[w].pc # "idle"
          /\ s \in PublicStates /\ watcher[w].last \in Nat /\ Told(k, s)
        BY <1>10, ReceivedWatcher DEF GetSpoiled, Received, ShownInv, Told
    <2>2. k \in Keys /\ row[k] \in Row /\ Shown(row[k]) /\ row[k].visible
        BY <2>1, WatchedRow
    <2>3. updated \in Row /\ RowStep(row[k], updated, s)
        BY <1>10, <2>1, <2>2, UpdateSummaryIsRow, UpdateStep DEF GetSpoiled
    <2>4. updated.visible
        BY <2>2, <2>3 DEF RowStep
    <2>5. RowStep(row[k], FailStream(updated), s)
        BY <2>2, <2>3, <2>4, FailAfterStep
    <2> QED BY <1>10, <2>1, <2>2, <2>5, OneRowMoves DEF GetSpoiled
<1>11. CASE StreamSpoiled(w)
    <2> DEFINE told == ApplyEvent(row[k], "progress", watcher[w].pos + 1)
    <2>1. k \in Keys /\ row[k] \in Row /\ row[k].visible
        BY <1>11, WatchedRow DEF StreamSpoiled, EventReady
    <2>2. told \in Row /\ RowStep(row[k], told, "progress") /\ Told(k, "progress")
        BY <1>11, NextEventStep DEF StreamSpoiled, EventFits
    <2>3. told.visible
        BY <2>1, <2>2 DEF RowStep
    <2>4. RowStep(row[k], FailStream(told), "progress")
        BY <2>1, <2>2, <2>3, FailAfterStep
    <2> QED BY <1>11, <2>1, <2>2, <2>4, OneRowMoves DEF StreamSpoiled
<1> QED BY <1>1, <1>2, <1>3, <1>4, <1>5, <1>6, <1>8, <1>9, <1>10, <1>11 DEF WatchStep

LEMMA CancelledRow ==
    ASSUME ShownInv, NEW x \in Cancellers, canceller[x].pc # "idle"
    PROVE  /\ canceller[x].key \in Keys
           /\ row[canceller[x].key] \in Row
           /\ Shown(row[canceller[x].key])
           /\ row[canceller[x].key].visible
BY BusyCanceller DEF ShownInv, TypeOK, SlotsVisible

LEMMA CancelUpdate ==
    ASSUME ShownInv, NEW x \in Cancellers, canceller[x].pc = "answered",
           TransitionAllowed(row[canceller[x].key].state, canceller[x].state)
    PROVE  LET k == canceller[x].key
               q == UpdateSummary(row[k], canceller[x].state, canceller[x].last)
           IN  q \in Row /\ RowStep(row[k], q, canceller[x].state)
BY CancelledRow, AnsweredCanceller, UpdateSummaryIsRow, UpdateStep DEF ShownInv

LEMMA CancelStepMoves ==
    ASSUME ShownInv, NEW x \in Cancellers, CancelStep(x)
    PROVE  RowsMove
<1> DEFINE k == canceller[x].key
           s == canceller[x].state
<1>0. Told(k, "none")
    BY DEF Told
<1>1. ASSUME NEW j \in Keys, StartCancel(x, j) PROVE RowsMove
    BY <1>1, NoRowMoves DEF StartCancel
<1>2. CASE RemoteCancel(x) \/ CancelRefused(x)
    BY <1>2, NoRowMoves DEF RemoteCancel, CancelRefused
<1>3. CASE FinishCancel(x)
    <2>1. /\ canceller[x].pc = "answered" /\ k \in Keys /\ row[k] \in Row
          /\ s \in PublicStates /\ Told(k, s)
          /\ RowStep(row[k], row[k], "none")
        BY <1>3, CancelledRow, AnsweredCanceller, RowStays
           DEF FinishCancel, ShownInv, Told
    <2>2. CASE TransitionAllowed(row[k].state, s)
        <3> DEFINE q == UpdateSummary(row[k], s, canceller[x].last)
        <3>1. RowStep(row[k], Settle(q), s)
            BY <2>1, <2>2, CancelUpdate, RetireKeepsStep
        <3> QED BY <1>3, <2>1, <2>2, <3>1, OneRowMoves DEF FinishCancel
    <2>3. CASE ~TransitionAllowed(row[k].state, s)
        BY <1>0, <1>3, <2>1, <2>3, OneRowMoves DEF FinishCancel
    <2> QED BY <2>2, <2>3
<1>4. CASE CancelLost(x)
    <2> DEFINE q == IF row[k].state \in TerminalStates THEN row[k]
                    ELSE [row[k] EXCEPT !.state = "cancel_requested",
                                        !.sync = "unreachable"]
    <2>1. k \in Keys /\ row[k] \in Row /\ Shown(row[k]) /\ row[k].visible
        BY <1>4, CancelledRow DEF CancelLost
    <2>2. RowStep(row[k], q, "none")
        BY <2>1 DEF RowStep, Shown, Row, PublicStates, ActiveStates
    <2> QED BY <1>0, <1>4, <2>1, <2>2, OneRowMoves DEF CancelLost
<1> QED BY <1>1, <1>2, <1>3, <1>4 DEF CancelStep

LEMMA ServerStepMoves ==
    ASSUME ShownInv, ServerStep
    PROVE  RowsMove
<1>0. \A j \in Keys : /\ row[j] \in Row /\ Shown(row[j]) /\ Told(j, "none")
                      /\ RowStep(row[j], row[j], "none")
    BY RowStays DEF ShownInv, TypeOK, Told
<1>1. ASSUME NEW j \in Keys, ReadOrphan(j) PROVE RowsMove
    BY <1>0, <1>1, FailStep, OneRowMoves DEF ReadOrphan, MayReconcile
<1>2. ASSUME NEW j \in Keys, CleanupInputs(j) PROVE RowsMove
    <2>1. RowStep(row[j], [row[j] EXCEPT !.inputs = "deleted"], "none")
        BY <1>0 DEF RowStep, Shown, Row
    <2> QED BY <1>0, <1>2, <2>1, OneRowMoves DEF CleanupInputs
<1>3. ASSUME NEW c \in Chats,
             ClaimGeneration(c) \/ ReleaseGeneration(c) \/ DeleteChat(c)
      PROVE  RowsMove
    BY <1>3, NoRowMoves DEF ClaimGeneration, ReleaseGeneration, DeleteChat
<1>4. ASSUME Disconnect \/ TornDisconnect PROVE RowsMove
    <2>1. ASSUME NEW j \in Keys
          PROVE  /\ row'[j].state = row[j].state
                 /\ row'[j].visible = row[j].visible
                 /\ row'[j].cursor = row[j].cursor
                 /\ row'[j].chat = row[j].chat
        <3>1. CASE Disconnect
            BY <1>0, <3>1 DEF Disconnect, Row
        <3>2. CASE TornDisconnect
            BY <1>0, <3>2 DEF TornDisconnect, Row
        <3> QED BY <1>4, <3>1, <3>2
    <2>2. ASSUME NEW j \in Keys PROVE RowStep(row[j], row'[j], "none")
        BY <1>0, <2>1 DEF RowStep, Shown
    <2> QED BY <1>0, <2>2 DEF RowsMove
<1>5. CASE Crash
    BY <1>5, NoRowMoves DEF Crash
<1>6. ASSUME NEW j \in Keys, TornAgain(j) PROVE RowsMove
    BY <1>0, <1>6, ResubmitStep, StoppedMoves DEF TornAgain
<1>7. ASSUME NEW j \in Keys, TornOrphan(j) PROVE RowsMove
    BY <1>0, <1>7, FailStep, StoppedMoves DEF TornOrphan, MayReconcile
<1>8. ASSUME NEW j \in Keys, NEW c \in Chats \cup {NoChat}, TornFirst(j, c)
      PROVE  RowsMove
    BY <1>0, <1>8, SubmitStep, StoppedMoves DEF TornFirst
<1>9. ASSUME NEW p \in Creators, TornAccept(p) PROVE RowsMove
    <2> DEFINE k == creator[p].key
               s == creator[p].state
               shown == Finalize(row[k], s, creator[p].last)
               projected == ApplyProjection(shown, s)
    <2>1. /\ k \in Keys /\ s \in PublicStates /\ creator[p].last \in Nat
          /\ Told(k, s)
        BY <1>9, AnsweredCreator DEF TornAccept, ShownInv, Told
    <2>2. shown \in Row /\ RowStep(row[k], shown, s)
        BY <1>0, <1>9, <2>1, FinalizeIsRow, FinalizeStep DEF TornAccept, Acceptable
    <2>3. projected \in Row /\ RowStep(row[k], projected, s)
        BY <1>0, <2>1, <2>2, ProjectionKeepsStep, ApplyProjectionIsRow
    <2>4. /\ \A q \in Stages(projected) : RowStep(row[k], q, s)
          /\ \A q \in {shown, HalfRefuse(shown)} : RowStep(row[k], q, s)
        BY <1>0, <2>1, <2>2, <2>3, RetireKeepsStep, RefuseKeepsStep
    <2>5. Stopped(k, {shown, HalfRefuse(shown)}) \/ Stopped(k, Stages(projected))
        BY <1>9 DEF TornAccept
    <2> HIDE DEF shown, projected
    <2> QED BY <2>1, <2>4, <2>5, StoppedMoves
<1>10. ASSUME NEW p \in Creators, TornDuplicate(p) PROVE RowsMove
    <2> DEFINE k == creator[p].key
               projected == ApplyProjection(row[k], creator[p].state)
               rows == {projected, [projected EXCEPT !.live = FALSE]}
    <2>1. k \in Keys
        BY <1>10, BusyCreator DEF TornDuplicate, ShownInv
    <2>2. projected \in Row /\ RowStep(row[k], projected, "none")
        BY <1>0, <2>1, ProjectionKeepsStep, ApplyProjectionIsRow
    <2>3. \A q \in rows : RowStep(row[k], q, "none")
        BY <1>0, <2>1, <2>2, RetireKeepsStep
    <2>4. Stopped(k, rows)
        BY <1>10 DEF TornDuplicate
    <2> HIDE DEF rows
    <2> QED BY <1>0, <2>1, <2>3, <2>4, StoppedMoves
<1>11. ASSUME NEW p \in Creators, TornRetire(p) PROVE RowsMove
    <2> DEFINE k == creator[p].key
               given == [Retire(Abandon(k)) EXCEPT !.live = row[k].live]
               revoked == [row[k] EXCEPT !.live = FALSE]
    <2>1. k \in Keys /\ row[k].state # "absent"
        BY <1>11, BusyCreator DEF TornRetire, ShownInv, SlotsVisible
    <2>2. MayReject => RowStep(row[k], given, "none")
        <3> SUFFICES ASSUME MayReject PROVE RowStep(row[k], given, "none")
            OBVIOUS
        <3>1. Retire(Abandon(k)) \in Row /\ RowStep(row[k], Retire(Abandon(k)), "none")
            BY <1>0, <2>1, AbandonIsRow, RetireIsRow, AbandonStep DEF ShownInv
        <3> QED BY <3>1 DEF RowStep, Shown, Row
    <2>3. /\ MayReject => RowStep(row[k], Abandon(k), "none")
          /\ RowStep(row[k], revoked, "none")
        BY <1>0, <2>1, AbandonStep, RetireKeepsStep
    <2>4. \/ MayReject /\ Stopped(k, {Abandon(k), given})
          \/ Stopped(k, {revoked})
        BY <1>11 DEF TornRetire, ShownInv, SlotsVisible
    <2> HIDE DEF given, revoked
    <2>5. CASE MayReject /\ Stopped(k, {Abandon(k), given})
        BY <1>0, <2>1, <2>2, <2>3, <2>5, StoppedMoves
    <2>6. CASE Stopped(k, {revoked})
        BY <1>0, <2>1, <2>3, <2>6, StoppedMoves
    <2> QED BY <2>4, <2>5, <2>6
<1>12. ASSUME NEW w \in Watchers, TornGet(w) PROVE RowsMove
    <2> DEFINE k == watcher[w].key
               s == watcher[w].state
               q == UpdateSummary(row[k], s, watcher[w].last)
    <2>1. /\ watcher[w].pc # "idle"
          /\ s \in PublicStates /\ watcher[w].last \in Nat /\ Told(k, s)
        BY <1>12, ReceivedWatcher DEF TornGet, Received, ShownInv, Told
    <2>2. k \in Keys /\ row[k] \in Row /\ row[k].visible
        BY <2>1, WatchedRow
    <2>3. q \in Row /\ RowStep(row[k], q, s)
        BY <1>12, <2>1, <2>2, UpdateSummaryIsRow, UpdateStep DEF TornGet
    <2>4. q.visible
        BY <2>2, <2>3 DEF RowStep
    <2>5. \A u \in Stages(q) \cup Stages(Fail(q)) : RowStep(row[k], u, s)
        BY <2>2, <2>3, <2>4, RetireKeepsStep, FailAfterStep
    <2>6. Stopped(k, Stages(q) \cup Stages(Fail(q)))
        BY <1>12 DEF TornGet
    <2> HIDE DEF q
    <2> QED BY <2>1, <2>2, <2>5, <2>6, StoppedMoves
<1>13. ASSUME NEW w \in Watchers, TornEvent(w) PROVE RowsMove
    <2> DEFINE k == watcher[w].key
               e == NextEvent(w)
               q == ApplyEvent(row[k], e, watcher[w].pos + 1)
               rows == Stages(q) \cup IF e = "progress" THEN Stages(Fail(q)) ELSE {}
    <2>1. /\ k \in Keys /\ row[k] \in Row /\ row[k].visible
          /\ e \in PublicStates \cup {"progress"}
        BY <1>13, WatchedRow, NextEventIsTyped DEF TornEvent, EventReady, ShownInv
    <2>2. q \in Row /\ RowStep(row[k], q, e) /\ Told(k, e)
        BY <1>13, NextEventStep DEF TornEvent
    <2>3. q.visible
        BY <2>1, <2>2 DEF RowStep
    <2>4. \A u \in Stages(q) \cup Stages(Fail(q)) : RowStep(row[k], u, e)
        BY <2>1, <2>2, <2>3, RetireKeepsStep, FailAfterStep
    <2>5. \A u \in rows : RowStep(row[k], u, e)
        BY <2>4
    <2>6. Stopped(k, rows)
        BY <1>13 DEF TornEvent
    <2> HIDE DEF rows, q, e
    <2> QED BY <2>1, <2>2, <2>5, <2>6, StoppedMoves
<1>14. ASSUME NEW w \in Watchers, TornFailure(w) PROVE RowsMove
    BY <1>0, <1>14, WatchedRow, FailStep, StoppedMoves DEF TornFailure
<1>15. ASSUME NEW x \in Cancellers, TornCancel(x) PROVE RowsMove
    <2> DEFINE k == canceller[x].key
               s == canceller[x].state
               q == UpdateSummary(row[k], s, canceller[x].last)
    <2>1. /\ canceller[x].pc = "answered" /\ k \in Keys /\ row[k] \in Row
          /\ s \in PublicStates /\ Told(k, s)
        BY <1>15, CancelledRow, AnsweredCanceller DEF TornCancel, ShownInv, Told
    <2>2. q \in Row /\ RowStep(row[k], q, s)
        BY <1>15, <2>1, CancelUpdate DEF TornCancel
    <2>3. \A u \in Stages(q) : RowStep(row[k], u, s)
        BY <2>1, <2>2, RetireKeepsStep
    <2>4. Stopped(k, Stages(q))
        BY <1>15 DEF TornCancel
    <2> HIDE DEF q, s
    <2> QED BY <2>1, <2>3, <2>4, StoppedMoves
<1>16. ASSUME NEW ks \in SUBSET Keys, DismissCreator(ks) PROVE RowsMove
    <2>1. ASSUME NEW j \in Keys PROVE RowStep(row[j], row'[j], "none")
        BY <1>0, <1>16, DismissStep DEF DismissCreator
    <2> QED BY <1>0, <2>1 DEF RowsMove
<1>17. ASSUME NEW p \in Creators, TornSpoiled(p) PROVE RowsMove
    <2> DEFINE k == creator[p].key
    <2>1. k \in Keys
        BY <1>17, BusyCreator DEF TornSpoiled, ShownInv
    <2>2. RowStep(row[k], HalfRefuse(row[k]), "none")
        BY <1>0, <2>1, RefuseKeepsStep
    <2> QED BY <1>0, <1>17, <2>1, <2>2, StoppedMoves DEF TornSpoiled
<1> QED BY <1>1, <1>2, <1>3, <1>4, <1>5, <1>6, <1>7, <1>8, <1>9, <1>10, <1>11,
           <1>12, <1>13, <1>14, <1>15, <1>16, <1>17 DEF ServerStep

LEMMA EveryStepMoves == ASSUME ShownInv, [Next]_vars PROVE RowsMove
<1>1. CASE UNCHANGED vars
    BY <1>1, NoRowMoves DEF vars
<1>2. ASSUME NEW k \in Keys, RemoteStep(k) PROVE RowsMove
    BY <1>2, NoRowMoves DEF RemoteStep
<1> QED BY <1>1, <1>2, CreateStepMoves, WatchStepMoves, CancelStepMoves,
           ServerStepMoves DEF Next

-----------------------------------------------------------------------------
(* Which handlers a step leaves alone.                                     *)

LEMMA CreateFrame ==
    ASSUME NEW p \in Creators, CreateStep(p)
    PROVE  /\ UNCHANGED <<watcher, canceller>>
           /\ remote' = remote \/ RemoteCreate(p)
BY DEF CreateStep, CreateFirst, CreateAgain, RemoteCreate, RemoteReject, RemoteError,
   CreateLost, CreateRejected, CreateErrored, CreateAccepted, CreateDuplicate,
   CreateChatGone, AcceptSpoiled, DuplicateSpoiled, FinishTitle

LEMMA WatchFrame ==
    ASSUME NEW w \in Watchers, WatchStep(w)
    PROVE  UNCHANGED <<creator, canceller, remote>>
BY DEF WatchStep, ReadTask, OpenStream, RemoteGet, FinishGet, GetSpoiled, GetLost,
   RelayEvent, StreamEvent, StreamMisfit, StreamSpoiled, StreamLost, StreamClosed,
   EndStream

LEMMA CancelFrame ==
    ASSUME NEW x \in Cancellers, CancelStep(x)
    PROVE  /\ UNCHANGED <<creator, watcher>>
           /\ remote' = remote \/ RemoteCancel(x)
BY DEF CancelStep, StartCancel, RemoteCancel, FinishCancel, CancelRefused, CancelLost

LEMMA ServerFrame ==
    ASSUME ServerStep
    PROVE  /\ remote' = remote
           /\ Restart \/ UNCHANGED handlers
BY DEF ServerStep, ReadOrphan, CleanupInputs, ClaimGeneration, ReleaseGeneration,
   DeleteChat, DismissCreator, Disconnect, Crash, TornDisconnect, TornAgain,
   TornOrphan, TornFirst, TornAccept, TornDuplicate, TornSpoiled, TornRetire, TornGet, TornEvent, TornFailure,
   TornCancel, Stopped

-----------------------------------------------------------------------------
(* The invariant behind the row properties.                                *)

LEMMA WatchedStays ==
    ASSUME ShownInv, [Next]_vars, NEW w \in Watchers, watcher'[w].pc # "idle"
    PROVE  /\ watcher'[w].key \in Keys
           /\ row[watcher'[w].key].visible
<1>0. watcher \in [Watchers -> WatcherStates]
    BY DEF ShownInv, TypeOK
<1>1. CASE watcher'[w] = watcher[w]
    BY <1>1, WatchedRow
<1>2. CASE watcher'[w] = Idle
    BY <1>2 DEF Idle
<1>3. ASSUME NEW k \in Keys, ReadTask(w, k) PROVE watcher'[w].key = k /\ row[k].visible
    BY <1>0, <1>3 DEF ReadTask, MayReconcile
<1>4. ASSUME NEW k \in Keys, NEW from, OpenStream(w, k, from)
      PROVE  watcher'[w].key = k /\ row[k].visible
    BY <1>0, <1>4 DEF OpenStream
<1>5. CASE /\ watcher[w].pc # "idle"
           /\ watcher'[w].key = watcher[w].key
    BY <1>5, WatchedRow
<1>6. ASSUME WatchStep(w)
      PROVE  \/ \E k \in Keys : ReadTask(w, k)
             \/ \E k \in Keys : \E from \in {0, row[k].cursor} : OpenStream(w, k, from)
             \/ watcher'[w] = Idle
             \/ /\ watcher[w].pc # "idle"
                /\ watcher'[w].key = watcher[w].key
    <2>1. CASE RemoteGet(w)
        BY <1>0, <2>1 DEF RemoteGet, Awaiting
    <2>2. CASE FinishGet(w) \/ GetSpoiled(w) \/ GetLost(w)
        BY <1>0, <2>2 DEF FinishGet, GetSpoiled, GetLost, Awaiting, Received, AfterGet
    <2>3. CASE RelayEvent(w)
        <3>1. /\ watcher[w] \in WatcherStates
              /\ watcher[w].pc # "idle"
              /\ watcher'[w] = [watcher[w] EXCEPT !.pos = @ + 1]
            BY <1>0, <2>3 DEF RelayEvent, EventReady
        <3> QED BY <3>1 DEF WatcherStates, Idle
    <2>4. CASE StreamEvent(w)
        BY <1>0, <2>4 DEF StreamEvent, EventReady
    <2>5. CASE \/ StreamMisfit(w) \/ StreamLost(w)
               \/ StreamSpoiled(w) \/ StreamClosed(w)
        BY <1>0, <2>5 DEF StreamMisfit, StreamLost, StreamSpoiled, StreamClosed,
           EndStream
    <2> QED BY <1>6, <2>1, <2>2, <2>3, <2>4, <2>5 DEF WatchStep
<1>7. ASSUME NEW v \in Watchers, v # w, WatchStep(v) PROVE watcher'[w] = watcher[w]
    BY <1>0, <1>7 DEF WatchStep, ReadTask, OpenStream, RemoteGet, FinishGet,
       GetSpoiled, GetLost, RelayEvent, StreamEvent, StreamMisfit, StreamSpoiled,
       StreamLost, StreamClosed, EndStream
<1>8. ASSUME NEW p \in Creators, CreateStep(p) PROVE watcher' = watcher
    BY <1>8, CreateFrame
<1>9. ASSUME NEW x \in Cancellers, CancelStep(x) PROVE watcher' = watcher
    BY <1>9, CancelFrame
<1>10. ASSUME NEW k \in Keys, RemoteStep(k) PROVE watcher' = watcher
    BY <1>10 DEF RemoteStep, handlers
<1>11. ASSUME ServerStep PROVE watcher' = watcher \/ watcher'[w] = Idle
    BY <1>11, ServerFrame DEF Restart, handlers
<1>12. CASE UNCHANGED vars
    BY <1>1, <1>12 DEF vars
<1>13. CASE Next
    BY <1>1, <1>2, <1>3, <1>4, <1>5, <1>6, <1>7, <1>8, <1>9, <1>10, <1>11, <1>13 DEF Next
<1> QED BY <1>12, <1>13

LEMMA CancelledStays ==
    ASSUME ShownInv, [Next]_vars, NEW x \in Cancellers, canceller'[x].pc # "idle"
    PROVE  /\ canceller'[x].key \in Keys
           /\ row[canceller'[x].key].visible
<1>0. canceller \in [Cancellers -> CancellerStates]
    BY DEF ShownInv, TypeOK
<1>1. CASE canceller'[x] = canceller[x]
    BY <1>1, CancelledRow
<1>2. CASE canceller'[x] = Idle
    BY <1>2 DEF Idle
<1>3. ASSUME NEW k \in Keys, StartCancel(x, k)
      PROVE  canceller'[x].key = k /\ row[k].visible
    BY <1>0, <1>3 DEF StartCancel
<1>4. CASE RemoteCancel(x)
    BY <1>0, <1>4, CancelledRow DEF RemoteCancel
<1>5. ASSUME NEW y \in Cancellers, CancelStep(y)
      PROVE  \/ canceller'[x] \in {canceller[x], Idle}
             \/ \E k \in Keys : StartCancel(x, k)
             \/ RemoteCancel(x)
    BY <1>0, <1>5 DEF CancelStep, StartCancel, RemoteCancel, FinishCancel,
       CancelRefused, CancelLost, EndCancel
<1>6. ASSUME NEW p \in Creators, CreateStep(p) PROVE canceller' = canceller
    BY <1>6, CreateFrame
<1>7. ASSUME NEW w \in Watchers, WatchStep(w) PROVE canceller' = canceller
    BY <1>7, WatchFrame
<1>8. ASSUME NEW k \in Keys, RemoteStep(k) PROVE canceller' = canceller
    BY <1>8 DEF RemoteStep, handlers
<1>9. ASSUME ServerStep PROVE canceller' = canceller \/ canceller'[x] = Idle
    BY <1>9, ServerFrame DEF Restart, handlers
<1>10. CASE UNCHANGED vars
    BY <1>1, <1>10 DEF vars
<1>11. CASE Next
    BY <1>1, <1>2, <1>3, <1>4, <1>5, <1>6, <1>7, <1>8, <1>9, <1>11 DEF Next
<1> QED BY <1>10, <1>11

LEMMA CreatorStays ==
    ASSUME ShownInv, [Next]_vars, NEW p \in Creators, creator'[p].pc # "idle"
    PROVE  /\ creator'[p].key \in Keys
           /\ \/ row[creator'[p].key].state # "absent"
              \/ row'[creator'[p].key].state # "absent"
           /\ creator'[p].pc = "rejected" => MayReject
<1>0. creator \in [Creators -> CreatorStates] /\ row \in [Keys -> Row]
    BY DEF ShownInv, TypeOK
<1>1. CASE creator'[p] = creator[p]
    BY <1>1, BusyCreator DEF ShownInv, SlotsVisible
<1>2. CASE creator'[p] = Idle
    BY <1>2 DEF Idle
<1>3. ASSUME NEW k \in Keys, NEW c \in Chats \cup {NoChat}, CreateFirst(p, k, c)
      PROVE  /\ creator'[p].key = k /\ creator'[p].pc # "rejected"
             /\ row'[k].state # "absent"
    BY <1>0, <1>3 DEF CreateFirst, SendPost, Issue, Submitted, Row
<1>4. ASSUME NEW k \in Keys, CreateAgain(p, k)
      PROVE  /\ creator'[p].key = k /\ creator'[p].pc # "rejected"
             /\ row[k].state # "absent"
    BY <1>0, <1>4 DEF CreateAgain, SendPost, MayResubmit
<1>5. CASE RemoteCreate(p) \/ RemoteReject(p) \/ RemoteError(p)
    <2>1. /\ creator[p].pc # "idle" /\ creator'[p].key = creator[p].key
          /\ creator'[p].pc = "rejected" => MayReject
        BY <1>0, <1>5 DEF RemoteCreate, RemoteReject, RemoteError, StepCreate
    <2> QED BY <2>1, BusyCreator DEF ShownInv, SlotsVisible
<1>5a. CASE CreateAccepted(p) \/ CreateDuplicate(p)
    <2>1. /\ creator[p].pc # "idle"
          /\ \/ creator'[p] = Idle
             \/ creator'[p].key = creator[p].key /\ creator'[p].pc = "titling"
        BY <1>0, <1>5a DEF CreateAccepted, CreateDuplicate, AfterAnswer, StepCreate,
           EndCreate
    <2> QED BY <1>2, <2>1, BusyCreator DEF ShownInv, SlotsVisible
<1>6. ASSUME CreateStep(p)
      PROVE  \/ creator'[p] = Idle
             \/ CreateAccepted(p) \/ CreateDuplicate(p)
             \/ \E k \in Keys, c \in Chats \cup {NoChat} : CreateFirst(p, k, c)
             \/ \E k \in Keys : CreateAgain(p, k)
             \/ RemoteCreate(p) \/ RemoteReject(p) \/ RemoteError(p)
    BY <1>0, <1>6 DEF CreateStep, CreateLost, CreateRejected, CreateErrored,
       CreateChatGone, AcceptSpoiled, DuplicateSpoiled, FinishTitle, EndCreate
<1>7. ASSUME NEW q \in Creators, q # p, CreateStep(q) PROVE creator'[p] = creator[p]
    BY <1>0, <1>7 DEF CreateStep, CreateFirst, CreateAgain, RemoteCreate, RemoteReject,
       RemoteError, CreateLost, CreateRejected, CreateErrored, CreateAccepted,
       CreateDuplicate, CreateChatGone, AcceptSpoiled, DuplicateSpoiled, FinishTitle,
       AfterAnswer, SendPost, StepCreate, EndCreate
<1>8. ASSUME NEW w \in Watchers, WatchStep(w) PROVE creator' = creator
    BY <1>8, WatchFrame
<1>9. ASSUME NEW x \in Cancellers, CancelStep(x) PROVE creator' = creator
    BY <1>9, CancelFrame
<1>10. ASSUME NEW k \in Keys, RemoteStep(k) PROVE creator' = creator
    BY <1>10 DEF RemoteStep, handlers
<1>11. ASSUME ServerStep PROVE creator' = creator \/ creator'[p] = Idle
    BY <1>11, ServerFrame DEF Restart, handlers
<1>12. CASE UNCHANGED vars
    BY <1>1, <1>12 DEF vars
<1>13. CASE Next
    BY <1>1, <1>2, <1>3, <1>4, <1>5, <1>5a, <1>6, <1>7, <1>8, <1>9, <1>10, <1>11, <1>13
       DEF Next
<1> QED BY <1>12, <1>13

LEMMA ShownInvStep == ShownInv /\ TypeOK' /\ [Next]_vars => ShownInv'
<1> SUFFICES ASSUME ShownInv, TypeOK', [Next]_vars PROVE ShownInv'
    OBVIOUS
<1>1. \A k \in Keys : /\ Shown(row'[k])
                      /\ row[k].visible => row'[k].visible
                      /\ row[k].state # "absent" => row'[k].state # "absent"
    BY EveryStepMoves DEF RowsMove, RowStep
<1>2. SlotsVisible'
    BY <1>1, CreatorStays, WatchedStays, CancelledStays DEF SlotsVisible
<1> QED BY <1>1, <1>2 DEF ShownInv

(* A task is visible exactly when its state is a public one, and handlers  *)
(* only work on rows that exist, readers and cancellers on visible ones.   *)
THEOREM ShownIsInvariant == Spec => []ShownInv
<1>1. Init => ShownInv
    <2> SUFFICES ASSUME Init PROVE ShownInv
        OBVIOUS
    <2>1. \A k \in Keys : Shown(row[k])
        BY DEF Init, AbsentRow, Shown, PublicStates, ActiveStates, TerminalStates
    <2>2. SlotsVisible
        BY DEF Init, SlotsVisible, Idle
    <2> QED BY <2>1, <2>2, InitTyped DEF ShownInv
<1> QED BY <1>1, ShownInvStep, TypeCorrect, PTL DEF Spec

-----------------------------------------------------------------------------
(* A task that has ended stays ended, whatever handlers were in flight.    *)
THEOREM TerminalStaysFinal == Spec => TerminalIsFinal
<1>1. ShownInv /\ [Next]_vars
        => [\A k \in Keys : row[k].state \in TerminalStates
                               => row'[k].state = row[k].state]_vars
    BY EveryStepMoves DEF RowsMove, RowStep
<1> QED BY <1>1, ShownIsInvariant, PTL DEF Spec, TerminalIsFinal

(* The cursor clients resume from never moves back, and an accepted task   *)
(* never disappears.                                                       *)
THEOREM CursorStaysMonotonic == Spec => CursorNeverBack
<1>1. ShownInv /\ [Next]_vars
        => [\A k \in Keys : row[k].visible
                               => row'[k].visible /\ row'[k].cursor >= row[k].cursor]_vars
    BY EveryStepMoves DEF RowsMove, RowStep
<1> QED BY <1>1, ShownIsInvariant, PTL DEF Spec, CursorNeverBack

-----------------------------------------------------------------------------
(* Honest outcomes.  A terminal state that a handler or the event log      *)
(* tells of is the state the module ended the task in.                     *)

ToldTruly ==
    \A k \in Keys : \A s \in TerminalStates : Told(k, s) => remote[k].state = s

HonestInv == ShownInv /\ ToldTruly /\ HonestOutcome

LEMMA RemoteEndIsFinal ==
    ASSUME TypeOK, [Next]_vars, NEW k \in Keys, remote[k].state \in TerminalStates
    PROVE  remote'[k].state = remote[k].state
<1>0. remote \in [Keys -> RemoteTask]
    BY DEF TypeOK
<1>1. CASE remote' = remote
    BY <1>1
<1>2. ASSUME NEW p \in Creators, RemoteCreate(p) PROVE remote'[k].state = remote[k].state
    <2> DEFINE j == creator[p].key
               accepted == IF remote[j].state = "none"
                           THEN [remote[j] EXCEPT !.state = "queued"]
                           ELSE remote[j]
    <2>1. remote' = [remote EXCEPT ![j] = [accepted EXCEPT !.tok = creator[p].gen]]
        BY <1>2 DEF RemoteCreate
    <2>2. CASE k = j
        <3>1. remote[k].state # "none"
            BY DEF TerminalStates
        <3>2. remote'[k] = [remote[k] EXCEPT !.tok = creator[p].gen]
            BY <1>0, <2>1, <2>2, <3>1
        <3> QED BY <1>0, <3>2 DEF RemoteTask
    <2> QED BY <1>0, <2>1, <2>2
<1>3. ASSUME NEW x \in Cancellers, RemoteCancel(x) PROVE remote'[k].state = remote[k].state
    BY <1>0, <1>3 DEF RemoteCancel
<1>4. ASSUME NEW j \in Keys, RemoteStep(j) PROVE remote'[k].state = remote[k].state
    BY <1>0, <1>4 DEF RemoteStep, RemoteSuccessors, TerminalStates
<1>5. ASSUME NEW p \in Creators, CreateStep(p) PROVE remote' = remote \/ RemoteCreate(p)
    BY <1>5, CreateFrame
<1>6. ASSUME NEW w \in Watchers, WatchStep(w) PROVE remote' = remote
    BY <1>6, WatchFrame
<1>7. ASSUME NEW x \in Cancellers, CancelStep(x) PROVE remote' = remote \/ RemoteCancel(x)
    BY <1>7, CancelFrame
<1>8. ASSUME ServerStep PROVE remote' = remote
    BY <1>8, ServerFrame
<1>9. CASE UNCHANGED vars
    BY <1>1, <1>9 DEF vars
<1>10. CASE Next
    BY <1>1, <1>2, <1>3, <1>4, <1>5, <1>6, <1>7, <1>8, <1>10 DEF Next
<1> QED BY <1>9, <1>10

(* An answer a handler holds after a step it either held before, or the    *)
(* module has given it in this step.                                       *)
LEMMA CreatorHears ==
    ASSUME TypeOK, [Next]_vars, NEW p \in Creators, creator'[p].pc = "answered"
    PROVE  \/ creator'[p] = creator[p]
           \/ creator'[p].state = remote'[creator'[p].key].state
<1>0. creator \in [Creators -> CreatorStates] /\ remote \in [Keys -> RemoteTask]
    BY DEF TypeOK
<1>1. CASE RemoteCreate(p)
    <2> DEFINE k == creator[p].key
               accepted == IF remote[k].state = "none"
                           THEN [remote[k] EXCEPT !.state = "queued"]
                           ELSE remote[k]
    <2>1. k \in Keys
        BY <1>1, BusyCreator DEF RemoteCreate
    <2>2. remote'[k] = [accepted EXCEPT !.tok = creator[p].gen]
        BY <1>0, <1>1, <2>1 DEF RemoteCreate
    <2>3. accepted \in RemoteTask
        BY <1>0, <2>1 DEF RemoteTask, PublicStates, ActiveStates
    <2>4. remote'[k].state = accepted.state
        BY <2>2, <2>3 DEF RemoteTask
    <2>5. creator'[p].key = k /\ creator'[p].state = accepted.state
        BY <1>0, <1>1 DEF RemoteCreate
    <2> QED BY <2>4, <2>5
<1>2. ASSUME NEW q \in Creators, CreateStep(q), ~RemoteCreate(p)
      PROVE  creator'[p] = creator[p] \/ creator'[p].pc # "answered"
    BY <1>0, <1>2 DEF CreateStep, CreateFirst, CreateAgain, RemoteCreate, RemoteReject,
       RemoteError, CreateLost, CreateRejected, CreateErrored, CreateAccepted,
       CreateDuplicate, CreateChatGone, AcceptSpoiled, DuplicateSpoiled, FinishTitle,
       AfterAnswer, SendPost, StepCreate, EndCreate, Idle
<1>3. ASSUME NEW w \in Watchers, WatchStep(w) PROVE creator' = creator
    BY <1>3, WatchFrame
<1>4. ASSUME NEW x \in Cancellers, CancelStep(x) PROVE creator' = creator
    BY <1>4, CancelFrame
<1>5. ASSUME NEW k \in Keys, RemoteStep(k) PROVE creator' = creator
    BY <1>5 DEF RemoteStep, handlers
<1>6. ASSUME ServerStep PROVE creator' = creator \/ creator'[p].pc # "answered"
    BY <1>6, ServerFrame DEF Restart, handlers, Idle
<1>7. CASE UNCHANGED vars
    BY <1>7 DEF vars
<1>8. CASE Next
    BY <1>1, <1>2, <1>3, <1>4, <1>5, <1>6, <1>8 DEF Next
<1> QED BY <1>7, <1>8

LEMMA WatcherHears ==
    ASSUME TypeOK, [Next]_vars, NEW w \in Watchers, watcher'[w].pc \in Received
    PROVE  \/ watcher'[w] = watcher[w]
           \/ watcher'[w].state = remote'[watcher'[w].key].state
<1>0. watcher \in [Watchers -> WatcherStates]
    BY DEF TypeOK
<1>1. CASE RemoteGet(w)
    BY <1>0, <1>1 DEF RemoteGet
<1>2. ASSUME NEW v \in Watchers, RelayEvent(v)
      PROVE  watcher'[w] = watcher[w] \/ watcher'[w].pc \notin Received
    <2>1. CASE v = w
        <3>1. /\ watcher[w] \in WatcherStates
              /\ watcher[w].pc = "streaming"
              /\ watcher'[w] = [watcher[w] EXCEPT !.pos = @ + 1]
            BY <1>0, <1>2, <2>1 DEF RelayEvent, EventReady
        <3>2. watcher'[w].pc = "streaming"
            BY <3>1 DEF WatcherStates, Idle
        <3> QED BY <3>2 DEF Received
    <2>2. CASE v # w
        BY <1>0, <1>2, <2>2 DEF RelayEvent
    <2> QED BY <2>1, <2>2
<1>3. ASSUME NEW v \in Watchers, WatchStep(v), ~RemoteGet(w)
      PROVE  watcher'[w] = watcher[w] \/ watcher'[w].pc \notin Received
    <2>1. CASE \/ \E k \in Keys : ReadTask(v, k)
               \/ \E k \in Keys : \E from \in {0, row[k].cursor} : OpenStream(v, k, from)
        BY <1>0, <2>1 DEF ReadTask, OpenStream, Received
    <2>2. CASE RemoteGet(v)
        BY <1>0, <1>3, <2>2 DEF RemoteGet
    <2>3. CASE FinishGet(v) \/ GetSpoiled(v) \/ GetLost(v)
        BY <1>0, <2>3 DEF FinishGet, GetSpoiled, GetLost, AfterGet, Received, Idle
    <2>4. CASE StreamEvent(v)
        BY <1>0, <2>4 DEF StreamEvent, Received
    <2>5. CASE \/ StreamMisfit(v) \/ StreamLost(v)
               \/ StreamSpoiled(v) \/ StreamClosed(v)
        BY <1>0, <2>5 DEF StreamMisfit, StreamLost, StreamSpoiled, StreamClosed,
           EndStream, Received, Idle
    <2> QED BY <1>2, <1>3, <2>1, <2>2, <2>3, <2>4, <2>5 DEF WatchStep
<1>4. ASSUME NEW p \in Creators, CreateStep(p) PROVE watcher' = watcher
    BY <1>4, CreateFrame
<1>5. ASSUME NEW x \in Cancellers, CancelStep(x) PROVE watcher' = watcher
    BY <1>5, CancelFrame
<1>6. ASSUME NEW k \in Keys, RemoteStep(k) PROVE watcher' = watcher
    BY <1>6 DEF RemoteStep, handlers
<1>7. ASSUME ServerStep PROVE watcher' = watcher \/ watcher'[w].pc \notin Received
    BY <1>7, ServerFrame DEF Restart, handlers, Idle, Received
<1>8. CASE UNCHANGED vars
    BY <1>8 DEF vars
<1>9. CASE Next
    BY <1>1, <1>3, <1>4, <1>5, <1>6, <1>7, <1>9 DEF Next
<1> QED BY <1>8, <1>9

LEMMA CancellerHears ==
    ASSUME TypeOK, [Next]_vars, NEW x \in Cancellers, canceller'[x].pc = "answered"
    PROVE  \/ canceller'[x] = canceller[x]
           \/ canceller'[x].state = remote'[canceller'[x].key].state
<1>0. canceller \in [Cancellers -> CancellerStates] /\ remote \in [Keys -> RemoteTask]
    BY DEF TypeOK
<1>1. CASE RemoteCancel(x)
    <2>1. canceller[x].key \in Keys
        BY <1>1, BusyCanceller DEF RemoteCancel
    <2> QED BY <1>0, <1>1, <2>1 DEF RemoteCancel
<1>2. ASSUME NEW y \in Cancellers, CancelStep(y), ~RemoteCancel(x)
      PROVE  canceller'[x] = canceller[x] \/ canceller'[x].pc # "answered"
    <2>1. CASE \E k \in Keys : StartCancel(y, k)
        BY <1>0, <2>1 DEF StartCancel
    <2>2. CASE RemoteCancel(y)
        BY <1>0, <1>2, <2>2 DEF RemoteCancel
    <2>3. CASE FinishCancel(y) \/ CancelRefused(y) \/ CancelLost(y)
        BY <1>0, <2>3 DEF FinishCancel, CancelRefused, CancelLost, EndCancel, Idle
    <2> QED BY <1>2, <2>1, <2>2, <2>3 DEF CancelStep
<1>3. ASSUME NEW p \in Creators, CreateStep(p) PROVE canceller' = canceller
    BY <1>3, CreateFrame
<1>4. ASSUME NEW w \in Watchers, WatchStep(w) PROVE canceller' = canceller
    BY <1>4, WatchFrame
<1>5. ASSUME NEW k \in Keys, RemoteStep(k) PROVE canceller' = canceller
    BY <1>5 DEF RemoteStep, handlers
<1>6. ASSUME ServerStep PROVE canceller' = canceller \/ canceller'[x].pc # "answered"
    BY <1>6, ServerFrame DEF Restart, handlers, Idle
<1>7. CASE UNCHANGED vars
    BY <1>7 DEF vars
<1>8. CASE Next
    BY <1>1, <1>2, <1>3, <1>4, <1>5, <1>6, <1>8 DEF Next
<1> QED BY <1>7, <1>8

LEMMA LogTells ==
    ASSUME TypeOK, [Next]_vars, NEW k \in Keys, NEW i \in DOMAIN remote'[k].log,
           remote'[k].log[i] \in TerminalStates
    PROVE  \/ /\ i \in DOMAIN remote[k].log
              /\ remote'[k].log[i] = remote[k].log[i]
           \/ remote'[k].state = remote'[k].log[i]
<1>0. /\ remote \in [Keys -> RemoteTask]
      /\ remote[k].log \in Seq(PublicStates \cup {"progress"})
    BY RemoteLogIsTyped DEF TypeOK
<1>1. CASE remote'[k].log = remote[k].log
    BY <1>1
<1>2. ASSUME NEW p \in Creators, RemoteCreate(p) PROVE remote'[k].log = remote[k].log
    <2> DEFINE j == creator[p].key
               accepted == IF remote[j].state = "none"
                           THEN [remote[j] EXCEPT !.state = "queued"]
                           ELSE remote[j]
    <2>1. remote' = [remote EXCEPT ![j] = [accepted EXCEPT !.tok = creator[p].gen]]
        BY <1>2 DEF RemoteCreate
    <2>2. CASE k = j
        BY <1>0, <2>1, <2>2 DEF RemoteTask
    <2> QED BY <1>0, <2>1, <2>2
<1>3. ASSUME NEW x \in Cancellers, RemoteCancel(x)
      PROVE  \/ remote'[k].log = remote[k].log
             \/ remote'[k].log = Append(remote[k].log, "cancel_requested")
    <2> DEFINE j == canceller[x].key
               t == remote[j]
               after == IF t.state \in TerminalStates \cup {"cancel_requested"}
                        THEN t
                        ELSE [t EXCEPT !.state = "cancel_requested",
                                       !.log = Append(@, "cancel_requested")]
    <2>1. remote' = [remote EXCEPT ![j] = after]
        BY <1>3 DEF RemoteCancel
    <2>2. CASE k = j
        <3>1. remote'[k] = after /\ t \in RemoteTask
            BY <1>0, <2>1, <2>2
        <3>2. after.log \in {t.log, Append(t.log, "cancel_requested")}
            BY <3>1 DEF RemoteTask
        <3> QED BY <2>2, <3>1, <3>2
    <2> QED BY <1>0, <2>1, <2>2
<1>4. ASSUME remote'[k].log = Append(remote[k].log, "cancel_requested")
      PROVE  /\ i \in DOMAIN remote[k].log
             /\ remote'[k].log[i] = remote[k].log[i]
    BY <1>0, <1>4 DEF TerminalStates
<1>5. ASSUME NEW j \in Keys, RemoteStep(j)
      PROVE  \/ remote'[k].log = remote[k].log
             \/ \E e : /\ remote'[k].log = Append(remote[k].log, e)
                       /\ e # "progress" => remote'[k].state = e
    <2>1. PICK e \in RemoteSuccessors(remote[j].state) :
              remote' = [remote EXCEPT
                           ![j].state = IF e = "progress" THEN @ ELSE e,
                           ![j].log = Append(@, e)]
        BY <1>5 DEF RemoteStep
    <2>2. CASE k = j
        <3>1. remote'[k] = [remote[k] EXCEPT !.state = IF e = "progress" THEN @ ELSE e,
                                             !.log = Append(@, e)]
            BY <1>0, <2>1, <2>2
        <3>2. /\ remote'[k].log = Append(remote[k].log, e)
              /\ e # "progress" => remote'[k].state = e
            BY <1>0, <3>1 DEF RemoteTask
        <3> QED BY <3>2
    <2> QED BY <1>0, <2>1, <2>2
<1>6. ASSUME NEW e, remote'[k].log = Append(remote[k].log, e),
             e # "progress" => remote'[k].state = e
      PROVE  \/ /\ i \in DOMAIN remote[k].log
                /\ remote'[k].log[i] = remote[k].log[i]
             \/ remote'[k].state = remote'[k].log[i]
    BY <1>0, <1>6 DEF TerminalStates
<1>7. CASE UNCHANGED vars
    BY <1>1, <1>7 DEF vars
<1>8. CASE Next
    BY <1>1, <1>2, <1>3, <1>4, <1>5, <1>6, <1>8, CreateFrame, WatchFrame, CancelFrame,
       ServerFrame DEF Next
<1> QED BY <1>7, <1>8

LEMMA ToldStaysTrue ==
    ASSUME TypeOK, TypeOK', ToldTruly, [Next]_vars
    PROVE  ToldTruly'
<1> SUFFICES ASSUME NEW k \in Keys, NEW s \in TerminalStates, Told(k, s)'
             PROVE  remote'[k].state = s
    BY DEF ToldTruly
<1>1. ASSUME Told(k, s) PROVE remote'[k].state = s
    BY <1>1, RemoteEndIsFinal DEF ToldTruly
<1>2. ASSUME NEW p \in Creators, creator'[p].pc = "answered",
             creator'[p].key = k, creator'[p].state = s
      PROVE  remote'[k].state = s
    BY <1>1, <1>2, CreatorHears DEF Told
<1>3. ASSUME NEW w \in Watchers, watcher'[w].pc \in Received,
             watcher'[w].key = k, watcher'[w].state = s
      PROVE  remote'[k].state = s
    BY <1>1, <1>3, WatcherHears DEF Told
<1>4. ASSUME NEW x \in Cancellers, canceller'[x].pc = "answered",
             canceller'[x].key = k, canceller'[x].state = s
      PROVE  remote'[k].state = s
    BY <1>1, <1>4, CancellerHears DEF Told
<1>5. ASSUME NEW i \in DOMAIN remote'[k].log, remote'[k].log[i] = s
      PROVE  remote'[k].state = s
    BY <1>1, <1>5, LogTells DEF Told
<1> QED BY <1>2, <1>3, <1>4, <1>5 DEF Told, TerminalStates

LEMMA HonestInvStep == HonestInv /\ ShownInv' /\ [Next]_vars => HonestInv'
<1> SUFFICES ASSUME HonestInv, ShownInv', [Next]_vars PROVE HonestInv'
    OBVIOUS
<1>1. ToldTruly'
    BY ToldStaysTrue DEF HonestInv, ShownInv
<1>2. ASSUME NEW k \in Keys, row'[k].state \in {"succeeded", "cancelled"}
      PROVE  remote'[k].state = row'[k].state
    <2>1. PICK s : Told(k, s) /\ RowStep(row[k], row'[k], s)
        BY EveryStepMoves DEF RowsMove, HonestInv
    <2>2. row'[k].state \in {row[k].state, s}
        BY <1>2, <2>1 DEF RowStep
    <2>3. row'[k].state \in TerminalStates
        BY <1>2 DEF TerminalStates
    <2>4. remote[k].state = row'[k].state
        BY <1>2, <2>1, <2>2, <2>3 DEF HonestInv, HonestOutcome, ToldTruly
    <2> QED BY <2>3, <2>4, RemoteEndIsFinal DEF HonestInv, ShownInv
<1> QED BY <1>1, <1>2 DEF HonestInv, HonestOutcome

(* Success and cancellation are reported only when the module has ended    *)
(* the task that way, for any number of handlers, duplicated creates, lost *)
(* answers, restarts and stops between two commits.                        *)
THEOREM OutcomesAreHonest == Spec => []HonestOutcome
<1>1. Init => ToldTruly /\ HonestOutcome
    BY DEF Init, ToldTruly, Told, HonestOutcome, AbsentRow, Idle, TerminalStates, Received
<1>2. Init /\ ShownInv => HonestInv
    BY <1>1 DEF HonestInv
<1>3. HonestInv => HonestOutcome
    BY DEF HonestInv
<1> QED BY <1>2, <1>3, HonestInvStep, ShownIsInvariant, PTL DEF Spec

-----------------------------------------------------------------------------
(* How a task starts to work on a chat, and a generation.                  *)

Submits(k, c) == TornFirst(k, c) \/ \E p \in Creators : CreateFirst(p, k, c)

LEMMA OnlySubmitStarts ==
    ASSUME ShownInv, [Next]_vars, NEW k \in Keys, row[k].state = "absent",
           \A c \in Chats \cup {NoChat} : ~Submits(k, c)
    PROVE  row'[k].state = "absent"
<1>0. /\ row \in [Keys -> Row]
      /\ k \in Keys
      /\ \A c \in Chats \cup {NoChat} :
            ~TornFirst(k, c) /\ \A p \in Creators : ~CreateFirst(p, k, c)
      /\ ~row[k].visible
    BY DEF ShownInv, TypeOK, Shown, Submits, PublicStates, ActiveStates, TerminalStates
<1>1. CASE row' = row
    BY <1>1
<1>2. ASSUME NEW j \in Keys, j # k, NEW q, row' = [row EXCEPT ![j] = q]
      PROVE  row'[k].state = "absent"
    BY <1>0, <1>2
<1>3. ASSUME NEW p \in Creators, creator[p].pc # "idle"
      PROVE  creator[p].key \in Keys /\ creator[p].key # k
    BY <1>3, BusyCreator DEF ShownInv, SlotsVisible
<1>4. ASSUME NEW w \in Watchers, watcher[w].pc # "idle"
      PROVE  watcher[w].key \in Keys /\ watcher[w].key # k
    BY <1>0, <1>4, WatchedRow
<1>5. ASSUME NEW x \in Cancellers, canceller[x].pc # "idle"
      PROVE  canceller[x].key \in Keys /\ canceller[x].key # k
    BY <1>0, <1>5, CancelledRow
<1>6. ASSUME NEW p \in Creators, CreateStep(p) PROVE row'[k].state = "absent"
    <2>1. ASSUME NEW j \in Keys, NEW c \in Chats \cup {NoChat}, CreateFirst(p, j, c)
          PROVE  row'[k].state = "absent"
        BY <1>0, <1>2, <2>1 DEF CreateFirst
    <2>2. ASSUME NEW j \in Keys, CreateAgain(p, j) PROVE row'[k].state = "absent"
        BY <1>2, <2>2 DEF CreateAgain, MayResubmit
    <2>3. CASE RemoteCreate(p) \/ RemoteReject(p) \/ RemoteError(p) \/ CreateLost(p)
        BY <1>1, <2>3 DEF RemoteCreate, RemoteReject, RemoteError, CreateLost
    <2>4. CASE \/ CreateRejected(p) \/ CreateErrored(p) \/ CreateAccepted(p)
               \/ CreateDuplicate(p) \/ CreateChatGone(p) \/ AcceptSpoiled(p)
               \/ DuplicateSpoiled(p) \/ FinishTitle(p)
        BY <1>2, <1>3, <2>4 DEF CreateRejected, CreateErrored, CreateAccepted,
           CreateDuplicate, CreateChatGone, AcceptSpoiled, DuplicateSpoiled, FinishTitle
    <2> QED BY <1>6, <2>1, <2>2, <2>3, <2>4 DEF CreateStep
<1>7. ASSUME NEW w \in Watchers, WatchStep(w) PROVE row'[k].state = "absent"
    <2>1. CASE \/ \E j \in Keys : ReadTask(w, j)
               \/ \E j \in Keys : \E from \in {0, row[j].cursor} : OpenStream(w, j, from)
               \/ RemoteGet(w) \/ RelayEvent(w) \/ StreamClosed(w)
        BY <1>1, <2>1 DEF ReadTask, OpenStream, RemoteGet, RelayEvent, StreamClosed
    <2>2. CASE \/ FinishGet(w) \/ GetSpoiled(w) \/ GetLost(w)
               \/ StreamEvent(w) \/ StreamSpoiled(w)
        BY <1>2, <1>4, <2>2 DEF FinishGet, GetSpoiled, GetLost, StreamEvent, StreamSpoiled, EventReady, Awaiting,
           Received
    <2>3. CASE StreamMisfit(w) \/ StreamLost(w)
        BY <1>2, <1>4, <2>3 DEF StreamMisfit, StreamLost, EndStream, EventReady
    <2> QED BY <1>7, <2>1, <2>2, <2>3 DEF WatchStep
<1>8. ASSUME NEW x \in Cancellers, CancelStep(x) PROVE row'[k].state = "absent"
    BY <1>1, <1>2, <1>5, <1>8 DEF CancelStep, StartCancel, RemoteCancel, FinishCancel,
       CancelRefused, CancelLost
<1>9. ASSUME NEW j \in Keys, NEW rows, Stopped(j, rows), j # k
      PROVE  row'[k].state = "absent"
    BY <1>2, <1>9 DEF Stopped
<1>10. ASSUME ServerStep PROVE row'[k].state = "absent"
    <2>1. ASSUME NEW j \in Keys,
                 ReadOrphan(j) \/ CleanupInputs(j) \/ TornAgain(j) \/ TornOrphan(j)
          PROVE  row'[k].state = "absent"
        <3>1. CASE j # k
            BY <1>2, <1>9, <2>1, <3>1 DEF ReadOrphan, CleanupInputs, TornAgain, TornOrphan
        <3>2. CASE j = k
            BY <1>0, <2>1, <3>2 DEF ReadOrphan, CleanupInputs, TornAgain, TornOrphan,
               MayReconcile, MayResubmit, Row
        <3> QED BY <3>1, <3>2
    <2>2. CASE \/ \E c \in Chats : \/ ClaimGeneration(c) \/ ReleaseGeneration(c)
                                   \/ DeleteChat(c)
               \/ Crash
        BY <1>1, <2>2 DEF ClaimGeneration, ReleaseGeneration, DeleteChat, Crash
    <2>3. CASE Disconnect
        BY <1>0, <2>3 DEF Disconnect
    <2>4. CASE TornDisconnect
        BY <1>0, <2>4 DEF TornDisconnect, Row
    <2>5. ASSUME NEW j \in Keys, NEW c \in Chats \cup {NoChat}, TornFirst(j, c)
          PROVE  row'[k].state = "absent"
        BY <1>0, <1>9, <2>5 DEF TornFirst
    <2>6. ASSUME NEW p \in Creators,
                 \/ TornAccept(p) \/ TornDuplicate(p) \/ TornSpoiled(p) \/ TornRetire(p)
          PROVE  row'[k].state = "absent"
        BY <1>3, <1>9, <2>6 DEF TornAccept, TornDuplicate, TornSpoiled, TornRetire
    <2>7. ASSUME NEW w \in Watchers, TornGet(w) \/ TornEvent(w) \/ TornFailure(w)
          PROVE  row'[k].state = "absent"
        BY <1>4, <1>9, <2>7 DEF TornGet, TornEvent, TornFailure, EventReady, Received
    <2>8. ASSUME NEW x \in Cancellers, TornCancel(x) PROVE row'[k].state = "absent"
        BY <1>5, <1>9, <2>8 DEF TornCancel
    <2>9. ASSUME NEW ks \in SUBSET Keys, DismissCreator(ks)
          PROVE  row'[k].state = "absent"
        <3>1. Dismiss(row[k]).state = "absent"
            BY <1>0 DEF Dismiss, Row
        <3> QED BY <1>0, <2>9, <3>1 DEF DismissCreator
    <2> QED BY <1>10, <2>1, <2>2, <2>3, <2>4, <2>5, <2>6, <2>7, <2>8, <2>9 DEF ServerStep
<1>11. ASSUME NEW j \in Keys, RemoteStep(j) PROVE row'[k].state = "absent"
    BY <1>1, <1>11 DEF RemoteStep
<1>12. CASE UNCHANGED vars
    BY <1>1, <1>12 DEF vars
<1> QED BY <1>6, <1>7, <1>8, <1>10, <1>11, <1>12 DEF Next

LEMMA GenerationClaimed ==
    ASSUME TypeOK, [Next]_vars, NEW c \in Chats, generating'[c], ~generating[c]
    PROVE  ClaimGeneration(c) /\ row' = row
<1>0. generating \in [Chats -> BOOLEAN]
    BY DEF TypeOK
<1>1. ASSUME NEW d \in Chats, ClaimGeneration(d)
      PROVE  ClaimGeneration(c) /\ row' = row
    BY <1>0, <1>1 DEF ClaimGeneration
<1>2. ASSUME NEW d \in Chats, ReleaseGeneration(d) PROVE FALSE
    BY <1>0, <1>2 DEF ReleaseGeneration
<1>3. CASE generating' = generating
    BY <1>3
<1>4. ASSUME NEW p \in Creators, CreateStep(p) PROVE generating' = generating
    BY <1>4 DEF CreateStep, CreateFirst, CreateAgain, RemoteCreate, RemoteReject,
       RemoteError, CreateLost, CreateRejected, CreateErrored, CreateAccepted,
       CreateDuplicate, CreateChatGone, AcceptSpoiled, DuplicateSpoiled, FinishTitle,
       chatVars
<1>5. ASSUME NEW w \in Watchers, WatchStep(w) PROVE generating' = generating
    BY <1>5 DEF WatchStep, ReadTask, OpenStream, RemoteGet, FinishGet, GetSpoiled,
       GetLost, RelayEvent, StreamEvent, StreamMisfit, StreamSpoiled, StreamLost,
       StreamClosed, EndStream, chatVars
<1>6. ASSUME NEW x \in Cancellers, CancelStep(x) PROVE generating' = generating
    BY <1>6 DEF CancelStep, StartCancel, RemoteCancel, FinishCancel, CancelRefused,
       CancelLost, chatVars
<1>7. ASSUME NEW k \in Keys, RemoteStep(k) PROVE generating' = generating
    BY <1>7 DEF RemoteStep, chatVars
<1>8. ASSUME ServerStep
      PROVE  \/ generating' = generating
             \/ Restart
             \/ \E d \in Chats : ClaimGeneration(d) \/ ReleaseGeneration(d)
    BY <1>8 DEF ServerStep, ReadOrphan, CleanupInputs, DeleteChat, DismissCreator,
       Disconnect, Crash, TornDisconnect, TornAgain, TornOrphan, TornFirst,
       TornAccept, TornDuplicate, TornSpoiled, TornRetire, TornGet, TornEvent, TornFailure, TornCancel, Stopped, chatVars
<1>9. CASE Restart
    BY <1>9 DEF Restart
<1>10. CASE UNCHANGED vars
    BY <1>3, <1>10 DEF vars
<1>11. CASE Next
    BY <1>1, <1>2, <1>3, <1>4, <1>5, <1>6, <1>7, <1>8, <1>9, <1>11 DEF Next
<1> QED BY <1>10, <1>11

-----------------------------------------------------------------------------
(* At most one task or generation works on a chat.                         *)

Works(r) == r.state \in LocalActiveStates

ExclusionInv ==
    /\ ShownInv
    /\ \A k \in Keys : row[k].state # "abandoned"
    /\ ExclusiveChat

(* A row that starts to work was absent; one that works stays in its chat. *)
LEMMA WorkStarts ==
    ASSUME ExclusionInv, [Next]_vars, NEW k \in Keys, Works(row'[k])
    PROVE  \/ Works(row[k]) /\ row'[k].chat = row[k].chat
           \/ row[k].state = "absent"
<1>1. PICK s : RowStep(row[k], row'[k], s)
    BY EveryStepMoves DEF RowsMove, ExclusionInv
<1>2. Shown(row[k]) /\ row[k] \in Row /\ row[k].state # "abandoned"
    BY DEF ExclusionInv, ShownInv, TypeOK
<1>3. row[k].state \notin TerminalStates
    BY <1>1 DEF RowStep, Works, LocalActiveStates, ActiveStates, TerminalStates
<1>4. row[k].state # "absent" => Works(row[k])
    BY <1>2, <1>3 DEF Works, LocalActiveStates, ActiveStates, PublicStates,
       TerminalStates, HiddenStates, Row
<1> QED BY <1>1, <1>4 DEF RowStep

LEMMA SubmitFindsChatFree ==
    ASSUME ShownInv, NEW k \in Keys, NEW c \in Chats \cup {NoChat}, Submits(k, c)
    PROVE  /\ row'[k].chat = c
           /\ \A j \in Keys \ {k} : row'[j] = row[j]
           /\ c \in Chats => ChatFree(c)
           /\ \A d \in Chats : generating'[d] => generating[d]
<1>0. row \in [Keys -> Row] /\ generating \in [Chats -> BOOLEAN]
    BY DEF ShownInv, TypeOK
<1>1. Issue(Submitted(k, c)).chat = c /\ Submitted(k, c).chat = c
    BY <1>0 DEF Issue, Submitted, Row
<1>2. ASSUME NEW p \in Creators, CreateFirst(p, k, c)
      PROVE  /\ row' = [row EXCEPT ![k] = Issue(Submitted(k, c))]
             /\ MaySubmit(k, c)
             /\ generating' = generating
    BY <1>2 DEF CreateFirst, chatVars
<1>3. ASSUME TornFirst(k, c)
      PROVE  /\ row' = [row EXCEPT ![k] = Submitted(k, c)]
             /\ MaySubmit(k, c)
             /\ generating' = [d \in Chats |-> FALSE]
    BY <1>3 DEF TornFirst, Stopped, Restart
<1>4. PICK q \in {Submitted(k, c), Issue(Submitted(k, c))} :
          /\ row' = [row EXCEPT ![k] = q]
          /\ MaySubmit(k, c)
          /\ generating' \in {generating, [d \in Chats |-> FALSE]}
    BY <1>2, <1>3 DEF Submits
<1> QED BY <1>0, <1>1, <1>4 DEF MaySubmit

LEMMA ExclusiveStep ==
    ASSUME ExclusionInv, [Next]_vars
    PROVE  ExclusiveChat'
<1>0. /\ ShownInv /\ TypeOK
      /\ \A c \in Chats, k \in Keys, l \in Keys :
            /\ Works(row[k]) /\ row[k].chat = c /\ Works(row[l]) /\ row[l].chat = c
                  => k = l
            /\ generating[c] => ~(Works(row[k]) /\ row[k].chat = c)
    <2>1. ShownInv /\ TypeOK
        BY DEF ExclusionInv, ShownInv
    <2>2. ASSUME NEW c \in Chats, NEW k \in Keys, Works(row[k]), row[k].chat = c
          PROVE  k \in Workers(c)
        BY <2>2 DEF Workers, Works
    <2>3. ASSUME NEW c \in Chats
          PROVE  /\ \A k, l \in Workers(c) : k = l
                 /\ generating[c] => Workers(c) = {}
        BY DEF ExclusionInv, ExclusiveChat
    <2> QED BY <2>1, <2>2, <2>3
<1>1. SUFFICES ASSUME NEW c \in Chats, NEW k \in Keys,
                      Works(row'[k]), row'[k].chat = c
               PROVE  /\ \A l \in Keys : Works(row'[l]) /\ row'[l].chat = c => k = l
                      /\ ~generating'[c]
    BY DEF ExclusiveChat, Workers, Works
<1>2. CASE \E j \in Keys, d \in Chats \cup {NoChat} : Submits(j, d)
    <2>1. PICK j \in Keys, d \in Chats \cup {NoChat} : Submits(j, d)
        BY <1>2
    <2>2. /\ row'[j].chat = d
          /\ \A i \in Keys \ {j} : row'[i] = row[i]
          /\ d \in Chats => ChatFree(d)
          /\ \A e \in Chats : generating'[e] => generating[e]
        BY <1>0, <2>1, SubmitFindsChatFree
    <2>3. CASE d = c
        <3>1. /\ ~generating[c]
              /\ \A i \in Keys : ~(Works(row[i]) /\ row[i].chat = c)
            BY <1>1, <2>2, <2>3 DEF ChatFree, HasActiveTask, Works
        <3> QED BY <1>1, <2>2, <3>1
    <2>4. CASE d # c
        BY <1>0, <1>1, <2>2, <2>4
    <2> QED BY <2>3, <2>4
<1>3. CASE ~\E j \in Keys, d \in Chats \cup {NoChat} : Submits(j, d)
    <2>1. \A i \in Keys : row[i].state = "absent" => row'[i].state = "absent"
        BY <1>0, <1>3, OnlySubmitStarts
    <2>2. ASSUME NEW i \in Keys, Works(row'[i]), row'[i].chat = c
          PROVE  Works(row[i]) /\ row[i].chat = c
        <3>1. row'[i].state # "absent"
            BY <2>2 DEF Works, LocalActiveStates, ActiveStates
        <3> QED BY <2>1, <2>2, <3>1, WorkStarts
    <2>3. ~generating[c]
        BY <1>0, <1>1, <2>2
    <2>4. ~generating'[c]
        <3>1. SUFFICES ASSUME generating'[c] PROVE FALSE
            OBVIOUS
        <3>2. ClaimGeneration(c)
            BY <1>0, <2>3, <3>1, GenerationClaimed
        <3>3. ~(Works(row[k]) /\ row[k].chat = c)
            BY <3>2 DEF ClaimGeneration, ChatFree, HasActiveTask, Works
        <3> QED BY <1>1, <2>2, <3>3
    <2> QED BY <1>0, <1>1, <2>2, <2>4
<1> QED BY <1>2, <1>3

(* Tasks and generations exclude each other on a chat, whatever handlers   *)
(* are in flight and wherever the Server stops, as long as no module       *)
(* answers POST /tasks with a 4xx: an abandoned row is the only one that   *)
(* works again without another look at its chat.                           *)
THEOREM ChatsAreExclusive == ~MayReject => (Spec => []ExclusiveChat)
<1> SUFFICES ASSUME ~MayReject PROVE Spec => []ExclusiveChat
    OBVIOUS
<1>1. Init /\ ShownInv => ExclusionInv
    BY DEF Init, ExclusionInv, ExclusiveChat, Workers, AbsentRow, LocalActiveStates,
       ActiveStates
<1>2. ExclusionInv /\ ShownInv' /\ [Next]_vars => ExclusionInv'
    <2> SUFFICES ASSUME ExclusionInv, ShownInv', [Next]_vars PROVE ExclusionInv'
        OBVIOUS
    <2>1. \A k \in Keys : row'[k].state # "abandoned"
        BY EveryStepMoves DEF RowsMove, RowStep, ExclusionInv
    <2> QED BY <2>1, ExclusiveStep DEF ExclusionInv
<1>3. ExclusionInv => ExclusiveChat
    BY DEF ExclusionInv
<1> QED BY <1>1, <1>2, <1>3, ShownIsInvariant, PTL DEF Spec

-----------------------------------------------------------------------------
(* What an ended task keeps.                                               *)

Retired(r) ==
    r.state \in TerminalStates
        => \/ ~r.live /\ r.inputs # "kept"
           \/ r.state = "succeeded" /\ r.proj = "projected" /\ r.sync = "current"

LEMMA RetireRetires ==
    ASSUME NEW r \in Row
    PROVE  Retired(Retire(r)) /\ Retired(Settle(r))
BY DEF Retired, Settle, Retire, Row

LEMMA RefuseRetires == ASSUME NEW r \in Row PROVE Retired(Refuse(r))
<1> DEFINE q == Retire(r)
<1>1. q \in Row /\ ~q.live /\ q.inputs # "kept"
    BY RetireIsRow DEF Retire, Row
<1>2. Refuse(r) = [q EXCEPT !.refused = TRUE]
    BY DEF Refuse
<1> HIDE DEF q
<1>3. ~Refuse(r).live /\ Refuse(r).inputs # "kept"
    BY <1>1, <1>2 DEF Row
<1> QED BY <1>3 DEF Retired

(* An event that is no status leaves an ended task retired. *)
LEMMA ProgressKeepsRetired ==
    ASSUME NEW r \in Row, Retired(r), NEW id
    PROVE  Retired(ApplyEvent(r, "progress", id))
<1> DEFINE q == [r EXCEPT !.sync = "current", !.cursor = id]
<1>1. /\ q.state = r.state /\ (q.live <=> r.live) /\ q.inputs = r.inputs
      /\ q.proj = r.proj /\ q.sync = "current"
    BY DEF Row
<1>2. ApplyEvent(r, "progress", id) = Suppress(q)
    BY DEF ApplyEvent
<1>3. Retired(q)
    BY <1>1 DEF Retired
<1>4. CASE q.state \in {"failed", "cancelled"}
    <2>1. ~q.live /\ q.inputs # "kept"
        BY <1>3, <1>4 DEF Retired, TerminalStates
    <2>2. /\ ~[q EXCEPT !.proj = "suppressed"].live
          /\ [q EXCEPT !.proj = "suppressed"].inputs # "kept"
        BY <2>1 DEF Row
    <2> QED BY <1>2, <1>4, <2>2 DEF Suppress, Retired
<1>5. CASE q.state \notin {"failed", "cancelled"}
    BY <1>2, <1>3, <1>5 DEF Suppress
<1> QED BY <1>4, <1>5

LEMMA ProjectionKeepsRetired ==
    ASSUME NEW r \in Row, Retired(r), NEW s
    PROVE  Retired(ApplyProjection(r, s))
BY DEF Retired, ApplyProjection, Projects, Row

(* What create() leaves behind when it awaits the title of a chat.         *)
LEMMA ConcludeKeepsRetired ==
    ASSUME NEW r \in Row, NEW s, Retired(r)
    PROVE  Retired(Conclude(r, s))
<1>1. ApplyProjection(r, s) \in Row
    BY ApplyProjectionIsRow
<1> QED BY <1>1, ProjectionKeepsRetired, RetireRetires DEF Conclude

LEMMA ConcludeRetires ==
    ASSUME NEW r \in Row, NEW s, r.state = s, r.sync = "current"
    PROVE  Retired(Conclude(r, s))
<1>1. ApplyProjection(r, s) \in Row
    BY ApplyProjectionIsRow
<1>2. CASE s \in TerminalStates /\ ~Posts(r, s)
    BY <1>1, <1>2, RetireRetires DEF Conclude
<1>3. CASE Posts(r, s)
    BY <1>3 DEF Conclude, ApplyProjection, Posts, Projects, Retired, Row
<1>4. CASE s \notin TerminalStates
    <2>1. ApplyProjection(r, s).state = s
        BY DEF ApplyProjection, Row
    <2> QED BY <1>4, <2>1 DEF Conclude, Retired
<1> QED BY <1>2, <1>3, <1>4

LEMMA FinalizeReports ==
    ASSUME NEW r \in Row, NEW s \in PublicStates, NEW id \in Nat
    PROVE  /\ Finalize(r, s, id) \in Row
           /\ Finalize(r, s, id).state = s
           /\ Finalize(r, s, id).sync = "current"
<1>1. Finalize(r, s, id) \in Row
    BY FinalizeIsRow
<1>2. Finalize(r, s, id).state = s /\ Finalize(r, s, id).sync = "current"
    BY DEF Finalize, Report, Row
<1> QED BY <1>1, <1>2

LEMMA FailStreamRetires ==
    ASSUME NEW r \in Row
    PROVE  Retired(FailStream(r))
BY FailIsRow, RetireRetires DEF FailStream

AllRetired == \A k \in Keys : Retired(row[k])

LEMMA OneRowRetired ==
    ASSUME TypeOK, AllRetired, NEW j \in Keys, NEW q, Retired(q),
           row' = [row EXCEPT ![j] = q]
    PROVE  AllRetired'
BY DEF TypeOK, AllRetired

LEMMA CreateStepRetires ==
    ASSUME ShownInv, AllRetired, NEW p \in Creators, CreateStep(p)
    PROVE  AllRetired'
<1> DEFINE k == creator[p].key
           s == creator[p].state
<1>0. /\ TypeOK
      /\ \A j \in Keys : row[j] \in Row /\ Retired(row[j]) /\ Shown(row[j])
    BY DEF ShownInv, TypeOK, AllRetired
<1>1. ASSUME NEW j \in Keys, NEW c \in Chats \cup {NoChat}, CreateFirst(p, j, c)
      PROVE  AllRetired'
    <2>1. Retired(Issue(Submitted(j, c)))
        BY <1>0 DEF Issue, Submitted, Row, Retired, TerminalStates
    <2> QED BY <1>0, <1>1, <2>1, OneRowRetired DEF CreateFirst
<1>2. ASSUME NEW j \in Keys, CreateAgain(p, j) PROVE AllRetired'
    <2>1. row[j].state \notin TerminalStates
        BY <1>0, <1>2 DEF CreateAgain, MayResubmit, Shown, PublicStates
    <2>2. Retired(Issue(row[j]))
        BY <1>0, <2>1 DEF Retired, Issue, Row
    <2> QED BY <1>0, <1>2, <2>2, OneRowRetired DEF CreateAgain
<1>3. CASE RemoteCreate(p) \/ RemoteReject(p) \/ RemoteError(p) \/ CreateLost(p)
    BY <1>3 DEF RemoteCreate, RemoteReject, RemoteError, CreateLost, AllRetired
<1>4. CASE \/ CreateRejected(p) \/ CreateErrored(p) \/ CreateChatGone(p)
           \/ FinishTitle(p)
    <2>1. k \in Keys
        BY <1>0, <1>4, BusyCreator
           DEF CreateRejected, CreateErrored, CreateChatGone, FinishTitle
    <2>2. Retired(Retire(row[k])) /\ Retired(Retire(Abandon(k)))
        BY <1>0, <2>1, AbandonIsRow, RetireRetires
    <2> QED BY <1>0, <1>4, <2>1, <2>2, OneRowRetired
            DEF CreateRejected, CreateErrored, CreateChatGone, FinishTitle
<1>5. CASE CreateAccepted(p)
    <2> DEFINE shown == Finalize(row[k], s, creator[p].last)
    <2>1. k \in Keys /\ s \in PublicStates /\ creator[p].last \in Nat
        BY <1>0, <1>5, AnsweredCreator DEF CreateAccepted
    <2>2. shown \in Row /\ shown.state = s /\ shown.sync = "current"
        BY <1>0, <2>1, FinalizeReports
    <2>3. Retired(Conclude(shown, s))
        BY <2>2, ConcludeRetires
    <2> QED BY <1>0, <1>5, <2>1, <2>3, OneRowRetired DEF CreateAccepted
<1>6. CASE CreateDuplicate(p)
    <2>1. k \in Keys
        BY <1>0, <1>6, BusyCreator DEF CreateDuplicate
    <2>2. Retired(Conclude(row[k], s))
        BY <1>0, <2>1, ConcludeKeepsRetired
    <2> QED BY <1>0, <1>6, <2>1, <2>2, OneRowRetired DEF CreateDuplicate
<1>7. CASE AcceptSpoiled(p)
    <2> DEFINE shown == Finalize(row[k], s, creator[p].last)
    <2>1. k \in Keys /\ s \in PublicStates /\ creator[p].last \in Nat
        BY <1>0, <1>7, AnsweredCreator DEF AcceptSpoiled
    <2>2. Retired(Refuse(shown))
        BY <1>0, <2>1, FinalizeIsRow, RefuseRetires
    <2> QED BY <1>0, <1>7, <2>1, <2>2, OneRowRetired DEF AcceptSpoiled
<1>8. CASE DuplicateSpoiled(p)
    <2>1. k \in Keys
        BY <1>0, <1>8, BusyCreator DEF DuplicateSpoiled
    <2> QED BY <1>0, <1>8, <2>1, RefuseRetires, OneRowRetired DEF DuplicateSpoiled
<1> QED BY <1>1, <1>2, <1>3, <1>4, <1>5, <1>6, <1>7, <1>8 DEF CreateStep

LEMMA WatchStepRetires ==
    ASSUME ShownInv, AllRetired, NEW w \in Watchers, WatchStep(w)
    PROVE  AllRetired'
<1> DEFINE k == watcher[w].key
           s == watcher[w].state
<1>0. TypeOK /\ \A j \in Keys : row[j] \in Row /\ Retired(row[j])
    BY DEF ShownInv, TypeOK, AllRetired
<1>1. CASE \/ \E j \in Keys : ReadTask(w, j)
           \/ \E j \in Keys : \E from \in {0, row[j].cursor} : OpenStream(w, j, from)
           \/ RemoteGet(w) \/ RelayEvent(w) \/ StreamClosed(w)
    BY <1>1 DEF ReadTask, OpenStream, RemoteGet, RelayEvent, StreamClosed, AllRetired
<1>2. CASE FinishGet(w)
    <2> DEFINE updated == UpdateSummary(row[k], s, watcher[w].last)
    <2>1. k \in Keys /\ s \in PublicStates /\ watcher[w].last \in Nat
        BY <1>0, <1>2, ReceivedWatcher DEF FinishGet
    <2>2. Settle(updated) \in Row /\ Retired(Settle(updated))
        BY <1>0, <2>1, UpdateSummaryIsRow, SettleIsRow, RetireRetires
    <2>3. /\ Retired(ApplyProjection(Settle(updated), s))
          /\ Retired(FailStream(row[k]))
        BY <1>0, <2>1, <2>2, ProjectionKeepsRetired, FailStreamRetires
    <2> QED BY <1>0, <1>2, <2>1, <2>3, OneRowRetired DEF FinishGet
<1>3. CASE GetLost(w)
    <2>1. k \in Keys
        BY <1>0, <1>3, BusyWatcher DEF GetLost, Awaiting, Received
    <2> QED BY <1>0, <1>3, <2>1, FailStreamRetires, OneRowRetired DEF GetLost
<1>4. CASE StreamEvent(w)
    <2> DEFINE q == ApplyEvent(row[k], NextEvent(w), watcher[w].pos + 1)
    <2>1. k \in Keys /\ q \in Row
        BY <1>0, <1>4, NextEventIsTyped, ApplyEventIsRow DEF StreamEvent
    <2>2. Retired(Settle(q))
        BY <2>1, RetireRetires
    <2> QED BY <1>0, <1>4, <2>1, <2>2, OneRowRetired DEF StreamEvent
<1>5. CASE StreamMisfit(w) \/ StreamLost(w)
    <2>1. k \in Keys
        BY <1>0, <1>5, BusyWatcher DEF StreamMisfit, StreamLost, EventReady
    <2>2. EndStream(w)
        BY <1>5 DEF StreamMisfit, StreamLost
    <2> QED BY <1>0, <2>1, <2>2, FailStreamRetires, OneRowRetired DEF EndStream
<1>6. CASE GetSpoiled(w)
    <2> DEFINE updated == UpdateSummary(row[k], s, watcher[w].last)
    <2>1. k \in Keys /\ s \in PublicStates /\ watcher[w].last \in Nat
        BY <1>0, <1>6, ReceivedWatcher DEF GetSpoiled
    <2>2. Retired(FailStream(updated))
        BY <1>0, <2>1, UpdateSummaryIsRow, FailStreamRetires
    <2> QED BY <1>0, <1>6, <2>1, <2>2, OneRowRetired DEF GetSpoiled
<1>7. CASE StreamSpoiled(w)
    <2> DEFINE told == ApplyEvent(row[k], "progress", watcher[w].pos + 1)
    <2>1. k \in Keys /\ watcher[w].pos + 1 \in Nat
        BY <1>0, <1>7, NextEventIsTyped DEF StreamSpoiled
    <2>2. told \in Row /\ Retired(told)
        BY <1>0, <2>1, ApplyEventIsRow, ProgressKeepsRetired
    <2>3. Retired(FailStream(told))
        BY <2>2, FailStreamRetires
    <2>4. CASE told.state \in TerminalStates
        BY <1>0, <1>7, <2>1, <2>2, <2>4, OneRowRetired DEF StreamSpoiled
    <2>5. CASE told.state \notin TerminalStates
        BY <1>0, <1>7, <2>1, <2>3, <2>5, OneRowRetired DEF StreamSpoiled
    <2> QED BY <2>4, <2>5
<1> QED BY <1>1, <1>2, <1>3, <1>4, <1>5, <1>6, <1>7 DEF WatchStep

LEMMA CancelStepRetires ==
    ASSUME ShownInv, AllRetired, NEW x \in Cancellers, CancelStep(x)
    PROVE  AllRetired'
<1> DEFINE k == canceller[x].key
<1>0. TypeOK /\ \A j \in Keys : row[j] \in Row /\ Retired(row[j])
    BY DEF ShownInv, TypeOK, AllRetired
<1>1. CASE (\E j \in Keys : StartCancel(x, j)) \/ RemoteCancel(x) \/ CancelRefused(x)
    BY <1>1 DEF StartCancel, RemoteCancel, CancelRefused, AllRetired
<1>2. CASE FinishCancel(x)
    <2>1. k \in Keys /\ canceller[x].state \in PublicStates /\ canceller[x].last \in Nat
        BY <1>0, <1>2, AnsweredCanceller DEF FinishCancel
    <2>2. Retired(Settle(UpdateSummary(row[k], canceller[x].state, canceller[x].last)))
        BY <1>0, <2>1, UpdateSummaryIsRow, RetireRetires
    <2> QED BY <1>0, <1>2, <2>1, <2>2, OneRowRetired DEF FinishCancel
<1>3. CASE CancelLost(x)
    <2>1. k \in Keys
        BY <1>0, <1>3, BusyCanceller DEF CancelLost
    <2> DEFINE q == IF row[k].state \in TerminalStates THEN row[k]
                    ELSE [row[k] EXCEPT !.state = "cancel_requested",
                                        !.sync = "unreachable"]
    <2>2. Retired(q)
        BY <1>0, <2>1 DEF Retired, Row, TerminalStates
    <2> QED BY <1>0, <1>3, <2>1, <2>2, OneRowRetired DEF CancelLost
<1> QED BY <1>1, <1>2, <1>3 DEF CancelStep

LEMMA ServerStepRetires ==
    ASSUME ShownInv, AllRetired, ServerStep, ~MayTear
    PROVE  AllRetired'
<1>0. TypeOK /\ \A j \in Keys : row[j] \in Row /\ Retired(row[j])
    BY DEF ShownInv, TypeOK, AllRetired
<1>1. ASSUME NEW j \in Keys, ReadOrphan(j) PROVE AllRetired'
    BY <1>0, <1>1, FailStreamRetires, OneRowRetired DEF ReadOrphan
<1>2. ASSUME NEW j \in Keys, CleanupInputs(j) PROVE AllRetired'
    <2>1. Retired([row[j] EXCEPT !.inputs = "deleted"])
        BY <1>0 DEF Retired, Row
    <2> QED BY <1>0, <1>2, <2>1, OneRowRetired DEF CleanupInputs
<1>3. CASE Disconnect
    <2>1. ASSUME NEW j \in Keys PROVE Retired(row'[j])
        BY <1>0, <1>3 DEF Disconnect, Retired, Row
    <2> QED BY <2>1 DEF AllRetired
<1>4. CASE \/ \E c \in Chats : ClaimGeneration(c) \/ ReleaseGeneration(c) \/ DeleteChat(c)
           \/ Crash
    BY <1>4 DEF ClaimGeneration, ReleaseGeneration, DeleteChat, Crash, AllRetired
<1>5. ASSUME NEW ks \in SUBSET Keys, DismissCreator(ks) PROVE AllRetired'
    <2>1. ASSUME NEW j \in Keys PROVE Retired(Dismiss(row[j]))
        BY <1>0 DEF Dismiss, Retired, Row
    <2>2. ASSUME NEW j \in Keys PROVE Retired(row'[j])
        BY <1>0, <1>5, <2>1 DEF DismissCreator
    <2> QED BY <2>2 DEF AllRetired
<1> QED BY <1>1, <1>2, <1>3, <1>4, <1>5 DEF ServerStep, TornDisconnect, TornAgain,
       TornOrphan, TornFirst, TornAccept, TornDuplicate, TornSpoiled, TornRetire,
       TornGet, TornEvent, TornFailure, TornCancel, Stopped

(* A task that has ended has no live capability token, and its inputs are  *)
(* given up for cleanup, although handlers of other attempts may have      *)
(* issued tokens and reactivated inputs while it ended; the only exception *)
(* is a task whose answer was posted and that the next read retires.       *)
THEOREM EndedTasksAreRetired == ~MayTear => (Spec => []TerminalIsRetired)
<1> SUFFICES ASSUME ~MayTear PROVE Spec => []TerminalIsRetired
    OBVIOUS
<1>1. Init => AllRetired
    BY DEF Init, AllRetired, Retired, AbsentRow, TerminalStates
<1>2. ShownInv /\ AllRetired /\ [Next]_vars => AllRetired'
    <2>1. ASSUME UNCHANGED vars, AllRetired PROVE AllRetired'
        BY <2>1 DEF vars, AllRetired
    <2>2. ASSUME NEW k \in Keys, RemoteStep(k), AllRetired PROVE AllRetired'
        BY <2>2 DEF RemoteStep, AllRetired
    <2> QED BY <2>1, <2>2, CreateStepRetires, WatchStepRetires, CancelStepRetires,
               ServerStepRetires DEF Next
<1>3. ShownInv /\ AllRetired => TerminalIsRetired
    BY DEF ShownInv, Shown, AllRetired, Retired, TerminalIsRetired, MayReconcile,
       PublicStates
<1> QED BY <1>1, <1>2, <1>3, ShownIsInvariant, PTL DEF Spec

-----------------------------------------------------------------------------
(* What a step may make of the row of a task as its chat shows it, and of  *)
(* the messages.                                                           *)

(* The states a client may see one after the other. *)
Moves(s, t) ==
    /\ s \in ActiveStates /\ t \in PublicStates \ {"queued"}
    /\ s = "cancel_requested" => t # "waiting_approval"

Follows(r, q) ==
    /\ q.visible = r.visible
    /\ r.proj # "pending" => q.proj # "pending"
    /\ r.visible => /\ q.chat = r.chat
                    /\ q.state # r.state => Moves(r.state, q.state)
Same(r, q) == Follows(r, q) /\ (r.visible => q.state = r.state)

Shifts(j) == Follows(row[j], row'[j]) /\ msgs' = msgs

Accepts(j) ==
    /\ ~row[j].visible /\ row'[j].visible /\ row'[j].chat = row[j].chat
    /\ row[j].chat \in Chats => alive[row[j].chat]
    /\ \/ msgs' = Ask(j)
       \/ /\ row'[j].state = "succeeded" /\ row'[j].proj # "pending"
          /\ row[j].chat \in Chats
          /\ msgs' = Post(Ask(j), row[j].chat, j, "assistant")

Answers(j) ==
    /\ Follows(row[j], row'[j]) /\ row[j].visible
    /\ row[j].proj = "pending" /\ row'[j].proj # "pending"
    /\ row[j].chat \in Chats /\ alive[row[j].chat]
    /\ msgs' = Post(msgs, row[j].chat, j, "assistant")
    /\ \/ row'[j].state = "succeeded"
       \/ \E p \in Creators : creator[p].pc = "answered" /\ creator[p].key = j

ChatStep ==
    \/ \E c \in Chats : DeleteChat(c)
    \/ alive' = alive /\ msgs' = msgs /\ \A k \in Keys : Same(row[k], row'[k])
    \/ /\ alive' = alive
       /\ \E j \in Keys : /\ \A k \in Keys \ {j} : Same(row[k], row'[k])
                          /\ Shifts(j) \/ Accepts(j) \/ Answers(j)

(* Operations on a row. *)
LEMMA RowFollows == ASSUME NEW r \in Row PROVE Same(r, r)
BY DEF Same, Follows

LEMMA RetireFollows ==
    ASSUME NEW r \in Row, NEW q \in Row, Follows(r, q)
    PROVE  /\ Follows(r, Retire(q))
           /\ Follows(r, Settle(q))
           /\ Follows(r, [q EXCEPT !.live = FALSE])
           /\ \A u \in Stages(q) : Follows(r, u)
<1>1. Follows(r, Retire(q))
    BY DEF Follows, Retire, Row
<1>2. Follows(r, [q EXCEPT !.live = FALSE])
    BY DEF Follows, Row
<1> QED BY <1>1, <1>2 DEF Settle, Stages

LEMMA ProjectionFollows ==
    ASSUME NEW r \in Row, NEW q \in Row, NEW s, Follows(r, q)
    PROVE  Follows(r, ApplyProjection(q, s))
<1>1. /\ ApplyProjection(q, s).visible = q.visible
      /\ ApplyProjection(q, s).chat = q.chat
      /\ ApplyProjection(q, s).state = q.state
    BY DEF ApplyProjection, Row
<1>2. q.proj # "pending" => ApplyProjection(q, s).proj # "pending"
    BY DEF ApplyProjection, Projects, Row
<1> QED BY <1>1, <1>2 DEF Follows

LEMMA ConcludeFollows ==
    ASSUME NEW r \in Row, NEW q \in Row, NEW s, Follows(r, q)
    PROVE  Follows(r, Conclude(q, s))
BY ProjectionFollows, ApplyProjectionIsRow, RetireFollows DEF Conclude

LEMMA AllowedMoves ==
    ASSUME NEW s \in PublicStates, NEW t \in PublicStates, TransitionAllowed(s, t), s # t
    PROVE  Moves(s, t)
BY DEF TransitionAllowed, Moves, PublicStates, ActiveStates, TerminalStates

LEMMA ReportFollows ==
    ASSUME NEW r \in Row, Shown(r), r.visible, NEW s \in PublicStates, NEW id \in Nat,
           TransitionAllowed(r.state, s)
    PROVE  Follows(r, Suppress(Report(r, s, id)))
<1>1. Follows(r, Report(r, s, id))
    BY AllowedMoves DEF Follows, Shown, Report, Row
<1>2. Report(r, s, id) \in Row
    BY ReportIsRow
<1> QED BY <1>1, <1>2 DEF Follows, Suppress, Row

LEMMA UpdateFollows ==
    ASSUME NEW r \in Row, Shown(r), r.visible, NEW s \in PublicStates, NEW id \in Nat,
           TransitionAllowed(r.state, s)
    PROVE  /\ Follows(r, UpdateSummary(r, s, id))
           /\ UpdateSummary(r, s, id).state = s
<1>1. r.cursor \in Nat
    BY DEF Row
<1>2. (IF id > r.cursor THEN id ELSE r.cursor) \in Nat
    BY <1>1
<1> QED BY <1>2, ReportFollows DEF UpdateSummary, Suppress, Report, Row

LEMMA EventFollows ==
    ASSUME NEW r \in Row, Shown(r), r.visible,
           NEW e \in PublicStates \cup {"progress"}, NEW id \in Nat,
           e = "progress" \/ TransitionAllowed(r.state, e)
    PROVE  Follows(r, ApplyEvent(r, e, id))
<1>1. CASE e = "progress"
    BY <1>1 DEF ApplyEvent, Follows, Suppress, Row
<1>2. CASE e # "progress"
    BY <1>2, ReportFollows DEF ApplyEvent
<1> QED BY <1>1, <1>2

LEMMA FailFollows ==
    ASSUME NEW r \in Row, Shown(r), r.visible
    PROVE  /\ Follows(r, Fail(r))
           /\ Follows(r, FailStream(r))
           /\ \A u \in Stages(Fail(r)) : Follows(r, u)
<1>1. Follows(r, Fail(r))
    BY DEF Follows, Shown, Fail, Moves, Row, PublicStates, TerminalStates
<1> QED BY <1>1, FailIsRow, RetireFollows DEF FailStream

LEMMA FailAfterFollows ==
    ASSUME NEW r \in Row, Shown(r), r.visible, NEW q \in Row, Follows(r, q)
    PROVE  /\ Follows(r, FailStream(q))
           /\ \A u \in Stages(Fail(q)) : Follows(r, u)
<1>1. Follows(r, Fail(q))
    <2>1. CASE q.state \in TerminalStates
        BY <2>1 DEF Fail
    <2>2. CASE q.state \notin TerminalStates
        <3>1. r.state \in ActiveStates
            BY <2>2 DEF Follows, Moves, Shown, PublicStates, TerminalStates
        <3>2. /\ Fail(q).state = "failed" /\ Fail(q).visible = q.visible
              /\ Fail(q).chat = q.chat /\ Fail(q).proj = "suppressed"
            BY <2>2 DEF Fail, Row
        <3> QED BY <3>1, <3>2 DEF Follows, Moves, PublicStates, TerminalStates
    <2> QED BY <2>1, <2>2
<1> QED BY <1>1, FailIsRow, RetireFollows DEF FailStream

LEMMA RefuseFollows ==
    ASSUME NEW r \in Row, NEW q \in Row, Follows(r, q)
    PROVE  Follows(r, Refuse(q)) /\ Follows(r, HalfRefuse(q))
<1>1. Follows(r, Retire(q)) /\ Retire(q) \in Row
    BY RetireFollows, RetireIsRow
<1>2. ASSUME NEW u \in Row, Follows(r, u)
      PROVE  Follows(r, [u EXCEPT !.refused = TRUE])
    BY <1>2 DEF Follows, Row
<1>3. Follows(r, HalfRefuse(q))
    BY DEF HalfRefuse, Follows, Row
<1> QED BY <1>1, <1>2, <1>3 DEF Refuse

LEMMA RefuseKeeps ==
    ASSUME NEW r \in Row
    PROVE  /\ Refuse(r).visible = r.visible /\ Refuse(r).chat = r.chat
           /\ Refuse(r).state = r.state
           /\ HalfRefuse(r).visible = r.visible /\ HalfRefuse(r).chat = r.chat
           /\ HalfRefuse(r).state = r.state
BY DEF Refuse, HalfRefuse, Retire, Row

LEMMA DismissFollows == ASSUME NEW r \in Row PROVE Same(r, Dismiss(r))
BY DEF Same, Follows, Dismiss, Row

LEMMA SettleKeeps ==
    ASSUME NEW r \in Row
    PROVE  /\ Settle(r).state = r.state /\ Settle(r).chat = r.chat
           /\ Settle(r).proj = r.proj
BY DEF Settle, Retire, Row

LEMMA FinalizeShows ==
    ASSUME NEW r \in Row, NEW s \in PublicStates, NEW id \in Nat
    PROVE  /\ Finalize(r, s, id).visible /\ Finalize(r, s, id).state = s
           /\ Finalize(r, s, id).chat = r.chat
<1>1. [r EXCEPT !.visible = TRUE] \in Row
    BY DEF Row
<1> QED BY <1>1 DEF Finalize, Report, Row

LEMMA SubmitFollows ==
    ASSUME NEW k \in Keys, row[k] \in Row, Shown(row[k]),
           NEW c \in Chats \cup {NoChat}, MaySubmit(k, c)
    PROVE  /\ Follows(row[k], Submitted(k, c))
           /\ Follows(row[k], Issue(Submitted(k, c)))
BY DEF Follows, Shown, Submitted, Issue, MaySubmit, Row, PublicStates,
       ActiveStates, TerminalStates

LEMMA ResubmitFollows ==
    ASSUME NEW k \in Keys, row[k] \in Row, MayResubmit(k)
    PROVE  /\ Follows(row[k], Issue(row[k]))
           /\ Follows(row[k], [row[k] EXCEPT !.inputs = "kept"])
BY DEF Follows, Issue, MayResubmit, Row

LEMMA AbandonFollows ==
    ASSUME NEW k \in Keys, row[k] \in Row
    PROVE  Abandon(k) \in Row /\ Follows(row[k], Abandon(k))
BY DEF Abandon, Follows, Row, HiddenStates

(* What is posted for an answer. *)
LEMMA ProjectionPosts ==
    ASSUME NEW r \in Row, NEW s, NEW log, NEW k
    PROVE  \/ ~Posts(r, s) /\ ProjectInto(log, r, s, k) = log
           \/ /\ s = "succeeded" /\ r.chat \in Chats /\ alive[r.chat] /\ r.proj = "pending"
              /\ ApplyProjection(r, s).proj = "projected"
              /\ ProjectInto(log, r, s, k) = Post(log, r.chat, k, "assistant")
BY DEF Posts, Projects, ProjectInto, ApplyProjection, Row

-----------------------------------------------------------------------------
(* Every step is such a step.                                              *)

LEMMA NoRowShifts ==
    ASSUME ShownInv, row' = row, alive' = alive, msgs' = msgs
    PROVE  ChatStep
BY RowFollows DEF ChatStep, ShownInv, TypeOK

LEMMA OneRowExchanges ==
    ASSUME ShownInv, NEW j \in Keys, NEW q, row' = [row EXCEPT ![j] = q], alive' = alive,
           row'[j] = q => Shifts(j) \/ Accepts(j) \/ Answers(j)
    PROVE  ChatStep
<1>1. ASSUME NEW k \in Keys \ {j} PROVE Same(row[k], row'[k])
    BY RowFollows DEF ShownInv, TypeOK
<1>2. row'[j] = q
    BY DEF ShownInv, TypeOK
<1> QED BY <1>1, <1>2 DEF ChatStep

LEMMA OneRowShifts ==
    ASSUME ShownInv, NEW j \in Keys, NEW q, row' = [row EXCEPT ![j] = q],
           Follows(row[j], q), UNCHANGED <<alive, msgs>>
    PROVE  ChatStep
BY OneRowExchanges DEF Shifts

LEMMA StoppedShifts ==
    ASSUME ShownInv, NEW j \in Keys, NEW rows, Stopped(j, rows),
           \A q \in rows : Follows(row[j], q), msgs' = msgs
    PROVE  ChatStep
BY OneRowShifts DEF Stopped

LEMMA CreateExchanges ==
    ASSUME ShownInv, NEW p \in Creators, CreateStep(p)
    PROVE  ChatStep
<1> DEFINE k == creator[p].key
           s == creator[p].state
<1>0. \A j \in Keys : row[j] \in Row /\ Shown(row[j]) /\ Same(row[j], row[j])
    BY RowFollows DEF ShownInv, TypeOK
<1>1. ASSUME NEW j \in Keys, NEW c \in Chats \cup {NoChat}, CreateFirst(p, j, c)
      PROVE  ChatStep
    BY <1>0, <1>1, SubmitFollows, OneRowShifts DEF CreateFirst, chatVars
<1>2. ASSUME NEW j \in Keys, CreateAgain(p, j) PROVE ChatStep
    BY <1>0, <1>2, ResubmitFollows, OneRowShifts DEF CreateAgain, chatVars
<1>3. CASE RemoteCreate(p) \/ RemoteReject(p) \/ RemoteError(p) \/ CreateLost(p)
    BY <1>3, NoRowShifts
       DEF RemoteCreate, RemoteReject, RemoteError, CreateLost, chatVars
<1>4. CASE CreateRejected(p)
    <2>1. k \in Keys
        BY <1>4, BusyCreator DEF CreateRejected, ShownInv
    <2>2. Follows(row[k], Retire(Abandon(k)))
        BY <1>0, <2>1, AbandonFollows, RetireFollows
    <2> QED BY <1>4, <2>1, <2>2, OneRowShifts DEF CreateRejected, chatVars
<1>5. CASE CreateErrored(p) \/ CreateChatGone(p) \/ FinishTitle(p)
    <2>1. /\ k \in Keys /\ row' = [row EXCEPT ![k] = Retire(row[k])]
          /\ UNCHANGED <<alive, msgs>>
        BY <1>5, BusyCreator
           DEF CreateErrored, CreateChatGone, FinishTitle, ShownInv, chatVars
    <2>2. Follows(row[k], Retire(row[k]))
        BY <1>0, <2>1, RetireFollows DEF Same
    <2> QED BY <2>1, <2>2, OneRowShifts
<1>6. CASE CreateAccepted(p)
    <2> DEFINE shown == Finalize(row[k], s, creator[p].last)
    <2>1. k \in Keys /\ s \in PublicStates /\ creator[p].last \in Nat
        BY <1>6, AnsweredCreator DEF CreateAccepted, ShownInv
    <2>2. /\ shown \in Row /\ shown.visible /\ shown.state = s
          /\ shown.chat = row[k].chat
        BY <1>0, <2>1, FinalizeIsRow, FinalizeShows
    <2>3. /\ Conclude(shown, s).visible /\ Conclude(shown, s).state = s
          /\ Conclude(shown, s).chat = row[k].chat
        BY <2>2 DEF Conclude, ApplyProjection, Retire, Row
    <2>4. Posts(shown, s) => Conclude(shown, s) = ApplyProjection(shown, s)
        BY DEF Conclude
    <2>5. ASSUME row'[k] = Conclude(shown, s) PROVE Accepts(k)
        <3>1. CASE ~Posts(shown, s) /\ ProjectInto(Ask(k), shown, s, k) = Ask(k)
            BY <1>6, <2>3, <2>5, <3>1 DEF Accepts, CreateAccepted, Acceptable
        <3>2. CASE /\ s = "succeeded" /\ shown.chat \in Chats /\ alive[shown.chat]
                   /\ shown.proj = "pending"
                   /\ ApplyProjection(shown, s).proj = "projected"
                   /\ ProjectInto(Ask(k), shown, s, k)
                        = Post(Ask(k), shown.chat, k, "assistant")
            <4>1. Posts(shown, s)
                BY <3>2 DEF Posts, Projects
            <4> QED BY <1>6, <2>2, <2>3, <2>4, <2>5, <3>2, <4>1
                    DEF Accepts, CreateAccepted, Acceptable
        <3> QED BY <2>2, <3>1, <3>2, ProjectionPosts
    <2> QED BY <1>6, <2>1, <2>5, OneRowExchanges DEF CreateAccepted
<1>7. CASE CreateDuplicate(p)
    <2>1. k \in Keys /\ row[k].visible
        BY <1>7, BusyCreator DEF CreateDuplicate, ShownInv
    <2>2. Follows(row[k], Conclude(row[k], s))
        BY <1>0, <2>1, ConcludeFollows DEF Same
    <2>3. Posts(row[k], s) => Conclude(row[k], s) = ApplyProjection(row[k], s)
        BY DEF Conclude
    <2>4. ASSUME row'[k] = Conclude(row[k], s) PROVE Shifts(k) \/ Answers(k)
        <3>1. CASE ~Posts(row[k], s) /\ ProjectInto(msgs, row[k], s, k) = msgs
            BY <1>7, <2>2, <2>4, <3>1 DEF Shifts, CreateDuplicate
        <3>2. CASE /\ s = "succeeded" /\ row[k].chat \in Chats /\ alive[row[k].chat]
                   /\ row[k].proj = "pending"
                   /\ ApplyProjection(row[k], s).proj = "projected"
                   /\ ProjectInto(msgs, row[k], s, k)
                        = Post(msgs, row[k].chat, k, "assistant")
            <4>1. Posts(row[k], s)
                BY <3>2 DEF Posts, Projects
            <4> QED BY <1>7, <2>1, <2>2, <2>3, <2>4, <3>2, <4>1
                    DEF Answers, CreateDuplicate
        <3> QED BY <1>0, <2>1, <3>1, <3>2, ProjectionPosts
    <2> QED BY <1>7, <2>1, <2>4, OneRowExchanges DEF CreateDuplicate
<1>8. CASE AcceptSpoiled(p)
    <2> DEFINE shown == Finalize(row[k], s, creator[p].last)
    <2>1. k \in Keys /\ s \in PublicStates /\ creator[p].last \in Nat
        BY <1>8, AnsweredCreator DEF AcceptSpoiled, ShownInv
    <2>2. shown \in Row /\ shown.visible /\ shown.chat = row[k].chat
        BY <1>0, <2>1, FinalizeIsRow, FinalizeShows
    <2>3. Refuse(shown).visible /\ Refuse(shown).chat = row[k].chat
        BY <2>2, RefuseKeeps
    <2>4. ASSUME row'[k] = Refuse(shown) PROVE Accepts(k)
        BY <1>8, <2>3, <2>4 DEF Accepts, AcceptSpoiled, Acceptable
    <2> QED BY <1>8, <2>1, <2>4, OneRowExchanges DEF AcceptSpoiled
<1>9. CASE DuplicateSpoiled(p)
    <2>1. k \in Keys
        BY <1>9, BusyCreator DEF DuplicateSpoiled, ShownInv
    <2>2. Follows(row[k], Refuse(row[k]))
        BY <1>0, <2>1, RefuseFollows DEF Same
    <2> QED BY <1>9, <2>1, <2>2, OneRowShifts DEF DuplicateSpoiled, chatVars
<1> QED BY <1>1, <1>2, <1>3, <1>4, <1>5, <1>6, <1>7, <1>8, <1>9 DEF CreateStep

LEMMA EventRowFollows ==
    ASSUME ShownInv, NEW w \in Watchers, EventReady(w), EventFits(w)
    PROVE  LET k == watcher[w].key
               q == ApplyEvent(row[k], NextEvent(w), watcher[w].pos + 1)
           IN  k \in Keys /\ row[k] \in Row /\ q \in Row /\ Follows(row[k], q)
<1>1. /\ watcher[w].key \in Keys /\ watcher[w].pos + 1 \in Nat
      /\ NextEvent(w) \in PublicStates \cup {"progress"}
    BY NextEventIsTyped DEF ShownInv
<1>2. /\ row[watcher[w].key] \in Row /\ Shown(row[watcher[w].key])
      /\ row[watcher[w].key].visible
    BY WatchedRow DEF EventReady
<1> QED BY <1>1, <1>2, ApplyEventIsRow, EventFollows DEF EventFits

LEMMA WatchExchanges ==
    ASSUME ShownInv, NEW w \in Watchers, WatchStep(w)
    PROVE  ChatStep
<1> DEFINE k == watcher[w].key
           s == watcher[w].state
<1>1. ASSUME NEW j \in Keys, ReadTask(w, j) PROVE ChatStep
    BY <1>1, NoRowShifts DEF ReadTask, chatVars
<1>2. ASSUME NEW j \in Keys, NEW from, OpenStream(w, j, from) PROVE ChatStep
    BY <1>2, NoRowShifts DEF OpenStream, chatVars
<1>3. CASE RemoteGet(w) \/ RelayEvent(w) \/ StreamClosed(w)
    BY <1>3, NoRowShifts DEF RemoteGet, RelayEvent, StreamClosed, chatVars
<1>4. CASE FinishGet(w)
    <2> DEFINE updated == UpdateSummary(row[k], s, watcher[w].last)
               q == ApplyProjection(Settle(updated), s)
    <2>1. watcher[w].pc # "idle" /\ s \in PublicStates /\ watcher[w].last \in Nat
        BY <1>4, ReceivedWatcher DEF FinishGet, Received, ShownInv
    <2>2. k \in Keys /\ row[k] \in Row /\ Shown(row[k]) /\ row[k].visible
        BY <2>1, WatchedRow
    <2>3. CASE TransitionAllowed(row[k].state, s)
        <3>1. updated \in Row /\ Follows(row[k], updated) /\ updated.state = s
            BY <2>1, <2>2, <2>3, UpdateSummaryIsRow, UpdateFollows
        <3>2. /\ Settle(updated) \in Row /\ Follows(row[k], Settle(updated))
              /\ Settle(updated).chat = updated.chat /\ Settle(updated).proj = updated.proj
              /\ Settle(updated).state = s
            BY <2>2, <3>1, SettleIsRow, RetireFollows, SettleKeeps
        <3>3. Follows(row[k], q) /\ q.state = s
            BY <2>2, <3>2, ProjectionFollows DEF ApplyProjection, Row
        <3>4. /\ row' = [row EXCEPT ![k] = q]
              /\ msgs' = ProjectInto(msgs, updated, s, k)
              /\ alive' = alive
            BY <1>4, <2>3 DEF FinishGet
        <3>5. ASSUME row'[k] = q PROVE Shifts(k) \/ Answers(k)
            <4>1. CASE ~Posts(updated, s) /\ ProjectInto(msgs, updated, s, k) = msgs
                BY <3>3, <3>4, <3>5, <4>1 DEF Shifts
            <4>2. CASE /\ s = "succeeded" /\ updated.chat \in Chats /\ alive[updated.chat]
                       /\ updated.proj = "pending"
                       /\ ProjectInto(msgs, updated, s, k)
                            = Post(msgs, updated.chat, k, "assistant")
                <5>1. q.proj # "pending"
                    BY <3>2, <4>2 DEF ApplyProjection, Projects, Row
                <5>2. row[k].chat = updated.chat /\ row[k].proj = "pending"
                    BY <2>2, <3>1, <4>2 DEF Follows
                <5> QED BY <2>2, <3>3, <3>4, <3>5, <4>2, <5>1, <5>2 DEF Answers
            <4> QED BY <3>1, <4>1, <4>2, ProjectionPosts
        <3> HIDE DEF q
        <3> QED BY <2>2, <3>4, <3>5, OneRowExchanges
    <2>4. CASE ~TransitionAllowed(row[k].state, s)
        BY <1>4, <2>2, <2>4, FailFollows, OneRowShifts DEF FinishGet
    <2> QED BY <2>3, <2>4
<1>5. CASE GetLost(w)
    <2>1. watcher[w].pc # "idle"
        BY <1>5 DEF GetLost, Awaiting, Received
    <2> QED BY <1>5, <2>1, WatchedRow, FailFollows, OneRowShifts DEF GetLost, chatVars
<1>6. CASE StreamEvent(w)
    <2> DEFINE q == ApplyEvent(row[k], NextEvent(w), watcher[w].pos + 1)
    <2>1. k \in Keys /\ row[k] \in Row /\ q \in Row /\ Follows(row[k], q)
        BY <1>6, EventRowFollows DEF StreamEvent
    <2>2. Follows(row[k], Settle(q))
        BY <2>1, RetireFollows
    <2> QED BY <1>6, <2>1, <2>2, OneRowShifts DEF StreamEvent, chatVars
<1>7. ASSUME watcher[w].pc # "idle", EndStream(w)
      PROVE  ChatStep
    <2>1. /\ k \in Keys /\ Follows(row[k], row[k])
          /\ Follows(row[k], FailStream(row[k]))
        BY <1>7, WatchedRow, RowFollows, FailFollows DEF Same
    <2> QED BY <1>7, <2>1, OneRowShifts DEF EndStream, chatVars
<1>8. CASE StreamMisfit(w)
    BY <1>7, <1>8 DEF StreamMisfit, EventReady
<1>9. CASE StreamLost(w)
    BY <1>7, <1>9 DEF StreamLost
<1>10. CASE GetSpoiled(w)
    <2> DEFINE updated == UpdateSummary(row[k], s, watcher[w].last)
    <2>1. /\ watcher[w].pc # "idle" /\ s \in PublicStates /\ watcher[w].last \in Nat
          /\ TransitionAllowed(row[k].state, s)
        BY <1>10, ReceivedWatcher DEF GetSpoiled, Received, ShownInv
    <2>2. k \in Keys /\ row[k] \in Row /\ Shown(row[k]) /\ row[k].visible
        BY <2>1, WatchedRow
    <2>3. updated \in Row /\ Follows(row[k], updated)
        BY <2>1, <2>2, UpdateSummaryIsRow, UpdateFollows
    <2>4. Follows(row[k], FailStream(updated))
        BY <2>2, <2>3, FailAfterFollows
    <2> QED BY <1>10, <2>2, <2>4, OneRowShifts DEF GetSpoiled, chatVars
<1>11. CASE StreamSpoiled(w)
    <2> DEFINE told == ApplyEvent(row[k], "progress", watcher[w].pos + 1)
    <2>1. EventReady(w) /\ EventFits(w) /\ NextEvent(w) = "progress"
        BY <1>11 DEF StreamSpoiled, EventFits
    <2>2. k \in Keys /\ row[k] \in Row /\ told \in Row /\ Follows(row[k], told)
        BY <2>1, EventRowFollows
    <2>3. Shown(row[k]) /\ row[k].visible
        BY <2>1, WatchedRow DEF EventReady
    <2>4. Follows(row[k], FailStream(told))
        BY <2>2, <2>3, FailAfterFollows
    <2> DEFINE q == IF told.state \in TerminalStates THEN told ELSE FailStream(told)
    <2>5. row' = [row EXCEPT ![k] = q] /\ UNCHANGED <<alive, msgs>>
        BY <1>11 DEF StreamSpoiled, chatVars
    <2>6. Follows(row[k], q)
        BY <2>2, <2>4
    <2> HIDE DEF q
    <2> QED BY <2>2, <2>5, <2>6, OneRowShifts
<1> QED BY <1>1, <1>2, <1>3, <1>4, <1>5, <1>6, <1>8, <1>9, <1>10, <1>11 DEF WatchStep

LEMMA CancelRowFollows ==
    ASSUME ShownInv, NEW x \in Cancellers, canceller[x].pc = "answered",
           TransitionAllowed(row[canceller[x].key].state, canceller[x].state)
    PROVE  LET k == canceller[x].key
               q == UpdateSummary(row[k], canceller[x].state, canceller[x].last)
           IN  q \in Row /\ Follows(row[k], q)
BY CancelledRow, AnsweredCanceller, UpdateSummaryIsRow, UpdateFollows DEF ShownInv

LEMMA CancelExchanges ==
    ASSUME ShownInv, NEW x \in Cancellers, CancelStep(x)
    PROVE  ChatStep
<1> DEFINE k == canceller[x].key
           s == canceller[x].state
<1>1. ASSUME NEW j \in Keys, StartCancel(x, j) PROVE ChatStep
    BY <1>1, NoRowShifts DEF StartCancel, chatVars
<1>2. CASE RemoteCancel(x) \/ CancelRefused(x)
    BY <1>2, NoRowShifts DEF RemoteCancel, CancelRefused, chatVars
<1>3. CASE FinishCancel(x)
    <2>1. canceller[x].pc = "answered" /\ k \in Keys /\ row[k] \in Row
        BY <1>3, CancelledRow DEF FinishCancel
    <2>2. CASE TransitionAllowed(row[k].state, s)
        <3> DEFINE q == UpdateSummary(row[k], s, canceller[x].last)
        <3>1. Follows(row[k], Settle(q))
            BY <2>1, <2>2, CancelRowFollows, RetireFollows
        <3> QED BY <1>3, <2>1, <2>2, <3>1, OneRowShifts DEF FinishCancel, chatVars
    <2>3. CASE ~TransitionAllowed(row[k].state, s)
        <3>1. Follows(row[k], row[k])
            BY <2>1, RowFollows DEF Same
        <3> QED BY <1>3, <2>1, <2>3, <3>1, OneRowShifts DEF FinishCancel, chatVars
    <2> QED BY <2>2, <2>3
<1>4. CASE CancelLost(x)
    <2> DEFINE q == IF row[k].state \in TerminalStates THEN row[k]
                    ELSE [row[k] EXCEPT !.state = "cancel_requested",
                                        !.sync = "unreachable"]
    <2>1. k \in Keys /\ row[k] \in Row /\ Shown(row[k]) /\ row[k].visible
        BY <1>4, CancelledRow DEF CancelLost
    <2>2. Follows(row[k], q)
        BY <2>1 DEF Follows, Shown, Moves, Row, PublicStates, ActiveStates
    <2> QED BY <1>4, <2>1, <2>2, OneRowShifts DEF CancelLost, chatVars
<1> QED BY <1>1, <1>2, <1>3, <1>4 DEF CancelStep

LEMMA TornAcceptExchanges ==
    ASSUME ShownInv, NEW p \in Creators, TornAccept(p)
    PROVE  ChatStep
<1> DEFINE k == creator[p].key
           s == creator[p].state
           shown == Finalize(row[k], s, creator[p].last)
           projected == ApplyProjection(shown, s)
<1>1. k \in Keys /\ s \in PublicStates /\ creator[p].last \in Nat /\ row[k] \in Row
    BY AnsweredCreator DEF TornAccept, ShownInv, TypeOK
<1>2. /\ shown \in Row /\ shown.visible /\ shown.state = s
      /\ shown.chat = row[k].chat
    BY <1>1, FinalizeIsRow, FinalizeShows
<1>3. projected \in Row /\ projected.visible /\ projected.state = s
      /\ projected.chat = row[k].chat
    BY <1>2, ApplyProjectionIsRow DEF ApplyProjection, Row
<1>4. ASSUME NEW q \in Stages(projected)
      PROVE  q.visible /\ q.state = s /\ q.chat = row[k].chat /\ q.proj = projected.proj
    BY <1>3 DEF Stages, Retire, Row
<1>5. Acceptable(k)
    BY DEF TornAccept
<1>6. CASE Stopped(k, {shown, HalfRefuse(shown)}) /\ msgs' = Ask(k)
    <2>1. PICK q \in {shown, HalfRefuse(shown)} :
              row' = [row EXCEPT ![k] = q] /\ alive' = alive
        BY <1>6 DEF Stopped
    <2>2. q.visible /\ q.chat = row[k].chat
        BY <1>2, RefuseKeeps
    <2>3. ASSUME row'[k] = q PROVE Accepts(k)
        BY <1>5, <1>6, <2>2, <2>3 DEF Accepts, Acceptable
    <2> QED BY <1>1, <2>1, <2>3, OneRowExchanges
<1>7. CASE /\ Stopped(k, Stages(projected))
           /\ msgs' = ProjectInto(Ask(k), shown, s, k)
    <2>1. PICK q \in Stages(projected) : row' = [row EXCEPT ![k] = q] /\ alive' = alive
        BY <1>7 DEF Stopped
    <2>2. ASSUME row'[k] = q PROVE Accepts(k)
        <3>1. CASE ~Posts(shown, s) /\ ProjectInto(Ask(k), shown, s, k) = Ask(k)
            BY <1>4, <1>5, <1>7, <2>2, <3>1 DEF Accepts, Acceptable
        <3>2. CASE /\ s = "succeeded" /\ shown.chat \in Chats
                   /\ projected.proj = "projected"
                   /\ ProjectInto(Ask(k), shown, s, k)
                        = Post(Ask(k), shown.chat, k, "assistant")
            BY <1>2, <1>4, <1>5, <1>7, <2>2, <3>2 DEF Accepts, Acceptable
        <3> QED BY <1>2, <3>1, <3>2, ProjectionPosts
    <2> QED BY <1>1, <2>1, <2>2, OneRowExchanges
<1> QED BY <1>6, <1>7 DEF TornAccept

LEMMA TornDuplicateExchanges ==
    ASSUME ShownInv, NEW p \in Creators, TornDuplicate(p)
    PROVE  ChatStep
<1> DEFINE k == creator[p].key
           s == creator[p].state
           projected == ApplyProjection(row[k], s)
           rows == {projected, [projected EXCEPT !.live = FALSE]}
<1>1. k \in Keys /\ row[k].visible /\ row[k] \in Row /\ creator[p].pc = "answered"
    BY BusyCreator DEF TornDuplicate, ShownInv, TypeOK
<1>2. projected \in Row /\ Follows(row[k], projected)
    BY <1>1, ApplyProjectionIsRow, RowFollows, ProjectionFollows DEF Same
<1>3. \A q \in rows : Follows(row[k], q) /\ q.proj = projected.proj
    BY <1>1, <1>2, RetireFollows DEF Row
<1>4. PICK q \in rows : row' = [row EXCEPT ![k] = q] /\ alive' = alive
    BY DEF TornDuplicate, Stopped
<1>5. msgs' = ProjectInto(msgs, row[k], s, k)
    BY DEF TornDuplicate
<1>6. ASSUME row'[k] = q PROVE Shifts(k) \/ Answers(k)
    <2>1. CASE ~Posts(row[k], s) /\ ProjectInto(msgs, row[k], s, k) = msgs
        BY <1>3, <1>5, <1>6, <2>1 DEF Shifts
    <2>2. CASE /\ s = "succeeded" /\ row[k].chat \in Chats /\ alive[row[k].chat]
               /\ row[k].proj = "pending" /\ projected.proj = "projected"
               /\ ProjectInto(msgs, row[k], s, k) = Post(msgs, row[k].chat, k, "assistant")
        BY <1>1, <1>3, <1>5, <1>6, <2>2 DEF Answers
    <2> QED BY <1>1, <2>1, <2>2, ProjectionPosts
<1> HIDE DEF rows
<1> QED BY <1>1, <1>4, <1>6, OneRowExchanges

LEMMA ServerExchanges ==
    ASSUME ShownInv, ServerStep
    PROVE  ChatStep
<1>0. \A j \in Keys : row[j] \in Row /\ Shown(row[j]) /\ Follows(row[j], row[j])
    BY RowFollows DEF ShownInv, TypeOK, Same
<1>1. ASSUME NEW j \in Keys, ReadOrphan(j) PROVE ChatStep
    BY <1>0, <1>1, FailFollows, OneRowShifts DEF ReadOrphan, MayReconcile, chatVars
<1>2. ASSUME NEW j \in Keys, CleanupInputs(j) PROVE ChatStep
    <2>1. Follows(row[j], [row[j] EXCEPT !.inputs = "deleted"])
        BY <1>0 DEF Follows, Row
    <2> QED BY <1>0, <1>2, <2>1, OneRowShifts DEF CleanupInputs, chatVars
<1>3. ASSUME NEW c \in Chats, ClaimGeneration(c) \/ ReleaseGeneration(c)
      PROVE  ChatStep
    BY <1>3, NoRowShifts DEF ClaimGeneration, ReleaseGeneration
<1>4. ASSUME NEW c \in Chats, DeleteChat(c) PROVE ChatStep
    BY <1>4 DEF ChatStep
<1>5. ASSUME Disconnect \/ TornDisconnect PROVE ChatStep
    <2>1. ASSUME NEW j \in Keys PROVE Same(row[j], row'[j])
        <3>1. CASE Disconnect
            BY <1>0, <3>1 DEF Disconnect, Same, Follows, Row
        <3>2. CASE TornDisconnect
            BY <1>0, <3>2 DEF TornDisconnect, Same, Follows, Row
        <3> QED BY <1>5, <3>1, <3>2
    <2>2. UNCHANGED <<alive, msgs>>
        BY <1>5 DEF Disconnect, TornDisconnect, chatVars
    <2> QED BY <2>1, <2>2 DEF ChatStep
<1>6. CASE Crash
    BY <1>6, NoRowShifts DEF Crash
<1>7. ASSUME NEW j \in Keys, TornAgain(j) PROVE ChatStep
    BY <1>0, <1>7, ResubmitFollows, StoppedShifts DEF TornAgain
<1>8. ASSUME NEW j \in Keys, TornOrphan(j) PROVE ChatStep
    BY <1>0, <1>8, FailFollows, StoppedShifts DEF TornOrphan, MayReconcile
<1>9. ASSUME NEW j \in Keys, NEW c \in Chats \cup {NoChat}, TornFirst(j, c)
      PROVE  ChatStep
    BY <1>0, <1>9, SubmitFollows, StoppedShifts DEF TornFirst
<1>10. ASSUME NEW p \in Creators, TornRetire(p) PROVE ChatStep
    <2> DEFINE k == creator[p].key
               given == [Retire(Abandon(k)) EXCEPT !.live = row[k].live]
               revoked == [row[k] EXCEPT !.live = FALSE]
    <2>1. k \in Keys
        BY <1>10, BusyCreator DEF TornRetire, ShownInv
    <2>2. Follows(row[k], Abandon(k)) /\ Follows(row[k], revoked)
        BY <1>0, <2>1, AbandonFollows, RetireFollows
    <2>3. Follows(row[k], given)
        <3>1. Retire(Abandon(k)) \in Row /\ Follows(row[k], Retire(Abandon(k)))
            BY <1>0, <2>1, AbandonFollows, RetireIsRow, RetireFollows
        <3> QED BY <3>1 DEF Follows, Row
    <2>4. /\ Stopped(k, {Abandon(k), given}) \/ Stopped(k, {revoked})
          /\ msgs' = msgs
        BY <1>10 DEF TornRetire
    <2> HIDE DEF given, revoked
    <2>5. CASE Stopped(k, {Abandon(k), given})
        BY <2>1, <2>2, <2>3, <2>4, <2>5, StoppedShifts
    <2>6. CASE Stopped(k, {revoked})
        BY <2>1, <2>2, <2>4, <2>6, StoppedShifts
    <2> QED BY <2>4, <2>5, <2>6
<1>11. ASSUME NEW w \in Watchers, TornGet(w) PROVE ChatStep
    <2> DEFINE k == watcher[w].key
               q == UpdateSummary(row[k], watcher[w].state, watcher[w].last)
    <2>1. /\ watcher[w].pc # "idle" /\ watcher[w].state \in PublicStates
          /\ watcher[w].last \in Nat
        BY <1>11, ReceivedWatcher DEF TornGet, Received, ShownInv
    <2>2. k \in Keys /\ row[k] \in Row /\ Shown(row[k]) /\ row[k].visible
        BY <2>1, WatchedRow
    <2>3. q \in Row /\ Follows(row[k], q)
        BY <1>11, <2>1, <2>2, UpdateSummaryIsRow, UpdateFollows DEF TornGet
    <2>4. \A u \in Stages(q) \cup Stages(Fail(q)) : Follows(row[k], u)
        BY <2>2, <2>3, RetireFollows, FailAfterFollows
    <2>5. Stopped(k, Stages(q) \cup Stages(Fail(q))) /\ msgs' = msgs
        BY <1>11 DEF TornGet
    <2> HIDE DEF q
    <2> QED BY <2>2, <2>4, <2>5, StoppedShifts
<1>12. ASSUME NEW w \in Watchers, TornEvent(w) PROVE ChatStep
    <2> DEFINE k == watcher[w].key
               q == ApplyEvent(row[k], NextEvent(w), watcher[w].pos + 1)
    <2>1. k \in Keys /\ row[k] \in Row /\ q \in Row /\ Follows(row[k], q)
        BY <1>12, EventRowFollows DEF TornEvent
    <2> DEFINE rows == Stages(q) \cup IF NextEvent(w) = "progress"
                                      THEN Stages(Fail(q)) ELSE {}
    <2>2. Shown(row[k]) /\ row[k].visible
        BY <1>12, WatchedRow DEF TornEvent, EventReady
    <2>3. \A u \in rows : Follows(row[k], u)
        BY <2>1, <2>2, RetireFollows, FailAfterFollows
    <2>4. Stopped(k, rows) /\ msgs' = msgs
        BY <1>12 DEF TornEvent
    <2> HIDE DEF rows
    <2> QED BY <2>1, <2>3, <2>4, StoppedShifts
<1>13. ASSUME NEW w \in Watchers, TornFailure(w) PROVE ChatStep
    BY <1>0, <1>13, WatchedRow, FailFollows, StoppedShifts DEF TornFailure
<1>14. ASSUME NEW x \in Cancellers, TornCancel(x) PROVE ChatStep
    <2> DEFINE k == canceller[x].key
               q == UpdateSummary(row[k], canceller[x].state, canceller[x].last)
    <2>1. canceller[x].pc = "answered" /\ k \in Keys /\ row[k] \in Row
        BY <1>14, CancelledRow DEF TornCancel
    <2>2. q \in Row /\ Follows(row[k], q)
        BY <1>14, <2>1, CancelRowFollows DEF TornCancel
    <2>3. \A u \in Stages(q) : Follows(row[k], u)
        BY <2>1, <2>2, RetireFollows
    <2>4. Stopped(k, Stages(q)) /\ msgs' = msgs
        BY <1>14 DEF TornCancel
    <2> HIDE DEF q
    <2> QED BY <2>1, <2>3, <2>4, StoppedShifts
<1>15. ASSUME NEW ks \in SUBSET Keys, DismissCreator(ks) PROVE ChatStep
    <2>1. ASSUME NEW j \in Keys PROVE Same(row[j], row'[j])
        <3>1. Same(row[j], Dismiss(row[j])) /\ Same(row[j], row[j])
            BY <1>0, DismissFollows DEF Same
        <3>2. row'[j] = IF j \in ks THEN Dismiss(row[j]) ELSE row[j]
            BY <1>15 DEF DismissCreator
        <3> QED BY <3>1, <3>2
    <2> QED BY <1>15, <2>1 DEF ChatStep, DismissCreator, chatVars
<1>16. ASSUME NEW p \in Creators, TornSpoiled(p) PROVE ChatStep
    <2> DEFINE k == creator[p].key
    <2>1. k \in Keys
        BY <1>16, BusyCreator DEF TornSpoiled, ShownInv
    <2>2. Follows(row[k], HalfRefuse(row[k]))
        BY <1>0, <2>1, RefuseFollows
    <2> QED BY <1>16, <2>1, <2>2, StoppedShifts DEF TornSpoiled
<1> QED BY <1>1, <1>2, <1>3, <1>4, <1>5, <1>6, <1>7, <1>8, <1>9, <1>10, <1>11, <1>12,
           <1>13, <1>14, <1>15, <1>16, TornAcceptExchanges, TornDuplicateExchanges
       DEF ServerStep

LEMMA EveryStepExchanges == ASSUME ShownInv, [Next]_vars PROVE ChatStep
<1>1. CASE UNCHANGED vars
    BY <1>1, NoRowShifts DEF vars
<1>2. ASSUME NEW k \in Keys, RemoteStep(k) PROVE ChatStep
    BY <1>2, NoRowShifts DEF RemoteStep, chatVars
<1> QED BY <1>1, <1>2, CreateExchanges, WatchExchanges, CancelExchanges,
           ServerExchanges DEF Next

-----------------------------------------------------------------------------
(* The messages of a chat c, m, with the rows of their tasks.              *)

Holds(m, x) == \E i \in 1..Len(m) : m[i] = x

Belongs(m, i, c, rows) ==
    LET k == m[i].task
    IN  /\ rows[k].visible /\ rows[k].chat = c
        /\ m[i].role = "assistant" =>
              /\ rows[k].proj # "pending"
              /\ \E j \in 1..Len(m) : j < i /\ m[j] = Message(k, "user")

Threaded(m, c, rows) ==
    /\ m \in Seq(Messages)
    /\ \A i, j \in 1..Len(m) : m[i] = m[j] => i = j
    /\ \A i \in 1..Len(m) : Belongs(m, i, c, rows)

(* What of the rows does not go back. *)
Onward(r, q) ==
    r.visible => /\ q.visible /\ q.chat = r.chat
                 /\ r.proj # "pending" => q.proj # "pending"

LEMMA ThreadedStays ==
    ASSUME NEW m, NEW c, NEW rows, NEW rows2, Threaded(m, c, rows),
           \A k \in Keys : Onward(rows[k], rows2[k])
    PROVE  Threaded(m, c, rows2)
<1>1. ASSUME NEW i \in 1..Len(m) PROVE Belongs(m, i, c, rows2)
    <2>0. m[i] \in Messages
        BY DEF Threaded
    <2>1. m[i].task \in Keys
        BY <2>0 DEF Messages
    <2>2. Belongs(m, i, c, rows)
        BY DEF Threaded
    <2> QED BY <2>1, <2>2 DEF Belongs, Onward
<1> QED BY <1>1 DEF Threaded

LEMMA ThreadedGrows ==
    ASSUME NEW m, NEW c, NEW rows, Threaded(m, c, rows),
           NEW k \in Keys, NEW role \in {"user", "assistant"},
           ~Holds(m, Message(k, role)),
           rows[k].visible, rows[k].chat = c,
           role = "assistant" => rows[k].proj # "pending" /\ Holds(m, Message(k, "user"))
    PROVE  LET n == Append(m, Message(k, role))
           IN  /\ Threaded(n, c, rows)
               /\ Holds(n, Message(k, role))
               /\ \A x : Holds(m, x) => Holds(n, x)
               /\ \A x : Holds(n, x) => Holds(m, x) \/ x = Message(k, role)
<1> DEFINE x == Message(k, role)
           n == Append(m, x)
<1>1. m \in Seq(Messages) /\ x \in Messages /\ x.task = k /\ x.role = role
    BY DEF Threaded, Message, Messages
<1>2. /\ n \in Seq(Messages) /\ Len(m) \in Nat /\ Len(n) = Len(m) + 1
      /\ n[Len(m) + 1] = x
      /\ \A i \in 1..Len(m) : n[i] = m[i]
    BY <1>1
<1> HIDE DEF n, x
<1>3. \A i \in 1..Len(m) : n[i] # x
    BY <1>2 DEF Holds, x
<1>4. ASSUME NEW i \in 1..Len(n), NEW j \in 1..Len(n), n[i] = n[j] PROVE i = j
    <2>1. \A z \in 1..Len(n) : z \in 1..Len(m) \/ z = Len(m) + 1
        BY <1>2
    <2> QED BY <1>2, <1>3, <1>4, <2>1 DEF Threaded
<1>5. ASSUME NEW i \in 1..Len(n) PROVE Belongs(n, i, c, rows)
    <2>1. CASE i \in 1..Len(m)
        <3>1. Belongs(m, i, c, rows) /\ n[i] = m[i]
            BY <1>2, <2>1 DEF Threaded
        <3>2. \A j \in 1..Len(m) : j \in 1..Len(n)
            BY <1>2
        <3> QED BY <1>2, <3>1, <3>2 DEF Belongs
    <2>2. CASE i = Len(m) + 1
        <3>1. n[i] = x
            BY <1>2, <2>2
        <3>2. \A j \in 1..Len(m) : j \in 1..Len(n) /\ j < i
            BY <1>2, <2>2
        <3> QED BY <1>1, <1>2, <3>1, <3>2 DEF Belongs, Holds
    <2> QED BY <1>2, <2>1, <2>2
<1>6. Threaded(n, c, rows)
    BY <1>2, <1>4, <1>5 DEF Threaded
<1>7. Holds(n, x)
    BY <1>2 DEF Holds
<1>8. ASSUME NEW y, Holds(m, y) PROVE Holds(n, y)
    BY <1>2, <1>8 DEF Holds
<1>9. ASSUME NEW y, Holds(n, y) PROVE Holds(m, y) \/ y = x
    BY <1>2, <1>9 DEF Holds
<1> QED BY <1>6, <1>7, <1>8, <1>9 DEF n, x

(* Every chat's messages are threaded, and the question of an accepted     *)
(* task is there as long as its chat is.                                   *)
AskedIn(k) == row[k].visible /\ row[k].chat \in Chats /\ alive[row[k].chat]
                 => Holds(msgs[row[k].chat], Message(k, "user"))
ExchangeInv ==
    /\ ShownInv
    /\ \A c \in Chats : Threaded(msgs[c], c, row)
    /\ \A k \in Keys : AskedIn(k)

LEMMA ExchangeStart == ASSUME Init, ShownInv PROVE ExchangeInv
<1>1. \A c \in Chats : Threaded(msgs[c], c, row)
    BY DEF Init, Threaded
<1>2. \A k \in Keys : AskedIn(k)
    BY DEF Init, AskedIn, AbsentRow
<1> QED BY <1>1, <1>2 DEF ExchangeInv

(* A message to which nothing is added is there before and after. *)
LEMMA DeleteKeepsExchanges ==
    ASSUME ExchangeInv, NEW c \in Chats, DeleteChat(c), ShownInv'
    PROVE  ExchangeInv'
<1>1. /\ row' = row /\ alive' = [alive EXCEPT ![c] = FALSE]
      /\ msgs' = [msgs EXCEPT ![c] = <<>>]
    BY DEF DeleteChat
<1>2. ASSUME NEW d \in Chats PROVE Threaded(msgs'[d], d, row')
    <2>1. CASE d = c
        <3>1. msgs'[d] = <<>>
            BY <1>1, <2>1 DEF ExchangeInv, ShownInv, TypeOK
        <3> QED BY <3>1 DEF Threaded
    <2>2. CASE d # c
        BY <1>1, <2>2 DEF ExchangeInv, ShownInv, TypeOK
    <2> QED BY <2>1, <2>2
<1>3. ASSUME NEW k \in Keys PROVE AskedIn(k)'
    <2>1. SUFFICES ASSUME row[k].visible, row[k].chat \in Chats, alive'[row[k].chat]
                   PROVE  Holds(msgs'[row[k].chat], Message(k, "user"))
        BY <1>1 DEF AskedIn, Holds, Message
    <2>2. row[k].chat # c /\ alive[row[k].chat]
        BY <1>1, <2>1 DEF ExchangeInv, ShownInv, TypeOK
    <2>3. msgs'[row[k].chat] = msgs[row[k].chat]
        BY <1>1, <2>2 DEF ExchangeInv, ShownInv, TypeOK
    <2> QED BY <2>1, <2>2, <2>3 DEF ExchangeInv, AskedIn
<1> QED BY <1>2, <1>3 DEF ExchangeInv

(* The rows go on while the messages of every chat stay or grow.           *)
LEMMA ExchangesGoOn ==
    ASSUME ExchangeInv, ShownInv', alive' = alive,
           \A k \in Keys : Onward(row[k], row'[k]),
           \A c \in Chats : /\ Threaded(msgs'[c], c, row')
                            /\ \A x : Holds(msgs[c], x) => Holds(msgs'[c], x),
           \A k \in Keys : ~row[k].visible /\ row'[k].visible => AskedIn(k)'
    PROVE  ExchangeInv'
<1>1. ASSUME NEW k \in Keys, row[k].visible PROVE AskedIn(k)'
    <2>1. row'[k].chat = row[k].chat
        BY <1>1 DEF Onward
    <2> QED BY <1>1, <2>1 DEF ExchangeInv, AskedIn, Message
<1>2. ASSUME NEW k \in Keys PROVE AskedIn(k)'
    BY <1>1 DEF AskedIn
<1> QED BY <1>2 DEF ExchangeInv

LEMMA SameGoesOn ==
    ASSUME NEW r, NEW q, Follows(r, q) PROVE Onward(r, q)
BY DEF Follows, Onward

LEMMA ShiftKeepsExchanges ==
    ASSUME ExchangeInv, ShownInv', alive' = alive, msgs' = msgs,
           \A k \in Keys : Follows(row[k], row'[k])
    PROVE  ExchangeInv'
<1>1. \A k \in Keys : Onward(row[k], row'[k])
    BY SameGoesOn
<1>2. \A c \in Chats : Threaded(msgs'[c], c, row')
    BY <1>1, ThreadedStays DEF ExchangeInv
<1>3. \A k \in Keys : row'[k].visible => row[k].visible
    BY DEF Follows
<1> QED BY <1>1, <1>2, <1>3, ExchangesGoOn

(* A message is added to the chat its task is bound to.                    *)
Threads(log, rows) == DOMAIN log = Chats /\ \A c \in Chats : Threaded(log[c], c, rows)

LEMMA PostThreads ==
    ASSUME NEW log, NEW rows, Threads(log, rows), NEW c \in Chats,
           NEW k \in Keys, NEW role \in {"user", "assistant"},
           ~Holds(log[c], Message(k, role)), rows[k].visible, rows[k].chat = c,
           role = "assistant" =>
              rows[k].proj # "pending" /\ Holds(log[c], Message(k, "user"))
    PROVE  LET new == Post(log, c, k, role)
           IN  /\ Threads(new, rows)
               /\ Holds(new[c], Message(k, role))
               /\ \A d \in Chats : \A x : Holds(log[d], x) => Holds(new[d], x)
               /\ \A x : Holds(new[c], x) => Holds(log[c], x) \/ x = Message(k, role)
<1> DEFINE new == Post(log, c, k, role)
           n == Append(log[c], Message(k, role))
<1>1. /\ DOMAIN new = Chats /\ new[c] = n
      /\ \A d \in Chats : d # c => new[d] = log[d]
    BY DEF Post, Threads
<1>2. Threaded(log[c], c, rows)
    BY DEF Threads
<1>3. /\ Threaded(n, c, rows) /\ Holds(n, Message(k, role))
      /\ \A x : Holds(log[c], x) => Holds(n, x)
      /\ \A x : Holds(n, x) => Holds(log[c], x) \/ x = Message(k, role)
    BY <1>2, ThreadedGrows
<1> HIDE DEF new, n
<1>4. ASSUME NEW d \in Chats
      PROVE  Threaded(new[d], d, rows) /\ \A x : Holds(log[d], x) => Holds(new[d], x)
    <2>1. CASE d = c
        BY <1>1, <1>3, <2>1
    <2>2. CASE d # c
        BY <1>1, <2>2 DEF Threads
    <2> QED BY <2>1, <2>2
<1>5. Threads(new, rows)
    BY <1>1, <1>4 DEF Threads
<1>6. /\ Holds(new[c], Message(k, role))
      /\ \A x : Holds(new[c], x) => Holds(log[c], x) \/ x = Message(k, role)
    BY <1>1, <1>3
<1>7. \A d \in Chats : \A x : Holds(log[d], x) => Holds(new[d], x)
    BY <1>4
<1> QED BY <1>5, <1>6, <1>7 DEF new

LEMMA MessagesDiffer ==
    ASSUME NEW k
    PROVE  /\ Message(k, "user") # Message(k, "assistant")
           /\ Message(k, "user").task = k /\ Message(k, "assistant").task = k
           /\ Message(k, "user").role = "user"
           /\ Message(k, "assistant").role = "assistant"
BY DEF Message

(* A message of a task tells of its row. *)
LEMMA HeldBelongs ==
    ASSUME ExchangeInv, NEW c \in Chats, NEW k \in Keys
    PROVE  /\ Holds(msgs[c], Message(k, "user")) => row[k].visible /\ row[k].chat = c
           /\ Holds(msgs[c], Message(k, "assistant")) =>
                 /\ row[k].visible /\ row[k].chat = c /\ row[k].proj # "pending"
                 /\ Holds(msgs[c], Message(k, "user"))
<1>1. \A i \in 1..Len(msgs[c]) : Belongs(msgs[c], i, c, row)
    BY DEF ExchangeInv, Threaded
<1>2. CASE Holds(msgs[c], Message(k, "user"))
    BY <1>1, <1>2, MessagesDiffer DEF Holds, Belongs
<1>3. CASE Holds(msgs[c], Message(k, "assistant"))
    BY <1>1, <1>3, MessagesDiffer DEF Holds, Belongs
<1> QED BY <1>2, <1>3

LEMMA AcceptKeepsExchanges ==
    ASSUME ExchangeInv, ShownInv', alive' = alive, NEW j \in Keys, Accepts(j),
           \A k \in Keys \ {j} : Same(row[k], row'[k])
    PROVE  ExchangeInv'
<1>1. /\ ~row[j].visible /\ row'[j].visible /\ row'[j].chat = row[j].chat
      /\ row[j].chat \in Chats => alive[row[j].chat]
    BY DEF Accepts
<1>2. ASSUME NEW k \in Keys PROVE Onward(row[k], row'[k])
    <2>1. CASE k = j
        BY <1>1, <2>1 DEF Onward
    <2>2. CASE k # j
        BY <2>2, SameGoesOn DEF Same
    <2> QED BY <2>1, <2>2
<1>3. Threads(msgs, row')
    BY <1>2, ThreadedStays DEF Threads, ExchangeInv, ShownInv, TypeOK
<1>4. ASSUME NEW k \in Keys, ~row[k].visible, row'[k].visible PROVE k = j
    BY <1>4 DEF Same, Follows
<1>5. CASE row[j].chat \notin Chats
    <2>1. msgs' = msgs
        BY <1>5 DEF Accepts, Ask
    <2>2. AskedIn(j)'
        BY <1>1, <1>5 DEF AskedIn
    <2> QED BY <1>2, <1>3, <1>4, <2>1, <2>2, ExchangesGoOn DEF Threads
<1>6. CASE row[j].chat \in Chats
    <2> DEFINE c == row[j].chat
               asked == Ask(j)
    <2>1. \A x \in {Message(j, "user"), Message(j, "assistant")} : ~Holds(msgs[c], x)
        BY <1>1, <1>6, HeldBelongs
    <2>2. asked = Post(msgs, c, j, "user")
        BY <1>6 DEF Ask
    <2>3. /\ Threads(asked, row') /\ Holds(asked[c], Message(j, "user"))
          /\ \A d \in Chats : \A x : Holds(msgs[d], x) => Holds(asked[d], x)
          /\ \A x : Holds(asked[c], x) => Holds(msgs[c], x) \/ x = Message(j, "user")
        BY <1>1, <1>3, <1>6, <2>1, <2>2, PostThreads
    <2>4. /\ Threads(msgs', row') /\ Holds(msgs'[c], Message(j, "user"))
          /\ \A d \in Chats : \A x : Holds(msgs[d], x) => Holds(msgs'[d], x)
        <3>1. CASE msgs' = Ask(j)
            BY <2>3, <3>1
        <3>2. CASE /\ row'[j].proj # "pending"
                   /\ msgs' = Post(Ask(j), row[j].chat, j, "assistant")
            <4>1. ~Holds(asked[c], Message(j, "assistant"))
                BY <2>1, <2>3, MessagesDiffer
            <4>2. /\ Threads(msgs', row')
                  /\ \A d \in Chats : \A x : Holds(asked[d], x) => Holds(msgs'[d], x)
                BY <1>1, <1>6, <2>3, <3>2, <4>1, PostThreads
            <4> QED BY <1>6, <2>3, <4>2
        <3> QED BY <3>1, <3>2 DEF Accepts
    <2>5. AskedIn(j)'
        BY <1>1, <2>4 DEF AskedIn, Message
    <2> QED BY <1>2, <1>4, <2>4, <2>5, ExchangesGoOn DEF Threads
<1> QED BY <1>5, <1>6

LEMMA AnswerKeepsExchanges ==
    ASSUME ExchangeInv, ShownInv', alive' = alive, NEW j \in Keys, Answers(j),
           \A k \in Keys \ {j} : Same(row[k], row'[k])
    PROVE  ExchangeInv'
<1> DEFINE c == row[j].chat
<1>1. /\ Follows(row[j], row'[j]) /\ row[j].visible
      /\ row[j].proj = "pending" /\ row'[j].proj # "pending"
      /\ c \in Chats /\ alive[c] /\ msgs' = Post(msgs, c, j, "assistant")
    BY DEF Answers
<1>2. \A k \in Keys : Follows(row[k], row'[k])
    BY <1>1 DEF Same
<1>3. \A k \in Keys : Onward(row[k], row'[k])
    BY <1>2, SameGoesOn
<1>4. Threads(msgs, row')
    BY <1>3, ThreadedStays DEF Threads, ExchangeInv, ShownInv, TypeOK
<1>5. Holds(msgs[c], Message(j, "user")) /\ ~Holds(msgs[c], Message(j, "assistant"))
    BY <1>1, HeldBelongs DEF ExchangeInv, AskedIn
<1>6. row'[j].visible /\ row'[j].chat = c
    BY <1>1 DEF Follows
<1>7. /\ Threads(msgs', row')
      /\ \A d \in Chats : \A x : Holds(msgs[d], x) => Holds(msgs'[d], x)
    BY <1>1, <1>4, <1>5, <1>6, PostThreads
<1>8. \A k \in Keys : row'[k].visible => row[k].visible
    BY <1>2 DEF Follows
<1> QED BY <1>3, <1>7, <1>8, ExchangesGoOn DEF Threads

LEMMA ExchangeInvStep == ExchangeInv /\ ShownInv' /\ [Next]_vars => ExchangeInv'
<1> SUFFICES ASSUME ExchangeInv, ShownInv', [Next]_vars PROVE ExchangeInv'
    OBVIOUS
<1>1. ChatStep
    BY EveryStepExchanges DEF ExchangeInv
<1>2. ASSUME alive' = alive, msgs' = msgs, \A k \in Keys : Same(row[k], row'[k])
      PROVE  ExchangeInv'
    BY <1>2, ShiftKeepsExchanges DEF Same
<1>3. ASSUME alive' = alive, NEW j \in Keys, Shifts(j),
             \A k \in Keys \ {j} : Same(row[k], row'[k])
      PROVE  ExchangeInv'
    <2>1. \A k \in Keys : Follows(row[k], row'[k])
        BY <1>3 DEF Shifts, Same
    <2> QED BY <1>3, <2>1, ShiftKeepsExchanges DEF Shifts
<1> QED BY <1>1, <1>2, <1>3, DeleteKeepsExchanges, AcceptKeepsExchanges,
           AnswerKeepsExchanges DEF ChatStep

(* The messages that tasks have put into a chat are always in order: each  *)
(* is there once, belongs to an accepted task of this chat, and an answer  *)
(* comes after its question and with the projection recorded in its row.   *)
THEOREM ExchangesAreThreaded == Spec => []ExchangeInv
<1>1. Init /\ ShownInv => ExchangeInv
    BY ExchangeStart
<1> QED BY <1>1, ExchangeInvStep, ShownIsInvariant, PTL DEF Spec

(* Whatever attempts, readers, losses and crashes a task has seen, its chat *)
(* has its question once and its answer at most once, after the question;   *)
(* and no other chat has anything of it.                                    *)
THEOREM OneExchangeHolds == Spec => []OneExchange
<1>1. ASSUME ExchangeInv PROVE OneExchange
    <2>1. SUFFICES ASSUME NEW c \in Chats, NEW k \in Keys
          PROVE  LET asked == Posted(c, Message(k, "user"))
                     told  == Posted(c, Message(k, "assistant"))
                 IN  /\ Cardinality(asked) <= 1 /\ Cardinality(told) <= 1
                     /\ \A i \in told : \E j \in asked : j < i
                     /\ asked # {} => row[k].chat = c
        BY DEF OneExchange
    <2>2. Threaded(msgs[c], c, row) /\ DOMAIN msgs[c] = 1..Len(msgs[c])
        <3>1. Threaded(msgs[c], c, row)
            BY <1>1 DEF ExchangeInv
        <3>2. msgs[c] \in Seq(Messages)
            BY <3>1 DEF Threaded
        <3> QED BY <3>1, <3>2
    <2>3. ASSUME NEW x PROVE Cardinality(Posted(c, x)) <= 1
        <3>1. ASSUME NEW i \in Posted(c, x), NEW j \in Posted(c, x) PROVE i = j
            <4>1. /\ i \in 1..Len(msgs[c]) /\ j \in 1..Len(msgs[c])
                  /\ msgs[c][i] = msgs[c][j]
                BY <2>2 DEF Posted
            <4> QED BY <2>2, <4>1 DEF Threaded
        <3>2. Posted(c, x) = {} \/ \E i : Posted(c, x) = {i}
            BY <3>1
        <3>3. Cardinality(Posted(c, x)) \in {0, 1}
            BY <3>2, FS_EmptySet, FS_Singleton
        <3> QED BY <3>3
    <2>4. ASSUME NEW i \in Posted(c, Message(k, "assistant"))
          PROVE  \E j \in Posted(c, Message(k, "user")) : j < i
        <3>1. i \in 1..Len(msgs[c]) /\ msgs[c][i] = Message(k, "assistant")
            BY <2>2 DEF Posted
        <3> QED BY <2>2, <3>1, MessagesDiffer DEF Posted, Threaded, Belongs
    <2>5. Posted(c, Message(k, "user")) # {} => row[k].chat = c
        BY <1>1, <2>2, HeldBelongs DEF Posted, Holds
    <2> QED BY <2>3, <2>4, <2>5
<1> QED BY <1>1, ExchangesAreThreaded, PTL

-----------------------------------------------------------------------------
(* Inputs and tokens, where no two requests with one key are in flight at  *)
(* once.                                                                   *)

OneAttempt ==
    \A p, q \in Creators : /\ creator[p].pc # "idle" /\ creator[q].pc # "idle"
                           /\ creator[p].key = creator[q].key
                           => p = q

(* What a creator c may rely on of the row r of its key, and of what the   *)
(* module knows of it, m; reg says whether the module is registered.       *)
Promised(c, r, m, reg) ==
    /\ c.pc \in {"posting", "answered", "rejected", "errored"} => ~r.visible
    /\ c.pc \in {"posting", "answered"} =>
          r.inputs = "kept" /\ c.gen = r.gen /\ (reg /\ ~r.dismissed => r.live)
    /\ c.pc = "answered" => m.tok = c.gen
    /\ c.pc = "titling" => r.state \in TerminalStates

(* What an accepted task that has not ended has. *)
Tended(r, m, reg) ==
    r.visible /\ r.state \in ActiveStates /\ ~r.refused =>
       r.inputs = "kept" /\ (reg /\ ~r.dismissed => r.live /\ m.tok = r.gen)

AttemptInv ==
    /\ ShownInv
    /\ \A p \in Creators : creator[p].pc # "idle" =>
          Promised(creator[p], row[creator[p].key], remote[creator[p].key], registered)
    /\ \A k \in Keys : Tended(row[k], remote[k], registered)

(* A row that keeps what is promised of it. *)
Tends(r, q) ==
    /\ q.visible = r.visible /\ q.gen = r.gen
    /\ r.state \in TerminalStates => q.state \in TerminalStates
    /\ r.visible /\ q.state \in ActiveStates => r.state \in ActiveStates
    /\ r.refused => q.refused
    /\ ~r.visible \/ (q.state \in ActiveStates /\ ~q.refused) =>
          /\ r.inputs = "kept" => q.inputs = "kept"
          /\ r.dismissed => q.dismissed
          /\ r.live => q.live \/ q.dismissed

LEMMA TendsKeeps ==
    ASSUME NEW r, NEW q, Tends(r, q), NEW m, NEW m2, m2.tok = m.tok, NEW reg
    PROVE  /\ \A c : Promised(c, r, m, reg) => Promised(c, q, m2, reg)
           /\ Tended(r, m, reg) => Tended(q, m2, reg)
BY DEF Tends, Promised, Tended

LEMMA RowTends == ASSUME NEW r PROVE Tends(r, r)
BY DEF Tends

LEMMA SettleTends ==
    ASSUME NEW r \in Row, NEW q \in Row, r.visible, Tends(r, q)
    PROVE  Tends(r, Settle(q)) /\ \A u \in Stages(q) : Tends(r, u)
<1>1. q.state \in TerminalStates => q.state \notin ActiveStates
    BY DEF TerminalStates, ActiveStates
<1>2. q.state \in TerminalStates => Tends(r, Retire(q)) /\ Tends(r, [q EXCEPT !.live = FALSE])
    BY <1>1 DEF Tends, Retire, Row
<1> QED BY <1>2 DEF Settle, Stages

LEMMA ProjectionTends ==
    ASSUME NEW r, NEW q \in Row, NEW s, Tends(r, q)
    PROVE  Tends(r, ApplyProjection(q, s))
<1> DEFINE z == ApplyProjection(q, s)
<1>1. /\ z.visible = q.visible /\ z.gen = q.gen /\ z.state = q.state
      /\ z.inputs = q.inputs /\ z.live = q.live
      /\ z.refused = q.refused /\ z.dismissed = q.dismissed
    BY DEF ApplyProjection, Row
<1> HIDE DEF z
<1>2. Tends(r, z)
    BY <1>1 DEF Tends
<1> QED BY <1>2 DEF z

LEMMA SuppressKeeps ==
    ASSUME NEW r \in Row
    PROVE  /\ Suppress(r).visible = r.visible /\ Suppress(r).gen = r.gen
           /\ Suppress(r).state = r.state /\ Suppress(r).inputs = r.inputs
           /\ Suppress(r).live = r.live /\ Suppress(r).refused = r.refused
           /\ Suppress(r).dismissed = r.dismissed
BY DEF Suppress, Row

LEMMA ReportTends ==
    ASSUME NEW r \in Row, Shown(r), r.visible, NEW s \in PublicStates, NEW id \in Nat,
           TransitionAllowed(r.state, s)
    PROVE  Tends(r, Suppress(Report(r, s, id)))
<1> DEFINE q == Suppress(Report(r, s, id))
<1>1. Report(r, s, id) \in Row
    BY ReportIsRow
<1>2. /\ q.visible = r.visible /\ q.gen = r.gen /\ q.state = s
      /\ q.inputs = r.inputs /\ q.live = r.live
      /\ q.refused = r.refused /\ q.dismissed = r.dismissed
    <2> DEFINE z == Report(r, s, id)
    <2>1. /\ z.visible = r.visible /\ z.gen = r.gen /\ z.state = s
          /\ z.inputs = r.inputs /\ z.live = r.live
          /\ z.refused = r.refused /\ z.dismissed = r.dismissed
        BY DEF Report, Row
    <2> QED BY <1>1, <2>1, SuppressKeeps
<1>3. r.state \in PublicStates
    BY DEF Shown
<1>4. /\ r.state \in TerminalStates => s = r.state
      /\ s \in ActiveStates => r.state \in ActiveStates
    BY <1>3 DEF TransitionAllowed, PublicStates, ActiveStates, TerminalStates
<1> HIDE DEF q
<1>5. Tends(r, q)
    BY <1>2, <1>4 DEF Tends
<1> QED BY <1>5 DEF q

LEMMA UpdateTends ==
    ASSUME NEW r \in Row, Shown(r), r.visible, NEW s \in PublicStates, NEW id \in Nat,
           TransitionAllowed(r.state, s)
    PROVE  Tends(r, UpdateSummary(r, s, id))
<1>1. r.cursor \in Nat
    BY DEF Row
<1>2. (IF id > r.cursor THEN id ELSE r.cursor) \in Nat
    BY <1>1
<1> QED BY <1>2, ReportTends DEF UpdateSummary

LEMMA EventTends ==
    ASSUME NEW r \in Row, Shown(r), r.visible,
           NEW e \in PublicStates \cup {"progress"}, NEW id \in Nat,
           e = "progress" \/ TransitionAllowed(r.state, e)
    PROVE  Tends(r, ApplyEvent(r, e, id))
<1>1. CASE e = "progress"
    BY <1>1 DEF ApplyEvent, Tends, Suppress, Row
<1>2. CASE e # "progress"
    BY <1>2, ReportTends DEF ApplyEvent
<1> QED BY <1>1, <1>2

LEMMA FailAfterTends ==
    ASSUME NEW r \in Row, r.visible, NEW q \in Row, Tends(r, q)
    PROVE  /\ Tends(r, FailStream(q))
           /\ \A u \in Stages(Fail(q)) : Tends(r, u)
<1> DEFINE f == Fail(q)
<1>1. f \in Row
    BY FailIsRow
<1>2. /\ f.visible = q.visible /\ f.gen = q.gen /\ f.state \in TerminalStates
      /\ f.refused = q.refused
    BY DEF Fail, Row, TerminalStates
<1>3. f.state \notin ActiveStates
    BY <1>2 DEF TerminalStates, ActiveStates
<1>4. Tends(r, f)
    BY <1>2, <1>3 DEF Tends
<1>5. FailStream(q) = Settle(f)
    BY <1>2 DEF FailStream, Settle
<1> HIDE DEF f
<1> QED BY <1>1, <1>4, <1>5, SettleTends DEF f

LEMMA FailTends ==
    ASSUME NEW r \in Row, r.visible
    PROVE  /\ Tends(r, FailStream(r))
           /\ \A u \in Stages(Fail(r)) : Tends(r, u)
BY RowTends, FailAfterTends

LEMMA RefuseTends ==
    ASSUME NEW r \in Row PROVE Refuse(r).refused /\ HalfRefuse(r).refused
BY RetireIsRow DEF Refuse, HalfRefuse, Row

LEMMA DismissTends == ASSUME NEW r \in Row PROVE Tends(r, Dismiss(r))
BY DEF Tends, Dismiss, Row

-----------------------------------------------------------------------------
(* What keeps the invariant.                                               *)

LEMMA AllTend ==
    ASSUME AttemptInv, ShownInv', registered' = registered,
           \A k \in Keys : Tends(row[k], row'[k]) /\ remote'[k].tok = remote[k].tok,
           creator' = creator \/ Restart
    PROVE  AttemptInv'
<1>1. \A k \in Keys : Tended(row'[k], remote'[k], registered')
    BY TendsKeeps DEF AttemptInv
<1>2. ASSUME NEW p \in Creators, creator'[p].pc # "idle"
      PROVE  Promised(creator'[p], row'[creator'[p].key], remote'[creator'[p].key],
                      registered')
    <2>1. creator' = creator
        BY <1>2 DEF Restart, Idle
    <2>2. creator[p].pc # "idle" /\ creator[p].key \in Keys
        BY <1>2, <2>1, BusyCreator DEF AttemptInv, ShownInv
    <2> QED BY <2>1, <2>2, TendsKeeps DEF AttemptInv
<1> QED BY <1>1, <1>2 DEF AttemptInv

LEMMA OneTends ==
    ASSUME AttemptInv, ShownInv', UNCHANGED <<registered, remote>>,
           NEW j \in Keys, NEW q, row' = [row EXCEPT ![j] = q], Tends(row[j], q),
           creator' = creator \/ Restart
    PROVE  AttemptInv'
<1>1. \A k \in Keys : Tends(row[k], row'[k])
    BY RowTends DEF AttemptInv, ShownInv, TypeOK
<1> QED BY <1>1, AllTend

LEMMA NoneTends ==
    ASSUME AttemptInv, ShownInv', UNCHANGED <<row, registered>>,
           \A k \in Keys : remote'[k].tok = remote[k].tok, creator' = creator \/ Restart
    PROVE  AttemptInv'
BY RowTends, AllTend

LEMMA StoppedTends ==
    ASSUME AttemptInv, ShownInv', NEW j \in Keys, NEW rows, Stopped(j, rows),
           \A q \in rows : Tended(q, remote[j], registered)
    PROVE  AttemptInv'
<1>1. PICK q \in rows : /\ row' = [row EXCEPT ![j] = q]
                        /\ Restart /\ UNCHANGED <<registered, remote>>
    BY DEF Stopped
<1>2. \A k \in Keys : Tended(row'[k], remote'[k], registered')
    BY <1>1 DEF AttemptInv, ShownInv, TypeOK
<1>3. \A p \in Creators : creator'[p].pc = "idle"
    BY <1>1 DEF Restart, Idle
<1> QED BY <1>2, <1>3 DEF AttemptInv

(* A creator goes on, as c, with the row and the task of its key. *)
GoesOn(p, k, c) ==
    /\ creator' = [creator EXCEPT ![p] = c]
    /\ c.pc = "idle" \/ c.key = k
    /\ \A u \in Creators \ {p} : creator[u].pc # "idle" => creator[u].key # k
    /\ \A j \in Keys \ {k} : row'[j] = row[j] /\ remote'[j] = remote[j]
    /\ c.pc # "idle" => Promised(c, row'[k], remote'[k], registered)
    /\ Tended(row'[k], remote'[k], registered)

LEMMA OneCreates ==
    ASSUME AttemptInv, ShownInv', registered' = registered,
           NEW p \in Creators, NEW k \in Keys, NEW c, GoesOn(p, k, c)
    PROVE  AttemptInv'
<1>0. /\ creator' = [creator EXCEPT ![p] = c]
      /\ c.pc = "idle" \/ c.key = k
      /\ \A u \in Creators \ {p} : creator[u].pc # "idle" => creator[u].key # k
      /\ \A j \in Keys \ {k} : row'[j] = row[j] /\ remote'[j] = remote[j]
      /\ c.pc # "idle" => Promised(c, row'[k], remote'[k], registered)
      /\ Tended(row'[k], remote'[k], registered)
    BY DEF GoesOn
<1>1. ASSUME NEW j \in Keys PROVE Tended(row'[j], remote'[j], registered')
    BY <1>0 DEF AttemptInv
<1>2. ASSUME NEW u \in Creators, creator'[u].pc # "idle"
      PROVE  Promised(creator'[u], row'[creator'[u].key], remote'[creator'[u].key],
                      registered')
    <2>1. CASE u = p
        <3>1. creator'[u] = c
            BY <1>0, <2>1 DEF AttemptInv, ShownInv, TypeOK
        <3> QED BY <1>0, <1>2, <3>1
    <2>2. CASE u # p
        <3>1. creator'[u] = creator[u] /\ creator[u].pc # "idle"
            BY <1>0, <1>2, <2>2 DEF AttemptInv, ShownInv, TypeOK
        <3>2. creator[u].key \in Keys \ {k}
            BY <1>0, <2>2, <3>1, BusyCreator DEF AttemptInv, ShownInv
        <3> QED BY <1>0, <3>1, <3>2 DEF AttemptInv
    <2> QED BY <2>1, <2>2
<1> QED BY <1>1, <1>2 DEF AttemptInv

-----------------------------------------------------------------------------
(* Every step keeps it.                                                    *)

LEMMA EventRowTends ==
    ASSUME ShownInv, NEW w \in Watchers, EventReady(w), EventFits(w)
    PROVE  LET k == watcher[w].key
               q == ApplyEvent(row[k], NextEvent(w), watcher[w].pos + 1)
           IN  /\ k \in Keys /\ row[k] \in Row /\ row[k].visible
               /\ q \in Row /\ Tends(row[k], q)
<1>1. /\ watcher[w].key \in Keys /\ watcher[w].pos + 1 \in Nat
      /\ NextEvent(w) \in PublicStates \cup {"progress"}
    BY NextEventIsTyped DEF ShownInv
<1>2. /\ row[watcher[w].key] \in Row /\ Shown(row[watcher[w].key])
      /\ row[watcher[w].key].visible
    BY WatchedRow DEF EventReady
<1> QED BY <1>1, <1>2, ApplyEventIsRow, EventTends DEF EventFits

LEMMA WatchAttempts ==
    ASSUME AttemptInv, ShownInv', NEW w \in Watchers, WatchStep(w)
    PROVE  AttemptInv'
<1> DEFINE k == watcher[w].key
           s == watcher[w].state
<1>0. ShownInv /\ UNCHANGED <<creator, remote, registered>>
    <2>1. UNCHANGED <<creator, remote>>
        BY WatchFrame
    <2>2. registered' = registered
        BY DEF WatchStep, ReadTask, OpenStream, RemoteGet, FinishGet, GetLost, RelayEvent,
           StreamEvent, StreamMisfit, StreamLost, StreamClosed, EndStream,
           GetSpoiled, StreamSpoiled
    <2> QED BY <2>1, <2>2 DEF AttemptInv
<1>1. ASSUME row' = row PROVE AttemptInv'
    BY <1>0, <1>1, NoneTends
<1>2. ASSUME NEW j \in Keys, ReadTask(w, j) PROVE AttemptInv'
    BY <1>1, <1>2 DEF ReadTask
<1>3. ASSUME NEW j \in Keys, NEW from, OpenStream(w, j, from) PROVE AttemptInv'
    BY <1>1, <1>3 DEF OpenStream
<1>4. CASE RemoteGet(w) \/ RelayEvent(w) \/ StreamClosed(w)
    BY <1>1, <1>4 DEF RemoteGet, RelayEvent, StreamClosed
<1>5. CASE FinishGet(w)
    <2> DEFINE updated == UpdateSummary(row[k], s, watcher[w].last)
               q == ApplyProjection(Settle(updated), s)
    <2>1. watcher[w].pc # "idle" /\ s \in PublicStates /\ watcher[w].last \in Nat
        BY <1>0, <1>5, ReceivedWatcher DEF FinishGet, Received, ShownInv
    <2>2. k \in Keys /\ row[k] \in Row /\ Shown(row[k]) /\ row[k].visible
        BY <1>0, <2>1, WatchedRow
    <2>3. CASE TransitionAllowed(row[k].state, s)
        <3>1. updated \in Row /\ Tends(row[k], updated)
            BY <2>1, <2>2, <2>3, UpdateSummaryIsRow, UpdateTends
        <3>2. Settle(updated) \in Row /\ Tends(row[k], Settle(updated))
            BY <2>2, <3>1, SettleIsRow, SettleTends
        <3>3. Tends(row[k], q)
            BY <3>2, ProjectionTends
        <3>4. row' = [row EXCEPT ![k] = q]
            BY <1>5, <2>3 DEF FinishGet
        <3> HIDE DEF q
        <3> QED BY <1>0, <2>2, <3>3, <3>4, OneTends
    <2>4. CASE ~TransitionAllowed(row[k].state, s)
        BY <1>0, <1>5, <2>2, <2>4, FailTends, OneTends DEF FinishGet
    <2> QED BY <2>3, <2>4
<1>6. CASE GetLost(w)
    <2>1. watcher[w].pc # "idle"
        BY <1>6 DEF GetLost, Awaiting, Received
    <2> QED BY <1>0, <1>6, <2>1, WatchedRow, FailTends, OneTends DEF GetLost
<1>7. CASE StreamEvent(w)
    <2> DEFINE q == ApplyEvent(row[k], NextEvent(w), watcher[w].pos + 1)
    <2>1. /\ k \in Keys /\ row[k] \in Row /\ row[k].visible
          /\ q \in Row /\ Tends(row[k], q)
        BY <1>0, <1>7, EventRowTends DEF StreamEvent
    <2>2. Tends(row[k], Settle(q))
        BY <2>1, SettleTends
    <2> QED BY <1>0, <1>7, <2>1, <2>2, OneTends DEF StreamEvent
<1>8. ASSUME watcher[w].pc # "idle", EndStream(w)
      PROVE  AttemptInv'
    <2>1. /\ k \in Keys /\ Tends(row[k], row[k])
          /\ Tends(row[k], FailStream(row[k]))
        BY <1>0, <1>8, WatchedRow, RowTends, FailTends
    <2> QED BY <1>0, <1>8, <2>1, OneTends DEF EndStream
<1>9. CASE StreamMisfit(w)
    BY <1>8, <1>9 DEF StreamMisfit, EventReady
<1>10. CASE StreamLost(w)
    BY <1>8, <1>10 DEF StreamLost
<1>11. CASE GetSpoiled(w)
    <2> DEFINE updated == UpdateSummary(row[k], s, watcher[w].last)
    <2>1. /\ watcher[w].pc # "idle" /\ s \in PublicStates /\ watcher[w].last \in Nat
          /\ TransitionAllowed(row[k].state, s)
        BY <1>0, <1>11, ReceivedWatcher DEF GetSpoiled, Received, ShownInv
    <2>2. k \in Keys /\ row[k] \in Row /\ Shown(row[k]) /\ row[k].visible
        BY <1>0, <2>1, WatchedRow
    <2>3. updated \in Row /\ Tends(row[k], updated)
        BY <2>1, <2>2, UpdateSummaryIsRow, UpdateTends
    <2>4. Tends(row[k], FailStream(updated))
        BY <2>2, <2>3, FailAfterTends
    <2> QED BY <1>0, <1>11, <2>2, <2>4, OneTends DEF GetSpoiled
<1>12. CASE StreamSpoiled(w)
    <2> DEFINE told == ApplyEvent(row[k], "progress", watcher[w].pos + 1)
               q == IF told.state \in TerminalStates THEN told ELSE FailStream(told)
    <2>1. EventReady(w) /\ EventFits(w) /\ NextEvent(w) = "progress"
        BY <1>12 DEF StreamSpoiled, EventFits
    <2>2. /\ k \in Keys /\ row[k] \in Row /\ row[k].visible
          /\ told \in Row /\ Tends(row[k], told)
        BY <1>0, <2>1, EventRowTends
    <2>3. Tends(row[k], FailStream(told))
        BY <2>2, FailAfterTends
    <2>4. row' = [row EXCEPT ![k] = q]
        BY <1>12 DEF StreamSpoiled
    <2>5. Tends(row[k], q)
        BY <2>2, <2>3
    <2> HIDE DEF q
    <2> QED BY <1>0, <2>2, <2>4, <2>5, OneTends
<1> QED BY <1>2, <1>3, <1>4, <1>5, <1>6, <1>7, <1>9, <1>10, <1>11, <1>12 DEF WatchStep

LEMMA CancelRowTends ==
    ASSUME ShownInv, NEW x \in Cancellers, canceller[x].pc = "answered",
           TransitionAllowed(row[canceller[x].key].state, canceller[x].state)
    PROVE  LET k == canceller[x].key
               q == UpdateSummary(row[k], canceller[x].state, canceller[x].last)
           IN  q \in Row /\ Tends(row[k], q)
BY CancelledRow, AnsweredCanceller, UpdateSummaryIsRow, UpdateTends DEF ShownInv

LEMMA CancelAttempts ==
    ASSUME AttemptInv, ShownInv', NEW x \in Cancellers, CancelStep(x)
    PROVE  AttemptInv'
<1> DEFINE k == canceller[x].key
           s == canceller[x].state
<1>0. /\ ShownInv /\ creator' = creator
      /\ registered' = registered
    <2>1. creator' = creator
        BY CancelFrame
    <2>2. registered' = registered
        BY DEF CancelStep, StartCancel, RemoteCancel, FinishCancel, CancelRefused, CancelLost
    <2> QED BY <2>1, <2>2 DEF AttemptInv
<1>1. CASE (\E j \in Keys : StartCancel(x, j)) \/ CancelRefused(x)
    BY <1>0, <1>1, NoneTends DEF StartCancel, CancelRefused
<1>2. CASE RemoteCancel(x)
    <2>1. row' = row
        BY <1>2 DEF RemoteCancel
    <2>2. ASSUME NEW j \in Keys PROVE remote'[j].tok = remote[j].tok
        <3>1. remote[j] \in RemoteTask /\ remote \in [Keys -> RemoteTask]
            BY <1>0 DEF ShownInv, TypeOK
        <3> QED BY <1>2, <3>1 DEF RemoteCancel, RemoteTask
    <2> QED BY <1>0, <2>1, <2>2, NoneTends
<1>3. CASE FinishCancel(x)
    <2>1. /\ canceller[x].pc = "answered" /\ k \in Keys /\ row[k] \in Row
          /\ row[k].visible /\ remote' = remote
        BY <1>0, <1>3, CancelledRow DEF FinishCancel
    <2>2. CASE TransitionAllowed(row[k].state, s)
        <3> DEFINE q == UpdateSummary(row[k], s, canceller[x].last)
        <3>1. Tends(row[k], Settle(q))
            BY <1>0, <2>1, <2>2, CancelRowTends, SettleTends
        <3> QED BY <1>0, <1>3, <2>1, <2>2, <3>1, OneTends DEF FinishCancel
    <2>3. CASE ~TransitionAllowed(row[k].state, s)
        BY <1>0, <1>3, <2>1, <2>3, RowTends, OneTends DEF FinishCancel
    <2> QED BY <2>2, <2>3
<1>4. CASE CancelLost(x)
    <2> DEFINE q == IF row[k].state \in TerminalStates THEN row[k]
                    ELSE [row[k] EXCEPT !.state = "cancel_requested",
                                        !.sync = "unreachable"]
    <2>1. k \in Keys /\ row[k] \in Row /\ Shown(row[k]) /\ row[k].visible
        BY <1>0, <1>4, CancelledRow DEF CancelLost
    <2>2. Tends(row[k], q)
        BY <2>1 DEF Tends, Shown, Row, PublicStates
    <2> QED BY <1>0, <1>4, <2>1, <2>2, OneTends DEF CancelLost
<1> QED BY <1>1, <1>2, <1>3, <1>4 DEF CancelStep

LEMMA RemoteAttempts ==
    ASSUME AttemptInv, ShownInv', NEW k \in Keys, RemoteStep(k)
    PROVE  AttemptInv'
<1>1. UNCHANGED <<row, registered, creator>>
    BY DEF RemoteStep, handlers
<1>2. ASSUME NEW j \in Keys PROVE remote'[j].tok = remote[j].tok
    <2>1. remote[j] \in RemoteTask /\ remote \in [Keys -> RemoteTask]
        BY DEF AttemptInv, ShownInv, TypeOK
    <2> QED BY <2>1 DEF RemoteStep, RemoteTask
<1> QED BY <1>1, <1>2, NoneTends

LEMMA FinalizeKeeps ==
    ASSUME NEW r \in Row, NEW s \in PublicStates, NEW id \in Nat
    PROVE  LET q == Finalize(r, s, id)
           IN  /\ q.state = s /\ q.gen = r.gen
               /\ q.inputs = r.inputs /\ q.live = r.live
               /\ q.dismissed = r.dismissed
<1>1. [r EXCEPT !.visible = TRUE] \in Row
    BY DEF Row
<1> QED BY <1>1 DEF Finalize, Report, Row

LEMMA ConcludeKeeps ==
    ASSUME NEW r \in Row
    PROVE  LET q == Conclude(r, r.state)
           IN  /\ q.state = r.state
               /\ r.state \in ActiveStates =>
                     /\ q.gen = r.gen /\ q.inputs = r.inputs /\ q.live = r.live
                     /\ q.dismissed = r.dismissed
<1> DEFINE z == ApplyProjection(r, r.state)
<1>1. /\ z \in Row /\ z.state = r.state /\ z.gen = r.gen
      /\ z.inputs = r.inputs /\ z.live = r.live /\ z.dismissed = r.dismissed
    BY ApplyProjectionIsRow DEF ApplyProjection, Row
<1>2. Retire(z).state = r.state
    BY <1>1 DEF Retire, Row
<1>3. r.state \in ActiveStates => r.state \notin TerminalStates
    BY DEF ActiveStates, TerminalStates
<1> HIDE DEF z
<1> QED BY <1>1, <1>2, <1>3 DEF Conclude, z

LEMMA CreateAttempts ==
    ASSUME AttemptInv, ShownInv', OneAttempt, OneAttempt', NEW p \in Creators, CreateStep(p)
    PROVE  AttemptInv'
<1> DEFINE k == creator[p].key
           s == creator[p].state
<1>0. /\ ShownInv /\ registered' = registered
      /\ \A j \in Keys : row[j] \in Row /\ Shown(row[j])
      /\ DOMAIN creator = Creators /\ DOMAIN row = Keys /\ DOMAIN remote = Keys
    <2>1. registered' = registered
        BY DEF CreateStep, CreateFirst, CreateAgain, RemoteCreate, RemoteReject,
           RemoteError, CreateLost, CreateRejected, CreateErrored, CreateAccepted,
           CreateDuplicate, CreateChatGone, AcceptSpoiled, DuplicateSpoiled, FinishTitle
    <2> QED BY <2>1 DEF AttemptInv, ShownInv, TypeOK
<1>1. ASSUME creator[p].pc # "idle"
      PROVE  /\ k \in Keys /\ Promised(creator[p], row[k], remote[k], registered)
             /\ \A u \in Creators \ {p} : creator[u].pc # "idle" => creator[u].key # k
    BY <1>0, <1>1, BusyCreator DEF ShownInv, AttemptInv, OneAttempt
(* A request is sent. *)
<1>2. ASSUME NEW j \in Keys, NEW r \in Row, ~r.visible, r.gen = row[j].gen,
             row' = [row EXCEPT ![j] = Issue(r)], SendPost(p, j), remote' = remote
      PROVE  AttemptInv'
    <2> DEFINE c == [pc |-> "posting", key |-> j, gen |-> row[j].gen + 1]
    <2>1. /\ ~Issue(r).visible /\ Issue(r).inputs = "kept" /\ Issue(r).live
          /\ Issue(r).gen = row[j].gen + 1
        BY <1>2 DEF Issue, Row
    <2>2. row'[j] = Issue(r) /\ creator' = [creator EXCEPT ![p] = c]
        BY <1>0, <1>2 DEF SendPost
    <2>3. Promised(c, row'[j], remote'[j], registered) /\ Tended(row'[j], remote'[j], registered)
        BY <2>1, <2>2 DEF Promised, Tended
    <2>4. ASSUME NEW u \in Creators \ {p}, creator[u].pc # "idle" PROVE creator[u].key # j
        <3>1. creator'[u] = creator[u] /\ creator'[p] = c
            BY <1>0, <2>2
        <3> QED BY <2>4, <3>1 DEF OneAttempt
    <2>5. \A i \in Keys \ {j} : row'[i] = row[i] /\ remote'[i] = remote[i]
        BY <1>0, <1>2
    <2>6. GoesOn(p, j, c)
        BY <2>2, <2>3, <2>4, <2>5 DEF GoesOn
    <2> HIDE DEF c
    <2> QED BY <1>0, <2>6, OneCreates
<1>3. ASSUME NEW j \in Keys, NEW c \in Chats \cup {NoChat}, CreateFirst(p, j, c)
      PROVE  AttemptInv'
    <2>1. Submitted(j, c) \in Row
        BY <1>0, SubmittedIsRow DEF ShownInv
    <2>2. ~row[j].visible
        BY <1>0, <1>3 DEF CreateFirst, MaySubmit, Shown, PublicStates, ActiveStates,
           TerminalStates
    <2>3. ~Submitted(j, c).visible /\ Submitted(j, c).gen = row[j].gen
        BY <1>0, <2>2 DEF Submitted, Row
    <2> QED BY <1>2, <1>3, <2>1, <2>3 DEF CreateFirst
<1>4. ASSUME NEW j \in Keys, CreateAgain(p, j) PROVE AttemptInv'
    BY <1>0, <1>2, <1>4 DEF CreateAgain, MayResubmit
(* The creator goes on, and of the row and the task only what it is        *)
(* promised matters.                                                       *)
<1>5. ASSUME creator[p].pc # "idle", NEW c, creator' = [creator EXCEPT ![p] = c],
             c.pc = "idle" \/ c.key = k,
             \A j \in Keys \ {k} : row'[j] = row[j] /\ remote'[j] = remote[j],
             c.pc # "idle" => Promised(c, row'[k], remote'[k], registered),
             Tended(row'[k], remote'[k], registered)
      PROVE  AttemptInv'
    <2>1. k \in Keys /\ GoesOn(p, k, c)
        BY <1>1, <1>5 DEF GoesOn
    <2> QED BY <1>0, <2>1, OneCreates
<1>6. CASE RemoteCreate(p)
    <2> DEFINE m == remote'[k]
               accepted == IF remote[k].state = "none"
                           THEN [remote[k] EXCEPT !.state = "queued"]
                           ELSE remote[k]
               c == [pc |-> "answered", key |-> k, gen |-> creator[p].gen,
                     state |-> accepted.state, last |-> Len(accepted.log)]
    <2>0. c.pc = "answered" /\ c.key = k /\ c.gen = creator[p].gen
        OBVIOUS
    <2>1. creator' = [creator EXCEPT ![p] = c]
        BY <1>6 DEF RemoteCreate
    <2> HIDE DEF c
    <2>2. creator[p].pc = "posting" /\ row' = row
        BY <1>6 DEF RemoteCreate
    <2>3. /\ m.tok = creator[p].gen
          /\ \A j \in Keys \ {k} : remote'[j] = remote[j]
        <3>1. k \in Keys /\ remote[k] \in RemoteTask
            BY <1>0, <1>1, <2>2 DEF ShownInv, TypeOK
        <3> QED BY <1>0, <1>6, <3>1 DEF RemoteCreate, RemoteTask
    <2>4. Promised(creator[p], row[k], remote[k], registered)
        BY <1>1, <2>2
    <2>5. Promised(c, row'[k], m, registered) /\ Tended(row'[k], m, registered)
        BY <2>0, <2>2, <2>3, <2>4 DEF Promised, Tended
    <2> HIDE DEF m
    <2> QED BY <1>5, <2>0, <2>1, <2>2, <2>3, <2>5 DEF m
<1>7. CASE RemoteReject(p) \/ RemoteError(p)
    <2>1. PICK c : /\ c.pc \in {"rejected", "errored"} /\ c.key = k
                   /\ creator' = [creator EXCEPT ![p] = c]
        BY <1>7 DEF RemoteReject, RemoteError, StepCreate
    <2>2. creator[p].pc \in {"posting", "answered"} /\ UNCHANGED <<row, remote>>
        BY <1>7 DEF RemoteReject, RemoteError
    <2>3. Promised(c, row'[k], remote'[k], registered) /\ Tended(row'[k], remote'[k], registered)
        BY <1>1, <2>1, <2>2 DEF Promised, Tended
    <2> QED BY <1>5, <2>1, <2>2, <2>3
<1>8. CASE CreateLost(p)
    <2>1. /\ creator[p].pc # "idle" /\ UNCHANGED <<row, remote>>
          /\ creator' = [creator EXCEPT ![p] = Idle]
        BY <1>8 DEF CreateLost, EndCreate
    <2>2. Tended(row'[k], remote'[k], registered)
        BY <1>1, <2>1 DEF AttemptInv
    <2> QED BY <1>5, <2>1, <2>2 DEF Idle
(* The creator is done with a row that is not accepted, or has ended.      *)
<1>9. ASSUME creator[p].pc # "idle", NEW q, row' = [row EXCEPT ![k] = q], EndCreate(p),
             remote' = remote, Tended(q, remote[k], registered)
      PROVE  AttemptInv'
    <2>1. row'[k] = q
        BY <1>0, <1>1, <1>9
    <2>2. Idle.pc = "idle"
        BY DEF Idle
    <2> QED BY <1>0, <1>5, <1>9, <2>1, <2>2 DEF EndCreate
<1>10. CASE CreateRejected(p)
    <2>1. k \in Keys /\ ~row[k].visible /\ creator[p].pc # "idle"
        BY <1>1, <1>10 DEF CreateRejected, Promised
    <2>2. ~Retire(Abandon(k)).visible
        BY <1>0, <2>1 DEF Retire, Abandon, Row
    <2>3. Tended(Retire(Abandon(k)), remote[k], registered)
        BY <2>2 DEF Tended
    <2> QED BY <1>9, <1>10, <2>1, <2>3 DEF CreateRejected
<1>11. CASE CreateErrored(p) \/ CreateChatGone(p) \/ FinishTitle(p)
    <2>1. /\ creator[p].pc # "idle" /\ EndCreate(p) /\ remote' = remote
          /\ row' = [row EXCEPT ![k] = Retire(row[k])]
        BY <1>11 DEF CreateErrored, CreateChatGone, FinishTitle
    <2>2. k \in Keys /\ (~row[k].visible \/ row[k].state \in TerminalStates)
        BY <1>1, <1>11 DEF CreateErrored, CreateChatGone, FinishTitle, Promised
    <2>3. Retire(row[k]).visible = row[k].visible /\ Retire(row[k]).state = row[k].state
        BY <1>0, <2>2 DEF Retire, Row
    <2>4. Tended(Retire(row[k]), remote[k], registered)
        BY <2>2, <2>3 DEF Tended, TerminalStates, ActiveStates
    <2> QED BY <1>9, <2>1, <2>4
<1>12. CASE CreateAccepted(p)
    <2> DEFINE shown == Finalize(row[k], s, creator[p].last)
               q == Conclude(shown, s)
    <2>1. k \in Keys /\ s \in PublicStates /\ creator[p].last \in Nat
        BY <1>0, <1>12, AnsweredCreator DEF CreateAccepted, ShownInv
    <2>2. /\ shown \in Row /\ shown.state = s /\ shown.gen = row[k].gen
          /\ shown.inputs = row[k].inputs /\ shown.live = row[k].live
          /\ shown.dismissed = row[k].dismissed
        BY <1>0, <2>1, FinalizeIsRow, FinalizeKeeps
    <2>3. q.state = s /\ (s \in ActiveStates => /\ q.gen = row[k].gen
                          /\ q.inputs = row[k].inputs /\ q.live = row[k].live
                          /\ q.dismissed = row[k].dismissed)
        BY <2>2, ConcludeKeeps
    <2>4. row'[k] = q /\ remote' = remote /\ \A j \in Keys \ {k} : row'[j] = row[j]
        BY <1>0, <1>12, <2>1 DEF CreateAccepted
    <2>5. creator[p].pc = "answered" /\ Promised(creator[p], row[k], remote[k], registered)
        BY <1>1, <1>12 DEF CreateAccepted
    <2>6. Tended(row'[k], remote'[k], registered)
        BY <2>3, <2>4, <2>5 DEF Promised, Tended
    <2>7. CASE Posts(shown, s)
        <3> DEFINE c == [pc |-> "titling", key |-> creator[p].key, gen |-> creator[p].gen]
        <3>1. s \in TerminalStates
            BY <2>7 DEF Posts, Projects, TerminalStates
        <3>2. creator' = [creator EXCEPT ![p] = c]
            BY <1>12, <2>7 DEF CreateAccepted, AfterAnswer, StepCreate
        <3>3. Promised(c, row'[k], remote'[k], registered) /\ c.key = k
            BY <2>3, <2>4, <3>1 DEF Promised
        <3> HIDE DEF c
        <3> QED BY <1>5, <2>4, <2>5, <2>6, <3>2, <3>3
    <2>8. CASE ~Posts(shown, s)
        <3>1. creator' = [creator EXCEPT ![p] = Idle] /\ Idle.pc = "idle"
            BY <1>12, <2>8 DEF CreateAccepted, AfterAnswer, EndCreate, Idle
        <3> QED BY <1>5, <2>4, <2>5, <2>6, <3>1
    <2> QED BY <2>7, <2>8
<1>13. CASE CreateDuplicate(p)
    BY <1>1, <1>13 DEF CreateDuplicate, Promised
<1>14. CASE DuplicateSpoiled(p)
    BY <1>1, <1>14 DEF DuplicateSpoiled, Promised
<1>15. CASE AcceptSpoiled(p)
    <2> DEFINE shown == Finalize(row[k], s, creator[p].last)
    <2>1. k \in Keys /\ s \in PublicStates /\ creator[p].last \in Nat
        BY <1>0, <1>15, AnsweredCreator DEF AcceptSpoiled, ShownInv
    <2>2. Refuse(shown).refused
        BY <1>0, <2>1, FinalizeIsRow, RefuseTends
    <2>3. Tended(Refuse(shown), remote[k], registered)
        BY <2>2 DEF Tended
    <2> QED BY <1>9, <1>15, <2>3 DEF AcceptSpoiled
<1> QED BY <1>3, <1>4, <1>6, <1>7, <1>8, <1>10, <1>11, <1>12, <1>13, <1>14, <1>15
        DEF CreateStep

LEMMA ServerAttempts ==
    ASSUME AttemptInv, ShownInv', ServerStep
    PROVE  AttemptInv'
<1>0. /\ ShownInv
      /\ \A j \in Keys : /\ row[j] \in Row /\ Shown(row[j])
                         /\ Tended(row[j], remote[j], registered)
    BY DEF AttemptInv, ShownInv, TypeOK
(* A stop forgets the creators: what is left to show is that the row is as *)
(* it should be, which it is when it tends.                                *)
<1>1. ASSUME NEW j \in Keys, NEW rows, Stopped(j, rows), \A q \in rows : Tends(row[j], q)
      PROVE  AttemptInv'
    BY <1>0, <1>1, TendsKeeps, StoppedTends
<1>2. ASSUME NEW j \in Keys, ReadOrphan(j) PROVE AttemptInv'
    BY <1>0, <1>2, FailTends, OneTends DEF ReadOrphan, MayReconcile, handlers
<1>3. ASSUME NEW j \in Keys, CleanupInputs(j) PROVE AttemptInv'
    <2>1. Tends(row[j], [row[j] EXCEPT !.inputs = "deleted"])
        <3>1. row[j].inputs # "kept" /\ row[j].state \in TerminalStates
                  => row[j].state \notin ActiveStates
            BY DEF TerminalStates, ActiveStates
        <3> QED BY <1>0, <1>3, <3>1 DEF CleanupInputs, Tends, Row
    <2> QED BY <1>3, <2>1, OneTends DEF CleanupInputs, handlers
<1>4. ASSUME NEW c \in Chats, ClaimGeneration(c) \/ ReleaseGeneration(c) \/ DeleteChat(c)
      PROVE  AttemptInv'
    BY <1>4, NoneTends DEF ClaimGeneration, ReleaseGeneration, DeleteChat, handlers
<1>5. ASSUME Disconnect \/ TornDisconnect PROVE AttemptInv'
    <2>1. ~registered' /\ remote' = remote /\ (creator' = creator \/ Restart)
        BY <1>5 DEF Disconnect, TornDisconnect, handlers
    <2>2. ASSUME NEW j \in Keys
          PROVE  /\ row'[j].visible = row[j].visible /\ row'[j].state = row[j].state
                 /\ row'[j].gen = row[j].gen /\ row'[j].inputs = row[j].inputs
                 /\ row'[j].refused = row[j].refused
        <3>1. CASE Disconnect
            BY <1>0, <3>1 DEF Disconnect, Row
        <3>2. CASE TornDisconnect
            <4>1. CASE row' = row
                BY <4>1
            <4>2. CASE row' = [k \in Keys |-> [row[k] EXCEPT !.live = FALSE]]
                <5>1. row'[j] = [row[j] EXCEPT !.live = FALSE]
                    BY <4>2
                <5> QED BY <1>0, <5>1 DEF Row
            <4> QED BY <3>2, <4>1, <4>2 DEF TornDisconnect
        <3> QED BY <1>5, <3>1, <3>2
    <2>3. \A j \in Keys : Tended(row'[j], remote'[j], registered')
        BY <1>0, <2>1, <2>2 DEF Tended
    <2>4. ASSUME NEW p \in Creators, creator'[p].pc # "idle"
          PROVE  Promised(creator'[p], row'[creator'[p].key], remote'[creator'[p].key],
                          registered')
        <3>1. creator' = creator
            BY <2>1, <2>4 DEF Restart, Idle
        <3>2. /\ creator[p].key \in Keys
              /\ Promised(creator[p], row[creator[p].key], remote[creator[p].key], registered)
            BY <1>0, <2>4, <3>1, BusyCreator DEF AttemptInv, ShownInv
        <3> QED BY <2>1, <2>2, <3>1, <3>2 DEF Promised
    <2> QED BY <2>3, <2>4 DEF AttemptInv
<1>6. CASE Crash
    BY <1>6, NoneTends DEF Crash
<1>7. ASSUME NEW j \in Keys, TornAgain(j) PROVE AttemptInv'
    <2>1. Tends(row[j], [row[j] EXCEPT !.inputs = "kept"])
        BY <1>0, <1>7 DEF TornAgain, MayResubmit, Tends, Row
    <2> QED BY <1>1, <1>7, <2>1 DEF TornAgain
<1>8. ASSUME NEW j \in Keys, TornOrphan(j) PROVE AttemptInv'
    BY <1>0, <1>1, <1>8, FailTends DEF TornOrphan, MayReconcile
<1>9. ASSUME NEW j \in Keys, NEW c \in Chats \cup {NoChat}, TornFirst(j, c)
      PROVE  AttemptInv'
    <2>1. ~row[j].visible /\ row[j].state \notin TerminalStates
        BY <1>0, <1>9 DEF TornFirst, MaySubmit, Shown, PublicStates, ActiveStates,
           TerminalStates
    <2>2. Tends(row[j], Submitted(j, c))
        BY <1>0, <2>1 DEF Tends, Submitted, Row
    <2> QED BY <1>1, <1>9, <2>2 DEF TornFirst
<1>10. ASSUME NEW p \in Creators, creator[p].pc # "idle"
       PROVE  /\ creator[p].key \in Keys
              /\ Promised(creator[p], row[creator[p].key], remote[creator[p].key], registered)
    BY <1>0, <1>10, BusyCreator DEF AttemptInv, ShownInv
<1>11. ASSUME NEW p \in Creators, TornAccept(p) PROVE AttemptInv'
    <2> DEFINE k == creator[p].key
               s == creator[p].state
               shown == Finalize(row[k], s, creator[p].last)
               projected == ApplyProjection(shown, s)
    <2>1. /\ k \in Keys /\ s \in PublicStates /\ creator[p].last \in Nat
          /\ creator[p].pc = "answered"
          /\ Promised(creator[p], row[k], remote[k], registered)
        BY <1>0, <1>10, <1>11, AnsweredCreator DEF TornAccept, ShownInv
    <2>2. /\ shown \in Row /\ shown.state = s /\ shown.gen = row[k].gen
          /\ shown.inputs = row[k].inputs /\ shown.live = row[k].live
          /\ shown.dismissed = row[k].dismissed
        BY <1>0, <2>1, FinalizeIsRow, FinalizeKeeps
    <2>3. Tended(shown, remote[k], registered)
        BY <2>1, <2>2 DEF Promised, Tended
    <2>4. /\ projected \in Row /\ projected.state = s /\ projected.gen = row[k].gen
          /\ projected.inputs = row[k].inputs /\ projected.live = row[k].live
          /\ projected.dismissed = row[k].dismissed
        BY <2>2, ApplyProjectionIsRow DEF ApplyProjection, Row
    <2>5. ASSUME NEW q \in Stages(projected) PROVE Tended(q, remote[k], registered)
        <3>1. CASE s \in TerminalStates
            <4>1. q.state = s
                BY <2>4, <2>5 DEF Stages, Retire, Row
            <4> QED BY <3>1, <4>1 DEF Tended, TerminalStates, ActiveStates
        <3>2. CASE s \notin TerminalStates
            <4>1. q = projected
                BY <2>4, <2>5, <3>2 DEF Stages
            <4> QED BY <2>1, <2>4, <4>1 DEF Promised, Tended
        <3> QED BY <3>1, <3>2
    <2>6. \/ Stopped(k, {shown, HalfRefuse(shown)})
          \/ Stopped(k, Stages(projected))
        BY <1>11 DEF TornAccept
    <2> HIDE DEF shown, projected
    <2>7. CASE Stopped(k, {shown, HalfRefuse(shown)})
        <3>1. Tended(HalfRefuse(shown), remote[k], registered)
            BY <2>2, RefuseTends DEF Tended
        <3> QED BY <2>1, <2>3, <2>7, <3>1, StoppedTends
    <2>8. CASE Stopped(k, Stages(projected))
        BY <2>1, <2>5, <2>8, StoppedTends
    <2> QED BY <2>6, <2>7, <2>8
<1>12. ASSUME NEW p \in Creators, TornDuplicate(p) PROVE AttemptInv'
    BY <1>10, <1>12 DEF TornDuplicate, Promised
<1>18. ASSUME NEW p \in Creators, TornSpoiled(p) PROVE AttemptInv'
    BY <1>10, <1>18 DEF TornSpoiled, Promised
<1>13. ASSUME NEW p \in Creators, TornRetire(p) PROVE AttemptInv'
    <2> DEFINE k == creator[p].key
               given == [Retire(Abandon(k)) EXCEPT !.live = row[k].live]
               revoked == [row[k] EXCEPT !.live = FALSE]
    <2>1. /\ k \in Keys
          /\ creator[p].pc = "rejected" => ~row[k].visible
          /\ ~row[k].visible \/ row[k].state \in TerminalStates
        BY <1>10, <1>13 DEF TornRetire, Promised
    <2>2. creator[p].pc = "rejected" =>
             Tended(Abandon(k), remote[k], registered) /\ Tended(given, remote[k], registered)
        BY <1>0, <2>1 DEF Tended, Abandon, Retire, Row
    <2>3. Tended(revoked, remote[k], registered)
        BY <1>0, <2>1 DEF Tended, Row, TerminalStates, ActiveStates
    <2>4. \/ creator[p].pc = "rejected" /\ Stopped(k, {Abandon(k), given})
          \/ Stopped(k, {revoked})
        BY <1>13 DEF TornRetire
    <2> HIDE DEF given, revoked
    <2>5. CASE creator[p].pc = "rejected" /\ Stopped(k, {Abandon(k), given})
        BY <2>1, <2>2, <2>5, StoppedTends
    <2>6. CASE Stopped(k, {revoked})
        BY <2>1, <2>3, <2>6, StoppedTends
    <2> QED BY <2>4, <2>5, <2>6
<1>14. ASSUME NEW w \in Watchers, TornGet(w) PROVE AttemptInv'
    <2> DEFINE k == watcher[w].key
               q == UpdateSummary(row[k], watcher[w].state, watcher[w].last)
    <2>1. /\ watcher[w].pc # "idle" /\ watcher[w].state \in PublicStates
          /\ watcher[w].last \in Nat
        BY <1>0, <1>14, ReceivedWatcher DEF TornGet, Received, ShownInv
    <2>2. k \in Keys /\ row[k] \in Row /\ Shown(row[k]) /\ row[k].visible
        BY <1>0, <2>1, WatchedRow
    <2>3. q \in Row /\ Tends(row[k], q)
        BY <1>14, <2>1, <2>2, UpdateSummaryIsRow, UpdateTends DEF TornGet
    <2>4. \A u \in Stages(q) \cup Stages(Fail(q)) : Tends(row[k], u)
        BY <2>2, <2>3, SettleTends, FailAfterTends
    <2>5. Stopped(k, Stages(q) \cup Stages(Fail(q)))
        BY <1>14 DEF TornGet
    <2> HIDE DEF q
    <2> QED BY <1>1, <2>2, <2>4, <2>5
<1>15. ASSUME NEW w \in Watchers, TornEvent(w) PROVE AttemptInv'
    <2> DEFINE k == watcher[w].key
               q == ApplyEvent(row[k], NextEvent(w), watcher[w].pos + 1)
    <2>1. /\ k \in Keys /\ row[k] \in Row /\ row[k].visible
          /\ q \in Row /\ Tends(row[k], q)
        BY <1>0, <1>15, EventRowTends DEF TornEvent
    <2> DEFINE rows == Stages(q) \cup IF NextEvent(w) = "progress"
                                      THEN Stages(Fail(q)) ELSE {}
    <2>2. \A u \in rows : Tends(row[k], u)
        BY <2>1, SettleTends, FailAfterTends
    <2>3. Stopped(k, rows)
        BY <1>15 DEF TornEvent
    <2> HIDE DEF rows
    <2> QED BY <1>1, <2>1, <2>2, <2>3
<1>16. ASSUME NEW w \in Watchers, TornFailure(w) PROVE AttemptInv'
    BY <1>0, <1>1, <1>16, WatchedRow, FailTends DEF TornFailure
<1>17. ASSUME NEW x \in Cancellers, TornCancel(x) PROVE AttemptInv'
    <2> DEFINE k == canceller[x].key
               q == UpdateSummary(row[k], canceller[x].state, canceller[x].last)
    <2>1. canceller[x].pc = "answered" /\ k \in Keys /\ row[k] \in Row /\ row[k].visible
        BY <1>0, <1>17, CancelledRow DEF TornCancel
    <2>2. q \in Row /\ Tends(row[k], q)
        BY <1>0, <1>17, <2>1, CancelRowTends DEF TornCancel
    <2>3. \A u \in Stages(q) : Tends(row[k], u)
        BY <2>1, <2>2, SettleTends
    <2>4. Stopped(k, Stages(q))
        BY <1>17 DEF TornCancel
    <2> HIDE DEF q
    <2> QED BY <1>1, <2>1, <2>3, <2>4
<1>19. ASSUME NEW ks \in SUBSET Keys, DismissCreator(ks) PROVE AttemptInv'
    <2>1. ASSUME NEW j \in Keys PROVE Tends(row[j], row'[j])
        <3>1. row'[j] = IF j \in ks THEN Dismiss(row[j]) ELSE row[j]
            BY <1>19 DEF DismissCreator
        <3> QED BY <1>0, <3>1, RowTends, DismissTends
    <2> QED BY <1>19, <2>1, AllTend DEF DismissCreator, handlers
<1> QED BY <1>2, <1>3, <1>4, <1>5, <1>6, <1>7, <1>8, <1>9, <1>11, <1>12, <1>13,
           <1>14, <1>15, <1>16, <1>17, <1>18, <1>19 DEF ServerStep

LEMMA AttemptInvStep ==
    AttemptInv /\ ShownInv' /\ OneAttempt /\ OneAttempt' /\ [Next]_vars => AttemptInv'
<1> SUFFICES ASSUME AttemptInv, ShownInv', OneAttempt, OneAttempt', [Next]_vars
             PROVE  AttemptInv'
    OBVIOUS
<1>1. CASE UNCHANGED vars
    BY <1>1, NoneTends DEF vars
<1> QED BY <1>1, CreateAttempts, WatchAttempts, CancelAttempts, RemoteAttempts,
           ServerAttempts DEF Next

(* As long as no two requests with one key are in flight at once, the only *)
(* attempt of a task that is not accepted yet holds the newest tokens and  *)
(* the inputs, and hands both over to the accepted task.                   *)
THEOREM AttemptsAreKept == Spec /\ []OneAttempt => []AttemptInv
<1>1. ASSUME Init, ShownInv PROVE AttemptInv
    <2>1. \A p \in Creators : creator[p].pc = "idle"
        BY <1>1 DEF Init, Idle
    <2>2. ASSUME NEW k \in Keys PROVE ~row[k].visible
        BY <1>1 DEF Init, AbsentRow
    <2> QED BY <1>1, <2>1, <2>2 DEF AttemptInv, Tended
<1> QED BY <1>1, AttemptInvStep, ShownIsInvariant, PTL DEF Spec

(* As long as no two requests with one key are in flight at once, the      *)
(* inputs of an accepted task are kept until it has ended, whatever was    *)
(* rejected, lost or cut off before; only a task whose own create request  *)
(* was answered by an error after it was accepted may run without them.    *)
THEOREM InputsOutliveTaskHolds == Spec /\ []OneAttempt => []InputsOutliveTask
<1>1. AttemptInv => InputsOutliveTask
    BY DEF AttemptInv, Tended, InputsOutliveTask, Running
<1> QED BY <1>1, AttemptsAreKept, PTL

(* On the same condition the module of a running task holds the tokens     *)
(* that are valid, after any number of resubmissions and lost answers: the *)
(* same tasks are excepted, and those whose creator's account was disabled *)
(* or demoted since they were issued.                                      *)
THEOREM TokensUsableHolds == Spec /\ []OneAttempt => []TokensUsable
<1>1. AttemptInv => TokensUsable
    BY DEF AttemptInv, Tended, TokensUsable, Running
<1> QED BY <1>1, AttemptsAreKept, PTL

-----------------------------------------------------------------------------
(* The answers in the chats, on the same condition.                        *)

LEMMA PostAdds ==
    ASSUME NEW log \in [Chats -> Seq(Messages)], NEW c \in Chats,
           NEW k \in Keys, NEW role \in {"user", "assistant"}
    PROVE  /\ Post(log, c, k, role) \in [Chats -> Seq(Messages)]
           /\ \A d \in Chats : \A x : Holds(Post(log, c, k, role)[d], x)
                 => Holds(log[d], x) \/ x = Message(k, role)
<1> DEFINE y == Message(k, role)
           n == Append(log[c], y)
           new == Post(log, c, k, role)
<1>1. y \in Messages
    BY DEF Message, Messages
<1>2. /\ n \in Seq(Messages) /\ Len(n) = Len(log[c]) + 1 /\ Len(log[c]) \in Nat
      /\ n[Len(n)] = y /\ \A i \in 1..Len(log[c]) : n[i] = log[c][i]
    BY <1>1
<1>3. new = [log EXCEPT ![c] = n]
    BY DEF Post
<1> HIDE DEF n, y, new
<1>4. new \in [Chats -> Seq(Messages)]
    BY <1>2, <1>3
<1>5. ASSUME NEW d \in Chats, NEW x, Holds(new[d], x) PROVE Holds(log[d], x) \/ x = y
    <2>1. CASE d # c
        BY <1>3, <1>5, <2>1
    <2>2. CASE d = c
        <3>1. new[d] = n
            BY <1>3, <2>2
        <3>2. PICK i \in 1..Len(n) : n[i] = x
            BY <1>5, <3>1 DEF Holds
        <3>3. i \in 1..Len(log[c]) \/ i = Len(n)
            BY <1>2, <3>2
        <3> QED BY <1>2, <2>2, <3>2, <3>3 DEF Holds
    <2> QED BY <2>1, <2>2
<1> QED BY <1>4, <1>5 DEF new, y

Replied(k, log) == \E c \in Chats : Holds(log[c], Message(k, "assistant"))
AnswerInv ==
    /\ ExchangeInv
    /\ \A k \in Keys : Replied(k, msgs) => row[k].state = "succeeded"

(* A task that has replied was accepted, and it has succeeded for good. *)
LEMMA AnsweredStaysAnswered ==
    ASSUME AnswerInv, NEW k \in Keys, Replied(k, msgs), Follows(row[k], row'[k])
    PROVE  row'[k].state = "succeeded"
<1>1. row[k].visible /\ row[k].state = "succeeded"
    BY HeldBelongs DEF AnswerInv, Replied
<1>2. ~Moves(row[k].state, row'[k].state)
    BY <1>1 DEF Moves, ActiveStates
<1> QED BY <1>1, <1>2 DEF Follows

(* The one attempt of a key has nothing to answer once the task is there.  *)
LEMMA AnswersAfterSuccess ==
    ASSUME AttemptInv, NEW j \in Keys, Answers(j)
    PROVE  row'[j].state = "succeeded"
<1>1. ASSUME NEW p \in Creators, creator[p].pc = "answered", creator[p].key = j
      PROVE  FALSE
    <2>1. ~row[j].visible
        BY <1>1 DEF AttemptInv, Promised
    <2> QED BY <2>1 DEF Answers
<1> QED BY <1>1 DEF Answers

LEMMA AnswerInvStep ==
    AnswerInv /\ AttemptInv /\ ExchangeInv' /\ [Next]_vars => AnswerInv'
<1> SUFFICES ASSUME AnswerInv, AttemptInv, ExchangeInv', [Next]_vars,
                    NEW k \in Keys, Replied(k, msgs')
             PROVE  row'[k].state = "succeeded"
    BY DEF AnswerInv, Replied, Holds, Message
<1>0. msgs \in [Chats -> Seq(Messages)] /\ ShownInv
    BY DEF AnswerInv, ExchangeInv, ShownInv, TypeOK, Messages
<1>1. ChatStep
    BY <1>0, EveryStepExchanges
<1>2. PICK d \in Chats : Holds(msgs'[d], Message(k, "assistant"))
    BY DEF Replied
<1>3. ASSUME NEW c \in Chats, DeleteChat(c) PROVE row'[k].state = "succeeded"
    <2>1. msgs' = [msgs EXCEPT ![c] = <<>>] /\ row' = row
        BY <1>3 DEF DeleteChat
    <2>2. d # c
        BY <1>0, <1>2, <2>1 DEF Holds
    <2>3. Replied(k, msgs)
        BY <1>0, <1>2, <2>1, <2>2 DEF Replied
    <2> QED BY <2>1, <2>3 DEF AnswerInv
<1>4. ASSUME msgs' = msgs, Follows(row[k], row'[k]) PROVE row'[k].state = "succeeded"
    BY <1>2, <1>4, AnsweredStaysAnswered DEF Replied
<1>5. ASSUME NEW j \in Keys, Accepts(j), \A l \in Keys \ {j} : Same(row[l], row'[l])
      PROVE  row'[k].state = "succeeded"
    <2>1. \A x : Holds(Ask(j)[d], x) => Holds(msgs[d], x) \/ x = Message(j, "user")
        BY <1>0, PostAdds DEF Ask
    <2>2. Ask(j) \in [Chats -> Seq(Messages)]
        BY <1>0, PostAdds DEF Ask
    <2>3. \/ Holds(msgs[d], Message(k, "assistant"))
          \/ k = j /\ row'[j].state = "succeeded"
        <3>1. CASE msgs' = Ask(j)
            BY <1>2, <2>1, <3>1 DEF Message
        <3>2. CASE /\ row'[j].state = "succeeded" /\ row[j].chat \in Chats
                   /\ msgs' = Post(Ask(j), row[j].chat, j, "assistant")
            <4>1. \/ Holds(Ask(j)[d], Message(k, "assistant"))
                  \/ Message(k, "assistant") = Message(j, "assistant")
                BY <1>2, <2>2, <3>2, PostAdds
            <4> QED BY <2>1, <3>2, <4>1 DEF Message
        <3> QED BY <1>5, <3>1, <3>2 DEF Accepts
    <2>4. CASE Holds(msgs[d], Message(k, "assistant"))
        <3>1. row[k].visible /\ Replied(k, msgs)
            BY <2>4, HeldBelongs DEF AnswerInv, Replied
        <3>2. Follows(row[k], row'[k])
            BY <1>5, <3>1 DEF Accepts, Same
        <3> QED BY <3>1, <3>2, AnsweredStaysAnswered
    <2> QED BY <2>3, <2>4
<1>6. ASSUME NEW j \in Keys, Answers(j), \A l \in Keys \ {j} : Same(row[l], row'[l])
      PROVE  row'[k].state = "succeeded"
    <2>1. \/ Holds(msgs[d], Message(k, "assistant"))
          \/ Message(k, "assistant") = Message(j, "assistant")
        BY <1>0, <1>2, <1>6, PostAdds DEF Answers
    <2>2. CASE Holds(msgs[d], Message(k, "assistant"))
        <3>1. Replied(k, msgs) /\ Follows(row[k], row'[k])
            BY <1>6, <2>2 DEF Replied, Answers, Same
        <3> QED BY <3>1, AnsweredStaysAnswered
    <2>3. CASE Message(k, "assistant") = Message(j, "assistant")
        BY <1>6, <2>3, AnswersAfterSuccess DEF Message
    <2> QED BY <2>1, <2>2, <2>3
<1>7. ASSUME NEW j \in Keys, Shifts(j), \A l \in Keys \ {j} : Same(row[l], row'[l])
      PROVE  row'[k].state = "succeeded"
    BY <1>4, <1>7 DEF Shifts, Same
<1>8. ASSUME msgs' = msgs, \A l \in Keys : Same(row[l], row'[l])
      PROVE  row'[k].state = "succeeded"
    BY <1>4, <1>8 DEF Same
<1> QED BY <1>1, <1>3, <1>5, <1>6, <1>7, <1>8 DEF ChatStep

(* As long as no two requests with one key are in flight at once, the      *)
(* answer that stands in a chat is the answer of a task that succeeded.    *)
THEOREM AnswerMeansSuccessHolds == Spec /\ []OneAttempt => []AnswerMeansSuccess
<1>1. Init /\ ExchangeInv => AnswerInv
    BY DEF Init, AnswerInv, Replied, Holds
<1>2. ASSUME AnswerInv PROVE AnswerMeansSuccess
    <2>1. ASSUME NEW k \in Keys, Answered(k) PROVE Replied(k, msgs)
        <3>1. PICK c \in Chats : \E i \in DOMAIN msgs[c] : msgs[c][i] = Message(k, "assistant")
            BY <2>1 DEF Answered, Posted
        <3>2. msgs[c] \in Seq(Messages)
            BY <1>2 DEF AnswerInv, ExchangeInv, Threaded
        <3>3. DOMAIN msgs[c] = 1..Len(msgs[c])
            BY <3>2
        <3> QED BY <3>1, <3>3 DEF Replied, Holds
    <2> QED BY <1>2, <2>1 DEF AnswerInv, AnswerMeansSuccess
<1> QED BY <1>1, <1>2, AnswerInvStep, ExchangesAreThreaded, AttemptsAreKept, PTL DEF Spec

-----------------------------------------------------------------------------
(* The refinement, step by step.                                           *)

Phase(r) == IF r.visible THEN r.state ELSE "none"
Bound(r) == IF r.visible THEN r.chat ELSE NoChat

LEMMA SayingIsPosting ==
    ASSUME NEW log, NEW c, NEW k, NEW role
    PROVE  /\ Lifecycle!With(log, c, k, role) = Post(log, c, k, role)
           /\ Lifecycle!Said(k, role) = Message(k, role)
BY DEF Lifecycle!With, Lifecycle!Said, Post, Message

LEMMA LifecycleStutters ==
    ASSUME alive' = alive, msgs' = msgs,
           \A k \in Keys : Phase(row'[k]) = Phase(row[k]) /\ Bound(row'[k]) = Bound(row[k])
    PROVE  UNCHANGED Lifecycle!vars
BY DEF Lifecycle!vars, Phase, Bound

LEMMA SamePhase ==
    ASSUME NEW r, NEW q, Same(r, q)
    PROVE  Phase(q) = Phase(r) /\ Bound(q) = Bound(r)
BY DEF Same, Follows, Phase, Bound

LEMMA FollowsBound == ASSUME NEW r, NEW q, Follows(r, q) PROVE Bound(q) = Bound(r)
BY DEF Follows, Bound

LEMMA WorkingIsActive ==
    /\ Lifecycle!Working = ActiveStates /\ Lifecycle!Ended = TerminalStates
    /\ Lifecycle!Working \cup Lifecycle!Ended = PublicStates
BY DEF Lifecycle!Working, Lifecycle!Ended, ActiveStates, TerminalStates, PublicStates

(* The row of one task moves from one public state to another. *)
LEMMA MoveMoves ==
    ASSUME NEW j \in Keys, Follows(row[j], row'[j]), row[j].visible,
           row'[j].state # row[j].state, alive' = alive,
           \A k \in Keys \ {j} : Same(row[k], row'[k]),
           \/ msgs' = msgs
           \/ /\ row'[j].state = "succeeded" /\ row[j].chat \in Chats
              /\ alive[row[j].chat]
              /\ msgs' = Post(msgs, row[j].chat, j, "assistant")
    PROVE  Lifecycle!Next
<1>0. PICK s : s = row'[j].state
    OBVIOUS
<1>1. /\ Moves(row[j].state, s) /\ row'[j].visible /\ row'[j].chat = row[j].chat
    BY <1>0 DEF Follows
<1>2. s \in Lifecycle!Working \cup Lifecycle!Ended
    BY <1>1, WorkingIsActive DEF Moves
<1>3. \A k \in Keys : Bound(row'[k]) = Bound(row[k])
    BY FollowsBound DEF Same
<1>4. \A k \in Keys \ {j} : Phase(row'[k]) = Phase(row[k])
    BY SamePhase
<1>5. Phase(row[j]) = row[j].state /\ Phase(row'[j]) = s /\ Bound(row[j]) = row[j].chat
    BY <1>0, <1>1 DEF Phase, Bound
<1>6. [k \in Keys |-> Phase(row'[k])] = [[k \in Keys |-> Phase(row[k])] EXCEPT ![j] = s]
    BY <1>4, <1>5
<1>7. [k \in Keys |-> Bound(row'[k])] = [k \in Keys |-> Bound(row[k])]
    BY <1>3
<1>8. msgs' \in IF Bound(row[j]) \in Chats /\ alive[Bound(row[j])]
                THEN Lifecycle!MayAnswer(msgs, Bound(row[j]), j, s) ELSE {msgs}
    BY <1>0, <1>5, SayingIsPosting DEF Lifecycle!MayAnswer
<1>9. Lifecycle!Move(j, s)
    BY <1>0, <1>1, <1>5, <1>6, <1>7, <1>8, WorkingIsActive
       DEF Lifecycle!Move, Moves, Phase, Bound
<1> QED BY <1>2, <1>9 DEF Lifecycle!Next

LEMMA AcceptAccepts ==
    ASSUME ShownInv, ShownInv', NEW j \in Keys, Accepts(j), alive' = alive,
           \A k \in Keys \ {j} : Same(row[k], row'[k])
    PROVE  Lifecycle!Next
<1> DEFINE c == row[j].chat
<1>0. PICK s : s = row'[j].state
    OBVIOUS
<1>1. /\ ~row[j].visible /\ row'[j].visible /\ row'[j].chat = c
      /\ c \in Chats => alive[c]
    BY DEF Accepts
<1>2. s \in Lifecycle!Working \cup Lifecycle!Ended
    BY <1>0, <1>1, WorkingIsActive DEF ShownInv, Shown
<1>3. c \in Chats \cup {NoChat}
    BY DEF ShownInv, TypeOK, Row
<1>4. \A k \in Keys \ {j} : Phase(row'[k]) = Phase(row[k]) /\ Bound(row'[k]) = Bound(row[k])
    BY SamePhase
<1>5. Phase(row[j]) = "none" /\ Phase(row'[j]) = s /\ Bound(row'[j]) = c
    BY <1>0, <1>1 DEF Phase, Bound
<1>6. [k \in Keys |-> Phase(row'[k])] = [[k \in Keys |-> Phase(row[k])] EXCEPT ![j] = s]
    BY <1>4, <1>5
<1>7. [k \in Keys |-> Bound(row'[k])] = [[k \in Keys |-> Bound(row[k])] EXCEPT ![j] = c]
    BY <1>4, <1>5
<1>8. Ask(j) = IF c \in Chats THEN Lifecycle!With(msgs, c, j, "user") ELSE msgs
    BY SayingIsPosting DEF Ask
<1>9. msgs' \in Lifecycle!MayAnswer(Ask(j), c, j, s)
    BY <1>0, SayingIsPosting DEF Accepts, Lifecycle!MayAnswer
<1>10. Lifecycle!Accept(j, c, s)
    BY <1>1, <1>5, <1>6, <1>7, <1>8, <1>9 DEF Lifecycle!Accept, Phase, Bound
<1> HIDE DEF c
<1> QED BY <1>2, <1>3, <1>10 DEF Lifecycle!Next

LEMMA AnswerAnswers ==
    ASSUME ExchangeInv, AttemptInv, NEW j \in Keys, Answers(j), alive' = alive,
           \A k \in Keys \ {j} : Same(row[k], row'[k])
    PROVE  Lifecycle!Next
<1> DEFINE c == row[j].chat
<1>1. /\ Follows(row[j], row'[j]) /\ row[j].visible /\ row[j].proj = "pending"
      /\ c \in Chats /\ alive[c] /\ msgs' = Post(msgs, c, j, "assistant")
    BY DEF Answers
<1>2. row'[j].state = "succeeded"
    BY AnswersAfterSuccess
<1>3. CASE row'[j].state # row[j].state
    BY <1>1, <1>2, <1>3, MoveMoves
<1>4. CASE row'[j].state = row[j].state
    <2>1. \A k \in Keys : Same(row[k], row'[k])
        BY <1>1, <1>4 DEF Same
    <2>2. /\ [k \in Keys |-> Phase(row'[k])] = [k \in Keys |-> Phase(row[k])]
          /\ [k \in Keys |-> Bound(row'[k])] = [k \in Keys |-> Bound(row[k])]
        BY <2>1, SamePhase
    <2>3. Phase(row[j]) = "succeeded" /\ Bound(row[j]) = c
        BY <1>1, <1>2, <1>4 DEF Phase, Bound
    <2>4. Holds(msgs[c], Message(j, "user")) /\ ~Holds(msgs[c], Message(j, "assistant"))
        BY <1>1, HeldBelongs DEF ExchangeInv, AskedIn
    <2>5. DOMAIN msgs[c] = 1..Len(msgs[c])
        <3>1. msgs[c] \in Seq(Messages)
            BY <1>1 DEF ExchangeInv, Threaded
        <3> QED BY <3>1
    <2>6. Lifecycle!IsSaid(c, j, "user") /\ ~Lifecycle!IsSaid(c, j, "assistant")
        BY <2>4, <2>5, SayingIsPosting DEF Lifecycle!IsSaid, Holds
    <2>7. Lifecycle!Answer(j)
        BY <1>1, <2>2, <2>3, <2>6, SayingIsPosting
           DEF Lifecycle!Answer, Phase, Bound
    <2> QED BY <2>7 DEF Lifecycle!Next
<1> QED BY <1>3, <1>4

LEMMA DeleteDeletes ==
    ASSUME ShownInv, NEW c \in Chats, DeleteChat(c)
    PROVE  Lifecycle!Next
<1>1. /\ alive[c] /\ ~HasActiveTask(c) /\ row' = row
      /\ alive' = [alive EXCEPT ![c] = FALSE] /\ msgs' = [msgs EXCEPT ![c] = <<>>]
    BY DEF DeleteChat
<1>2. ASSUME NEW k \in Keys, Bound(row[k]) = c PROVE Phase(row[k]) \notin Lifecycle!Working
    <2>1. row[k].visible /\ row[k].chat = c
        BY <1>2, ConstantsAssumption DEF Bound
    <2> QED BY <1>1, <2>1, WorkingIsActive DEF HasActiveTask, LocalActiveStates, Phase
<1>3. Lifecycle!DeleteChat(c)
    BY <1>1, <1>2 DEF Lifecycle!DeleteChat, Phase, Bound
<1> QED BY <1>3 DEF Lifecycle!Next

LEMMA LifecycleStep ==
    ExchangeInv /\ AttemptInv /\ ShownInv' /\ [Next]_vars
        => [Lifecycle!Next]_(Lifecycle!vars)
<1> SUFFICES ASSUME ExchangeInv, AttemptInv, ShownInv', [Next]_vars
             PROVE  Lifecycle!Next \/ UNCHANGED Lifecycle!vars
    OBVIOUS
<1>1. ShownInv /\ ChatStep
    BY EveryStepExchanges DEF ExchangeInv
<1>2. ASSUME alive' = alive, msgs' = msgs, \A k \in Keys : Same(row[k], row'[k])
      PROVE  UNCHANGED Lifecycle!vars
    BY <1>2, SamePhase, LifecycleStutters
<1>3. ASSUME alive' = alive, NEW j \in Keys, Shifts(j),
             \A k \in Keys \ {j} : Same(row[k], row'[k])
      PROVE  Lifecycle!Next \/ UNCHANGED Lifecycle!vars
    <2>1. CASE row[j].visible /\ row'[j].state # row[j].state
        BY <1>3, <2>1, MoveMoves DEF Shifts
    <2>2. CASE row[j].visible => row'[j].state = row[j].state
        BY <1>2, <1>3, <2>2 DEF Shifts, Same
    <2> QED BY <2>1, <2>2
<1> QED BY <1>1, <1>2, <1>3, DeleteDeletes, AcceptAccepts, AnswerAnswers DEF ChatStep

(* As long as no two requests with one key are in flight at once, the      *)
(* gateway implements the life of a task that TaskLifecycle promises.      *)
THEOREM PromiseIsKept == Spec /\ []OneAttempt => KeepsPromise
<1>1. ASSUME Init PROVE Lifecycle!Init
    <2>1. \A k \in Keys : ~row[k].visible
        BY <1>1 DEF Init, AbsentRow
    <2> QED BY <1>1, <2>1 DEF Init, Lifecycle!Init
<1> QED BY <1>1, LifecycleStep, ExchangesAreThreaded, AttemptsAreKept, ShownIsInvariant,
           PTL DEF Spec, KeepsPromise, Lifecycle!Spec
=============================================================================
