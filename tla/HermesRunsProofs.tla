-------------------------- MODULE HermesRunsProofs --------------------------
(* Proofs about HermesRuns.  Every action concerns one run, so that the     *)
(* inductive invariant is one predicate, RunSound, on the five values that  *)
(* belong to a run: what Hermes records of it (m), the events on the way    *)
(* (q), the entry of the registry (x), its consumer (c) and the answer that *)
(* was stored (v).                                                          *)
EXTENDS HermesRuns, TLAPS, SequenceTheorems

-----------------------------------------------------------------------------
(* The invariant.                                                           *)

RemoteType == [state : {"none", "running", "asking"} \cup Finished,
               ask : 0..MaxAsks, turn : 0..MaxTurns, spoke : BOOLEAN]
RecordType == [status : {"running", "pending_approval"} \cup Finished,
               pending : 1..MaxAsks \cup {None}]
(* A consumer the registry may have a record of: one at work, or one that   *)
(* was cut off in its finally.                                              *)
Known == {"reading", "stopping", "disconnecting", "saving", "titling",
          "leaving", "quitting", "abandoned"}

RunTyped(m, q, x, c, v) ==
    /\ m \in RemoteType
    /\ q \in Seq(EventType)
    /\ x \in RecordType \cup {None}
    /\ c \in ConsumerType
    /\ v \in {None} \cup SUBSET (0..MaxTurns)

(* A tool call is still to be read, after the first i events.               *)
CallAhead(q, i) == \E j \in 1..Len(q) : j > i /\ q[j].type = "tool.started"

(* What is on the way: prose that is not of the present turn is followed by *)
(* the tool call that ended its turn, and a completion by nothing.          *)
Queued(m, q) ==
    \A i \in 1..Len(q) :
       /\ q[i].type = "approval.request" => q[i].n \in 1..MaxAsks
       /\ q[i].type = "prose" => q[i].n \in 0..MaxTurns
                                 /\ (q[i].n = m.turn \/ CallAhead(q, i))
       /\ q[i].type = "completed" => i = Len(q) /\ m.state = "completed"

(* What the buffer of the consumer holds is of the present turn, or will be *)
(* dropped by a tool call that is on the way; what is saved is of the last. *)
Buffered(m, q, c) ==
    /\ c.pc = "creating" => c.turns = {} /\ c.seen = "unknown"
    /\ c.pc = "reading" => \A n \in c.turns : n = m.turn \/ CallAhead(q, 0)
    /\ c.pc = "saving" => m.state = "completed" /\ c.turns \subseteq {m.turn}

(* A stop is sent once, and again only for a client that was found gone.    *)
StopsCounted(c) ==
    c.pc # "idle" =>
       /\ c.pc \in {"creating", "reading", "disconnecting", "saving", "titling"}
             => ~c.requested
       /\ c.pc \in {"stopping", "quitting", "abandoned"} => c.requested
       /\ c.requested => c.stops \in 1..2
       /\ ~c.requested => c.stops = (IF c.pc = "disconnecting" THEN 1 ELSE 0)
       /\ c.pc = "ended" /\ c.seen = "none" => c.requested

RunSound(m, q, x, c, v) ==
    /\ RunTyped(m, q, x, c, v)
    /\ Queued(m, q)
    /\ Buffered(m, q, c)
    /\ StopsCounted(c)
    /\ x # None => c.pc \in Known
    /\ v # None => m.state = "completed" /\ v = {m.turn}

Inv ==
    /\ remote \in [Runs -> RemoteType]
    /\ queue \in [Runs -> Seq(EventType)]
    /\ active \in [Runs -> RecordType \cup {None}]
    /\ consumer \in [Runs -> ConsumerType]
    /\ saved \in [Runs -> {None} \cup SUBSET (0..MaxTurns)]
    /\ approver \in [Approvers -> {Idle} \cup [pc : {"posting", "accepted"}, run : Runs]]
    /\ \A r \in Runs : RunSound(remote[r], queue[r], active[r], consumer[r], saved[r])

-----------------------------------------------------------------------------
(* The events on the way.                                                   *)

Engaged == [pc : {"creating", "ended"} \cup Known, stream : BOOLEAN, entry : Entrypoints,
            seen : {"unknown", "none", "completed", "failed"},
            turns : SUBSET (0..MaxTurns), requested : BOOLEAN, stops : 0..2]

LEMMA ConsumerIs ==
  /\ Engaged \subseteq ConsumerType
  /\ \A c \in ConsumerType : /\ c.pc \in {"idle", "creating", "ended"} \cup Known
                             /\ c.pc = "idle" => c = Idle
                             /\ c.pc # "idle" => c \in Engaged
  BY DEF ConsumerType, Idle, Known, Engaged

(* The consumer asks for a stop, or goes to its finally.                    *)
LEMMA Stops ==
  ASSUME NEW c \in Engaged, StopsCounted(c), ~c.requested
  PROVE  /\ Stopping(c) \in Engaged
         /\ Stopping(c).pc = "stopping"
         /\ StopsCounted(Stopping(c))
<1> DEFINE d == Stopping(c)
<1>1. c.stops \in {0, 1}
  BY DEF Engaged, StopsCounted, Known
<1>2. /\ d.pc = "stopping" /\ d.stream = c.stream /\ d.entry = c.entry /\ d.seen = c.seen
      /\ d.turns = c.turns /\ d.requested = TRUE /\ d.stops = c.stops + 1
  BY DEF Engaged, Stopping
<1>3. d.stops \in 1..2
  BY <1>1, <1>2
<1>4. d \in Engaged
  <2>1. d = [c EXCEPT !.pc = "stopping", !.requested = TRUE, !.stops = c.stops + 1]
    BY DEF Stopping
  <2>2. c.stops + 1 \in 0..2
    BY <1>1
  <2> QED
    BY <2>1, <2>2 DEF Engaged, Known
<1> HIDE DEF d
<1>5. StopsCounted(d)
  BY <1>2, <1>3 DEF StopsCounted
<1> QED
  BY <1>2, <1>4, <1>5 DEF d

(* The finally asks for a stop.                                             *)
LEMMA Quits ==
  ASSUME NEW c \in Engaged, StopsCounted(c), ~c.requested
  PROVE  /\ Quitting(c) \in Engaged
         /\ Quitting(c).pc = "quitting"
         /\ StopsCounted(Quitting(c))
<1> DEFINE b == Stopping(c)
           d == [b EXCEPT !.pc = "quitting"]
<1>1. b \in Engaged /\ b.pc = "stopping" /\ StopsCounted(b)
  BY Stops
<1> HIDE DEF b
<1>2. /\ d \in Engaged /\ d.pc = "quitting" /\ d.seen = b.seen
      /\ d.requested = b.requested /\ d.stops = b.stops
  BY <1>1 DEF Engaged, Known
<1> HIDE DEF d
<1>3. StopsCounted(d)
  BY <1>1, <1>2 DEF StopsCounted
<1> QED
  BY <1>2, <1>3 DEF Quitting, b, d

LEMMA GoesToLeave ==
  ASSUME NEW c \in Engaged, StopsCounted(c), c.pc # "disconnecting"
  PROVE  /\ Leaving(c) \in Engaged
         /\ Leaving(c).pc = "leaving"
         /\ Leaving(c).turns = c.turns
         /\ StopsCounted(Leaving(c))
  BY DEF Engaged, StopsCounted, Leaving, Known

LEMMA EventIs ==
  ASSUME NEW q \in Seq(EventType), NEW i \in 1..Len(q)
  PROVE  q[i] \in EventType
  BY ElementOfSeq

(* Hermes sends an event and goes on.                                       *)
LEMMA Emits ==
  ASSUME NEW m, NEW q, NEW x, NEW c, NEW v,
         RunSound(m, q, x, c, v),
         m.state \in {"running", "asking"},
         NEW m2 \in RemoteType, NEW e \in EventType,
         m2.turn = m.turn \/ e.type = "tool.started",
         e.type = "prose" => e.n = m2.turn,
         e.type = "approval.request" => e.n \in 1..MaxAsks,
         e.type = "completed" => m2.state = "completed"
  PROVE  RunSound(m2, Append(q, e), x, c, v)
<1> DEFINE q2 == Append(q, e)
<1>1. m \in RemoteType /\ q \in Seq(EventType) /\ c \in ConsumerType
  BY DEF RunSound, RunTyped
<1>2. Len(q) \in Nat
  BY <1>1, LenProperties
<1>3. /\ q2 \in Seq(EventType) /\ Len(q2) = Len(q) + 1 /\ q2[Len(q) + 1] = e
      /\ \A i \in 1..Len(q) : q2[i] = q[i]
  BY <1>1, AppendProperties
<1> HIDE DEF q2
<1>4. RunTyped(m2, q2, x, c, v)
  BY <1>3 DEF RunSound, RunTyped
<1>5. ASSUME NEW i \in 0..Len(q), CallAhead(q, i)
      PROVE  CallAhead(q2, i)
  BY <1>2, <1>3, <1>5 DEF CallAhead
<1>6. ASSUME NEW i \in 0..Len(q), e.type = "tool.started"
      PROVE  CallAhead(q2, i)
  BY <1>2, <1>3, <1>6 DEF CallAhead
<1>7. \A i \in 1..Len(q) : q[i].type # "completed"
  BY DEF RunSound, Queued
<1>8. Queued(m2, q2)
  <2> SUFFICES ASSUME NEW i \in 1..Len(q2)
               PROVE  /\ q2[i].type = "approval.request" => q2[i].n \in 1..MaxAsks
                      /\ q2[i].type = "prose" => q2[i].n \in 0..MaxTurns
                                 /\ (q2[i].n = m2.turn \/ CallAhead(q2, i))
                      /\ q2[i].type = "completed" => i = Len(q2) /\ m2.state = "completed"
    BY DEF Queued
  <2>1. CASE i = Len(q) + 1
    <3>1. q2[i] = e /\ i = Len(q2)
      BY <1>3, <2>1
    <3>2. m2.turn \in 0..MaxTurns
      BY DEF RemoteType
    <3> QED
      BY <3>1, <3>2
  <2>2. CASE i # Len(q) + 1
    <3>1. i \in 1..Len(q) /\ i \in 0..Len(q)
      BY <1>2, <1>3, <2>2
    <3>2. q2[i] = q[i] /\ q[i].type # "completed"
      BY <1>3, <1>7, <3>1
    <3>3. /\ q[i].type = "approval.request" => q[i].n \in 1..MaxAsks
          /\ q[i].type = "prose" => q[i].n \in 0..MaxTurns
                                    /\ (q[i].n = m.turn \/ CallAhead(q, i))
      BY <3>1 DEF RunSound, Queued
    <3> QED
      BY <1>5, <1>6, <3>1, <3>2, <3>3
  <2> QED
    BY <2>1, <2>2
<1>9. Buffered(m2, q2, c)
  BY <1>2, <1>5, <1>6 DEF RunSound, Buffered
<1>10. v = None
  BY DEF RunSound
<1> QED
  BY <1>4, <1>8, <1>9, <1>10 DEF RunSound, q2

(* Hermes' record changes without an event: the run is neither ended before *)
(* nor after it, or is stopped.                                             *)
LEMMA RecordMoves ==
  ASSUME NEW m, NEW q, NEW x, NEW c, NEW v,
         RunSound(m, q, x, c, v),
         NEW m2 \in RemoteType,
         m.state # "completed",
         m2.turn = m.turn
  PROVE  RunSound(m2, q, x, c, v)
  BY DEF RunSound, RunTyped, Queued, Buffered

(* The consumer reads the first event.                                      *)
LEMMA Reads ==
  ASSUME NEW m, NEW q, NEW x, NEW c, NEW v,
         RunSound(m, q, x, c, v),
         c.pc = "reading", q # <<>>,
         NEW x2 \in RecordType \cup {None}, x = None => x2 = None
  PROVE  RunSound(m, Tail(q), x2, Read(c, Head(q)), v)
<1> DEFINE e == Head(q)
           q2 == Tail(q)
           c2 == Read(c, e)
<1>1. m \in RemoteType /\ q \in Seq(EventType) /\ c \in ConsumerType
  BY DEF RunSound, RunTyped
<1>2. Len(q) \in Nat /\ Len(q) > 0 /\ 1 \in 1..Len(q)
  BY <1>1, EmptySeq, LenProperties
<1>3. e = q[1] /\ e \in EventType
  BY <1>1, <1>2, EventIs
<1>4. /\ q2 \in Seq(EventType) /\ Len(q2) = Len(q) - 1
      /\ \A i \in 1..Len(q2) : q2[i] = q[i + 1]
  BY <1>1, HeadTailProperties
<1>5. c \in Engaged
  BY <1>1, ConsumerIs
<1>6. /\ e.type = "approval.request" => e.n \in 1..MaxAsks
      /\ e.type = "prose" => e.n \in 0..MaxTurns /\ (e.n = m.turn \/ CallAhead(q, 1))
      /\ e.type = "completed" => 1 = Len(q) /\ m.state = "completed"
  BY <1>2, <1>3 DEF RunSound, Queued
<1> HIDE DEF q2, e
(* A call that is ahead still is, unless it is the event that was read.     *)
<1>7. ASSUME NEW i \in 0..Len(q), CallAhead(q, i), i > 0 \/ e.type # "tool.started"
      PROVE  CallAhead(q2, IF i = 0 THEN 0 ELSE i - 1)
  <2>1. PICK j \in 1..Len(q) : j > i /\ q[j].type = "tool.started"
    BY <1>7 DEF CallAhead
  <2>2. j > 1
    BY <1>2, <1>3, <1>7, <2>1
  <2>3. j - 1 \in 1..Len(q2) /\ q2[j - 1] = q[j]
    <3>1. j - 1 \in 1..Len(q2) /\ (j - 1) + 1 = j
      BY <1>2, <1>4, <2>1, <2>2
    <3> QED
      BY <1>4, <3>1
  <2>4. j - 1 > (IF i = 0 THEN 0 ELSE i - 1)
    BY <2>1, <2>2
  <2> QED
    BY <2>1, <2>3, <2>4 DEF CallAhead
<1>8. Queued(m, q2)
  <2> SUFFICES ASSUME NEW i \in 1..Len(q2)
               PROVE  /\ q2[i].type = "approval.request" => q2[i].n \in 1..MaxAsks
                      /\ q2[i].type = "prose" => q2[i].n \in 0..MaxTurns
                                 /\ (q2[i].n = m.turn \/ CallAhead(q2, i))
                      /\ q2[i].type = "completed" => i = Len(q2) /\ m.state = "completed"
    BY DEF Queued
  <2>1. i + 1 \in 1..Len(q) /\ i + 1 \in 0..Len(q) /\ i + 1 > 0 /\ (i + 1) - 1 = i /\ i + 1 # 0
    BY <1>2, <1>4
  <2>2. q2[i] = q[i + 1]
    BY <1>4
  <2>3. CallAhead(q, i + 1) => CallAhead(q2, i)
    BY <1>7, <2>1
  <2>4. i + 1 = Len(q) => i = Len(q2)
    BY <1>2, <1>4
  <2> QED
    BY <2>1, <2>2, <2>3, <2>4 DEF RunSound, Queued
<1>9. \A n \in c.turns : n = m.turn \/ CallAhead(q, 0)
  BY DEF RunSound, Buffered
<1>10. StopsCounted(c) /\ ~c.requested /\ c.stops = 0 /\ c.turns \subseteq 0..MaxTurns
  BY <1>5 DEF RunSound, StopsCounted, Engaged
<1>11. Len(q) = 1 => ~CallAhead(q2, 0)
  BY <1>4 DEF CallAhead
(* The buffer holds what it should after each kind of event.                *)
<1>12. /\ c2 \in Engaged
       /\ c2.pc \in Known /\ c2.pc # "ended"
       /\ StopsCounted(c2)
       /\ Buffered(m, q2, c2)
  <2>1. CASE e.type = "prose"
    <3>1. c2 = [c EXCEPT !.turns = c.turns \cup {e.n}]
      BY <2>1 DEF Read
    <3>2. c2 \in Engaged /\ c2.pc = "reading" /\ c2.turns = c.turns \cup {e.n}
      BY <1>5, <1>6, <2>1, <3>1 DEF Engaged
    <3>3. StopsCounted(c2)
      BY <1>5, <1>10, <3>1 DEF Engaged, StopsCounted
    <3>4. CallAhead(q, 1) => CallAhead(q2, 0)
      BY <1>2, <1>7
    <3>5. CallAhead(q, 0) => CallAhead(q2, 0)
      BY <1>2, <1>7, <2>1
    <3>6. \A n \in c2.turns : n = m.turn \/ CallAhead(q2, 0)
      BY <1>6, <1>9, <2>1, <3>2, <3>4, <3>5
    <3> QED
      BY <3>2, <3>3, <3>6 DEF Known, Buffered
  <2>2. CASE e.type = "tool.started"
    <3>1. c2 = [c EXCEPT !.turns = {}]
      BY <2>2 DEF Read
    <3>2. c2 \in Engaged /\ c2.pc = "reading" /\ c2.turns = {}
      BY <1>5, <3>1 DEF Engaged
    <3>3. StopsCounted(c2)
      BY <1>5, <1>10, <3>1 DEF Engaged, StopsCounted
    <3> QED
      BY <3>2, <3>3 DEF Known, Buffered
  <2>3. CASE e.type \in {"approval.request", "approval.responded"}
    <3>1. c2 = c \/ c2 = Stopping(c)
      BY <2>3 DEF Read
    <3>2. CallAhead(q, 0) => CallAhead(q2, 0)
      BY <1>2, <1>7, <2>3
    <3>3. CASE c2 = c
      BY <1>5, <1>9, <1>10, <3>2, <3>3 DEF Known, Buffered
    <3>4. CASE c2 = Stopping(c)
      BY <1>5, <1>10, <3>4, Stops DEF Known, Buffered
    <3> QED
      BY <3>1, <3>3, <3>4
  <2>4. CASE e.type = "completed"
    <3>1. c2 = [c EXCEPT !.seen = "completed", !.pc = "saving"]
      BY <2>4 DEF Read
    <3>2. c2 \in Engaged /\ c2.pc = "saving" /\ c2.turns = c.turns
      BY <1>5, <3>1 DEF Engaged, Known
    <3>3. StopsCounted(c2)
      BY <1>5, <1>10, <3>1 DEF Engaged, StopsCounted
    <3>4. ~CallAhead(q, 0)
      <4>1. Len(q) = 1 /\ q[1].type # "tool.started"
        BY <1>3, <1>6, <2>4 DEF e
      <4> QED
        BY <4>1 DEF CallAhead
    <3>5. c.turns \subseteq {m.turn}
      BY <1>9, <3>4
    <3> QED
      BY <1>6, <2>4, <3>2, <3>3, <3>5 DEF Known, Buffered
  <2>5. CASE e.type = "failed"
    <3> DEFINE d == [c EXCEPT !.seen = "failed"]
    <3>1. c2 = Leaving(d)
      BY <2>5 DEF Read
    <3>2. d \in Engaged /\ d.pc = "reading"
      BY <1>5 DEF Engaged
    <3>3. StopsCounted(d)
      BY <1>5, <1>10 DEF Engaged, StopsCounted
    <3> HIDE DEF d
    <3> QED
      BY <3>1, <3>2, <3>3, GoesToLeave DEF Known, Buffered
  <2> QED
    BY <1>3, <2>1, <2>2, <2>3, <2>4, <2>5 DEF EventType
<1> HIDE DEF c2
<1>13. RunTyped(m, q2, x2, c2, v)
  BY <1>4, <1>12, ConsumerIs DEF RunSound, RunTyped
<1>14. RunSound(m, q2, x2, c2, v)
  BY <1>8, <1>12, <1>13 DEF RunSound
<1> QED
  BY <1>14 DEF q2, e, c2

(* The consumer goes on to c2.                                              *)
LEMMA ConsumerMoves ==
  ASSUME NEW m, NEW q, NEW x, NEW c, NEW v,
         RunSound(m, q, x, c, v),
         NEW c2 \in Engaged, StopsCounted(c2),
         Buffered(m, q, c2),
         NEW x2 \in RecordType \cup {None}, x2 # None => c2.pc \in Known
  PROVE  RunSound(m, q, x2, c2, v)
  BY ConsumerIs DEF RunSound, RunTyped

-----------------------------------------------------------------------------
(* The actions.  All but the one run an action is about stay as they are.   *)

OneRun(r) ==
    \A p \in Runs : p # r => /\ remote'[p] = remote[p] /\ queue'[p] = queue[p]
                             /\ active'[p] = active[p] /\ consumer'[p] = consumer[p]
                             /\ saved'[p] = saved[p]

Functions ==
    /\ remote' = [r \in Runs |-> remote'[r]] /\ queue' = [r \in Runs |-> queue'[r]]
    /\ active' = [r \in Runs |-> active'[r]] /\ consumer' = [r \in Runs |-> consumer'[r]]
    /\ saved' = [r \in Runs |-> saved'[r]]

ApproverType == {Idle} \cup [pc : {"posting", "accepted"}, run : Runs]

LEMMA RunChanges ==
  ASSUME Inv, NEW r \in Runs, OneRun(r), Functions,
         approver' \in [Approvers -> ApproverType],
         RunSound(remote'[r], queue'[r], active'[r], consumer'[r], saved'[r])
  PROVE  Inv'
<1>1. \A p \in Runs : RunSound(remote'[p], queue'[p], active'[p], consumer'[p], saved'[p])
  BY DEF Inv, OneRun
<1>2. \A p \in Runs : RunTyped(remote'[p], queue'[p], active'[p], consumer'[p], saved'[p])
  BY <1>1 DEF RunSound
<1>3. /\ remote' \in [Runs -> RemoteType] /\ queue' \in [Runs -> Seq(EventType)]
      /\ active' \in [Runs -> RecordType \cup {None}] /\ consumer' \in [Runs -> ConsumerType]
      /\ saved' \in [Runs -> {None} \cup SUBSET (0..MaxTurns)]
  BY <1>2 DEF RunTyped, Functions
<1> QED
  BY <1>1, <1>3 DEF Inv, ApproverType

LEMMA Initially == ASSUME Init PROVE Inv
<1> DEFINE fresh == [state |-> "none", ask |-> 0, turn |-> 0, spoke |-> FALSE]
<1>1. fresh \in RemoteType
  <2>1. 0 \in 0..MaxAsks /\ 0 \in 0..MaxTurns
    BY RunsAssumption
  <2> QED
    BY <2>1 DEF RemoteType
<1> HIDE DEF fresh
<1>2. Idle \in ConsumerType
  BY DEF ConsumerType
<1>3. /\ remote \in [Runs -> RemoteType] /\ queue \in [Runs -> Seq(EventType)]
      /\ active \in [Runs -> RecordType \cup {None}]
      /\ consumer \in [Runs -> ConsumerType]
      /\ saved \in [Runs -> {None} \cup SUBSET (0..MaxTurns)]
      /\ approver \in [Approvers -> {Idle} \cup [pc : {"posting", "accepted"}, run : Runs]]
  <2>1. remote \in [Runs -> RemoteType]
    <3>1. remote = [r \in Runs |-> fresh]
      BY DEF Init, fresh
    <3> QED
      BY <1>1, <3>1
  <2>2. queue \in [Runs -> Seq(EventType)]
    <3>1. <<>> \in Seq(EventType)
      BY EmptySeq
    <3> QED
      BY <3>1 DEF Init
  <2>3. consumer \in [Runs -> ConsumerType]
    BY <1>2 DEF Init
  <2>4. active \in [Runs -> RecordType \cup {None}]
    BY DEF Init
  <2>5. saved \in [Runs -> {None} \cup SUBSET (0..MaxTurns)]
    <3> DEFINE S == SUBSET (0..MaxTurns)
    <3> HIDE DEF S
    <3>1. saved \in [Runs -> {None} \cup S]
      BY DEF Init
    <3> QED
      BY <3>1 DEF S
  <2>6. approver \in [Approvers -> {Idle} \cup [pc : {"posting", "accepted"}, run : Runs]]
    BY DEF Init
  <2> QED
    BY <2>1, <2>2, <2>3, <2>4, <2>5, <2>6
<1> SUFFICES ASSUME NEW r \in Runs
             PROVE  RunSound(remote[r], queue[r], active[r], consumer[r], saved[r])
  BY <1>3 DEF Inv
<1>4. queue[r] = <<>> /\ Len(queue[r]) = 0 /\ queue[r] \in Seq(EventType)
  BY EmptySeq DEF Init
<1>5. consumer[r] = Idle /\ Idle.pc = "idle" /\ active[r] = None /\ saved[r] = None
  BY DEF Init, Idle
<1>6. remote[r] \in RemoteType
  BY <1>1 DEF Init, fresh
<1>7. RunTyped(remote[r], queue[r], active[r], consumer[r], saved[r])
  BY <1>3 DEF RunTyped
<1>8. Queued(remote[r], queue[r])
  BY <1>4 DEF Queued
<1> QED
  BY <1>5, <1>7, <1>8 DEF RunSound, Buffered, StopsCounted

LEMMA HermesSound ==
  ASSUME Inv, NEW r \in Runs, HermesStep(r)
  PROVE  Inv'
<1>1. /\ RunSound(remote[r], queue[r], active[r], consumer[r], saved[r])
      /\ remote[r] \in RemoteType /\ queue[r] \in Seq(EventType)
      /\ UNCHANGED <<active, consumer, approver, saved>>
      /\ approver \in [Approvers -> ApproverType]
  BY DEF Inv, HermesStep, HermesStart, HermesWork, HermesAsk, HermesEnd, ApproverType
<1>2. OneRun(r) /\ Functions
  BY <1>1 DEF Inv, HermesStep, HermesStart, HermesWork, HermesAsk, HermesEnd, OneRun,
              Functions, Emit
<1>3. CASE HermesStart(r)
  <2>1. remote'[r] = [remote[r] EXCEPT !.state = "running"] /\ queue' = queue
    BY <1>3 DEF HermesStart, Inv
  <2>2. remote'[r] \in RemoteType /\ remote'[r].turn = remote[r].turn
    BY <1>1, <2>1 DEF RemoteType
  <2>3. remote[r].state # "completed"
    BY <1>3 DEF HermesStart
  <2>4. RunSound(remote'[r], queue[r], active[r], consumer[r], saved[r])
    BY <1>1, <2>2, <2>3, RecordMoves
  <2> QED
    BY <1>1, <1>2, <2>1, <2>4, RunChanges
<1>4. ASSUME remote[r].state \in {"running", "asking"},
             NEW e \in EventType, Emit(r, e),
             remote'[r] \in RemoteType,
             remote'[r].turn = remote[r].turn \/ e.type = "tool.started",
             e.type = "prose" => e.n = remote'[r].turn,
             e.type = "approval.request" => e.n \in 1..MaxAsks,
             e.type = "completed" => remote'[r].state = "completed"
      PROVE  Inv'
  <2>1. queue'[r] = Append(queue[r], e)
    BY <1>4 DEF Emit, Inv
  <2>2. RunSound(remote'[r], Append(queue[r], e), active[r], consumer[r], saved[r])
    BY <1>1, <1>4, Emits
  <2> QED
    BY <1>1, <1>2, <2>1, <2>2, RunChanges
<1>5. CASE HermesWork(r)
  <2>1. CASE /\ Emit(r, Event("prose", remote[r].turn))
             /\ remote' = [remote EXCEPT ![r].spoke = TRUE]
    <3>1. remote'[r] \in RemoteType /\ remote'[r].turn = remote[r].turn
      BY <1>1, <2>1 DEF Inv, RemoteType
    <3>2. /\ Event("prose", remote[r].turn) \in EventType
          /\ Event("prose", remote[r].turn).type = "prose"
          /\ Event("prose", remote[r].turn).n = remote[r].turn
      BY <1>1, RunsAssumption DEF Event, EventType, RemoteType
    <3> QED
      BY <1>4, <1>5, <2>1, <3>1, <3>2 DEF HermesWork
  <2>2. CASE /\ remote[r].turn < MaxTurns
             /\ Emit(r, Event("tool.started", remote[r].turn))
             /\ remote' = [remote EXCEPT ![r].turn = @ + 1, ![r].spoke = FALSE]
    <3>1. remote[r].turn + 1 \in 0..MaxTurns
      BY <1>1, <2>2, RunsAssumption DEF RemoteType
    <3>2. remote'[r] = [remote[r] EXCEPT !.turn = remote[r].turn + 1, !.spoke = FALSE]
      BY <2>2 DEF Inv
    <3>3. remote'[r] \in RemoteType
      BY <1>1, <3>1, <3>2 DEF RemoteType
    <3>4. /\ Event("tool.started", remote[r].turn) \in EventType
          /\ Event("tool.started", remote[r].turn).type = "tool.started"
      BY <1>1, RunsAssumption DEF Event, EventType, RemoteType
    <3> QED
      BY <1>4, <1>5, <2>2, <3>3, <3>4 DEF HermesWork
  <2> QED
    BY <1>5, <2>1, <2>2 DEF HermesWork
<1>6. CASE HermesAsk(r)
  <2>1. remote[r].ask + 1 \in 1..MaxAsks
    BY <1>1, <1>6, RunsAssumption DEF RemoteType, HermesAsk
  <2>2. remote'[r] = [remote[r] EXCEPT !.state = "asking", !.ask = remote[r].ask + 1]
    BY <1>6 DEF Inv, HermesAsk
  <2>3. /\ remote'[r] \in RemoteType /\ remote'[r].turn = remote[r].turn
        /\ remote'[r].ask = remote[r].ask + 1
    <3>1. remote[r].ask + 1 \in 0..MaxAsks
      BY <2>1
    <3> QED
      BY <1>1, <2>2, <3>1 DEF RemoteType
  <2>4. /\ Event("approval.request", remote'[r].ask) \in EventType
        /\ Event("approval.request", remote'[r].ask).type = "approval.request"
        /\ Event("approval.request", remote'[r].ask).n = remote'[r].ask
    BY <2>1, <2>3 DEF Event, EventType
  <2> QED
    BY <1>4, <1>6, <2>1, <2>3, <2>4 DEF HermesAsk
<1>7. CASE HermesEnd(r)
  <2>1. PICK s \in {"completed", "failed"} :
           remote' = [remote EXCEPT ![r].state = s] /\ Emit(r, Event(s, remote[r].turn))
    BY <1>7 DEF HermesEnd
  <2>2. /\ remote'[r] \in RemoteType /\ remote'[r].turn = remote[r].turn
        /\ remote'[r].state = s
    BY <1>1, <2>1 DEF Inv, RemoteType, Finished
  <2>3. Event(s, remote[r].turn) \in EventType /\ Event(s, remote[r].turn).type = s
    BY <1>1, RunsAssumption DEF Event, EventType, RemoteType
  <2> QED
    BY <1>4, <1>7, <2>1, <2>2, <2>3 DEF HermesEnd
<1> QED
  BY <1>3, <1>5, <1>6, <1>7 DEF HermesStep

-----------------------------------------------------------------------------
(* The consumer.                                                            *)

(* Every step but an event of Hermes leaves these parts alone.              *)
LEMMA ConsumerSound ==
  ASSUME Inv, NEW r \in Runs, NEW d \in Engaged,
         NEW x \in RecordType \cup {None}, x # None => d.pc \in Known,
         StopsCounted(d), Buffered(remote[r], queue[r], d),
         consumer' = [consumer EXCEPT ![r] = d],
         active' = [active EXCEPT ![r] = x],
         UNCHANGED <<remote, queue, approver, saved>>
  PROVE  Inv'
<1>1. OneRun(r) /\ Functions /\ consumer'[r] = d /\ active'[r] = x
  BY DEF Inv, OneRun, Functions
<1>2. RunSound(remote[r], queue[r], x, d, saved[r])
  BY ConsumerMoves DEF Inv
<1> QED
  BY <1>1, <1>2, RunChanges DEF Inv, ApproverType

(* The parts of run r, as the lemmas above take them.                       *)
LEMMA RunIs ==
  ASSUME Inv, NEW r \in Runs
  PROVE  /\ RunSound(remote[r], queue[r], active[r], consumer[r], saved[r])
         /\ RunTyped(remote[r], queue[r], active[r], consumer[r], saved[r])
         /\ consumer[r].pc # "idle" => consumer[r] \in Engaged
         /\ StopsCounted(consumer[r])
         /\ active[r] # None => consumer[r].pc \in Known
         /\ active = [active EXCEPT ![r] = active[r]]
         /\ [consumer EXCEPT ![r].pc = "ended"]
              = [consumer EXCEPT ![r] = [consumer[r] EXCEPT !.pc = "ended"]]
<1>1. RunSound(remote[r], queue[r], active[r], consumer[r], saved[r])
  BY DEF Inv
<1>2. RunTyped(remote[r], queue[r], active[r], consumer[r], saved[r])
  BY <1>1 DEF RunSound
<1>3. consumer[r].pc # "idle" => consumer[r] \in Engaged
  BY <1>2, ConsumerIs DEF RunTyped
<1>4. StopsCounted(consumer[r]) /\ (active[r] # None => consumer[r].pc \in Known)
  BY <1>1 DEF RunSound
<1> QED
  BY <1>1, <1>2, <1>3, <1>4 DEF Inv

LEMMA RegistrationSound ==
  ASSUME Inv, NEW r \in Runs, CreateRun(r) \/ RegisterRun(r) \/ LoseRun(r)
  PROVE  Inv'
<1>1. CASE CreateRun(r)
  <2>1. PICK stream \in BOOLEAN, entry \in Entrypoints :
           consumer' = [consumer EXCEPT ![r] =
                          [pc |-> "creating", stream |-> stream, entry |-> entry,
                           seen |-> "unknown", turns |-> {}, requested |-> FALSE, stops |-> 0]]
    BY <1>1 DEF CreateRun
  <2> DEFINE d == [pc |-> "creating", stream |-> stream, entry |-> entry,
                   seen |-> "unknown", turns |-> {}, requested |-> FALSE, stops |-> 0]
  <2>2. d \in Engaged /\ d.pc = "creating" /\ d.turns = {} /\ d.seen = "unknown"
    BY DEF Engaged
  <2>3. StopsCounted(d)
    BY DEF StopsCounted
  <2>4. active[r] = None
    BY <1>1, RunIs DEF CreateRun, At, Known
  <2>5. consumer' = [consumer EXCEPT ![r] = d] /\ active' = [active EXCEPT ![r] = active[r]]
        /\ UNCHANGED <<remote, queue, approver, saved>>
    BY <1>1, <2>1, RunIs DEF CreateRun
  <2> HIDE DEF d
  <2>6. Buffered(remote[r], queue[r], d)
    BY <2>2 DEF Buffered
  <2> QED
    BY <2>2, <2>3, <2>4, <2>5, <2>6, ConsumerSound
<1>2. CASE RegisterRun(r)
  <2> DEFINE c == consumer[r]
             d == [c EXCEPT !.pc = "reading", !.seen = "none"]
  <2>1. c.pc = "creating" /\ c \in Engaged /\ StopsCounted(c)
    BY <1>2, RunIs DEF RegisterRun, At
  <2>2. d \in Engaged /\ d.pc = "reading" /\ d.pc \in Known
    BY <2>1 DEF Engaged, Known
  <2>3. StopsCounted(d)
    BY <2>1 DEF StopsCounted, Engaged
  <2>4. Record \in RecordType
    BY DEF Record, RecordType
  <2>5. /\ consumer' = [consumer EXCEPT ![r] = d] /\ active' = [active EXCEPT ![r] = Record]
        /\ UNCHANGED <<remote, queue, approver, saved>>
    BY <1>2 DEF RegisterRun, Inv
  <2>6. Buffered(remote[r], queue[r], d)
    <3>1. c.turns = {}
      BY <2>1, RunIs DEF RunSound, Buffered
    <3>2. d.turns = {} /\ d.pc = "reading"
      BY <2>1, <3>1 DEF Engaged
    <3> QED
      BY <3>2 DEF Buffered
  <2> HIDE DEF d
  <2> QED
    BY <2>2, <2>3, <2>4, <2>5, <2>6, ConsumerSound
<1>3. CASE LoseRun(r)
  <2> DEFINE c == consumer[r]
             d == [c EXCEPT !.pc = "ended"]
  <2>1. c.pc = "creating" /\ c \in Engaged /\ StopsCounted(c) /\ active[r] = None
    BY <1>3, RunIs DEF LoseRun, At, Known
  <2>2. d \in Engaged /\ d.pc = "ended"
    BY <2>1 DEF Engaged
  <2>3. c.seen = "unknown"
    BY <2>1, RunIs DEF RunSound, Buffered
  <2>4. StopsCounted(d)
    BY <2>1, <2>3 DEF StopsCounted, Engaged
  <2>5. /\ consumer' = [consumer EXCEPT ![r] = d] /\ active' = [active EXCEPT ![r] = active[r]]
        /\ UNCHANGED <<remote, queue, approver, saved>>
    BY <1>3, RunIs DEF LoseRun
  <2> HIDE DEF d
  <2>6. Buffered(remote[r], queue[r], d)
    BY <2>2 DEF Buffered
  <2> QED
    BY <2>1, <2>2, <2>4, <2>5, <2>6, ConsumerSound
<1> QED
  BY <1>1, <1>2, <1>3

(* What the registry notes of an event is well formed, and brings back no   *)
(* record that was dropped.                                                 *)
LEMMA NotesWell ==
  ASSUME Inv, NEW r \in Runs, NEW e \in EventType,
         e.type = "approval.request" => e.n \in 1..MaxAsks
  PROVE  \E x \in RecordType \cup {None} :
            /\ active[r] = None => x = None
            /\ Noted(r, e) = [active EXCEPT ![r] = x]
<1>1. ASSUME NEW status \in {"running", "pending_approval"} \cup Finished,
             NEW pending \in 1..MaxAsks \cup {None}
      PROVE  \E x \in RecordType \cup {None} :
                /\ active[r] = None => x = None
                /\ Update(r, status, pending) = [active EXCEPT ![r] = x]
  <2> DEFINE x == IF active[r] = None THEN None ELSE [status |-> status, pending |-> pending]
  <2>1. [status |-> status, pending |-> pending] \in RecordType
    BY DEF RecordType
  <2>2. x \in RecordType \cup {None} /\ (active[r] = None => x = None)
    BY <2>1
  <2>3. Update(r, status, pending) = [active EXCEPT ![r] = x]
    BY DEF Update
  <2> HIDE DEF x
  <2> QED
    BY <2>2, <2>3
<1>2. CASE e.type = "approval.request"
  <2>1. Noted(r, e) = Update(r, "pending_approval", e.n)
    BY <1>2 DEF Noted, Finished
  <2> QED
    BY <1>1, <1>2, <2>1
<1>3. CASE e.type = "approval.responded"
  <2>1. Noted(r, e) = Update(r, "running", None)
    BY <1>3 DEF Noted, Finished
  <2> QED
    BY <1>1, <2>1
<1>4. CASE e.type \in {"completed", "failed"}
  <2>1. Noted(r, e) = Update(r, e.type, None) /\ e.type \in Finished
    BY <1>4 DEF Noted, Finished
  <2> QED
    BY <1>1, <2>1
<1>5. CASE e.type \in {"prose", "tool.started"}
  <2>1. Noted(r, e) = active
    BY <1>5 DEF Noted, Finished
  <2>2. active = [active EXCEPT ![r] = active[r]] /\ active[r] \in RecordType \cup {None}
    BY DEF Inv
  <2> QED
    BY <2>1, <2>2
<1> QED
  BY <1>2, <1>3, <1>4, <1>5 DEF EventType

LEMMA ReadSound ==
  ASSUME Inv, NEW r \in Runs, ReadEvent(r)
  PROVE  Inv'
<1> DEFINE q == queue[r]
           e == Head(q)
<1>1. /\ RunSound(remote[r], q, active[r], consumer[r], saved[r])
      /\ consumer[r].pc = "reading" /\ q # <<>> /\ q \in Seq(EventType)
  BY RunIs DEF ReadEvent, At, RunTyped
<1>2. e \in EventType /\ (e.type = "approval.request" => e.n \in 1..MaxAsks)
  <2>1. e = q[1] /\ 1 \in 1..Len(q)
    BY <1>1, EmptySeq, LenProperties
  <2>2. e \in EventType
    BY <1>1, <2>1, EventIs
  <2> QED
    BY <1>1, <2>1, <2>2 DEF RunSound, Queued
<1>3. PICK x \in RecordType \cup {None} :
         /\ active[r] = None => x = None
         /\ Noted(r, e) = [active EXCEPT ![r] = x]
  BY <1>2, NotesWell
<1>4. /\ queue'[r] = Tail(q) /\ active'[r] = x /\ consumer'[r] = Read(consumer[r], e)
      /\ remote' = remote /\ saved' = saved /\ approver' = approver
      /\ OneRun(r) /\ Functions
  BY <1>3 DEF ReadEvent, Inv, OneRun, Functions
<1>5. RunSound(remote[r], Tail(q), x, Read(consumer[r], e), saved[r])
  BY <1>1, <1>3, Reads
<1> QED
  BY <1>4, <1>5, RunChanges DEF Inv, ApproverType

LEMMA BreakOffSound ==
  ASSUME Inv, NEW r \in Runs, BreakOff(r)
  PROVE  Inv'
<1> DEFINE c == consumer[r]
<1>1. /\ c.pc = "reading" /\ c \in Engaged /\ StopsCounted(c) /\ ~c.requested /\ c.stops = 0
      /\ active' = [active EXCEPT ![r] = active[r]] /\ active[r] \in RecordType \cup {None}
      /\ UNCHANGED <<remote, queue, approver, saved>>
  BY RunIs DEF BreakOff, At, RunTyped, StopsCounted
<1>2. CASE consumer' = [consumer EXCEPT ![r] = Stopping(@)]
  <2>1. consumer' = [consumer EXCEPT ![r] = Stopping(c)]
    BY <1>2
  <2>2. Buffered(remote[r], queue[r], Stopping(c))
    BY <1>1, Stops DEF Buffered
  <2>3. Stopping(c) \in Engaged /\ Stopping(c).pc \in Known /\ StopsCounted(Stopping(c))
    BY <1>1, Stops DEF Known
  <2> QED
    BY <1>1, <2>1, <2>2, <2>3, ConsumerSound
<1>3. CASE consumer' = [consumer EXCEPT ![r].pc = "disconnecting", ![r].stops = @ + 1]
  <2> DEFINE d == [c EXCEPT !.pc = "disconnecting", !.stops = 1]
  <2>1. consumer' = [consumer EXCEPT ![r] = d]
    <3>1. c.stops + 1 = 1
      BY <1>1
    <3>2. consumer'[r] = [c EXCEPT !.pc = "disconnecting", !.stops = c.stops + 1]
      BY <1>1, <1>3 DEF Inv, Engaged
    <3>3. consumer' = [consumer EXCEPT ![r] = consumer'[r]]
      BY <1>3 DEF Inv
    <3> QED
      BY <3>1, <3>2, <3>3
  <2>2. d \in Engaged /\ d.pc = "disconnecting" /\ d.pc \in Known
    <3>1. 1 \in 0..2
      OBVIOUS
    <3> QED
      BY <1>1, <3>1 DEF Engaged, Known
  <2>3. StopsCounted(d)
    BY <1>1 DEF StopsCounted, Engaged
  <2> HIDE DEF d
  <2>4. Buffered(remote[r], queue[r], d)
    BY <2>2 DEF Buffered
  <2> QED
    BY <1>1, <2>1, <2>2, <2>3, <2>4, ConsumerSound
<1> QED
  BY <1>2, <1>3 DEF BreakOff

LEMMA FinishStopSound ==
  ASSUME Inv, NEW r \in Runs, FinishStop(r)
  PROVE  Inv'
<1> DEFINE c == consumer[r]
           b == [c EXCEPT !.requested = TRUE]
           d == Leaving(b)
<1>1. /\ c.pc \in {"stopping", "disconnecting", "quitting"} /\ c \in Engaged
      /\ StopsCounted(c)
      /\ RunSound(remote[r], queue[r], active[r], c, saved[r])
      /\ active[r] \in RecordType \cup {None} /\ remote[r] \in RemoteType
      /\ UNCHANGED <<queue, active, approver, saved>>
  BY RunIs DEF FinishStop, At, RunTyped
<1>2. consumer' = [consumer EXCEPT ![r] = d]
  BY DEF FinishStop
<1>3. d \in Engaged /\ d.pc = "leaving" /\ d.pc \in Known
  BY <1>1 DEF Engaged, Known, Leaving
<1>4. StopsCounted(d)
  <2>1. c.stops \in 1..2
    BY <1>1 DEF StopsCounted
  <2> QED
    BY <1>1, <2>1 DEF StopsCounted, Engaged, Leaving
<1> HIDE DEF d, b
<1>5. Buffered(remote[r], queue[r], d)
  BY <1>3 DEF Buffered
<1>6. RunSound(remote[r], queue[r], active[r], d, saved[r])
  BY <1>1, <1>3, <1>4, <1>5, ConsumerMoves
<1>7. RunSound(remote'[r], queue[r], active[r], d, saved[r])
  <2>1. CASE UNCHANGED remote
    BY <1>6, <2>1
  <2>2. CASE /\ remote[r].state \in {"running", "asking"}
             /\ remote' = [remote EXCEPT ![r].state = "cancelled"]
    <3>1. remote'[r] = [remote[r] EXCEPT !.state = "cancelled"]
      BY <2>2 DEF Inv
    <3>2. remote'[r] \in RemoteType /\ remote'[r].turn = remote[r].turn
      BY <1>1, <3>1 DEF RemoteType, Finished
    <3> QED
      BY <1>6, <2>2, <3>2, RecordMoves
  <2> QED
    BY <2>1, <2>2 DEF FinishStop
<1>8. consumer'[r] = d /\ OneRun(r) /\ Functions
  BY <1>2 DEF FinishStop, Inv, OneRun, Functions
<1> QED
  BY <1>1, <1>7, <1>8, RunChanges DEF Inv, ApproverType

LEMMA SaveSound ==
  ASSUME Inv, NEW r \in Runs, SaveAnswer(r)
  PROVE  Inv'
<1> DEFINE c == consumer[r]
           d == [c EXCEPT !.pc = "titling"]
           v == IF c.turns = {} THEN saved[r] ELSE c.turns
<1>1. /\ c.pc = "saving" /\ c \in Engaged /\ StopsCounted(c)
      /\ RunSound(remote[r], queue[r], active[r], c, saved[r])
      /\ RunTyped(remote[r], queue[r], active[r], c, saved[r])
      /\ UNCHANGED <<remote, queue, active, approver>>
  BY RunIs DEF SaveAnswer, At
<1>2. consumer'[r] = d /\ saved'[r] = v /\ OneRun(r) /\ Functions
  BY DEF SaveAnswer, Inv, OneRun, Functions
<1>3. d \in Engaged /\ d.pc = "titling" /\ d.pc \in Known /\ StopsCounted(d)
  BY <1>1 DEF Engaged, Known, StopsCounted
<1> HIDE DEF d
<1>4. Buffered(remote[r], queue[r], d)
  BY <1>3 DEF Buffered
<1>5. RunSound(remote[r], queue[r], active[r], d, saved[r])
  BY <1>1, <1>3, <1>4, ConsumerMoves DEF RunTyped
<1>6. remote[r].state = "completed" /\ c.turns \subseteq {remote[r].turn}
  BY <1>1 DEF RunSound, Buffered
<1>7. c.turns \subseteq 0..MaxTurns
  BY <1>1 DEF Engaged
<1>8. RunSound(remote[r], queue[r], active[r], d, v)
  BY <1>5, <1>6, <1>7 DEF RunSound, RunTyped
<1> QED
  BY <1>1, <1>2, <1>8, RunChanges DEF Inv, ApproverType

LEMMA FinishAnswerSound ==
  ASSUME Inv, NEW r \in Runs, FinishAnswer(r)
  PROVE  Inv'
<1> DEFINE c == consumer[r]
<1>1. /\ c.pc = "titling" /\ c \in Engaged /\ StopsCounted(c)
      /\ active' = [active EXCEPT ![r] = active[r]] /\ active[r] \in RecordType \cup {None}
      /\ consumer' = [consumer EXCEPT ![r] = Leaving(c)]
      /\ UNCHANGED <<remote, queue, approver, saved>>
  BY RunIs DEF FinishAnswer, At, RunTyped
<1>2. Leaving(c) \in Engaged /\ Leaving(c).pc = "leaving" /\ StopsCounted(Leaving(c))
  BY <1>1, GoesToLeave
<1>3. Buffered(remote[r], queue[r], Leaving(c)) /\ Leaving(c).pc \in Known
  BY <1>2 DEF Buffered, Known
<1> QED
  BY <1>1, <1>2, <1>3, ConsumerSound

LEMMA CutSound ==
  ASSUME Inv, NEW r \in Runs, Cut(r)
  PROVE  Inv'
<1> DEFINE c == consumer[r]
<1>1. /\ c.pc \in Known /\ c \in Engaged /\ StopsCounted(c)
      /\ active' = [active EXCEPT ![r] = active[r]] /\ active[r] \in RecordType \cup {None}
      /\ UNCHANGED <<remote, queue, approver, saved>>
  BY RunIs DEF Cut, At, RunTyped, Known
<1>2. CASE /\ At(r, {"reading", "disconnecting", "titling"})
           /\ consumer' = [consumer EXCEPT ![r] = Stopping(@)]
  <2>1. ~c.requested
    BY <1>1, <1>2 DEF StopsCounted, At
  <2>2. Stopping(c) \in Engaged /\ Stopping(c).pc = "stopping" /\ StopsCounted(Stopping(c))
    BY <1>1, <2>1, Stops
  <2>3. Buffered(remote[r], queue[r], Stopping(c)) /\ Stopping(c).pc \in Known
    BY <2>2 DEF Buffered, Known
  <2> QED
    BY <1>1, <1>2, <2>2, <2>3, ConsumerSound
<1>3. CASE /\ At(r, {"reading", "stopping", "saving", "titling"})
           /\ consumer' = [consumer EXCEPT ![r] = Leaving(@)]
  <2>1. Leaving(c) \in Engaged /\ Leaving(c).pc = "leaving" /\ StopsCounted(Leaving(c))
    BY <1>1, <1>3, GoesToLeave DEF At
  <2>2. Buffered(remote[r], queue[r], Leaving(c)) /\ Leaving(c).pc \in Known
    BY <2>1 DEF Buffered, Known
  <2> QED
    BY <1>1, <1>3, <2>1, <2>2, ConsumerSound
<1>4. CASE At(r, {"quitting"}) /\ consumer' = [consumer EXCEPT ![r].pc = "abandoned"]
  <2> DEFINE d == [c EXCEPT !.pc = "abandoned"]
  <2>1. d \in Engaged /\ d.pc = "abandoned" /\ d.pc \in Known
    BY <1>1 DEF Engaged, Known
  <2>2. StopsCounted(d)
    BY <1>1, <1>4 DEF StopsCounted, Engaged, At
  <2>3. consumer' = [consumer EXCEPT ![r] = d]
    BY <1>4
  <2> HIDE DEF d
  <2>4. Buffered(remote[r], queue[r], d)
    BY <2>1 DEF Buffered
  <2> QED
    BY <1>1, <2>1, <2>2, <2>3, <2>4, ConsumerSound
<1> QED
  BY <1>2, <1>3, <1>4 DEF Cut

LEMMA LeaveSound ==
  ASSUME Inv, NEW r \in Runs, Leave(r)
  PROVE  Inv'
<1> DEFINE c == consumer[r]
<1>1. /\ c.pc = "leaving" /\ c \in Engaged /\ StopsCounted(c)
      /\ active = [active EXCEPT ![r] = active[r]] /\ active[r] \in RecordType \cup {None}
      /\ UNCHANGED <<remote, queue, approver, saved>>
  BY RunIs DEF Leave, At, RunTyped
<1>2. CASE Unstopped(r)
  <2>1. /\ ~c.requested
        /\ consumer' = [consumer EXCEPT ![r] = Quitting(c)]
        /\ active' = [active EXCEPT ![r] = active[r]]
    BY <1>1, <1>2 DEF Leave, Unstopped
  <2>2. Quitting(c) \in Engaged /\ Quitting(c).pc = "quitting" /\ StopsCounted(Quitting(c))
    BY <1>1, <2>1, Quits
  <2>3. Buffered(remote[r], queue[r], Quitting(c)) /\ Quitting(c).pc \in Known
    BY <2>2 DEF Buffered, Known
  <2> QED
    BY <1>1, <2>1, <2>2, <2>3, ConsumerSound
<1>3. CASE ~Unstopped(r)
  <2> DEFINE d == [c EXCEPT !.pc = "ended"]
  <2>1. /\ consumer' = [consumer EXCEPT ![r] = d]
        /\ active' = [active EXCEPT ![r] = None]
    BY <1>3, RunIs DEF Leave, Forget
  <2>2. d \in Engaged /\ d.pc = "ended"
    BY <1>1 DEF Engaged
  <2>3. StopsCounted(d)
    BY <1>1, <1>3 DEF StopsCounted, Engaged, Unstopped
  <2> HIDE DEF d
  <2>4. Buffered(remote[r], queue[r], d)
    BY <2>2 DEF Buffered
  <2> QED
    BY <1>1, <2>1, <2>2, <2>3, <2>4, ConsumerSound
<1> QED
  BY <1>2, <1>3

-----------------------------------------------------------------------------
(* The registry and the approvals.                                          *)

(* A record that was there may change, or go.                               *)
LEMMA RegistryMoves ==
  ASSUME Inv, NEW r \in Runs, NEW x \in RecordType \cup {None},
         active[r] = None => x = None,
         active' = [active EXCEPT ![r] = x],
         approver' \in [Approvers -> ApproverType],
         UNCHANGED <<remote, queue, consumer, saved>>
  PROVE  Inv'
<1>1. OneRun(r) /\ Functions /\ active'[r] = x
  BY DEF Inv, OneRun, Functions
<1>2. RunSound(remote[r], queue[r], x, consumer[r], saved[r])
  BY RunIs DEF RunSound, RunTyped
<1> QED
  BY <1>1, <1>2, RunChanges

LEMMA PurgeSound ==
  ASSUME Inv, NEW r \in Runs, Purge(r)
  PROVE  Inv'
  BY RegistryMoves DEF Purge, Inv, ApproverType

LEMMA ApproverSound ==
  ASSUME Inv, NEW a \in Approvers, ApproverStep(a) \/ \E r \in Runs : Approve(a, r)
  PROVE  Inv'
<1>1. approver \in [Approvers -> ApproverType]
  BY DEF Inv, ApproverType
<1>2. approver[a].pc \in {"posting", "accepted"} => approver[a].run \in Runs
  BY <1>1 DEF ApproverType, Idle
<1>3. ASSUME approver' \in [Approvers -> ApproverType],
             UNCHANGED <<remote, queue, active, consumer, saved>>
      PROVE  Inv'
  BY <1>3 DEF Inv, ApproverType
<1>4. CASE \E r \in Runs : Approve(a, r)
  <2>1. PICK r \in Runs : Approve(a, r)
    BY <1>4
  <2>2. [pc |-> "posting", run |-> r] \in ApproverType
    BY DEF ApproverType
  <2> QED
    BY <1>1, <1>3, <2>1, <2>2 DEF Approve
<1>5. CASE FailApproval(a)
  <2>1. Idle \in ApproverType
    BY DEF ApproverType
  <2> QED
    BY <1>1, <1>3, <1>5, <2>1 DEF FailApproval
<1>6. CASE FinishApproval(a)
  <2> DEFINE r == approver[a].run
             x == IF active[r] = None THEN None ELSE [status |-> "running", pending |-> None]
  <2>1. r \in Runs
    BY <1>2, <1>6 DEF FinishApproval
  <2>2. active' = [active EXCEPT ![r] = x]
    BY <1>6 DEF FinishApproval, Update
  <2>3. [status |-> "running", pending |-> None] \in RecordType
    BY DEF RecordType
  <2>4. x \in RecordType \cup {None} /\ (active[r] = None => x = None)
    BY <2>3
  <2>5. approver' \in [Approvers -> ApproverType]
    <3>1. Idle \in ApproverType
      BY DEF ApproverType
    <3> QED
      BY <1>1, <1>6, <3>1 DEF FinishApproval
  <2>6. UNCHANGED <<remote, queue, consumer, saved>>
    BY <1>6 DEF FinishApproval
  <2> HIDE DEF x, r
  <2> QED
    BY <2>1, <2>2, <2>4, <2>5, <2>6, RegistryMoves
<1>7. CASE HermesApproval(a)
  <2> DEFINE r == approver[a].run
             e == Event("approval.responded", remote[r].ask)
  <2>1. r \in Runs
    BY <1>2, <1>7 DEF HermesApproval
  <2>2. approver' \in [Approvers -> ApproverType]
    <3>1. Idle \in ApproverType /\ [approver[a] EXCEPT !.pc = "accepted"] \in ApproverType
      BY <1>1, <1>2, <1>7 DEF ApproverType, HermesApproval, Idle
    <3> QED
      BY <1>1, <1>7, <3>1 DEF HermesApproval
  <2>3. CASE remote[r].state # "asking"
    BY <1>3, <1>7, <2>2, <2>3 DEF HermesApproval
  <2>4. CASE remote[r].state = "asking"
    <3>1. /\ remote' = [remote EXCEPT ![r].state = "running"]
          /\ queue' = [queue EXCEPT ![r] = Append(@, e)]
          /\ UNCHANGED <<active, consumer, saved>>
      BY <1>7, <2>4 DEF HermesApproval, Emit
    <3>2. /\ remote[r] \in RemoteType
          /\ RunSound(remote[r], queue[r], active[r], consumer[r], saved[r])
      BY <2>1, RunIs DEF RunTyped
    <3>3. remote'[r] \in RemoteType /\ remote'[r].turn = remote[r].turn
      <4>1. remote'[r] = [remote[r] EXCEPT !.state = "running"]
        BY <2>1, <3>1 DEF Inv
      <4> QED
        BY <3>2, <4>1 DEF RemoteType
    <3>4. e \in EventType /\ e.type = "approval.responded"
      BY <3>2, RunsAssumption DEF Event, EventType, RemoteType
    <3>5. queue'[r] = Append(queue[r], e) /\ OneRun(r) /\ Functions
      BY <2>1, <3>1 DEF Inv, OneRun, Functions
    <3> HIDE DEF e, r
    <3>6. RunSound(remote'[r], Append(queue[r], e), active[r], consumer[r], saved[r])
      BY <2>4, <3>2, <3>3, <3>4, Emits
    <3> QED
      BY <2>1, <2>2, <3>1, <3>5, <3>6, RunChanges
  <2> QED
    BY <2>3, <2>4
<1> QED
  BY <1>4, <1>5, <1>6, <1>7 DEF ApproverStep

-----------------------------------------------------------------------------
(* The theorems.                                                            *)

LEMMA StepSound == ASSUME Inv, [Next]_vars PROVE Inv'
<1>1. CASE UNCHANGED vars
  BY <1>1 DEF vars, Inv, RunSound, RunTyped, Queued, CallAhead, Buffered, StopsCounted
<1>2. ASSUME NEW r \in Runs, CreateRun(r) \/ HermesStep(r) \/ ConsumerStep(r) \/ Purge(r)
      PROVE  Inv'
  BY <1>2, HermesSound, RegistrationSound, ReadSound, BreakOffSound, FinishStopSound,
     SaveSound, FinishAnswerSound, CutSound, LeaveSound, PurgeSound DEF ConsumerStep
<1>3. ASSUME NEW a \in Approvers, ApproverStep(a) \/ \E r \in Runs : Approve(a, r)
      PROVE  Inv'
  BY <1>3, ApproverSound
<1> QED
  BY <1>1, <1>2, <1>3 DEF Next

(* What is on its way from Hermes, what a consumer has buffered, counted    *)
(* and registered and what was stored agree with Hermes' record of the run  *)
(* in every state.                                                          *)
THEOREM Soundness == Spec => []Inv
<1>1. Init => Inv
  BY Initially
<1>2. Inv /\ [Next]_vars => Inv'
  BY StepSound
<1> QED
  BY <1>1, <1>2, PTL DEF Spec

(* The types: in particular a stop is sent at most twice for a run, and the *)
(* prose of a run carries the turns Hermes can be in.                       *)
THEOREM TypeCorrect == Spec => []TypeOK
<1>1. Inv => TypeOK
  BY DEF Inv, TypeOK, RemoteType, RecordType
<1> QED
  BY <1>1, Soundness, PTL

(* The registry of active runs holds a run only while its consumer is at    *)
(* work, or after it was cut at the stop of its finally: no answer of a     *)
(* late approval, and no event, brings a forgotten run back                 *)
(* (update_active_hermes_run, remove_active_hermes_run).                    *)
THEOREM RegisteredIsConsumedHolds == Spec => []RegisteredIsConsumed
<1>1. Inv => RegisteredIsConsumed
  BY DEF Inv, RunSound, RegisteredIsConsumed, At, Known
<1> QED
  BY <1>1, Soundness, PTL

(* However a response ends, by its events, a timeout, a client that went    *)
(* or a cancellation at any await, a stop was begun for a run that had not  *)
(* ended.                                                                   *)
THEOREM LeftMeansStoppedHolds == Spec => []LeftMeansStopped
<1>1. ASSUME Inv, NEW r \in Runs, consumer[r].seen = "none",
             consumer[r].pc \in {"ended", "abandoned"}
      PROVE  consumer[r].stops > 0
  <2>1. StopsCounted(consumer[r])
    BY <1>1, RunIs
  <2> QED
    BY <1>1, <2>1 DEF StopsCounted
<1>2. Inv => LeftMeansStopped
  BY <1>1 DEF LeftMeansStopped, At
<1> QED
  BY <1>2, Soundness, PTL

(* What is stored as the answer of a run is the prose of the last turn of a *)
(* run that completed: prose from before a tool call was dropped, whatever  *)
(* was still on its way when it was said.                                   *)
THEOREM AnswerIsCanonicalHolds == Spec => []AnswerIsCanonical
<1>1. Inv => AnswerIsCanonical
  BY DEF Inv, RunSound, AnswerIsCanonical
<1> QED
  BY <1>1, Soundness, PTL

=============================================================================
