------------------------ MODULE ModuleRegistryProofs ------------------------
(***************************************************************************)
(* What ModuleRegistry promises, for any number of registrations,          *)
(* administrators and manifests.                                           *)
(***************************************************************************)
EXTENDS ModuleRegistry, TLAPS

(* Most handlers leave alone whether a row exists and which permissions    *)
(* were reviewed; of the grants they can at most take all away.            *)
Mild(q, new) == /\ new \in Row
                /\ new.present = q.present
                /\ new.revPerm = q.revPerm
                /\ new.grants \in {None, q.grants}

Quiet == /\ \A r \in Regs : Mild(row[r], row'[r])
         /\ UNCHANGED <<file, approved>>

(* The steps that do more than that. *)
Notable ==
    \/ \E a \in Admins, r \in Regs, m \in Manifests : FinishPair(a, r, m)
    \/ \E r \in Regs, m \in Manifests : Approve(r, m)
    \/ \E a \in Admins : FinishDisconnect(a) \/ TornDisconnect(a)
    \/ \E a \in Admins, r \in Regs : TornPair(a, r)

-----------------------------------------------------------------------------
(* The rows the code writes are rows. *)

LEMMA NewRowType == \A m \in Manifests : NewRow(m) \in Row
  BY DEF NewRow, Row, Lifecycles

LEMMA NoRowType == NoRow \in Row /\ ~NoRow.present /\ NoRow.revPerm = None
                   /\ NoRow.grants = None
<1>1. PICK m \in Manifests : NoRow = [NewRow(m) EXCEPT !.present = FALSE]
  BY RegistryAssumption DEF NoRow
<1> QED
  BY <1>1 DEF NewRow, Row, Lifecycles

(* Each UPDATE but approve()'s is mild. *)
LEMMA UpdatesAreMild ==
  ASSUME NEW q \in Row
  PROVE  /\ Mild(q, q)
         /\ Mild(q, Unchecked(q))
         /\ Mild(q, Unreviewed(q))
         /\ Mild(q, NotReady(q))
         /\ \A l \in Lifecycles : /\ Mild(q, [q EXCEPT !.life = l])
                                  /\ Mild(q, [Unchecked(q) EXCEPT !.life = l])
         /\ \A c \in BOOLEAN : Mild(q, [q EXCEPT !.configured = c])
<1>1. Mild(q, q)
  BY DEF Mild
<1>2. Mild(q, Unchecked(q)) /\ Mild(q, NotReady(q))
  BY DEF Mild, Row, Unchecked, NotReady
<1>3. Mild(q, Unreviewed(q))
  BY DEF Mild, Row, Lifecycles, Unchecked, Unreviewed
<1>4. ASSUME NEW l \in Lifecycles PROVE Mild(q, [q EXCEPT !.life = l])
  BY DEF Mild, Row
<1>5. ASSUME NEW l \in Lifecycles
      PROVE  Mild(q, [Unchecked(q) EXCEPT !.life = l])
  BY DEF Mild, Row, Unchecked
<1>6. ASSUME NEW c \in BOOLEAN PROVE Mild(q, [q EXCEPT !.configured = c])
  BY DEF Mild, Row
<1> QED
  BY <1>1, <1>2, <1>3, <1>4, <1>5, <1>6

LEMMA ChecksAreMild ==
  ASSUME NEW q \in Row, NEW d \in BOOLEAN, NEW c \in BOOLEAN
  PROVE  /\ Mild(q, Checked(q, d, c))
         /\ Mild(q, NotReady(Checked(q, d, c)))
         /\ Mild(q, [Checked(q, d, c) EXCEPT !.life = "enabled"])
<1>1. Mild(q, Checked(q, d, c))
  BY DEF Mild, Row, Checked
<1>2. Mild(q, NotReady(Checked(q, d, c)))
  BY DEF Mild, Row, Checked, NotReady
<1>3. Mild(q, [Checked(q, d, c) EXCEPT !.life = "enabled"])
  BY DEF Mild, Row, Lifecycles, Checked
<1> QED
  BY <1>1, <1>2, <1>3

(* So is what a refresh writes, whatever it has read before it asked. *)
LEMMA RefreshIsMild ==
  ASSUME NEW q \in Row, NEW m \in Manifests, NEW h, h.life \in Lifecycles
  PROVE  Mild(q, Refreshed(q, h, m))
  BY DEF Mild, Row, Lifecycles, Refreshed, Unchecked, Unreviewed

(* A mild UPDATE is mild for every row. *)
LEMMA WriteIsMild ==
  ASSUME TypeOK, NEW r \in Regs, NEW new, Mild(row[r], new), Write(r, new)
  PROVE  row' \in [Regs -> Row] /\ \A s \in Regs : Mild(row[s], row'[s])
<1>1. \A s \in Regs : Mild(row[s], row'[s])
  BY UpdatesAreMild DEF TypeOK, Write
<1> QED
  BY <1>1 DEF TypeOK, Write, Mild

LEMMA SameRowsAreMild ==
  ASSUME TypeOK, row' = row
  PROVE  row' \in [Regs -> Row] /\ \A s \in Regs : Mild(row[s], row'[s])
  BY UpdatesAreMild DEF TypeOK

-----------------------------------------------------------------------------
(* Handlers. *)

(* What a handler in one of its states carries with it. *)
LEMMA HandlerFields ==
  ASSUME TypeOK, NEW a \in Admins
  PROVE  /\ admin[a] \in AdminStates
         /\ admin[a].pc \in {"checking", "refreshing", "readingConfig",
                             "writingConfig", "purging", "purged",
                             "disconnecting"} => admin[a].reg \in Regs
         /\ admin[a].pc = "refreshing" => /\ admin[a].life \in Lifecycles
                                          /\ admin[a].goal \in {"check", "enable"}
<1>1. admin[a] \in AdminStates
  BY DEF TypeOK
<1> QED
  BY <1>1 DEF AdminStates, Idle

LEMMA BecomeType ==
  ASSUME TypeOK, NEW a \in Admins, NEW h \in AdminStates, Become(a, h)
  PROVE  admin' \in [Admins -> AdminStates]
  BY DEF TypeOK, Become

LEMMA SimpleStates ==
  /\ Idle \in AdminStates
  /\ [pc |-> "pairing"] \in AdminStates
  /\ [pc |-> "describing"] \in AdminStates
  /\ \A r \in Regs : /\ [pc |-> "readingConfig", reg |-> r] \in AdminStates
                     /\ [pc |-> "writingConfig", reg |-> r] \in AdminStates
                     /\ [pc |-> "purging", reg |-> r] \in AdminStates
                     /\ [pc |-> "purged", reg |-> r] \in AdminStates
                     /\ [pc |-> "disconnecting", reg |-> r] \in AdminStates
                     /\ \A goal \in Goals :
                           [pc |-> "checking", reg |-> r, goal |-> goal]
                              \in AdminStates
  BY DEF AdminStates, Idle

LEMMA BeginType ==
  ASSUME TypeOK, NEW a \in Admins, NEW r \in Regs, NEW h \in AdminStates,
         Begin(a, r, h)
  PROVE  TypeOK' /\ Quiet
  BY BecomeType, SameRowsAreMild DEF Begin, TypeOK, Quiet

LEMMA CheckingType ==
  ASSUME TypeOK, NEW a \in Admins, NEW r \in Regs, NEW goal \in Goals, NEW m,
         Checking(a, r, goal, m)
  PROVE  admin' \in [Admins -> AdminStates]
<1>1. \/ Become(a, [pc |-> "checking", reg |-> r, goal |-> goal])
      \/ Become(a, Idle)
  BY DEF Checking
<1> QED
  BY <1>1, BecomeType, SimpleStates

LEMMA RestartType == Restart => admin' \in [Admins -> AdminStates]
  BY SimpleStates DEF Restart

-----------------------------------------------------------------------------
(* The steps.  All are well typed, and quiet unless they are notable.      *)

(* A handler that writes mildly, and goes on in some state. *)
LEMMA QuietWrite ==
  ASSUME TypeOK, NEW r \in Regs, NEW new, Mild(row[r], new), Write(r, new),
         admin' \in [Admins -> AdminStates], UNCHANGED <<file, busy, approved>>
  PROVE  TypeOK' /\ Quiet
  BY WriteIsMild DEF TypeOK, Quiet

LEMMA QuietMove ==
  ASSUME TypeOK, admin' \in [Admins -> AdminStates],
         UNCHANGED <<row, file, busy, approved>>
  PROVE  TypeOK' /\ Quiet
  BY SameRowsAreMild DEF TypeOK, Quiet

LEMMA PairSteps ==
  ASSUME TypeOK, NEW a \in Admins,
         StartPair(a) \/ PairAnswered(a) \/ RequestFails(a)
                      \/ RemotePurge(a) \/ PurgeLost(a)
  PROVE  TypeOK' /\ Quiet
<1>1. \/ Become(a, Idle) \/ Become(a, [pc |-> "pairing"])
      \/ Become(a, [pc |-> "describing"])
      \/ admin[a].reg \in Regs /\ Become(a, [pc |-> "purged", reg |-> admin[a].reg])
  BY HandlerFields
     DEF StartPair, PairAnswered, RequestFails, RemotePurge, PurgeLost, At
<1>2. admin' \in [Admins -> AdminStates]
  BY <1>1, BecomeType, SimpleStates
<1> QED
  BY <1>2, QuietMove
     DEF StartPair, PairAnswered, RequestFails, RemotePurge, PurgeLost

LEMMA FinishPairType ==
  ASSUME TypeOK, NEW a \in Admins, NEW r \in Regs, NEW m \in Manifests,
         FinishPair(a, r, m)
  PROVE  TypeOK'
  BY NewRowType, BecomeType, SimpleStates DEF FinishPair, TypeOK

LEMMA RefreshSteps ==
  ASSUME TypeOK, NEW a \in Admins
  PROVE  /\ \A r \in Regs, goal \in {"check", "enable"} :
               StartRefresh(a, r, goal) => TypeOK' /\ Quiet
         /\ RefreshFails(a) => TypeOK' /\ Quiet
         /\ \A m \in Manifests : FinishRefresh(a, m) => TypeOK' /\ Quiet
<1>1. ASSUME NEW r \in Regs, NEW goal \in {"check", "enable"},
             StartRefresh(a, r, goal)
      PROVE  TypeOK' /\ Quiet
  <2>1. row[r] \in Row
    BY DEF TypeOK
  <2>2. [pc |-> "refreshing", reg |-> r, goal |-> goal,
         life |-> row[r].life, revManifest |-> row[r].revManifest,
         revPerm |-> row[r].revPerm] \in AdminStates
    BY <2>1 DEF AdminStates, Row
  <2> QED
    BY <1>1, <2>2, BeginType DEF StartRefresh
<1>2. ASSUME RefreshFails(a) PROVE TypeOK' /\ Quiet
  <2>1. admin[a].reg \in Regs /\ row[admin[a].reg] \in Row
    BY <1>2, HandlerFields DEF RefreshFails, At, TypeOK
  <2>2. admin' \in [Admins -> AdminStates]
    BY <1>2, BecomeType, SimpleStates DEF RefreshFails
  <2> QED
    BY <1>2, <2>1, <2>2, UpdatesAreMild, QuietWrite DEF RefreshFails
<1>3. ASSUME NEW m \in Manifests, FinishRefresh(a, m) PROVE TypeOK' /\ Quiet
  <2>1. /\ admin[a].reg \in Regs /\ row[admin[a].reg] \in Row
        /\ admin[a].life \in Lifecycles /\ admin[a].goal \in Goals
    BY <1>3, HandlerFields DEF FinishRefresh, At, TypeOK, Goals
  <2>2. admin' \in [Admins -> AdminStates]
    BY <1>3, <2>1, CheckingType DEF FinishRefresh
  <2>3. Mild(row[admin[a].reg], Refreshed(row[admin[a].reg], admin[a], m))
    BY <2>1, RefreshIsMild
  <2> QED
    BY <1>3, <2>1, <2>2, <2>3, QuietWrite DEF FinishRefresh
<1> QED
  BY <1>1, <1>2, <1>3

LEMMA CheckSteps ==
  ASSUME TypeOK, NEW a \in Admins
  PROVE  /\ \A r \in Regs : StartCheck(a, r) => TypeOK' /\ Quiet
         /\ \A d, c \in BOOLEAN :
               FinishCheck(a, d, c) \/ CheckAgain(a, d, c) \/ Enable(a, d, c)
                  => TypeOK' /\ Quiet
<1>1. ASSUME NEW r \in Regs, StartCheck(a, r) PROVE TypeOK' /\ Quiet
  <2>1. admin' \in [Admins -> AdminStates]
    BY <1>1, CheckingType DEF StartCheck, Goals
  <2>2. PICK new \in {row[r], NotReady(row[r])} : row' = [row EXCEPT ![r] = new]
    BY <1>1 DEF StartCheck, TypeOK
  <2>3. Mild(row[r], new)
    BY <2>2, UpdatesAreMild DEF TypeOK
  <2>4. Write(r, new)
    BY <1>1, <2>2 DEF StartCheck, Reachable, Write, TypeOK
  <2> QED
    BY <1>1, <2>1, <2>3, <2>4, QuietWrite DEF StartCheck
<1>2. ASSUME NEW d \in BOOLEAN, NEW c \in BOOLEAN,
             FinishCheck(a, d, c) \/ CheckAgain(a, d, c) \/ Enable(a, d, c)
      PROVE  TypeOK' /\ Quiet
  <2>1. admin[a].reg \in Regs /\ row[admin[a].reg] \in Row
    BY <1>2, HandlerFields DEF FinishCheck, CheckAgain, Enable, At, TypeOK
  <2>2. admin' \in [Admins -> AdminStates]
    BY <1>2, <2>1, BecomeType, CheckingType, SimpleStates
       DEF FinishCheck, CheckAgain, Enable, Goals
  <2> DEFINE now == Checked(row[admin[a].reg], d, c)
  <2>3. \E new \in {now, NotReady(now), [now EXCEPT !.life = "enabled"]} :
           Write(admin[a].reg, new)
    BY <1>2 DEF FinishCheck, CheckAgain, Enable
  <2>4. UNCHANGED <<file, busy, approved>>
    BY <1>2 DEF FinishCheck, CheckAgain, Enable
  <2> QED
    BY <2>1, <2>2, <2>3, <2>4, ChecksAreMild, QuietWrite
<1> QED
  BY <1>1, <1>2

LEMMA ConfigSteps ==
  ASSUME TypeOK, NEW a \in Admins
  PROVE  /\ \A r \in Regs : StartGetConfig(a, r) \/ StartUpdateConfig(a, r)
                               => TypeOK' /\ Quiet
         /\ \A c \in BOOLEAN : FinishGetConfig(a, c) \/ FinishUpdateConfig(a, c)
                                  => TypeOK' /\ Quiet
<1>1. ASSUME NEW r \in Regs, StartGetConfig(a, r) \/ StartUpdateConfig(a, r)
      PROVE  TypeOK' /\ Quiet
  BY <1>1, SimpleStates, BeginType DEF StartGetConfig, StartUpdateConfig
<1>2. ASSUME NEW c \in BOOLEAN, FinishGetConfig(a, c) \/ FinishUpdateConfig(a, c)
      PROVE  TypeOK' /\ Quiet
  <2>1. admin[a].reg \in Regs /\ row[admin[a].reg] \in Row
    BY <1>2, HandlerFields DEF FinishGetConfig, FinishUpdateConfig, At, TypeOK
  <2>2. admin' \in [Admins -> AdminStates]
    BY <1>2, <2>1, BecomeType, CheckingType, SimpleStates
       DEF FinishGetConfig, FinishUpdateConfig, Goals
  <2>3. \E new \in {[row[admin[a].reg] EXCEPT !.configured = c],
                    Checked(row[admin[a].reg], FALSE, c)} :
           Write(admin[a].reg, new)
    BY <1>2 DEF FinishGetConfig, FinishUpdateConfig
  <2>4. UNCHANGED <<file, busy, approved>>
    BY <1>2 DEF FinishGetConfig, FinishUpdateConfig
  <2> QED
    BY <2>1, <2>2, <2>3, <2>4, UpdatesAreMild, ChecksAreMild, QuietWrite
<1> QED
  BY <1>1, <1>2

LEMMA EndSteps ==
  ASSUME TypeOK, NEW a \in Admins
  PROVE  /\ \A r \in Regs : StartPurge(a, r) \/ StartDisconnect(a, r)
                               => TypeOK' /\ Quiet
         /\ FinishPurge(a) => TypeOK' /\ Quiet
         /\ FinishDisconnect(a) \/ TornDisconnect(a) => TypeOK'
         /\ \A r \in Regs : TornPair(a, r) => TypeOK'
<1>1. ASSUME NEW r \in Regs, StartPurge(a, r) PROVE TypeOK' /\ Quiet
  BY <1>1, SimpleStates, BeginType DEF StartPurge
<1>2. ASSUME NEW r \in Regs, StartDisconnect(a, r) PROVE TypeOK' /\ Quiet
  <2>1. admin' \in [Admins -> AdminStates]
    BY <1>2, SimpleStates, BecomeType DEF StartDisconnect
  <2> QED
    BY <1>2, <2>1, QuietMove DEF StartDisconnect
<1>3. ASSUME FinishPurge(a) PROVE TypeOK' /\ Quiet
  <2>1. admin[a].reg \in Regs /\ row[admin[a].reg] \in Row
    BY <1>3, HandlerFields DEF FinishPurge, At, TypeOK
  <2>2. admin' \in [Admins -> AdminStates]
    BY <1>3, SimpleStates, BecomeType DEF FinishPurge
  <2>3. Mild(row[admin[a].reg],
             [Unchecked(row[admin[a].reg]) EXCEPT !.life = "disabled"])
    BY <2>1, UpdatesAreMild DEF Lifecycles
  <2> QED
    BY <1>3, <2>1, <2>2, <2>3, QuietWrite DEF FinishPurge
<1>4. ASSUME FinishDisconnect(a) \/ TornDisconnect(a) PROVE TypeOK'
  <2>1. admin[a].reg \in Regs
    BY <1>4, HandlerFields DEF FinishDisconnect, TornDisconnect, At
  <2>2. row' \in [Regs -> Row] /\ approved' \in [Regs -> SUBSET Permissions]
    BY <1>4, <2>1, NoRowType DEF FinishDisconnect, TornDisconnect, Delete, TypeOK
  <2>3. admin' \in [Admins -> AdminStates]
    BY <1>4, SimpleStates, BecomeType, RestartType
       DEF FinishDisconnect, TornDisconnect
  <2> QED
    BY <1>4, <2>1, <2>2, <2>3 DEF FinishDisconnect, TornDisconnect, TypeOK
<1>5. ASSUME NEW r \in Regs, TornPair(a, r) PROVE TypeOK'
  BY <1>5, RestartType DEF TornPair, TypeOK
<1> QED
  BY <1>1, <1>2, <1>3, <1>4, <1>5

LEMMA ApproveType ==
  ASSUME TypeOK, NEW r \in Regs, NEW m \in Manifests, Approve(r, m)
  PROVE  TypeOK'
<1>1. row[r].manifest \in Manifests /\ Permission(r) \in Permissions
  BY RegistryAssumption DEF TypeOK, Row, Permission
<1> DEFINE new == [row[r] EXCEPT !.revManifest = row[r].manifest,
                              !.revPerm = Permission(r),
                              !.grants = Permission(r)]
<1>2. row' \in [Regs -> Row]
  <2>1. new \in Row
    BY <1>1 DEF TypeOK, Row
  <2>2. row' = [row EXCEPT ![r] = new]
    BY DEF Approve, TypeOK
  <2> QED
    BY <2>1, <2>2 DEF TypeOK
<1>3. approved' \in [Regs -> SUBSET Permissions]
  BY RegistryAssumption DEF Approve, TypeOK
<1> QED
  BY <1>2, <1>3 DEF Approve, TypeOK

LEMMA RegistrySteps ==
  ASSUME TypeOK, NEW r \in Regs
  PROVE  /\ Drain(r) \/ Disable(r) => TypeOK' /\ Quiet
         /\ AdmitTask(r) \/ TasksEnd(r) => TypeOK' /\ Quiet
<1>1. ASSUME Drain(r) \/ Disable(r) PROVE TypeOK' /\ Quiet
  <2>1. PICK l \in Lifecycles : row' = [row EXCEPT ![r].life = l]
    BY <1>1 DEF Drain, Disable, Stop, Lifecycles
  <2>2. row[r] \in Row /\ row[r].present
    BY <1>1 DEF Drain, Disable, Stop, TypeOK
  <2>3. Write(r, [row[r] EXCEPT !.life = l])
    BY <2>1, <2>2 DEF Write, TypeOK
  <2>4. Mild(row[r], [row[r] EXCEPT !.life = l])
    BY <2>2, UpdatesAreMild
  <2>5. UNCHANGED <<file, busy, approved, admin>>
    BY <1>1 DEF Drain, Disable, Stop
  <2> QED
    BY <2>3, <2>4, <2>5, QuietWrite DEF TypeOK
<1>2. ASSUME AdmitTask(r) \/ TasksEnd(r) PROVE TypeOK' /\ Quiet
  BY <1>2, SameRowsAreMild DEF AdmitTask, TasksEnd, TypeOK, Quiet
<1> QED
  BY <1>1, <1>2

LEMMA StepIsTyped ==
  ASSUME TypeOK, [Next]_vars
  PROVE  TypeOK' /\ (Quiet \/ Notable)
<1>1. CASE UNCHANGED vars
  BY <1>1, QuietMove DEF vars, TypeOK
<1>2. CASE \E a \in Admins : AdminStep(a)
  <2>1. PICK a \in Admins : AdminStep(a)
    BY <1>2
  <2> QED
    BY <2>1, PairSteps, FinishPairType, RefreshSteps, CheckSteps, ConfigSteps,
       EndSteps DEF AdminStep, Notable
<1>3. CASE \E r \in Regs : RegistryStep(r)
  <2>1. PICK r \in Regs : RegistryStep(r)
    BY <1>3
  <2> QED
    BY <2>1, ApproveType, RegistrySteps DEF RegistryStep, Notable
<1>4. CASE Crash
  BY <1>4, RestartType, QuietMove DEF Crash
<1> QED
  BY <1>1, <1>2, <1>3, <1>4 DEF Next

LEMMA InitIsTyped == Init => TypeOK
  BY NoRowType, SimpleStates DEF Init, TypeOK

(* Every variable keeps its shape, for any number of registrations,        *)
(* administrators and manifests.                                           *)
THEOREM TypeCorrect == Spec => []TypeOK
<1>1. Init => TypeOK
  BY InitIsTyped
<1>2. TypeOK /\ [Next]_vars => TypeOK'
  BY StepIsTyped
<1> QED
  BY <1>1, <1>2, PTL DEF Spec

-----------------------------------------------------------------------------
(* What the steps do to the rows and the reviews. *)

LEMMA QuietRows ==
  ASSUME Quiet
  PROVE  /\ Registered' = Registered
         /\ \A r \in Regs : /\ row'[r].revPerm = row[r].revPerm
                            /\ row'[r].grants \in {None, row[r].grants}
                            /\ row'[r].present = row[r].present
  BY DEF Quiet, Mild, Registered

LEMMA PairedRow ==
  ASSUME TypeOK, NEW a \in Admins, NEW r \in Regs, NEW m \in Manifests,
         FinishPair(a, r, m)
  PROVE  /\ Registered = {} /\ Registered' = {r}
         /\ row'[r].revPerm = None /\ row'[r].grants = None
         /\ \A s \in Regs \ {r} : row'[s] = row[s]
  BY DEF FinishPair, MayRegister, NewRow, Registered, TypeOK

LEMMA DeletedRow ==
  ASSUME TypeOK, NEW r \in Regs, Delete(r)
  PROVE  /\ Registered' = Registered \ {r}
         /\ row'[r].revPerm = None /\ row'[r].grants = None
         /\ \A s \in Regs \ {r} : row'[s] = row[s] /\ approved'[s] = approved[s]
  BY NoRowType DEF Delete, Registered, TypeOK

LEMMA ApprovedRow ==
  ASSUME TypeOK, NEW r \in Regs, NEW m \in Manifests, Approve(r, m)
  PROVE  /\ Registered' = Registered
         /\ row'[r].revPerm = PermissionOf[m]
         /\ row'[r].grants = PermissionOf[m]
         /\ PermissionOf[m] \in approved'[r]
         /\ \A s \in Regs \ {r} : row'[s] = row[s] /\ approved'[s] = approved[s]
<1>1. row[r] \in Row /\ m = row[r].manifest
  BY DEF Approve, Approvable, TypeOK
<1>2. /\ row'[r].revPerm = PermissionOf[m] /\ row'[r].grants = PermissionOf[m]
      /\ row'[r].present = row[r].present
  BY <1>1 DEF Approve, Permission, TypeOK, Row
<1>3. PermissionOf[m] \in approved'[r]
  BY DEF Approve, TypeOK
<1>4. \A s \in Regs \ {r} : row'[s] = row[s] /\ approved'[s] = approved[s]
  BY DEF Approve, TypeOK
<1>5. Registered' = Registered
  BY <1>2, <1>4 DEF Registered
<1> QED
  BY <1>2, <1>3, <1>4, <1>5

(* The row that is deleted is that of a registration. *)
LEMMA DisconnectDeletes ==
  ASSUME TypeOK, NEW a \in Admins, FinishDisconnect(a) \/ TornDisconnect(a)
  PROVE  admin[a].reg \in Regs /\ Delete(admin[a].reg)
  BY HandlerFields DEF FinishDisconnect, TornDisconnect, At

-----------------------------------------------------------------------------
(* A module is registered at most once, however many administrators pair   *)
(* it at a time: pair() looks for it again in the transaction that inserts *)
(* the row.                                                                *)
THEOREM RegisteredOnce == Spec => []OneRegistration
<1>1. Init => OneRegistration
  BY NoRowType DEF Init, OneRegistration, Registered
<1>2. TypeOK /\ OneRegistration /\ [Next]_vars => OneRegistration'
  <2> SUFFICES ASSUME TypeOK, OneRegistration, [Next]_vars
               PROVE  OneRegistration'
    OBVIOUS
  <2>1. CASE Quiet
    BY <2>1, QuietRows DEF OneRegistration
  <2>2. ASSUME NEW a \in Admins, NEW r \in Regs, NEW m \in Manifests,
               FinishPair(a, r, m)
        PROVE  OneRegistration'
    BY <2>2, PairedRow DEF OneRegistration
  <2>3. ASSUME NEW r \in Regs, NEW m \in Manifests, Approve(r, m)
        PROVE  OneRegistration'
    BY <2>3, ApprovedRow DEF OneRegistration
  <2>4. ASSUME NEW a \in Admins, FinishDisconnect(a) \/ TornDisconnect(a)
        PROVE  OneRegistration'
    <3>1. Registered' \subseteq Registered
      BY <2>4, DisconnectDeletes, DeletedRow
    <3> QED
      BY <3>1 DEF OneRegistration
  <2>5. ASSUME NEW a \in Admins, NEW r \in Regs, TornPair(a, r)
        PROVE  OneRegistration'
    BY <2>5 DEF TornPair, OneRegistration, Registered
  <2> QED
    BY <2>1, <2>2, <2>3, <2>4, <2>5, StepIsTyped DEF Notable
<1> QED
  BY <1>1, <1>2, TypeCorrect, PTL DEF Spec

(* A registration has its credential file, wherever the Server stops:      *)
(* pair() writes the file before the row, and disconnect() deletes the row *)
(* before the file.                                                        *)
THEOREM CredentialsAreStored == Spec => []CredentialStored
<1>1. Init => CredentialStored
  BY NoRowType DEF Init, CredentialStored, Registered
<1>2. TypeOK /\ CredentialStored /\ [Next]_vars => CredentialStored'
  <2> SUFFICES ASSUME TypeOK, CredentialStored, [Next]_vars
               PROVE  CredentialStored'
    OBVIOUS
  <2>1. CASE Quiet
    BY <2>1, QuietRows DEF CredentialStored, Quiet
  <2>2. ASSUME NEW a \in Admins, NEW r \in Regs, NEW m \in Manifests,
               FinishPair(a, r, m)
        PROVE  CredentialStored'
    BY <2>2, PairedRow DEF CredentialStored, FinishPair, TypeOK
  <2>3. ASSUME NEW r \in Regs, NEW m \in Manifests, Approve(r, m)
        PROVE  CredentialStored'
    BY <2>3, ApprovedRow DEF CredentialStored, Approve
  <2>4. ASSUME NEW a \in Admins, FinishDisconnect(a) \/ TornDisconnect(a)
        PROVE  CredentialStored'
    <3>1. admin[a].reg \in Regs /\ Registered' = Registered \ {admin[a].reg}
      BY <2>4, DisconnectDeletes, DeletedRow
    <3>2. \A r \in Regs \ {admin[a].reg} : file'[r] = file[r]
      BY <2>4 DEF FinishDisconnect, TornDisconnect, TypeOK
    <3> QED
      BY <3>1, <3>2 DEF CredentialStored, Registered
  <2>5. ASSUME NEW a \in Admins, NEW r \in Regs, TornPair(a, r)
        PROVE  CredentialStored'
    BY <2>5 DEF TornPair, CredentialStored, Registered, TypeOK
  <2> QED
    BY <2>1, <2>2, <2>3, <2>4, <2>5, StepIsTyped DEF Notable
<1> QED
  BY <1>1, <1>2, TypeCorrect, PTL DEF Spec

-----------------------------------------------------------------------------
(* Why AdmittedIsApproved holds: the permissions that count as reviewed    *)
(* are ones an administrator has approved, whatever the lifecycle and the  *)
(* manifest are meanwhile; a refresh that writes back a stale review of    *)
(* the manifest cannot write back a review of permissions.                 *)
ReviewIsApproval ==
    \A r \in Regs : /\ row[r].revPerm # None => row[r].revPerm \in approved[r]
                    /\ row[r].grants \in {None, row[r].revPerm}

LEMMA ReviewStaysApproval ==
  ASSUME TypeOK, ReviewIsApproval, [Next]_vars
  PROVE  ReviewIsApproval'
<1>1. CASE Quiet
  BY <1>1, QuietRows DEF ReviewIsApproval, Quiet
<1>2. ASSUME NEW a \in Admins, NEW r \in Regs, NEW m \in Manifests,
             FinishPair(a, r, m)
      PROVE  ReviewIsApproval'
  BY <1>2, PairedRow DEF ReviewIsApproval, FinishPair
<1>3. ASSUME NEW r \in Regs, NEW m \in Manifests, Approve(r, m)
      PROVE  ReviewIsApproval'
  BY <1>3, ApprovedRow DEF ReviewIsApproval
<1>4. ASSUME NEW a \in Admins, FinishDisconnect(a) \/ TornDisconnect(a)
      PROVE  ReviewIsApproval'
  BY <1>4, DisconnectDeletes, DeletedRow DEF ReviewIsApproval
<1>5. ASSUME NEW a \in Admins, NEW r \in Regs, TornPair(a, r)
      PROVE  ReviewIsApproval'
  BY <1>5 DEF TornPair, ReviewIsApproval
<1> QED
  BY <1>1, <1>2, <1>3, <1>4, <1>5, StepIsTyped DEF Notable

(* A module is given tasks only under permissions that an administrator    *)
(* has approved for its registration, and with no other grants, however    *)
(* task_target() falls between refreshes, reviews and checks.              *)
THEOREM OnlyApprovedAreAdmitted == Spec => []AdmittedIsApproved
<1>1. Init => ReviewIsApproval
  BY NoRowType DEF Init, ReviewIsApproval
<1>2. TypeOK /\ ReviewIsApproval /\ [Next]_vars => ReviewIsApproval'
  BY ReviewStaysApproval
<1>3. TypeOK /\ ReviewIsApproval => AdmittedIsApproved
  <2> SUFFICES ASSUME TypeOK, ReviewIsApproval, NEW r \in Regs, Admits(r)
               PROVE  /\ Permission(r) \in approved[r]
                      /\ row[r].grants \in {None, Permission(r)}
    BY DEF AdmittedIsApproved
  <2>1. row[r].revPerm = Permission(r)
    BY DEF Admits, CanEnable, Reviewed
  <2>2. Permission(r) # None
    BY RegistryAssumption DEF Permission, TypeOK, Row
  <2> QED
    BY <2>1, <2>2 DEF ReviewIsApproval
<1> QED
  BY <1>1, <1>2, <1>3, TypeCorrect, PTL DEF Spec

=============================================================================
