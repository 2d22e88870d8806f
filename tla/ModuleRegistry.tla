--------------------------- MODULE ModuleRegistry ---------------------------
(***************************************************************************)
(* The registry of modules (backend/module_registry.py): how a module is   *)
(* paired, reviewed, enabled, drained, purged and disconnected, and when   *)
(* it may be given a task.                                                 *)
(*                                                                         *)
(* All registrations here are of one module_id.  Administrators work       *)
(* concurrently; a handler is a coroutine, and each action is the code     *)
(* between two of its awaits.  Nothing is assumed of the module: it may    *)
(* serve any manifest, and answer any request or none.                     *)
(***************************************************************************)
EXTENDS Naturals, FiniteSets

CONSTANTS
    Regs,          \* registration ids, each drawn at most once
    Admins,        \* the administrators' handlers that may be in flight
    Manifests,     \* the manifests the module may serve
    Permissions,   \* permission digests
    PermissionOf,  \* permission_digest(): what of a manifest is reviewed
    Compatible,    \* the manifests whose protocol_version is supported
    None           \* SQL NULL

ASSUME RegistryAssumption ==
    /\ Manifests # {}
    /\ PermissionOf \in [Manifests -> Permissions]
    /\ Compatible \subseteq Manifests
    /\ None \notin Manifests \cup Permissions

VARIABLES
    row,           \* module_registrations and the grants that hang on a row
    file,          \* the credential file of each registration
    busy,          \* whether a registration has active tasks
    approved,      \* the permissions administrators have approved (history)
    admin          \* the handlers in flight

vars == <<row, file, busy, approved, admin>>

-----------------------------------------------------------------------------
Lifecycles == {"pending_review", "enabled", "draining", "disabled"}

(* ready: health_status is 'healthy' and ready_status 'ready'; the guards  *)
(* do not tell the other values apart, and no statement makes a module     *)
(* healthy without a new ready_status.  grants stands for the capabilities *)
(* requested by a manifest with that permission digest.                    *)
Row == [present     : BOOLEAN,
        life        : Lifecycles,
        manifest    : Manifests,
        revManifest : Manifests \cup {None},
        revPerm     : Permissions \cup {None},
        grants      : Permissions \cup {None},
        ready       : BOOLEAN,
        configured  : BOOLEAN]

NewRow(m) == [present |-> TRUE, life |-> "pending_review", manifest |-> m,
              revManifest |-> None, revPerm |-> None, grants |-> None,
              ready |-> FALSE, configured |-> FALSE]

NoRow == [NewRow(CHOOSE m \in Manifests : TRUE) EXCEPT !.present = FALSE]

(* Mutant: the manifest's own digest is taken for its permissions'. *)
MutantPermission(r) == row[r].manifest

Permission(r) == PermissionOf[row[r].manifest]
Reviewed(r) == /\ row[r].revManifest = row[r].manifest
               /\ row[r].revPerm = Permission(r)

(* _serialize's can_enable; the frontend integration is taken to be ready. *)
CanEnable(r) == Reviewed(r) /\ row[r].ready /\ row[r].configured

(* task_target: the module may be given a new task. *)
Admits(r) == row[r].present /\ row[r].life = "enabled" /\ CanEnable(r)

Registered == {r \in Regs : row[r].present}

(* Every statement is an UPDATE ... WHERE id = ?: it has no effect on a    *)
(* registration that is gone.                                              *)
Write(r, new) == row' = [row EXCEPT ![r] = IF @.present THEN new ELSE @]

-----------------------------------------------------------------------------
(* Handlers.  A refresh keeps what it has read of the row before it asked  *)
(* the module.  goal says what a check is followed by: nothing ("check"),  *)
(* or, within enable(), a further check and then the transition.           *)

Idle == [pc |-> "idle"]
Goals == {"check", "enable", "enabling"}

AdminStates ==
    {Idle}
    \cup [pc : {"pairing", "describing"}]
    \cup [pc : {"readingConfig", "writingConfig", "purging", "purged",
                "disconnecting"}, reg : Regs]
    \cup [pc : {"checking"}, reg : Regs, goal : Goals]
    \cup [pc : {"refreshing"}, reg : Regs, goal : {"check", "enable"},
          life : Lifecycles, revManifest : Manifests \cup {None},
          revPerm : Permissions \cup {None}]

Become(a, h) == admin' = [admin EXCEPT ![a] = h]
At(a, pc) == admin[a].pc = pc

Init ==
    /\ row = [r \in Regs |-> NoRow]
    /\ file = [r \in Regs |-> "unwritten"]
    /\ busy = [r \in Regs |-> FALSE]
    /\ approved = [r \in Regs |-> {}]
    /\ admin = [a \in Admins |-> Idle]

(* The row exists and its credential can be read: the module can be asked. *)
Reachable(r) == row[r].present /\ file[r] = "kept"

Begin(a, r, h) ==
    /\ At(a, "idle")
    /\ Reachable(r)
    /\ Become(a, h)
    /\ UNCHANGED <<row, file, busy, approved>>

(* A request that fails where the handler then changes nothing. *)
RequestFails(a) ==
    /\ admin[a].pc \in {"pairing", "describing", "readingConfig",
                        "writingConfig", "purging"}
    /\ Become(a, Idle)
    /\ UNCHANGED <<row, file, busy, approved>>

-----------------------------------------------------------------------------
(* pair().                                                                 *)

(* Mutant: the module's registration is not looked for again. *)
MutantMayRegister(r) == file[r] = "unwritten"

(* The id is new, and the module is still not registered. *)
MayRegister(r) == file[r] = "unwritten" /\ Registered = {}

StartPair(a) ==
    /\ At(a, "idle")
    /\ Become(a, [pc |-> "pairing"])
    /\ UNCHANGED <<row, file, busy, approved>>

(* The module has handed out a token; it is revoked if it is not needed.   *)
PairAnswered(a) ==
    /\ At(a, "pairing")
    /\ Become(a, IF Registered = {} THEN [pc |-> "describing"] ELSE Idle)
    /\ UNCHANGED <<row, file, busy, approved>>

(* The manifest arrives: the credential file is written, then the row.     *)
(* Where the module was registered meanwhile the file is removed again and *)
(* the token revoked, which is RequestFails.                               *)
FinishPair(a, r, m) ==
    /\ At(a, "describing")
    /\ MayRegister(r)
    /\ file' = [file EXCEPT ![r] = "kept"]
    /\ row' = [row EXCEPT ![r] = NewRow(m)]
    /\ Become(a, Idle)
    /\ UNCHANGED <<busy, approved>>

-----------------------------------------------------------------------------
(* refresh(): the manifest is read again.                                  *)

StartRefresh(a, r, goal) ==
    Begin(a, r, [pc |-> "refreshing", reg |-> r, goal |-> goal,
                 life |-> row[r].life, revManifest |-> row[r].revManifest,
                 revPerm |-> row[r].revPerm])

Unchecked(q) == [q EXCEPT !.ready = FALSE, !.configured = FALSE]
Unreviewed(q) == [Unchecked(q) EXCEPT !.life = "pending_review",
                                      !.revManifest = None, !.grants = None]

(* _mark_refresh_failure: no answer, or one that is not a manifest of this *)
(* module, which calls for a review.                                       *)
RefreshFails(a) ==
    /\ At(a, "refreshing")
    /\ LET r == admin[a].reg
       IN  Write(r, Unchecked(row[r])) \/ Write(r, Unreviewed(row[r]))
    /\ Become(a, Idle)
    /\ UNCHANGED <<file, busy, approved>>

(* What was reviewed has not changed in m.  h is what the handler has read *)
(* of the row before it asked.                                             *)
StillReviewed(h, m) ==
    /\ m \in Compatible
    /\ h.revManifest # None
    /\ h.revPerm = PermissionOf[m] \/ h.revManifest = m

Refreshed(q, h, m) ==
    IF StillReviewed(h, m)
    THEN [Unchecked(q) EXCEPT !.manifest = m, !.revManifest = m, !.life = h.life]
    ELSE [Unreviewed(q) EXCEPT !.manifest = m]

(* check() up to its first request: an incompatible module is not asked.   *)
Checking(a, r, goal, m) ==
    Become(a, IF Reachable(r) /\ m \in Compatible
              THEN [pc |-> "checking", reg |-> r, goal |-> goal] ELSE Idle)

(* The manifest is stored, and refresh() goes on to check(). *)
FinishRefresh(a, m) ==
    /\ At(a, "refreshing")
    /\ LET h == admin[a]
       IN  /\ Write(h.reg, Refreshed(row[h.reg], h, m))
           /\ Checking(a, h.reg, h.goal, m)
    /\ UNCHANGED <<file, busy, approved>>

-----------------------------------------------------------------------------
(* check(), alone or as the end of another operation.                      *)

Incompatible(q) == q.manifest \notin Compatible
NotReady(q) == [q EXCEPT !.ready = FALSE]

StartCheck(a, r) ==
    /\ At(a, "idle")
    /\ Reachable(r)
    /\ Checking(a, r, "check", row[r].manifest)
    /\ row' = [row EXCEPT ![r] = IF Incompatible(@) THEN NotReady(@) ELSE @]
    /\ UNCHANGED <<file, busy, approved>>

(* What the module has answered, FALSE and FALSE if it has not.            *)
Checked(q, isReady, isConfigured) ==
    [q EXCEPT !.ready = isReady, !.configured = isConfigured]

FinishCheck(a, isReady, isConfigured) ==
    /\ At(a, "checking")
    /\ admin[a].goal = "check"
    /\ LET r == admin[a].reg
       IN  Write(r, Checked(row[r], isReady, isConfigured))
    /\ Become(a, Idle)
    /\ UNCHANGED <<file, busy, approved>>

(* enable() checks once more after the check that refresh() has made. *)
CheckAgain(a, isReady, isConfigured) ==
    /\ At(a, "checking")
    /\ admin[a].goal = "enable"
    /\ LET r == admin[a].reg
           now == Checked(row[r], isReady, isConfigured)
       IN  /\ Write(r, IF Incompatible(now) THEN NotReady(now) ELSE now)
           /\ Checking(a, r, "enabling", now.manifest)
    /\ UNCHANGED <<file, busy, approved>>

(* The second check, then _set_lifecycle. *)
Enable(a, isReady, isConfigured) ==
    /\ At(a, "checking")
    /\ admin[a].goal = "enabling"
    /\ LET r == admin[a].reg
           now == Checked(row[r], isReady, isConfigured)
       IN  Write(r, IF /\ row[r].life \in {"pending_review", "disabled"}
                       /\ Reviewed(r) /\ isReady /\ isConfigured
                    THEN [now EXCEPT !.life = "enabled"] ELSE now)
    /\ Become(a, Idle)
    /\ UNCHANGED <<file, busy, approved>>

-----------------------------------------------------------------------------
(* approve(), drain() and disable() await nothing.                         *)

(* Mutant: the manifest that was reviewed need not be the present one. *)
MutantApprovable(r, m) == row[r].present /\ row[r].manifest \in Compatible

(* m is the manifest the administrator has looked at. *)
Approvable(r, m) ==
    row[r].present /\ m = row[r].manifest /\ m \in Compatible

Approve(r, m) ==
    /\ Approvable(r, m)
    /\ row' = [row EXCEPT ![r].revManifest = row[r].manifest,
                          ![r].revPerm = Permission(r),
                          ![r].grants = Permission(r)]
    /\ approved' = [approved EXCEPT ![r] = @ \cup {PermissionOf[m]}]
    /\ UNCHANGED <<file, busy, admin>>

Stop(r, expected, target) ==
    /\ row[r].present
    /\ row[r].life \in expected
    /\ row' = [row EXCEPT ![r].life = target]
    /\ UNCHANGED <<file, busy, approved, admin>>

Drain(r) == Stop(r, {"enabled"}, "draining")
Disable(r) == Stop(r, {"enabled", "draining"}, "disabled")

-----------------------------------------------------------------------------
(* get_config() and update_config().                                       *)

StartGetConfig(a, r) == Begin(a, r, [pc |-> "readingConfig", reg |-> r])
StartUpdateConfig(a, r) == Begin(a, r, [pc |-> "writingConfig", reg |-> r])

FinishGetConfig(a, isConfigured) ==
    /\ At(a, "readingConfig")
    /\ LET r == admin[a].reg
       IN  Write(r, [row[r] EXCEPT !.configured = isConfigured])
    /\ Become(a, Idle)
    /\ UNCHANGED <<file, busy, approved>>

(* The configuration is saved, and a check follows. *)
FinishUpdateConfig(a, isConfigured) ==
    /\ At(a, "writingConfig")
    /\ LET r == admin[a].reg
       IN  /\ Write(r, Checked(row[r], FALSE, isConfigured))
           /\ Checking(a, r, "check", row[r].manifest)
    /\ UNCHANGED <<file, busy, approved>>

-----------------------------------------------------------------------------
(* purge_data() and disconnect().                                          *)

StartPurge(a, r) == ~busy[r] /\ Begin(a, r, [pc |-> "purging", reg |-> r])

(* The module erases its data, the tasks it knows of included. *)
RemotePurge(a) ==
    /\ At(a, "purging")
    /\ Become(a, [pc |-> "purged", reg |-> admin[a].reg])
    /\ UNCHANGED <<row, file, busy, approved>>

PurgeLost(a) ==
    /\ At(a, "purged")
    /\ Become(a, Idle)
    /\ UNCHANGED <<row, file, busy, approved>>

FinishPurge(a) ==
    /\ At(a, "purged")
    /\ LET r == admin[a].reg
       IN  Write(r, [Unchecked(row[r]) EXCEPT !.life = "disabled"])
    /\ Become(a, Idle)
    /\ UNCHANGED <<file, busy, approved>>

StartDisconnect(a, r) ==
    /\ At(a, "idle")
    /\ row[r].present
    /\ Become(a, [pc |-> "disconnecting", reg |-> r])
    /\ UNCHANGED <<row, file, busy, approved>>

(* The row, with the grants that hang on it; its approvals end with it. *)
Delete(r) == /\ row' = [row EXCEPT ![r] = NoRow]
             /\ approved' = [approved EXCEPT ![r] = {}]

(* Whatever the module has answered: the row, then the credential file. *)
FinishDisconnect(a) ==
    /\ At(a, "disconnecting")
    /\ Delete(admin[a].reg)
    /\ file' = [file EXCEPT ![admin[a].reg] = "removed"]
    /\ Become(a, Idle)
    /\ UNCHANGED busy

-----------------------------------------------------------------------------
(* The task gateway, and the end of the Server's process.                  *)

AdmitTask(r) ==
    /\ Reachable(r)
    /\ Admits(r)
    /\ busy' = [busy EXCEPT ![r] = TRUE]
    /\ UNCHANGED <<row, file, approved, admin>>

TasksEnd(r) ==
    /\ busy[r]
    /\ busy' = [busy EXCEPT ![r] = FALSE]
    /\ UNCHANGED <<row, file, approved, admin>>

Restart == admin' = [a \in Admins |-> Idle]

Crash == Restart /\ UNCHANGED <<row, file, busy, approved>>

(* Between the two stores of pair() and of disconnect(). *)
TornPair(a, r) ==
    /\ At(a, "describing")
    /\ file[r] = "unwritten"
    /\ file' = [file EXCEPT ![r] = "kept"]
    /\ Restart
    /\ UNCHANGED <<row, busy, approved>>

(* Mutant: the credential file is removed first. *)
MutantTornDisconnect(a) ==
    /\ At(a, "disconnecting")
    /\ file' = [file EXCEPT ![admin[a].reg] = "removed"]
    /\ Restart
    /\ UNCHANGED <<row, busy, approved>>

TornDisconnect(a) ==
    /\ At(a, "disconnecting")
    /\ Delete(admin[a].reg)
    /\ Restart
    /\ UNCHANGED <<file, busy>>

-----------------------------------------------------------------------------
AdminStep(a) ==
    \/ StartPair(a) \/ PairAnswered(a) \/ RequestFails(a)
    \/ \E r \in Regs, m \in Manifests : FinishPair(a, r, m)
    \/ \E r \in Regs, goal \in {"check", "enable"} : StartRefresh(a, r, goal)
    \/ RefreshFails(a)
    \/ \E m \in Manifests : FinishRefresh(a, m)
    \/ \E r \in Regs : \/ StartCheck(a, r) \/ StartGetConfig(a, r)
                       \/ StartUpdateConfig(a, r)
                       \/ StartPurge(a, r) \/ StartDisconnect(a, r)
    \/ \E isReady, isConfigured \in BOOLEAN :
          \/ FinishCheck(a, isReady, isConfigured)
          \/ CheckAgain(a, isReady, isConfigured)
          \/ Enable(a, isReady, isConfigured)
    \/ \E isConfigured \in BOOLEAN : \/ FinishGetConfig(a, isConfigured)
                                     \/ FinishUpdateConfig(a, isConfigured)
    \/ RemotePurge(a) \/ PurgeLost(a) \/ FinishPurge(a)
    \/ FinishDisconnect(a)
    \/ TornDisconnect(a)
    \/ \E r \in Regs : TornPair(a, r)

RegistryStep(r) ==
    \/ \E m \in Manifests : Approve(r, m)
    \/ Drain(r) \/ Disable(r)
    \/ AdmitTask(r) \/ TasksEnd(r)

Next ==
    \/ \E a \in Admins : AdminStep(a)
    \/ \E r \in Regs : RegistryStep(r)
    \/ Crash

Spec == Init /\ [][Next]_vars

-----------------------------------------------------------------------------
(* Properties.                                                             *)

(* Every variable keeps its shape. *)
TypeOK ==
    /\ row \in [Regs -> Row]
    /\ file \in [Regs -> {"unwritten", "kept", "removed"}]
    /\ busy \in [Regs -> BOOLEAN]
    /\ approved \in [Regs -> SUBSET Permissions]
    /\ admin \in [Admins -> AdminStates]

(* A module is registered at most once, although each of two pairings may  *)
(* have found it unregistered before it asked for the manifest.            *)
OneRegistration == \A r, s \in Registered : r = s

(* A registration has its credential file, wherever the Server stops: else *)
(* it could not be used, checked or told that it is disconnected.          *)
CredentialStored == \A r \in Registered : file[r] = "kept"

(* However refreshes, reviews and checks overlap, a module is given tasks  *)
(* only under permissions an administrator has approved for this           *)
(* registration, and holds no grant but those approved with them.          *)
AdmittedIsApproved ==
    \A r \in Regs : Admits(r) => /\ Permission(r) \in approved[r]
                                 /\ row[r].grants \in {None, Permission(r)}

(* A module that has been stopped, or was never started, is started by     *)
(* nothing but enable().                                                   *)
StoppedStaysStopped ==
    [][\A r \in Regs :
          row[r].present /\ row[r].life # "enabled" /\ row'[r].life = "enabled"
             => \E a \in Admins : /\ At(a, "checking")
                                  /\ admin[a].goal = "enabling"
                                  /\ admin'[a] = Idle]_vars

(* A module is not made to erase its data while it works on a task.        *)
(* The code does not keep this (README, section 3), and no run checks it.  *)
PurgeSparesTasks ==
    [][\A a \in Admins : RemotePurge(a) => ~busy[admin[a].reg]]_vars

=============================================================================
