# Verification of ChatRaw Server

ChatRaw Server is a FastAPI process with one SQLite database. Browsers chat
through it with language models, and hand *tasks* to *modules*: separate HTTP
services that an administrator pairs with the Server. This directory holds
TLA+ specifications of the parts of the Server whose correctness depends on
interleaving, loss and crashes, the configurations TLC checks them with, and
proofs checked by TLAPS.

All handlers run on one asyncio event loop. The code between two `await`s is
atomic with respect to other handlers, but not with respect to a crash: it may
contain several transactions. This is the grain of the models: **an action is
the code between two awaits**, and a `Torn...` action is its prefix at one of the
commits inside, followed by the end of the process.

## 1. Inventory

| Component | Source | State | Operations | What is hard |
|---|---|---|---|---|
| Task gateway | `module_tasks.py`, `module_task_protocol.py` | rows of `module_tasks`, capability tokens, input resources, messages it posts | create, get/reconcile, list, stream, cancel, approve, disconnect, cleanup | a retry overtaking its first attempt; summaries, events and answers applied out of order; lost answers; several commits per handler |
| Module registry | `module_registry.py`, `module_protocol.py` | `module_registrations`, grants, one credential file per registration | pair, refresh, check, approve, enable, drain, disable, get/update config, purge, disconnect | rows read before an await and written after it; two stores (row and file); check-then-act across an await |
| Chats and generation | `main.py` (`Database`, chat endpoints) | chats, messages, the in-memory set of active generations, compaction locks and summaries | send, stream, stop, delete, rename, compact, title | two stores say whether a chat is busy; deletion during a stream; a summary and a title awaited from a model |
| Capability endpoints | `module_tasks.py`, `module_model_stream.py` | use counts of tokens | chat, principal, resource, skill, rule and model calls | a token checked, then an await, then consumed |
| Accounts and sessions | `auth.py`, middleware of `main.py` | users, sessions, setup state and its secret file | setup, login, enable/disable, change role, passwords | a request authenticated, then an await, then served; last active administrator; setup consumed once; what a disabled account leaves behind |
| Agent rules | `agent_rules.py` | documents, source and compiled versions, the active version | create, edit, compile, activate, delete | capacity and conflicts among rules activated one by one; a compilation awaiting its model; candidates of an older source |
| Hermes bridge | `main.py` | the registry of active runs | start, events, stop, approve | responses cut at any await; approvals racing the end of a run |
| Rate limiter and middleware | `main.py` | timestamps per address | dispatch | the limit under concurrent requests; unbounded addresses |
| Migrations, database runtime | `db_migrations.py`, `db_runtime.py` | schema version | migrate | interruption; a program older than its data |
| Backup, import, restore | `server_data.py` | directories | snapshot, verify, restore | copying what is being written; staged renames |
| Plugins and skills | `main.py`, `Plugins/`, `module_tasks.py` | directories and their configuration; rows of personal skills | install, enable, trust, configure, delete | directory and configuration change in two steps; a configuration written back as a whole |
| Reference module | `examples/reference-module/app.py` | its own tasks, events, tokens | the module side of the protocol | its own restart and recovery |
| Integrations, assets, frontend, desktop shell | `resident_integrations.py`, `frontend_assets.py`, `static/`, `Sources/` | read-only | — | — |

How they interact: an administrator's handlers change a registration;
`task_target()` of the registry is the guard of a task's creation; the gateway asks the
module over HTTP and posts into the chat store; the gateway and the classic
generation exclude each other on a chat, one through task rows, the other
through a set in memory; disabling or demoting an account revokes the tokens issued in its
name; disconnecting a module revokes the tokens of all its tasks and leaves its
unfinished tasks to be failed by the next read; a task pins the rules and the
skill versions it was created with, and its module reads them through the
capability endpoints; backup and import read the files and the database the Server may be
writing.

What makes each component correct:

* *Gateway*: an outcome is final and honest; the cursor clients resume from does
  not move back; an ended task keeps neither tokens nor inputs, a running one
  keeps both (unless its acceptance was answered by an error, or its creator lost
  the account's standing); a chat gets one question and one answer per task, has one exchange
  at a time, and gets the answer in the end.
* *Registry*: a module is registered once, with its credential; tasks are
  admitted only under approved permissions; a module that was stopped stays so; a
  purge spares running tasks.
* *Chats*: one generation per chat; an answer follows its own question, with nothing but answers of
  earlier tasks between the two; a summary accounts for
  every message it replaces; a private chat that was deleted stays empty; a title chosen by hand
  stays; a claim is released.
* *Capabilities*: a token is used at most as often as allowed, and one that was revoked with its
  creator's standing does not come back.
* *Accounts*: once a setup token is in its file, the Server can be started again wherever setup is cut off; an enabled
  administrator remains; a session is worth no more than its account is now.
* *Rules*: the active rules of an owner fit the capacity and do not conflict; a task keeps
  the versions it was created with.
* *Hermes*: when a response ends, its run has ended or is asked to stop; only the last turn of a
  completed run becomes an answer.
* *Data*: a row of an input that has not expired has its file, in every directory and backup; nothing is lost by
  an upgrade, a downgrade, a copy or a crash.
* *Packages*: an administrator's mark of trust does not move to other content; a save changes one part of the
  plugin configuration.

The list of hazards, each at its line and with the properties that look for it,
is in `PROJECT.json`.

## 2. Modules

| Module | Role |
|---|---|
| `ModuleTask` | the task gateway, with the module, its clients, losses and crashes |
| `TaskLifecycle` | what the gateway promises the user of a task, without handlers |
| `ModuleTaskRefinement` | the refinement mapping: `KeepsPromise == Lifecycle!Spec` |
| `ModuleTaskProofs` | theorems about `ModuleTask` and its refinement of `TaskLifecycle` |
| `ModuleRegistry`, `ModuleRegistryProofs` | the module registry, and theorems about it |
| `Accounts` | accounts, sessions and setup |
| `Capabilities` | tasks' tokens and the calls that use them; extends `Accounts`, whose steps it composes with |
| `CapabilitiesProofs` | theorems about both |
| `AgentRules`, `AgentRulesProofs` | rule documents, their compilation and activation, and the snapshots of tasks; theorems about them |
| `ChatGeneration`, `ChatGenerationProofs` | chats: submission, compaction, generation, titles, deletion; theorems about them |
| `HermesRuns`, `HermesRunsProofs` | the Hermes bridge in its runs mode; theorems about it |
| `DataDirectory`, `DataDirectoryProofs` | a data directory: migrations, uploads and their cleanup, backup, restore, import; theorems about it |
| `Packages`, `PackagesProofs` | shared skills, plugins and personal skills; theorems about them |
| `MC<module>` | instances for TLC (`MC<module>_<run>.cfg`) |

Each module's `TypeOK` states the types of its variables and what ties them
together. It is proved for every module but `Accounts`, whose types are part of those of `Capabilities`
(for `Packages` it is a conjunct of the invariant of `Soundness`), and holds in the instances below, whose
configurations leave it out where the runs would be long.

### ModuleTask

`row[k]` is the row of the task with idempotency key `k` with what hangs on
it: `state`, `visible` (accepted), `sync` (`status_sync`), `cursor`
(`last_cursor`), `proj` (`projection_state`), `chat`, `inputs`
(whether its input resources are kept, given up or deleted), `gen` and
`live` (the issue number of its capability tokens and whether the last issue
is valid). Two of its fields are history: `refused`, that `create()` answered an error after
it had accepted the task and so took its tokens and inputs, and `dismissed`, that the tokens
last issued were revoked with the creator's account (`DismissCreator`). `msgs` are the messages of a chat, `alive` whether a chat
exists, `generating` the set `_active_chat_generations`, `registered` whether
the module is still connected. `remote[k]` is the module's task: state, events, and the
issue of tokens it holds.

`creator[p]`, `watcher[w]` and `canceller[x]` are handlers in flight, with what
they keep across an await. A request has three steps: the handler sends it, the
module acts on it (`RemoteCreate`, `RemoteGet`, `RemoteCancel`), and the handler
resumes with the answer or with an error. An error may hit before or after the module has
acted, so a lost request and a lost answer both occur. Streams deliver events one
by one and may break, close, or resume from an older cursor. A client that gives
up is a handler whose continuation does not matter; `Crash` forgets every
handler and the set of active generations.

What is simplified: tasks have bound inputs (a resubmission without them is a
special case of one with them, except that it is always possible); a module that
supports chat projection supplies one when it succeeds; payloads, failure codes,
approvals and quotas are left out, and of artifacts there is only that an answer or an
event may carry one that `_register_artifacts` refuses; the frontend integration is ready. A row whose submission was
rejected is reused as it is by a retry, which is what `_prepare_provisional` does.

Artifacts are registered after the state has been committed, in each of the handlers, so
a refusal cuts the handler off there: `AcceptSpoiled` (the task is visible by
then, and the error handler of `create()` revokes its tokens and schedules its inputs: `Refuse`, or
`HalfRefuse` if the process ends between the two), `DuplicateSpoiled`, `GetSpoiled`,
`StreamSpoiled` and `TornSpoiled`.

`MayReject` and `MayTear` (may the module reject a submission it could have accepted; may a
crash fall between two commits of a handler) are constants, so that a theorem can say
where it holds. `AgentChats` are the chats without classic generation.

### TaskLifecycle

A task is unseen, accepted or ended; its question is in the chat from
acceptance on; the answer is put into the chat at most once, and only once the
task has succeeded; the chat may be deleted when nothing works on it. `ModuleTaskRefinement` maps the rows
and the messages to this, so `KeepsPromise` says that no interleaving of handlers
shows the user anything else.

### ModuleRegistry

`row[r]` is a row of `module_registrations`; `file[r]` its credential file
(unwritten, kept, removed); `busy[r]` whether the gateway has active tasks of it;
`admin[a]` a handler in flight. A manifest is a model value, of which only
compatibility (`Compatible`) and the permission digest (`PermissionOf`) matter.
`ready` and `configured` stand for health, readiness and configuration. Nothing
is assumed of the module: `FinishRefresh` may bring any manifest,
`FinishCheck` any answer. The three requests of `check()` are one await, because
the code stores nothing between them. `approved[r]` is a history variable: the
permission digests an administrator has approved for this registration.

A refresh keeps in its handler the lifecycle and the review it has read, and
writes them back (`Refreshed`), as the code does.

### Accounts and Capabilities

The methods of `AuthService` await nothing, but a request is authenticated by the
middleware and its endpoint runs later, when the body has been read. So a
request has two steps: `Arrive` authenticates it and keeps its actor, and the endpoint acts
in the actor's name whatever has become of it: `Manage` is the part of
`_require_active_admin` that looks again, and `ChangePassword` does not look
again because the code does not. `users[u]` is a row (present, role, enabled, password),
`digest`, `consumed` and `file` are the setup token's digest, its
mark and its file (`None` if there is none, `Empty` if it was created and not yet written); `session[b]` is the session of a browser, with the role and the
password it was opened under as history. `TornSetup` is a process that
ends between the commit of `create_first_admin` and the removal of the file, `TornSecret` one that ends
between the creation of the file by `ensure_setup_secret` and its writing. `MayStart` is
`initialize_setup_secret` with its errors: the file is missing, too short, or another token than the
one announced.

`Capabilities` adds rows of tasks (creator, ended, whether their status is
current), tokens (task, live, uses) and calls in flight. `Preflight` is
`_preflight_capability` up to its await, `Consume` the transaction of `_consume_capability`
after it, and between the two anything may happen. `Demotion(u) /\ LoseStanding(u)` is one
step, since `disable_user` and `set_user_role` revoke within their transaction.
`forfeit` is a history variable: the tokens that were revoked so.

### AgentRules

`doc[d]` is a document with the number of its current source and its active
version, `cand[c]` a compiled version with its document, its source and its policy
(`None` if invalid), `compiler[h]` a compilation that awaits the model. `Activate` is a transaction that
is rolled back if the rules then conflict or are too many, so the guards are
evaluated on the new table. A system default is compared with the
system's rules only, but counted for every user. `RuleSnapshot` is what a task is
created with and `RuleRead` what `capability_rule_read` answers for it later.

### ChatGeneration

A handler of `/api/chat` claims its chat, stores the question, asks the model,
stores the answer, asks for a title and releases the claim; before all this it may compact the history under
a lock per chat, which a manual compaction takes too. The steps are named for the awaits
between them. `chats[c]` carries its messages with their senders, the boundary of its
summary (`upto`) and, as history, the messages the summary has been told of. A deleted chat is
`gone` rather than absent, because handlers in flight still write to its rows.

Of module tasks it has what the gateway does to a chat, in its separate commits: `StartTask` binds a task to the chat,
`AcceptTask` adds its question, `EndTask` stores its end, which unbinds it, and `AnswerTask` adds the answer
or `SuppressAnswer` finds no chat to add it to. `tasks[c]` says whether a task is `bound`, the position of
the question it has `asked`, and the questions of succeeded tasks whose answers are still `owed`; between
`EndTask` and `AnswerTask` anybody may write to the chat. An answer of a task names its
question (`AnswerTo`). The retry of a rejected submission, which does not look at the chat again, is
in `ModuleTask` only (see *Disagreements*).

`dropped` records claims whose response was never started (see section 3).

### HermesRuns

`remote[r]` is Hermes' own record, external to the repository and modelled as
`backend/hermes_fake_server.py` behaves, with more approvals and more turns. `consumer[r]` is
`_consume_hermes_run`, which may be cut at any await, the one inside its `finally` included
(`quitting`, cut to `abandoned`: the removal from the registry is skipped), `approver[a]` the approval
endpoint, `active[r]` the registry of runs. `n` of an event is the turn or the
approval it belongs to, and `saved[r]` the turns an answer was stored of.

### DataDirectory

`data[d]` is a directory: a database (its schema, a counter for the writes of all other tables, the rows of
uploads, and the uploads that tasks refer to) and the files of uploads. The Server starts on one, migrates it
in a transaction, writes, receives uploads (file first, row second) and cleans up in a thread
(files first, rows second). `tool[t]` is a process of `server_data.py`, which copies the database, then each
file, compares what it can compare and publishes by a rename, or moves a
restored backup child by child into an existing empty directory. Of the database only
its main file is compared before and after, which a write in the log does not change until a
checkpoint; the model notes whether it was written. `Install` changes the program
(upgrade, downgrade).

### Packages

A shared skill is a directory and an entry in a configuration file, a plugin likewise; a
personal skill is rows with versions. Each `Torn...` action is a process
that ends between the two. `download[r]` keeps the plugin configuration as a request
saw it before its download, so that a write-back of a stale copy would show.

## 3. Runs

| Run | Instance | Shows |
|---|---|---|
| `creates` | 1 key, 2 creators, 1 watcher, 1 canceller, 2 events, 2 issues, rejections | two attempts at one task, in any order with a reader and a cancellation: an outcome is final, honest and retired |
| `client` | 1 key, 1 creator, rejections, torn commits, 3 events, 3 issues | inputs, tokens, the answer and the refinement under every loss and crash, refused artifacts, and the revocation of an account |
| `exclusive` | 2 interchangeable keys, 1 chat, no rejections | one exchange at a time, beside classic generation |
| `recovery` | 1 key, 2 creators, torn commits, fairness | an end is learnt and an answer recovered |
| `registry` | 2 registrations, 2 administrators, 4 manifests (two with the same permissions, one incompatible) | pairing, review and admission |
| `access` | 2 users, 2 passwords, 2 browsers, 1 task, 2 tokens of one use, 2 calls | administrators against one another, torn setup, and calls against disabling, ending and resubmission |
| `agent` | 2 rules of one user, 1 system rule, 3 candidates, capacity 2 | activation, edits and deletion in any order with a compilation, and the snapshot of a task |
| `chats` | 1 chat, 2 senders of 2 users, 1 manual compaction, 4 messages, fairness | generation, compaction, tasks, renaming and deletion on one chat, with a restart; claims end |
| `hermes` | 1 run, 2 people, 2 approvals, 2 tool calls, 3 queued events, fairness | a response cut anywhere, approvals that come late |
| `data` | 2 paths, 1 upload, 1 backup, 1 tool, 2 schemas, 1 write | copies and migrations beside a running Server and its cleanup |
| `packages` | 1 skill, 1 plugin, 1 key, 2 users, 2 contents, 1 task, 1 download | installing, trusting and configuring, with every step cut off |
| `undrained` | 1 registration, 2 administrators, 1 manifest | a disagreement between the code and its documents, see below |

Deadlock is checked in `chats` and in `packages`. The other configurations switch it off: a
finished set of tasks, a module that is disconnected for good, rules without further candidates,
and an ended run are legitimate ends.

**Bounds.** `MaxEvents` caps the events the module emits for a task, `MaxIssues` the
times tokens are issued (the number of submissions). Two issues are needed for a
retry, two events for an event that is older than a known summary; three of each in
`client`, where there is a single creator. Handlers are reused, so one creator can make
any number of attempts one after the other; two are needed for attempts that overlap, and a
third would only repeat what the second can do to the first. Two keys are needed only where
tasks compete for a chat. In `registry` two administrators give every pair of overlapping
handlers; approve, drain and disable await nothing and need no handler. A second
registration is needed for two pairings, and for one that follows a disconnection.

In `access` two browsers give two administrators whose requests have both been authenticated; two
calls with a token of one use compete for it, and the second token is the one a resubmission draws. In `agent`, `MaxActive` 2 is exceeded by the three documents,
`MaxSource` 2 gives a candidate of an older source, and the second user has no rules of their own, so what
counts for them is the system's. In `chats`, `Keep` 1 and `MaxMessages` 4 allow two
compactions, one on the other, within two exchanges, and a question of somebody else between the end of a task and its
answer. Requests on different chats share nothing but `Users`, so one chat is
enough. In `hermes`, `MaxAsks` 2 gives an answer to the first approval while the second is open,
`MaxTurns` 2 prose before a tool call and after it, `MaxQueue` only how far Hermes is ahead of its reader.
In `data`, `MaxVersion` 2 gives an upgrade and a downgrade, `MaxContent` 1 a write
during a copy; the second path is where an import or a restore goes. A message beyond `MaxMessages` is not
stored by the model (`AddMessage`), so that the bound never blocks a handler that must end.

`MCSymmetry` permutes sets of interchangeable values where the run checks no liveness
property: administrators and registrations; users, passwords, browsers, calls and tokens; candidates and the two
rules of one owner; paths; users and contents. `KeySymmetry` permutes the two keys of `exclusive`. (The password of a row that does not exist is
a fixed one, which is never read.)

**Fairness.** Only the runs with liveness properties use it.

* `recovery`: strong fairness of reading a task, of the module's answering and of the arrival of an
  answer with no artifact the Server refuses, and weak fairness of closing an exhausted stream. The code has no background
  reconciliation: each read is a client's request, and the frontend lists and polls tasks for as long as it is open; so
  these are statements about tasks that *are read again*. No fairness is assumed of
  the module's work, of retries or of cancellations. The properties exempt a disconnected module.
  A task whose artifact is refused at every read does learn its end, but never posts its answer: the projection
  comes after the artifacts.
* `chats`: weak fairness of each sender's own steps once its response may begin, since every await on the chat model or the
  title model ends by an answer, an error or the timeout of the HTTP session. A claim is taken after the compaction and the
  wait for its lock, so of neither any fairness is needed, nor of any request being made.
* `hermes`: weak fairness of reading, stopping, storing and leaving: the idle timeout of the event
  stream and the time limit of a stop request end every wait. Nobody has to cancel a response and
  Hermes need not answer.

**Disagreements.** One is a run, quoted in `PROJECT.json`:

* `undrained`: a refresh that overlaps a drain or a disable enables the module again.

Others were found by violations of the formulas named here, which the modules
still state under "Not kept by the code"; each can be reproduced with the
configuration described, starting from `MCModuleTask_creates.cfg`, `MCModuleRegistry_undrained.cfg` or `MCHermesRuns_hermes.cfg`:

* `NoSpuriousFailure` (1 key, 1 creator, 1 watcher, 1 canceller, no rejections, no torn commits, 2 events, 1 issue): a reconcile compares
  the summary it awaited with the row as it is after the await. If a newer state was stored
  meanwhile, a task that is running is recorded as failed with an invalid transition.
* `ExclusiveChat` with rejections (2 keys, 1 creator, 1 watcher, 1 event, 2 issues): the retry of a rejected submission is not checked
  against other work on its chat.
* `InputsOutliveTask` with two creates (1 key, 2 creators, rejections, 1 event, 2 issues): a late rejection schedules the inputs of a task that a
  retry got accepted.
* `FailureSuppressed` (1 key, 2 creators, 1 watcher, no rejections, 2 events, 2 issues): a duplicate create posts the answer but does not record the success; a reader
  that loses its connection then records a failure.
* `InputsAreReleased` under `FairSpec` (1 key, 1 creator, 1 watcher, 1 canceller, torn commits, 2 events, 1 issue): a crash between the commits of `_fail_stream`
  leaves the inputs without an expiry.
* `PurgeSparesTasks` (1 registration, 1 administrator, 1 manifest): a task can be admitted while the module is already asked to purge.
* `LeftIsForgotten` (the instance of `hermes`): `docs/hermes.md:147` says that stopping clears the active run, "so later
  approvals for that run are rejected as stale". The `finally` of `_consume_hermes_run` awaits the stop before it removes
  the run (`main.py:7953`), and a cancellation that arrives there is not caught (`main.py:7748`), so the record
  stays in the registry until it is purged for its age.

What the other models made visible, and how the properties allow for it:

* A claim of a chat whose response is never started (the client is gone before the body begins, or storing
  the skill activations fails after the claim, `main.py:4109`) lasts until a restart. `ClaimsEnd` exempts these (`dropped`).
* An artifact the Server refuses in the answer to a creation (`module_tasks.py:1512`) is refused after the task has been
  accepted. The error handler (`module_tasks.py:1517`) then revokes the tokens and schedules the inputs of a task that is visible and
  running, and the client is told of an error. `InputsOutliveTask` and `TokensUsable` exempt such a task (`refused`).
* Disabling an account, or demoting an administrator, revokes the tokens of its running tasks and leaves the tasks running
  (`auth.py:549`, `auth.py:645`). `TokensUsable` exempts them until tokens are issued anew (`dismissed`).
* `ensure_setup_secret` creates the file and writes it afterwards (`auth.py:888`). A process that ends in between leaves an
  empty file, which no later call replaces, and every start fails (`auth.py:883`, `auth.py:150`) until somebody removes it.
  `StartsAgain` speaks of the time from which a token is in its file.
* While the stop of a run is awaited the run is still registered, so an approval in between is passed on.
  `RegisteredIsConsumed` says what does hold: none is passed on once the response has ended, except where it was cut at
  the stop of its `finally` (`LeftIsForgotten`). And `LeftMeansStopped` counts a stop once it has been begun: where the response is cut at its
  first await, nothing has been sent.
* An installation of a skill that is cut off between the directory and the configuration leaves the old mark of trust over
  the new content. `TrustFollowsContent` exempts it (`interrupted`).
* Installing or updating a plugin writes it as enabled and with default settings, though a comment in `get_installed_plugins` speaks of
  plugins not being enabled by an update.
* A restore into an existing directory that is cut off leaves part of the backup there. Nothing marks such a
  directory: when its database has arrived without all of its files, the Server starts on it, and a backup of it is
  verified like any other, because only the files that are there are listed in the manifest. `torn` is the set of the directories
  and backups that stem from such a restore, directly or by copies and restores of them (`Inherited`), and `RowsHaveFiles` exempts
  them. That the mark must be inherited came out of the proof: in the instance of the run there is a single backup, with two
  the property is false of a mark on the directory alone.
* A crash between an upload's file and its row leaves a file nobody deletes; the cleanup thread may delete an
  upload that expires between the validation of a task's references and their binding. Both are in the model, neither is against a promise.

The passing runs and the theorems therefore say where the properties do hold:
`ExclusiveChat` without rejections, `InputsOutliveTask` and `TokensUsable` with one create at a time and but for
tasks `refused` or `dismissed`, `TerminalIsRetired` without torn commits, `StartsAgain` once there is a setup token.

## 4. Theorems

All are for any sets of keys, chats, handlers, registrations, administrators, manifests, users, browsers,
tokens, calls, senders, runs, directories, backups, tools, uploads, skills and plugins, and any bounds.

| Theorem | Statement |
|---|---|
| `ModuleTaskProofs!TypeCorrect` | `Spec => []TypeOK` |
| `ModuleTaskProofs!TerminalStaysFinal` | `Spec => TerminalIsFinal` |
| `ModuleTaskProofs!CursorStaysMonotonic` | `Spec => CursorNeverBack` |
| `ModuleTaskProofs!OutcomesAreHonest` | `Spec => []HonestOutcome` |
| `ModuleTaskProofs!ChatsAreExclusive` | `~MayReject => (Spec => []ExclusiveChat)` |
| `ModuleTaskProofs!EndedTasksAreRetired` | `~MayTear => (Spec => []TerminalIsRetired)` |
| `ModuleTaskProofs!OneExchangeHolds` | `Spec => []OneExchange` |
| `ModuleTaskProofs!InputsOutliveTaskHolds` | `Spec /\ []OneAttempt => []InputsOutliveTask` |
| `ModuleTaskProofs!TokensUsableHolds` | `Spec /\ []OneAttempt => []TokensUsable` |
| `ModuleTaskProofs!AnswerMeansSuccessHolds` | `Spec /\ []OneAttempt => []AnswerMeansSuccess` |
| `ModuleTaskProofs!PromiseIsKept` | `Spec /\ []OneAttempt => KeepsPromise` |
| `ModuleRegistryProofs!TypeCorrect` | `Spec => []TypeOK` |
| `ModuleRegistryProofs!RegisteredOnce` | `Spec => []OneRegistration` |
| `ModuleRegistryProofs!CredentialsAreStored` | `Spec => []CredentialStored` |
| `ModuleRegistryProofs!OnlyApprovedAreAdmitted` | `Spec => []AdmittedIsApproved` |
| `CapabilitiesProofs!TypeCorrect` | `Spec => []TypeOK` |
| `CapabilitiesProofs!AnAdminRemains` | `Spec => []AdminRemains` |
| `CapabilitiesProofs!ServerStartsAgain` | `Spec => []StartsAgain` |
| `CapabilitiesProofs!SessionsStayEntitled` | `Spec => []SessionsAreEntitled` |
| `CapabilitiesProofs!UsesAreBounded` | `Spec => []ServedIsBounded` |
| `CapabilitiesProofs!ForfeitIsFinal` | `Spec => []ForfeitedStaysDead` |
| `AgentRulesProofs!TypeCorrect` | `Spec => []TypeOK` |
| `AgentRulesProofs!CapacityIsKept` | `Spec => []CapacityKept` |
| `AgentRulesProofs!ActiveStaysSound` | `Spec => []ActiveIsSound` |
| `AgentRulesProofs!TasksKeepTheirRules` | `Spec => []TaskRulesAgree` |
| `ChatGenerationProofs!TypeCorrect` | `Spec => []TypeOK` |
| `ChatGenerationProofs!OneGenerationHolds` | `Spec => []OneGeneration` |
| `ChatGenerationProofs!AnswersFollowHolds` | `Spec => []AnswersFollow` |
| `ChatGenerationProofs!NothingForgottenHolds` | `Spec => []NothingForgotten` |
| `ChatGenerationProofs!AgentChatsVanishHolds` | `Spec => []AgentChatsVanish` |
| `ChatGenerationProofs!ChosenTitleStaysHolds` | `Spec => ChosenTitleStays` |
| `HermesRunsProofs!TypeCorrect` | `Spec => []TypeOK` |
| `HermesRunsProofs!RegisteredIsConsumedHolds` | `Spec => []RegisteredIsConsumed` |
| `HermesRunsProofs!LeftMeansStoppedHolds` | `Spec => []LeftMeansStopped` |
| `HermesRunsProofs!AnswerIsCanonicalHolds` | `Spec => []AnswerIsCanonical` |
| `DataDirectoryProofs!TypeCorrect` | `Spec => []TypeOK` |
| `DataDirectoryProofs!RowsHaveFilesHolds` | `Spec => []RowsHaveFiles` |
| `DataDirectoryProofs!ServedIsCurrentHolds` | `Spec => []ServedIsCurrent` |
| `DataDirectoryProofs!NothingIsLostHolds` | `Spec => NothingIsLost` |
| `PackagesProofs!TrustFollowsContentHolds` | `Spec => []TrustFollowsContent` |
| `PackagesProofs!PinnedSkillStaysHolds` | `Spec => PinnedSkillStays` |
| `PackagesProofs!OnePartAtATimeHolds` | `Spec => OnePartAtATime` |

The last four modules also have a theorem `Soundness == Spec => []Inv`, of which the others follow.

The only assumptions are the modules' own (`ASSUME`s on the constants, which TLC evaluates in every run).
Those of `Accounts` and `Capabilities` are that `None` and `Empty` differ and are no setup tokens, that there is a password, and
that a token may be used at least once. Those of `AgentRules` are that there are finitely many documents,
that each has an owner, and that `None` and `Plain` are what their names say. Those of `ChatGeneration` are that
a compaction keeps at least one message (`Keep`), that senders and manual compactions are different handlers and no sender is called `"task"`, and that
each sender has a user; those of `HermesRuns` the same of runs and approvers; those of `DataDirectory` that there is a
schema, and that directories of data and backups are different directories.

*Finality and the cursor* follow step by step from the type invariant and from what each operation
on a row does (lemmas about `UpdateSummary`, `ApplyEvent`, `Fail`, `Finalize`): an answer is
compared with the row at the moment it is applied, and a terminal state admits only itself.

*Honesty* needs more than the rows: an answer may be applied long after the module gave it. The
inductive invariant says that whatever terminal state a handler carries is the module's
present state, which is final in turn; and the same of the events the module has emitted.

*Exclusion* rests on an invariant about the rows of a chat: a key's row that is active was
inserted when the chat was free, and a row never becomes active again without that look; the
second half is what a rejection breaks, hence the hypothesis.

*Retirement* is inductive once it is said which ended rows may still hold something: those whose
answer was posted within the create request, which `MayReconcile` keeps readable, so that the next
read retires them.

*Exchanges.* What a step may make of the messages does not depend on which handler takes it: `ChatStep` says that it
deletes a chat, or leaves the messages and what a client sees of every row alone, or concerns one task, whose row then
shifts to another public state (`Shifts`), becomes visible with its question (`Accepts`) or gets its answer (`Answers`).
One lemma per group of actions shows that every step is one of these (`EveryStepExchanges`), for any number of
attempts. The inductive invariant `ExchangeInv` is that every chat's messages are `Threaded`: no message occurs twice,
each belongs to an accepted task of the chat, and an answer comes after its question and only with a projection state other than
`pending`; and that an accepted task whose chat exists has its question there (`AskedIn`). So the
one field `projection_state`, tested and set in the transaction that posts, carries the whole of "at most one answer".

*Attempts.* The other four hold as long as clients have no two requests with one Idempotency-Key in flight at once.
That is the hypothesis `[]OneAttempt`, about the clients and not about the Server, which admits such requests; without it
they are false (section 3, `InputsOutliveTask` and `FailureSuppressed`). It allows any number of creators with different
keys, and any number of attempts of one key one after the other, rejected, lost or cut off; the run `client` is the instance with a single creator, where it holds by itself. The invariant `AttemptInv` says what the one attempt may rely on
(`Promised`): until its answer is processed the task is not visible, the inputs are kept, the tokens it carries are the newest, and
once it is answered they are the ones the module holds; and an accepted task that
has not ended has the same (`Tended`). Both are said but for a row that is `refused` or, as far as its tokens go,
`dismissed`. Every other operation on a row `Tends` it: it does not take
inputs or tokens from a row that still needs them, and forgets neither mark while the row needs it. `refused`
is set for good; `dismissed` goes only when tokens are issued anew or the row is retired. That an answer means success then needs one fact more: a summary that is
projected without being stored (`CreateDuplicate`) would have to come from a second attempt.

*Refinement.* `PromiseIsKept` maps the initial states to initial states of `TaskLifecycle`, and with both invariants each case of
`ChatStep` to a step of it or to a stutter (`LifecycleStep`): a change of state to `Move`, an acceptance to `Accept`, an answer that
comes after the success to `Answer`, whose conditions are what `AskedIn` and `Threaded` say, and a deletion to `DeleteChat`.

*The registry's* theorems share one lemma, `StepIsTyped`: every step is well typed, and but for
pairing, approving and disconnecting it is *quiet*: it neither makes nor deletes a row, changes no
reviewed permission, and at most takes grants away. `AdmittedIsApproved` then
follows from `ReviewIsApproval`: a reviewed permission digest is one that was approved and the grants
are none or that digest's. A stale refresh can restore the review of a *manifest*, but
no statement except approve's writes the review of the *permissions*; admission requires both.

*Accounts.* `AccountsInv` strengthens the types, `AdminRemains` and `SessionsAreEntitled` by two
facts: an enabled account exists (`EnabledExist`), and an announced setup token that was not used is
still in its file (`SecretKept`), from which `StartsAgain` follows: an empty or missing file is never announced. Every operation on an account is an
instance of one lemma, `UserChanges`: the row of a user is replaced, and any session of that user which disagrees with
the new row is gone. That an administrator remains is then the guard `MayLose`, which looks at the rows in the
transaction that changes them and not at what the middleware saw.

*Tokens.* `CapabilitiesInv` says further that forfeit tokens were drawn and are dead, which makes
`ForfeitedStaysDead` inductive because tokens are drawn once. Every step but `Consume` uses no token
(`Unused`), and `Consume` looks at the count in the transaction that raises it; so `ServedIsBounded` does not depend
on what the preflight saw, or on how many calls it let through.

*Rules.* The inductive invariant adds to the properties that an active document was created, that a compilation is of
a source its document has, that active rules of one scope have different policies (`ScopesAgree`), and that what a task
holds was compiled and is valid. Every step but an activation and the creation of a task is *quiet*: it activates nothing
and draws at most a new version (`QuietInv`). An activation is covered by its own guards, which add up two
cardinalities; `CapacityIsCount` shows that the sum is the number of a user's rules, which needs the soundness of
the active versions, since the guard counts valid rules only.

*Chats.* A handler does several things between two awaits, in an order that matters: it saves a summary, releases the
lock, claims the chat, stores the question. The invariant `Sound` is therefore a predicate on five values (chats, tasks,
claims, locks, handlers), with one lemma per operation that leads from sound values to sound values; an action is the composition
of its operations. `Sound` says what each handler in flight may rely on after its await:

* its question is in the chat with nothing but answers of tasks after it (`Pending`), unless the chat was deleted or is full. No
  other handler and no task can have added a question, because the claim and the absence of a bound task are looked up in the
  same step (`Apart`, `TasksSound`); a task that ended before may still add its answer;
* a question of a task that is bound or owes its answer is in the chat unanswered (`Owing`), wherever later
  messages have left it, so the answer that comes at last is the only one to it;
* what it reads of the history for a summary is what the row still says (`Fresh`), because the lock was held throughout
  (`Locked`). The recursion of the summary on summaries before it disappears by saying that the messages it was told
  of are exactly 1 to `upto`, in order (`Accounted`);
* a chat whose answer is being made is live, or a classic one: the deletion of a private one looks at the claims.

*Hermes.* Every action concerns one run, so the invariant is a predicate `RunSound` on the five values that belong
to it. `AnswerIsCanonical` is about what is in flight: prose that is not of the present turn,
in the queue or in the consumer's buffer, is followed in the queue by the tool call that ended its turn
(`CallAhead`), at which the consumer drops the buffer; a completion is the last event. `LeftMeansStopped` follows from
counting: a consumer that ends without having seen a terminal event has begun one stop, and a second one only if it
was cancelled while it waited for the first. A record in the registry belongs to a consumer at work or to one that was
`abandoned`, since no other path skips the removal and an approver only changes a record it finds.

*Data.* `Inv` is `Storage` (directories, backups, and what the tools at work rest on) and `Serves` (what the Server's
operations in progress rest on). A copy is not of one moment: the database is copied first and the
files after it, while the Server deletes expired inputs and receives new ones. `CopySound` says why the
result is whole: a file that was whole at the start of the copy is whole or gone, an input whose file was not whole at the start and that has a
row in the copy still has its row (hence was not cleaned up), and what was copied of a file that still is whole was copied
whole. At the end the tool compares, and what it compares excludes the rest. `MoveSound` is
the same for a restore, child by child; `Apart` says that no two restores go to the same directory at once, which
rests on `_require_quiesced` and on the directory's being found empty.

*Packages.* Each conjunct of the invariant is disturbed by two or three actions only, and those set what it relates in
one step, or in two with `interrupted` between them. `OnePartAtATime` needs nothing of the download that overlaps:
every request reads the configuration again after its awaits.

Every invariant and action property of a passing run, and the refinement, is stated by one of these theorems. Only model-checked
are the liveness properties (`EndIsLearnt`, `AnswerIsRecovered`, and those of `ChatGeneration` and `HermesRuns`), which with their
fairness are out of the proof system's reach, and the counterexample of `undrained`.

## 5. Plan

Done: the modules and theorems above. Next, in this order:

1. Approvals of a task: two administrators, a module that may forget an approval, the audit table.
2. The reference module's own recovery, shown to implement the remote side of `ModuleTask`.
3. The rate limiter and the stream of a model's answer to a module.

## 6. Not modelled

Numeric and textual processing (retrieval, tokens, parsing, export), the answers of language models,
HTTP details, address policy and TLS, validation of schemas and of manifests, what each migration does to the tables, the
plain completion mode of Hermes, the market of plugins and the archives of skills, the rate limiter (each of its
decisions is local to one call), the frontend, the
desktop shell, deployment scripts, and the plugins' own code. Where such code decides something
the models need (is a manifest valid, is a summary well formed, is an answer empty), the model lets it decide either way.
