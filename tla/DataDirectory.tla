--------------------------- MODULE DataDirectory ---------------------------
(* A data directory through its life: the Server that migrates and serves  *)
(* it (backend/main.py, db_migrations.py), the uploads that are a file and *)
(* a row, their cleanup in a thread (module_tasks.py), and the copies that *)
(* backup, restore and import-classic make of it (server_data.py) while    *)
(* the Server may, in spite of the confirmation, be running.               *)
EXTENDS Naturals

CONSTANTS
    Uploads,     \* uploaded inputs, each bound to one task at most
    Dirs,        \* paths of data directories
    Backups,     \* paths of backups
    Tools,       \* processes of server_data.py
    MaxVersion,  \* the newest schema there is a program for
    MaxContent,  \* bound on the writes of all other tables
    None

ASSUME DataAssumption ==
    /\ MaxVersion \in Nat \ {0} /\ MaxContent \in Nat
    /\ Dirs \cap Backups = {}

VARIABLES
    code,      \* LATEST_SCHEMA_VERSION of the installed program
    data,      \* the data directories
    torn,      \* those a restore was cut off in, and what was made of them
    server,    \* the directory the Server runs on
    uploading, \* the uploads that are being received
    creating,  \* the upload create() has validated and is about to bind
    cleaning,  \* the uploads whose rows cleanup is about to delete
    tool,      \* the progress of each tool
    backup     \* the finished backups

vars == <<code, data, torn, server, uploading, creating, cleaning, tool, backup>>
serverVars == <<server, uploading, creating, cleaning>>
toolVars == <<tool, backup, torn>>

-----------------------------------------------------------------------------
(* free: uploaded.  bound: to a task that has not ended.  ended: its task  *)
(* has.  expired: free or ended, and past its expires_at.                  *)
RowStates == {"none", "free", "bound", "ended", "expired"}
FileStates == {"none", "part", "whole", "gone"}

(* schema 0 is a database without schema_migrations, which a classic one   *)
(* is; refs are the uploads that tasks which have not ended refer to.      *)
Database == [schema : 0..MaxVersion, content : 0..MaxContent,
             rows : [Uploads -> RowStates], refs : SUBSET Uploads]
Files == [Uploads -> FileStates]

Directory == [db : Database \cup {None}, files : Files]

ASSUME NoneAssumption == None \notin Database \cup Directory \cup Dirs \cup Uploads

NoFiles == [u \in Uploads |-> "none"]
EmptyDirectory == [db |-> None, files |-> NoFiles]
EmptyDatabase == [schema |-> 0, content |-> 0,
                  rows |-> [u \in Uploads |-> "none"], refs |-> {}]
Idle == [pc |-> "idle"]
At(t, pc) == tool[t].pc = pc

Init ==
    /\ code \in 1..MaxVersion
    /\ \E d \in Dirs :
          data = [e \in Dirs |-> IF e # d THEN None
                     ELSE [EmptyDirectory EXCEPT !.db = EmptyDatabase]]
    /\ torn = {} /\ server = None /\ uploading = {} /\ creating = None /\ cleaning = {}
    /\ tool = [t \in Tools |-> Idle]
    /\ backup = [b \in Backups |-> None]

Copying(t) == tool[t].pc \in {"database", "files"}

(* The database file itself is written when a log is: at a checkpoint.  A  *)
(* copy that is going on from there will see it.                           *)
Checkpoint(d) ==
    tool' = [t \in Tools |->
               IF Copying(t) /\ tool[t].from = d
               THEN [tool[t] EXCEPT !.written = TRUE] ELSE tool[t]]

(* A commit to the log, which a checkpoint may follow at once or later.    *)
Commit(d, db, files) ==
    /\ data' = [data EXCEPT ![d] = [db |-> db, files |-> files]]
    /\ Checkpoint(d) \/ UNCHANGED tool

-----------------------------------------------------------------------------
(* The Server's process.                                                   *)

Quiesced(d) == \A t \in Tools : At(t, "moving") => tool[t].to # d
Here(d) == IF data[d] = None THEN EmptyDirectory ELSE data[d]
Found(d) == IF Here(d).db = None THEN EmptyDatabase ELSE Here(d).db

MutantSupported(db) == TRUE
Supported(db) == db.schema <= code

(* apply_migrations(): one transaction for all that are missing. *)
Migrated(db) == [db EXCEPT !.schema = IF @ < code THEN code ELSE @]

(* init_db().  The directory is made if it is missing. *)
Start(d) ==
    /\ server = None /\ Quiesced(d)
    /\ Supported(Found(d))
    /\ server' = d
    /\ data' = [data EXCEPT ![d] = [Here(d) EXCEPT !.db = Migrated(Found(d))]]
    /\ Checkpoint(d)
    /\ UNCHANGED <<code, uploading, creating, cleaning, torn, backup>>

(* It ends before the migrations are committed: only the tables that were  *)
(* missing are there.                                                      *)
TornStart(d) ==
    /\ server = None /\ Quiesced(d)
    /\ Supported(Found(d))
    /\ data' = [data EXCEPT ![d] = [Here(d) EXCEPT !.db = Found(d)]]
    /\ Checkpoint(d)
    /\ UNCHANGED <<code, serverVars, torn, backup>>

(* The process stops, or ends anywhere; its files stay as they are, and so *)
(* may the log, which belongs to the database.                             *)
Stop ==
    /\ server # None
    /\ server' = None /\ uploading' = {} /\ creating' = None /\ cleaning' = {}
    /\ Checkpoint(server) \/ UNCHANGED tool
    /\ UNCHANGED <<code, data, torn, backup>>

Install(v) ==
    /\ server = None
    /\ code' = v
    /\ UNCHANGED <<data, serverVars, toolVars>>

(* No other transaction holds the lock of the database. *)
Serving == server # None /\ cleaning = {}

WriteContent ==
    /\ Serving
    /\ data[server].db.content < MaxContent
    /\ Commit(server, [data[server].db EXCEPT !.content = @ + 1],
              data[server].files)
    /\ UNCHANGED <<code, serverVars, torn, backup>>

(* The classic application writes to a directory that was not migrated.    *)
ClassicWrite(d) ==
    /\ data[d] # None /\ data[d].db # None /\ server # d
    /\ data[d].db.schema = 0 /\ data[d].db.content < MaxContent
    /\ Commit(d, [data[d].db EXCEPT !.content = @ + 1], data[d].files)
    /\ UNCHANGED <<code, serverVars, torn, backup>>

-----------------------------------------------------------------------------
(* Uploads and the tasks they are bound to.                                *)

Row(u) == data[server].db.rows[u]
File(u) == data[server].files[u]
Expired == {u \in Uploads : Row(u) = "expired"}
WithoutRows(rows, us) == [u \in Uploads |-> IF u \in us THEN "none" ELSE rows[u]]

(* Stored files have random names: one that is gone does not come back.    *)
WithoutFiles(files, us) ==
    [u \in Uploads |-> IF u \in us THEN "gone" ELSE files[u]]

(* upload_input_resource() up to its first await: cleanup comes first.     *)
BeginUpload(u) ==
    /\ Serving
    /\ Row(u) = "none" /\ File(u) = "none"
    /\ Commit(server,
              [data[server].db EXCEPT !.rows = WithoutRows(@, Expired)],
              [WithoutFiles(data[server].files, Expired) EXCEPT ![u] = "part"])
    /\ uploading' = uploading \cup {u}
    /\ UNCHANGED <<code, server, creating, cleaning, torn, backup>>

(* The file is renamed when it is complete, or removed. *)
EndFile(u) ==
    /\ Serving
    /\ u \in uploading /\ File(u) = "part"
    /\ \/ /\ Commit(server, data[server].db,
                    [data[server].files EXCEPT ![u] = "whole"])
          /\ UNCHANGED uploading
       \/ /\ Commit(server, data[server].db,
                    [data[server].files EXCEPT ![u] = "gone"])
          /\ uploading' = uploading \ {u}
    /\ UNCHANGED <<code, server, creating, cleaning, torn, backup>>

(* Its row is inserted; an error of the database removes the file.         *)
StoreUpload(u) ==
    /\ Serving
    /\ u \in uploading /\ File(u) = "whole"
    /\ \/ Commit(server, [data[server].db EXCEPT !.rows[u] = "free"],
                 data[server].files)
       \/ Commit(server, data[server].db,
                 [data[server].files EXCEPT ![u] = "gone"])
    /\ uploading' = uploading \ {u}
    /\ UNCHANGED <<code, server, creating, cleaning, torn, backup>>

(* 24 hours pass, which is longer than any copy takes.  Nothing is written. *)
Expire(u) ==
    /\ server # None /\ cleaning = {}
    /\ Row(u) \in {"free", "ended"}
    /\ \A t \in Tools : Copying(t) => tool[t].before[u] = "whole"
    /\ data' = [data EXCEPT ![server].db.rows[u] = "expired"]
    /\ UNCHANGED <<code, serverVars, toolVars>>

(* cleanup_input_resources() in its thread: the files, in a transaction    *)
(* that then deletes the rows.                                             *)
CleanFiles ==
    /\ server # None /\ cleaning = {} /\ Expired # {}
    /\ cleaning' = Expired
    /\ Commit(server, data[server].db, WithoutFiles(data[server].files, Expired))
    /\ UNCHANGED <<code, server, uploading, creating, torn, backup>>

CleanRows ==
    /\ server # None /\ cleaning # {}
    /\ cleaning' = {}
    /\ Commit(server, [data[server].db EXCEPT !.rows = WithoutRows(@, cleaning)],
              data[server].files)
    /\ UNCHANGED <<code, server, uploading, creating, torn, backup>>

(* _validate_local_references(), which only reads. *)
Validate(u) ==
    /\ server # None /\ creating = None
    /\ Row(u) = "free"
    /\ creating' = u
    /\ UNCHANGED <<code, data, server, uploading, cleaning, toolVars>>

(* _prepare_provisional(): an upload that is gone by now is passed over.   *)
Bind ==
    /\ server # None /\ creating # None /\ cleaning = {}
    /\ creating' = None
    /\ Commit(server,
              [data[server].db EXCEPT
                  !.refs = @ \cup {creating},
                  !.rows[creating] = IF @ = "none" THEN @ ELSE "bound"],
              data[server].files)
    /\ UNCHANGED <<code, server, uploading, cleaning, torn, backup>>

EndTask(u) ==
    /\ Serving
    /\ u \in data[server].db.refs
    /\ Commit(server,
              [data[server].db EXCEPT
                  !.refs = @ \ {u},
                  !.rows[u] = IF @ = "bound" THEN "ended" ELSE @],
              data[server].files)
    /\ UNCHANGED <<code, serverVars, torn, backup>>

-----------------------------------------------------------------------------
(* Copies: backup and import-classic.                                      *)

(* _relative_file_manifest() of the files.  Of the database only its file   *)
(* is compared, without the log: whether it was written is noted.          *)
Manifest(d) == [u \in Uploads |-> IF data[d].files[u] = "gone" THEN "none"
                                  ELSE data[d].files[u]]

(* _require_new_destination() *)
Vacant(kind, path) ==
    IF kind = "backup" THEN backup[path] = None ELSE data[path] = None

(* Mutant: what is at the path is removed first. *)
MutantReplaceable(kind, path) == kind = "backup" \/ path # server

(* os.replace() of a directory, which puts up with an empty one. *)
Replaceable(kind, path) ==
    IF kind = "backup" THEN backup[path] = None
    ELSE data[path] \in {None, EmptyDirectory} /\ Quiesced(path)

(* Nothing tells a copy of a torn directory from any other.                *)
Inherited(from, to) == IF from \in torn THEN torn \cup {to} ELSE torn \ {to}

(* An import refuses a directory in which something is owned already.      *)
StartCopy(t, kind, d, path) ==
    /\ At(t, "idle")
    /\ data[d] # None /\ data[d].db # None
    /\ Vacant(kind, path)
    /\ kind = "import" => data[d].db.schema = 0
    /\ tool' = [tool EXCEPT ![t] = [pc |-> "database", kind |-> kind,
                                    from |-> d, to |-> path,
                                    before |-> Manifest(d),
                                    first |-> data[d].db.content,
                                    written |-> FALSE]]
    /\ UNCHANGED <<code, data, torn, serverVars, backup>>

CopyDatabase(t) ==
    /\ At(t, "database")
    /\ LET w == tool[t]
           d == data[w.from]
       IN  tool' = [tool EXCEPT ![t] =
                      [pc |-> "files", kind |-> w.kind, from |-> w.from,
                       to |-> w.to, before |-> w.before, first |-> w.first,
                       written |-> w.written,
                       db |-> d.db, files |-> NoFiles, todo |-> Uploads]]
    /\ UNCHANGED <<code, data, torn, serverVars, backup>>

CopyFile(t, u) ==
    /\ At(t, "files") /\ u \in tool[t].todo
    /\ tool' = [tool EXCEPT ![t].todo = @ \ {u},
                            ![t].files[u] = data[tool[t].from].files[u]]
    /\ UNCHANGED <<code, data, torn, serverVars, backup>>

MutantUnchanged(t) == TRUE
Unchanged(t) == /\ Manifest(tool[t].from) = tool[t].before
                /\ ~tool[t].written

SameContent(t) == tool[t].db.content = tool[t].first

Published(t) == [db |-> tool[t].db, files |-> tool[t].files]

FinishCopy(t) ==
    /\ At(t, "files") /\ tool[t].todo = {}
    /\ Unchanged(t)
    /\ Replaceable(tool[t].kind, tool[t].to)
    /\ \/ /\ tool[t].kind = "backup"
          /\ backup' = [backup EXCEPT ![tool[t].to] = Published(t)]
          /\ UNCHANGED data
       \/ /\ tool[t].kind = "import"
          /\ Supported(tool[t].db) /\ SameContent(t)
          /\ LET db == Migrated(tool[t].db)
             IN  data' = [data EXCEPT ![tool[t].to] =
                               [db |-> db, files |-> tool[t].files]]
          /\ UNCHANGED backup
    /\ tool' = [tool EXCEPT ![t] = Idle]
    /\ torn' = Inherited(tool[t].from, tool[t].to)
    /\ UNCHANGED <<code, serverVars>>

(* A check fails, a file vanishes or the process ends: what was staged is  *)
(* never looked at again.                                                  *)
FailCopy(t) ==
    /\ Copying(t)
    /\ tool' = [tool EXCEPT ![t] = Idle]
    /\ UNCHANGED <<code, data, torn, serverVars, backup>>

-----------------------------------------------------------------------------
(* restore, whose destination, unlike the source of a copy, is taken to be *)
(* quiesced.                                                               *)

(* The copy is checked and renamed to a path that does not exist.          *)
RestoreNew(b, d) ==
    /\ backup[b] # None /\ data[d] = None /\ server # d
    /\ data' = [data EXCEPT ![d] = backup[b]]
    /\ torn' = Inherited(b, d)
    /\ UNCHANGED <<code, serverVars, tool, backup>>

(* An empty directory, which a new volume is.                              *)
MakeVolume(d) ==
    /\ data[d] = None
    /\ data' = [data EXCEPT ![d] = EmptyDirectory]
    /\ UNCHANGED <<code, serverVars, toolVars>>

StartRestore(t, b, d) ==
    /\ At(t, "idle") /\ backup[b] # None
    /\ data[d] = EmptyDirectory /\ server # d /\ Quiesced(d)
    /\ tool' = [tool EXCEPT ![t] = [pc |-> "moving", to |-> d, backup |-> b,
                                    todo |-> {"database", "files"}]]
    /\ torn' = torn \cup {d}
    /\ UNCHANGED <<code, data, serverVars, backup>>

(* Its children are moved into the directory one by one.                   *)
MoveChild(t, child) ==
    /\ At(t, "moving") /\ child \in tool[t].todo
    /\ LET r == backup[tool[t].backup]
           d == tool[t].to
       IN  /\ data' = IF child = "files"
                      THEN [data EXCEPT ![d].files = r.files]
                      ELSE [data EXCEPT ![d].db = r.db]
           /\ IF tool[t].todo = {child}
              THEN /\ torn' = Inherited(tool[t].backup, d)
                   /\ tool' = [tool EXCEPT ![t] = Idle]
              ELSE /\ tool' = [tool EXCEPT ![t].todo = @ \ {child}]
                   /\ UNCHANGED torn
    /\ UNCHANGED <<code, serverVars, backup>>

CutRestore(t) ==
    /\ At(t, "moving")
    /\ tool' = [tool EXCEPT ![t] = Idle]
    /\ UNCHANGED <<code, data, torn, serverVars, backup>>

-----------------------------------------------------------------------------
ServerStep ==
    \/ \E d \in Dirs : Start(d) \/ TornStart(d) \/ ClassicWrite(d)
    \/ \E v \in 1..MaxVersion : Install(v)
    \/ Stop \/ WriteContent
    \/ CleanFiles \/ CleanRows \/ Bind
    \/ \E u \in Uploads :
          \/ BeginUpload(u) \/ EndFile(u) \/ StoreUpload(u)
          \/ Expire(u) \/ Validate(u) \/ EndTask(u)

ToolStep(t) ==
    \/ \E d, path \in Dirs : StartCopy(t, "import", d, path)
    \/ \E d \in Dirs, b \in Backups :
          StartCopy(t, "backup", d, b) \/ StartRestore(t, b, d)
    \/ CopyDatabase(t) \/ FinishCopy(t) \/ FailCopy(t) \/ CutRestore(t)
    \/ \E u \in Uploads : CopyFile(t, u)
    \/ \E child \in {"database", "files"} : MoveChild(t, child)

Next ==
    \/ ServerStep
    \/ \E t \in Tools : ToolStep(t)
    \/ \E d \in Dirs : MakeVolume(d) \/ \E b \in Backups : RestoreNew(b, d)

Spec == Init /\ [][Next]_vars

-----------------------------------------------------------------------------
(* Properties.                                                             *)

Copy == [db : Database, files : Files]
ToolType ==
    {Idle}
    \cup [pc : {"database"}, kind : {"backup", "import"}, from : Dirs,
          to : Dirs \cup Backups, before : Files, first : 0..MaxContent,
          written : BOOLEAN]
    \cup [pc : {"files"}, kind : {"backup", "import"}, from : Dirs,
          to : Dirs \cup Backups, before : Files, first : 0..MaxContent,
          written : BOOLEAN, db : Database, files : Files,
          todo : SUBSET Uploads]
    \cup [pc : {"moving"}, to : Dirs, backup : Backups,
          todo : (SUBSET {"database", "files"}) \ {{}}]

(* The types; and the program never runs on a schema it does not know.     *)
TypeOK ==
    /\ code \in 1..MaxVersion
    /\ data \in [Dirs -> Directory \cup {None}] /\ torn \subseteq Dirs \cup Backups
    /\ server \in Dirs \cup {None} /\ creating \in Uploads \cup {None}
    /\ cleaning \subseteq Uploads /\ uploading \subseteq Uploads
    /\ tool \in [Tools -> ToolType]
    /\ backup \in [Backups -> Copy \cup {None}]
    /\ server # None => data[server].db # None

HaveFiles(db, files) ==
    \A u \in Uploads :
       db.rows[u] \in {"free", "bound", "ended"} => files[u] = "whole"

(* In every directory and in every backup an input that has not expired is *)
(* there with its row: whatever crashed or was cleaned up, and also if the *)
(* Server ran while the backup was made.  Only what stems from a directory *)
(* that a restore was cut off in may lack files.                           *)
RowsHaveFiles ==
    /\ \A d \in Dirs \ torn :
          data[d] # None /\ data[d].db # None =>
             HaveFiles(data[d].db, data[d].files)
    /\ \A b \in Backups \ torn :
          backup[b] # None => HaveFiles(backup[b].db, backup[b].files)

(* The Server serves a database of its own schema only: a newer one is     *)
(* left alone by an older program, and an older one is migrated first.     *)
ServedIsCurrent == server # None => data[server].db.schema = code

(* Nothing that was stored is lost or taken back to an older state, by no  *)
(* upgrade, downgrade, crash or tool.                                      *)
NothingIsLost ==
    [][/\ \A b \in Backups : backup[b] # None => backup'[b] = backup[b]
       /\ \A d \in Dirs : data[d] # None /\ data[d].db # None =>
             /\ data'[d] # None /\ data'[d].db # None
             /\ data'[d].db.schema >= data[d].db.schema
             /\ data'[d].db.content >= data[d].db.content]_vars

=============================================================================
