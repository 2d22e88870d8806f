------------------------ MODULE DataDirectoryProofs ------------------------
(* Proofs about DataDirectory: inputs keep their files, the Server serves   *)
(* its own schema, and no tool takes anything back.                         *)
EXTENDS DataDirectory, TLAPS

-----------------------------------------------------------------------------
(* The invariant.                                                           *)

Kept == {"free", "bound", "ended"}

(* A copy w of a directory that is now x.  A file that was whole when the   *)
(* copy began is whole or gone; an input that was incomplete then and that  *)
(* has a row in the copy has kept its row; and what was copied of a file    *)
(* that is whole still was whole.                                           *)
CopySound(w, x) ==
    /\ x # None /\ x.db # None
    /\ w.to \in (IF w.kind = "backup" THEN Backups ELSE Dirs)
    /\ \A u \in Uploads : w.before[u] = "whole" => x.files[u] \in {"whole", "gone"}
    /\ w.pc = "files" => \A u \in Uploads :
          /\ w.db.rows[u] \in Kept /\ w.before[u] # "whole" => x.db.rows[u] \in Kept
          /\ u \notin w.todo /\ w.before[u] = "whole" /\ x.files[u] = "whole"
                => w.files[u] = "whole"

(* A restore w of a backup r into a directory that is now x.                *)
MoveSound(w, x, r) ==
    /\ x # None /\ r # None
    /\ IF "database" \in w.todo THEN x.db = None
       ELSE x.db # None /\ x.db.rows = r.db.rows
    /\ x.files = IF "files" \in w.todo THEN NoFiles ELSE r.files

StorageTypes ==
    /\ data \in [Dirs -> Directory \cup {None}]
    /\ torn \subseteq Dirs \cup Backups
    /\ tool \in [Tools -> ToolType]
    /\ backup \in [Backups -> Copy \cup {None}]

DirsSound ==
    \A d \in Dirs \ torn :
       data[d] # None /\ data[d].db # None => HaveFiles(data[d].db, data[d].files)
BackupsSound ==
    \A b \in Backups \ torn : backup[b] # None => HaveFiles(backup[b].db, backup[b].files)
CopiesSound ==
    \A t \in Tools : Copying(t) => CopySound(tool[t], data[tool[t].from])
MovesSound ==
    \A t \in Tools : At(t, "moving") =>
       /\ MoveSound(tool[t], data[tool[t].to], backup[tool[t].backup])
       /\ tool[t].to \in torn /\ tool[t].to # server
Apart ==
    \A t, z \in Tools : At(t, "moving") /\ At(z, "moving") /\ t # z => tool[t].to # tool[z].to

Storage == StorageTypes /\ DirsSound /\ BackupsSound /\ CopiesSound /\ MovesSound /\ Apart

(* The Server's directory, x.  An input that is being received has no row;  *)
(* the one that is about to be bound has its file, unless cleanup has come  *)
(* upon it; and what cleanup has deleted the files of had expired.          *)
ServesSound(x, whole, receiving, binding, cleaned) ==
    /\ x # None /\ x.db # None
    /\ x.db.schema = code
    /\ \A u \in receiving : x.db.rows[u] = "none"
    /\ \A u \in cleaned : x.db.rows[u] = "expired"
    /\ binding # None /\ whole =>
          \/ x.db.rows[binding] = "none" \/ x.files[binding] = "whole"
          \/ binding \in cleaned

Serves ==
    /\ code \in 1..MaxVersion
    /\ server \in Dirs \cup {None} /\ creating \in Uploads \cup {None}
    /\ cleaning \subseteq Uploads /\ uploading \subseteq Uploads
    /\ server = None => uploading = {} /\ creating = None /\ cleaning = {}
    /\ server # None =>
          ServesSound(data[server], server \notin torn, uploading, creating, cleaning)

Inv == Storage /\ Serves

-----------------------------------------------------------------------------
(* The tools.                                                               *)

Began == [pc : {"database"}, kind : {"backup", "import"}, from : Dirs,
          to : Dirs \cup Backups, before : Files, first : 0..MaxContent,
          written : BOOLEAN]
Filing == [pc : {"files"}, kind : {"backup", "import"}, from : Dirs,
           to : Dirs \cup Backups, before : Files, first : 0..MaxContent,
           written : BOOLEAN, db : Database, files : Files, todo : SUBSET Uploads]
Moving == [pc : {"moving"}, to : Dirs, backup : Backups,
           todo : (SUBSET {"database", "files"}) \ {{}}]

LEMMA ToolIs ==
  ASSUME NEW w \in ToolType
  PROVE  /\ w.pc \in {"idle", "database", "files", "moving"}
         /\ w.pc = "database" <=> w \in Began
         /\ w.pc = "files" <=> w \in Filing
         /\ w.pc = "moving" <=> w \in Moving
<1>1. w \in {Idle} \cup Began \cup Filing \cup Moving
  BY Zenon DEF ToolType, Began, Filing, Moving
<1>2. /\ w = Idle => w.pc = "idle"
      /\ w \in Began => w.pc = "database"
      /\ w \in Filing => w.pc = "files"
      /\ w \in Moving => w.pc = "moving"
  BY DEF Idle, Began, Filing, Moving
<1> QED
  BY <1>1, <1>2

LEMMA ToolsAre ==
  /\ Idle \in ToolType /\ Idle.pc = "idle"
  /\ Began \subseteq ToolType /\ Filing \subseteq ToolType /\ Moving \subseteq ToolType
<1>1. ToolType = {Idle} \cup Began \cup Filing \cup Moving
  BY Zenon DEF ToolType, Began, Filing, Moving
<1> QED
  BY <1>1 DEF Idle

(* The part of a copy that its soundness rests on.                          *)
SameCopy(w, v) ==
    /\ v.pc = w.pc
    /\ w.pc \in {"database", "files"} =>
          v.kind = w.kind /\ v.from = w.from /\ v.to = w.to /\ v.before = w.before
    /\ w.pc = "files" => v.db = w.db /\ v.files = w.files /\ v.todo = w.todo
    /\ w.pc \notin {"database", "files"} => v = w

ToolsAsBefore ==
    /\ tool' \in [Tools -> ToolType]
    /\ \A t \in Tools : SameCopy(tool[t], tool'[t])

LEMMA SameCopySound ==
  ASSUME NEW w, NEW v, NEW x, w.pc \in {"database", "files"}, SameCopy(w, v), CopySound(w, x)
  PROVE  CopySound(v, x)
  BY DEF SameCopy, CopySound

(* A checkpoint is noted by the copies it concerns, and by nothing else.    *)
LEMMA Checkpoints ==
  ASSUME StorageTypes, NEW d, Checkpoint(d) \/ UNCHANGED tool
  PROVE  ToolsAsBefore
<1>1. CASE UNCHANGED tool
  BY <1>1 DEF StorageTypes, ToolsAsBefore, SameCopy
<1>2. CASE Checkpoint(d)
  <2> DEFINE Noted(w) == [w EXCEPT !.written = TRUE]
  <2>1. ASSUME NEW w \in ToolType, w.pc \in {"database", "files"}
        PROVE  Noted(w) \in ToolType /\ SameCopy(w, Noted(w))
    <3>1. CASE w \in Began
      <4>1. Noted(w) \in Began /\ SameCopy(w, Noted(w))
        BY <3>1 DEF Began, SameCopy
      <4> QED
        BY <4>1, ToolsAre
    <3>2. CASE w \in Filing
      <4>1. Noted(w) \in Filing /\ SameCopy(w, Noted(w))
        BY <3>2 DEF Filing, SameCopy
      <4> QED
        BY <4>1, ToolsAre
    <3> QED
      BY <2>1, <3>1, <3>2, ToolIs
  <2>2. tool' = [t \in Tools |-> IF Copying(t) /\ tool[t].from = d
                                THEN Noted(tool[t]) ELSE tool[t]]
    BY <1>2 DEF Checkpoint
  <2> HIDE DEF Noted
  <2>3. ASSUME NEW t \in Tools
        PROVE  tool'[t] \in ToolType /\ SameCopy(tool[t], tool'[t])
    <3>1. tool[t] \in ToolType /\ SameCopy(tool[t], tool[t])
      BY DEF StorageTypes, SameCopy
    <3>2. tool'[t] = IF Copying(t) /\ tool[t].from = d THEN Noted(tool[t]) ELSE tool[t]
      BY <2>2
    <3> QED
      BY <2>1, <3>1, <3>2 DEF Copying
  <2>4. tool' \in [Tools -> ToolType]
    <3>1. tool' = [t \in Tools |-> tool'[t]]
      BY <2>2
    <3> QED
      BY <2>3, <3>1
  <2> QED
    BY <2>3, <2>4 DEF ToolsAsBefore
<1> QED
  BY <1>1, <1>2

-----------------------------------------------------------------------------
(* Writing to a directory.                                                  *)

(* How files and rows change while copies may be made of them: a file does  *)
(* not come back, and an input keeps its row unless every copy that is      *)
(* going on found it whole.                                                 *)
FilesGoOn(f, g) == \A u \in Uploads : /\ f[u] = "whole" => g[u] \in {"whole", "gone"}
                                      /\ f[u] = "gone" => g[u] = "gone"
RowsGoOn(a, b) ==
    \A u \in Uploads : a[u] \in Kept =>
       b[u] \in Kept \/ \A t \in Tools : Copying(t) => tool[t].before[u] = "whole"

LEMMA CopyGoesOn ==
  ASSUME NEW t \in Tools, Copying(t), NEW x, NEW y,
         CopySound(tool[t], x), y # None, y.db # None,
         FilesGoOn(x.files, y.files), RowsGoOn(x.db.rows, y.db.rows)
  PROVE  CopySound(tool[t], y)
  BY DEF CopySound, FilesGoOn, RowsGoOn

LEMMA EmptyIs ==
  /\ EmptyDatabase \in Database
  /\ NoFiles \in Files
  /\ EmptyDirectory \in Directory /\ EmptyDirectory # None
  /\ EmptyDirectory.db = None /\ EmptyDirectory.files = NoFiles
  /\ \A f : HaveFiles(EmptyDatabase, f)
<1>1. /\ EmptyDatabase.rows = [u \in Uploads |-> "none"]
      /\ EmptyDatabase \in Database
  <2>1. 0 \in 0..MaxVersion /\ 0 \in 0..MaxContent
    BY DataAssumption
  <2>2. [u \in Uploads |-> "none"] \in [Uploads -> RowStates]
    BY DEF RowStates
  <2> QED
    BY <2>1, <2>2 DEF EmptyDatabase, Database
<1>2. NoFiles \in Files
  BY DEF NoFiles, Files, FileStates
<1>3. EmptyDirectory \in Directory
  BY <1>2 DEF EmptyDirectory, Directory
<1> QED
  BY <1>1, <1>2, <1>3, NoneAssumption DEF EmptyDirectory, HaveFiles

(* A directory, as the programs find it.                                    *)
LEMMA DirIs ==
  ASSUME StorageTypes, NEW d \in Dirs
  PROVE  /\ Here(d) \in Directory /\ Found(d) \in Database /\ Here(d).files \in Files
         /\ data[d] # None => Here(d) = data[d] /\ data[d] \in Directory
         /\ data[d] # None /\ data[d].db # None =>
                Found(d) = data[d].db /\ data[d].db \in Database /\ data[d].files \in Files
         /\ DirsSound /\ d \notin torn => HaveFiles(Found(d), Here(d).files)
<1>1. Here(d) \in Directory
  BY EmptyIs DEF StorageTypes, Here
<1>2. Here(d).files \in Files /\ Here(d).db \in Database \cup {None}
  BY <1>1 DEF Directory
<1>3. Found(d) \in Database
  BY <1>2, EmptyIs DEF Found
<1>4. data[d] # None => Here(d) = data[d] /\ data[d] \in Directory
  BY DEF Here, StorageTypes
<1>5. data[d] # None /\ data[d].db # None => Found(d) = data[d].db
  BY <1>4 DEF Found
<1>6. DirsSound /\ d \notin torn => HaveFiles(Found(d), Here(d).files)
  BY <1>4, <1>5, EmptyIs DEF DirsSound, Found, Here
<1> QED
  BY <1>1, <1>2, <1>3, <1>4, <1>5, <1>6

LEMMA DirWritten ==
  ASSUME Storage, NEW d \in Dirs, NEW db \in Database, NEW files \in Files,
         data' = [data EXCEPT ![d] = [db |-> db, files |-> files]],
         ToolsAsBefore, UNCHANGED <<torn, backup>>,
         FilesGoOn(Here(d).files, files), RowsGoOn(Found(d).rows, db.rows),
         d \notin torn /\ HaveFiles(Found(d), Here(d).files) => HaveFiles(db, files),
         \/ Quiesced(d) /\ server' \in {server, None, d}
         \/ /\ server' = server /\ data[d] # None /\ data[d].db # None
            /\ db.rows = data[d].db.rows /\ files = data[d].files
  PROVE  Storage'
<1> DEFINE x == [db |-> db, files |-> files]
<1>1. x \in Directory /\ x # None /\ x.db = db /\ x.db # None /\ x.files = files
  BY NoneAssumption DEF Directory
<1> HIDE DEF x
<1>2. StorageTypes
  BY DEF Storage
<1>3. \A e \in Dirs : data'[e] = IF e = d THEN x ELSE data[e]
  BY <1>2 DEF StorageTypes, x
<1>4. StorageTypes'
  <2>1. data' \in [Dirs -> Directory \cup {None}]
    BY <1>1, <1>2 DEF StorageTypes, x
  <2> QED
    BY <1>2, <2>1 DEF StorageTypes, ToolsAsBefore
<1>5. DirsSound'
  <2> SUFFICES ASSUME NEW e \in Dirs, e \notin torn, data'[e] # None, data'[e].db # None
               PROVE  HaveFiles(data'[e].db, data'[e].files)
    BY DEF DirsSound
  <2>1. CASE e = d
    BY <1>1, <1>2, <1>3, <2>1, DirIs DEF Storage
  <2>2. CASE e # d
    BY <1>3, <2>2 DEF Storage, DirsSound
  <2> QED
    BY <2>1, <2>2
<1>6. BackupsSound'
  BY DEF Storage, BackupsSound
<1>7. CopiesSound'
  <2> SUFFICES ASSUME NEW t \in Tools, Copying(t)'
               PROVE  CopySound(tool'[t], data'[tool'[t].from])
    BY DEF CopiesSound
  <2>1. SameCopy(tool[t], tool'[t]) /\ tool[t] \in ToolType
    BY <1>2 DEF ToolsAsBefore, StorageTypes
  <2>2. Copying(t) /\ tool'[t].from = tool[t].from
    BY <2>1 DEF Copying, SameCopy
  <2>3. tool[t].from \in Dirs
    BY <2>1, <2>2, ToolIs DEF Copying, Began, Filing
  <2>4. CopySound(tool[t], data[tool[t].from])
    BY <2>2 DEF Storage, CopiesSound
  <2>5. CopySound(tool[t], data'[tool[t].from])
    <3>1. CASE tool[t].from = d
      <4>1. data[d] # None /\ data[d].db # None
        BY <2>4, <3>1 DEF CopySound
      <4>2. Here(d) = data[d] /\ Found(d) = data[d].db
        BY <1>2, <4>1, DirIs
      <4>3. CopySound(tool[t], x)
        BY <1>1, <2>2, <2>4, <3>1, <4>2, CopyGoesOn
      <4> QED
        BY <1>3, <3>1, <4>3
    <3>2. CASE tool[t].from # d
      BY <1>3, <2>3, <2>4, <3>2
    <3> QED
      BY <3>1, <3>2
  <2> QED
    BY <2>1, <2>2, <2>5, SameCopySound DEF Copying
<1>8. ASSUME NEW t \in Tools, At(t, "moving")'
      PROVE  tool'[t] = tool[t] /\ At(t, "moving") /\ tool[t].to \in Dirs
  <2>1. SameCopy(tool[t], tool'[t]) /\ tool[t] \in ToolType
    BY <1>2 DEF ToolsAsBefore, StorageTypes
  <2>2. tool'[t] = tool[t] /\ At(t, "moving")
    BY <1>8, <2>1 DEF At, SameCopy
  <2> QED
    BY <2>1, <2>2, ToolIs DEF At, Moving
<1>9. MovesSound'
  <2> SUFFICES ASSUME NEW t \in Tools, At(t, "moving")'
               PROVE  /\ MoveSound(tool'[t], data'[tool'[t].to], backup[tool'[t].backup])
                      /\ tool'[t].to \in torn /\ tool'[t].to # server'
    BY DEF MovesSound
  <2>1. tool'[t] = tool[t] /\ At(t, "moving") /\ tool[t].to \in Dirs
    BY <1>8
  <2>2. /\ MoveSound(tool[t], data[tool[t].to], backup[tool[t].backup])
        /\ tool[t].to \in torn /\ tool[t].to # server
    BY <2>1 DEF Storage, MovesSound
  <2>3. CASE tool[t].to # d
    BY <1>3, <2>1, <2>2, <2>3, NoneAssumption
  <2>4. CASE tool[t].to = d
    <3>1. ~Quiesced(d)
      BY <2>1, <2>4 DEF Quiesced
    <3>2. MoveSound(tool[t], x, backup[tool[t].backup])
      BY <1>1, <2>2, <2>4, <3>1 DEF MoveSound
    <3> QED
      BY <1>3, <2>1, <2>2, <2>4, <3>1, <3>2
  <2> QED
    BY <2>3, <2>4
<1>10. Apart'
  BY <1>8 DEF Storage, Apart
<1> QED
  BY <1>4, <1>5, <1>6, <1>7, <1>9, <1>10 DEF Storage
-----------------------------------------------------------------------------
(* The Server at work.                                                      *)

(* What the Server finds in its directory.                                  *)
LEMMA Served ==
  ASSUME Inv, server # None
  PROVE  /\ server \in Dirs /\ Quiesced(server)
         /\ data[server] \in Directory /\ data[server].db \in Database
         /\ data[server].files \in [Uploads -> FileStates]
         /\ data[server].db.rows \in [Uploads -> RowStates]
         /\ data[server].db.refs \subseteq Uploads
         /\ Here(server) = data[server] /\ Found(server) = data[server].db
         /\ ServesSound(data[server], server \notin torn, uploading, creating, cleaning)
         /\ server \notin torn => HaveFiles(data[server].db, data[server].files)
<1>1. server \in Dirs /\ StorageTypes /\ DirsSound
  BY DEF Inv, Serves, Storage
<1>2. ServesSound(data[server], server \notin torn, uploading, creating, cleaning)
  BY DEF Inv, Serves
<1>3. data[server] # None /\ data[server].db # None
  BY <1>2 DEF ServesSound
<1>4. /\ data[server] \in Directory /\ data[server].db \in Database
      /\ data[server].files \in Files
      /\ Here(server) = data[server] /\ Found(server) = data[server].db
      /\ server \notin torn => HaveFiles(data[server].db, data[server].files)
  BY <1>1, <1>3, DirIs
<1>5. Quiesced(server)
  BY DEF Inv, Storage, MovesSound, Quiesced
<1> QED
  BY <1>1, <1>2, <1>4, <1>5 DEF Database, Files

LEMMA ServerWrites ==
  ASSUME Inv, server # None, NEW db \in Database, NEW files \in Files,
         data' = [data EXCEPT ![server] = [db |-> db, files |-> files]],
         Checkpoint(server) \/ UNCHANGED tool, UNCHANGED <<code, server, torn, backup>>,
         FilesGoOn(data[server].files, files), RowsGoOn(data[server].db.rows, db.rows),
         server \notin torn => HaveFiles(db, files),
         db.schema = data[server].db.schema,
         uploading' \subseteq Uploads, cleaning' \subseteq Uploads,
         creating' \in Uploads \cup {None},
         \A u \in uploading' : db.rows[u] = "none",
         \A u \in cleaning' : db.rows[u] = "expired",
         creating' # None /\ server \notin torn =>
            db.rows[creating'] = "none" \/ files[creating'] = "whole" \/ creating' \in cleaning'
  PROVE  Inv'
<1> DEFINE x == [db |-> db, files |-> files]
<1>1. x.db = db /\ x.files = files /\ x # None /\ x.db # None
  BY NoneAssumption DEF Directory
<1> HIDE DEF x
<1>2. server \in Dirs /\ data'[server] = x /\ Quiesced(server)
  BY Served DEF Inv, Storage, StorageTypes, x
<1>3. Storage'
  <2>1. ToolsAsBefore
    BY Checkpoints DEF Inv, Storage
  <2>2. Here(server) = data[server] /\ Found(server) = data[server].db
    BY Served
  <2> QED
    BY <1>2, <2>1, <2>2, DirWritten DEF Inv
<1>4. ServesSound(x, server \notin torn, uploading, creating, cleaning)'
  <2>1. data[server].db.schema = code
    BY Served DEF ServesSound
  <2> QED
    BY <1>1, <2>1 DEF ServesSound, x
<1>5. Serves'
  BY <1>2, <1>4 DEF Inv, Serves, x
<1> QED
  BY <1>3, <1>5 DEF Inv

(* A database after a write to the rows of the uploads and to the refs.     *)
LEMMA Rewritten ==
  ASSUME NEW db \in Database, NEW rows \in [Uploads -> RowStates], NEW refs \in SUBSET Uploads
  PROVE  /\ [db EXCEPT !.rows = rows] = [schema |-> db.schema, content |-> db.content,
                                         rows |-> rows, refs |-> db.refs]
         /\ [db EXCEPT !.refs = refs, !.rows = rows]
               = [schema |-> db.schema, content |-> db.content, rows |-> rows, refs |-> refs]
         /\ [schema |-> db.schema, content |-> db.content, rows |-> rows, refs |-> refs]
               \in Database
         /\ db.refs \in SUBSET Uploads
<1> DEFINE R == [Uploads -> RowStates]
           S == SUBSET Uploads
<1>1. Database = [schema : 0..MaxVersion, content : 0..MaxContent, rows : R, refs : S]
  BY DEF Database
<1>2. rows \in R /\ refs \in S
  OBVIOUS
<1> HIDE DEF R, S
<1>3. db.refs \in S
  BY <1>1
<1>4. [schema |-> db.schema, content |-> db.content, rows |-> rows, refs |-> refs] \in Database
  BY <1>1, <1>2
<1>5. [db EXCEPT !.rows = rows]
         = [schema |-> db.schema, content |-> db.content, rows |-> rows, refs |-> db.refs]
  BY <1>1
<1>6. [db EXCEPT !.refs = refs, !.rows = rows]
         = [schema |-> db.schema, content |-> db.content, rows |-> rows, refs |-> refs]
  <2> DEFINE a == [db EXCEPT !.refs = refs]
  <2>1. a = [schema |-> db.schema, content |-> db.content, rows |-> db.rows, refs |-> refs]
    BY <1>1
  <2> HIDE DEF a
  <2>2. ASSUME NEW i, NEW j, NEW k, NEW l, NEW m
        PROVE  [[schema |-> i, content |-> j, rows |-> k, refs |-> l] EXCEPT !.rows = m]
                  = [schema |-> i, content |-> j, rows |-> m, refs |-> l]
    OBVIOUS
  <2>3. [a EXCEPT !.rows = rows]
           = [schema |-> db.schema, content |-> db.content, rows |-> rows, refs |-> refs]
    BY <2>1, <2>2
  <2> QED
    BY <2>3 DEF a
<1>7. db.refs \in SUBSET Uploads
  BY <1>3 DEF S
<1> QED
  BY <1>4, <1>5, <1>6, <1>7

(* Only rows, refs and files are written.                                   *)
LEMMA UploadsWritten ==
  ASSUME Inv, server # None,
         NEW rows \in [Uploads -> RowStates], NEW refs \in SUBSET Uploads,
         NEW files \in [Uploads -> FileStates],
         data' = [data EXCEPT ![server] =
                    [db |-> [schema |-> data[server].db.schema,
                             content |-> data[server].db.content,
                             rows |-> rows, refs |-> refs],
                     files |-> files]],
         Checkpoint(server) \/ UNCHANGED tool, UNCHANGED <<code, server, torn, backup>>,
         FilesGoOn(data[server].files, files), RowsGoOn(data[server].db.rows, rows),
         server \notin torn => \A u \in Uploads : rows[u] \in Kept => files[u] = "whole",
         uploading' \subseteq Uploads, cleaning' \subseteq Uploads,
         creating' \in Uploads \cup {None},
         \A u \in uploading' : rows[u] = "none",
         \A u \in cleaning' : rows[u] = "expired",
         creating' # None /\ server \notin torn =>
            rows[creating'] = "none" \/ files[creating'] = "whole" \/ creating' \in cleaning'
  PROVE  Inv'
<1> DEFINE db == [schema |-> data[server].db.schema, content |-> data[server].db.content,
                  rows |-> rows, refs |-> refs]
<1>1. db \in Database
  BY Served, Rewritten
<1>2. db.rows = rows /\ db.schema = data[server].db.schema
  OBVIOUS
<1>3. files \in Files
  BY DEF Files
<1>4. data' = [data EXCEPT ![server] = [db |-> db, files |-> files]]
  OBVIOUS
<1> HIDE DEF db
<1>5. server \notin torn => HaveFiles(db, files)
  BY <1>2 DEF HaveFiles, Kept
<1> QED
  BY <1>1, <1>2, <1>3, <1>4, <1>5, ServerWrites

(* The same, of the uploads as the Server finds them.                       *)
LEMMA UploadsAre ==
  ASSUME Inv, server # None
  PROVE  /\ data[server].files \in [Uploads -> FileStates]
         /\ data[server].db.rows \in [Uploads -> RowStates]
         /\ data[server].db.refs \in SUBSET Uploads
         /\ \A u \in uploading : data[server].db.rows[u] = "none"
         /\ \A u \in cleaning : data[server].db.rows[u] = "expired"
         /\ uploading \subseteq Uploads /\ cleaning \subseteq Uploads
         /\ creating \in Uploads \cup {None}
         /\ server \notin torn => \A u \in Uploads :
               data[server].db.rows[u] \in Kept => data[server].files[u] = "whole"
         /\ creating # None /\ server \notin torn =>
               \/ data[server].db.rows[creating] = "none"
               \/ data[server].files[creating] = "whole"
               \/ creating \in cleaning
  BY Served DEF ServesSound, HaveFiles, Kept, Inv, Serves

(* One row, or one file, is written: nothing else changes.                  *)
LEMMA WriteContentSound == ASSUME Inv, WriteContent PROVE Inv'
<1> DEFINE x == data[server]
           db == [x.db EXCEPT !.content = x.db.content + 1]
<1>1. server # None /\ x.db.content < MaxContent
  BY DEF WriteContent, Serving
<1>2. x \in Directory /\ x.db \in Database /\ x.files \in Files
  BY <1>1, Served DEF Files
<1>3. x.db.content + 1 \in 0..MaxContent
  BY <1>1, <1>2, DataAssumption DEF Database
<1>4. db \in Database /\ db.rows = x.db.rows /\ db.schema = x.db.schema
  BY <1>2, <1>3 DEF Database
<1>5. /\ data' = [data EXCEPT ![server] = [db |-> db, files |-> x.files]]
      /\ Checkpoint(server) \/ UNCHANGED tool
      /\ UNCHANGED <<code, server, torn, backup, uploading, creating, cleaning>>
  BY DEF WriteContent, Commit, serverVars
<1> HIDE DEF db
<1>6. server \notin torn => HaveFiles(db, x.files)
  BY <1>1, <1>4, Served DEF HaveFiles
<1>7. FilesGoOn(x.files, x.files) /\ RowsGoOn(x.db.rows, db.rows)
  BY <1>4 DEF FilesGoOn, RowsGoOn
<1> QED
  BY <1>1, <1>2, <1>4, <1>5, <1>6, <1>7, UploadsAre, ServerWrites

LEMMA ReceiveSound ==
  ASSUME Inv, NEW u \in Uploads, BeginUpload(u) \/ EndFile(u) \/ StoreUpload(u)
  PROVE  Inv'
<1> DEFINE x == data[server]
           r == x.db.rows
           f == x.files
<1>1. server # None /\ cleaning = {}
  BY DEF BeginUpload, EndFile, StoreUpload, Serving
<1>2. /\ x.db \in Database /\ x.db.refs \in SUBSET Uploads
      /\ f \in [Uploads -> FileStates] /\ r \in [Uploads -> RowStates]
  BY <1>1, Served
<1>3. /\ x.db = [x.db EXCEPT !.rows = r]
      /\ x.db = [schema |-> x.db.schema, content |-> x.db.content, rows |-> r,
                 refs |-> x.db.refs]
  BY <1>2 DEF Database
<1>4. UNCHANGED <<code, server, torn, backup, creating, cleaning>>
  BY DEF BeginUpload, EndFile, StoreUpload
<1>5. ASSUME NEW rows \in [Uploads -> RowStates], NEW files \in [Uploads -> FileStates],
             Commit(server, [x.db EXCEPT !.rows = rows], files),
             FilesGoOn(f, files), RowsGoOn(r, rows),
             server \notin torn => \A z \in Uploads : rows[z] \in Kept => files[z] = "whole",
             uploading' \subseteq Uploads, \A z \in uploading' : rows[z] = "none",
             creating # None /\ server \notin torn =>
                rows[creating] = "none" \/ files[creating] = "whole"
      PROVE  Inv'
  <2>1. data' = [data EXCEPT ![server] =
                   [db |-> [schema |-> x.db.schema, content |-> x.db.content,
                            rows |-> rows, refs |-> x.db.refs],
                    files |-> files]]
    BY <1>2, <1>5, Rewritten DEF Commit
  <2>2. Checkpoint(server) \/ UNCHANGED tool
    BY <1>5 DEF Commit
  <2>3. /\ creating' \in Uploads \cup {None} /\ cleaning' \subseteq Uploads
        /\ \A z \in cleaning' : rows[z] = "expired"
    BY <1>1, <1>4, UploadsAre
  <2> QED
    BY <1>1, <1>2, <1>4, <1>5, <2>1, <2>2, <2>3, UploadsWritten
<1>6. /\ \A z \in uploading : r[z] = "none"
      /\ uploading \subseteq Uploads /\ creating \in Uploads \cup {None}
      /\ server \notin torn => \A z \in Uploads : r[z] \in Kept => f[z] = "whole"
      /\ creating # None /\ server \notin torn => r[creating] = "none" \/ f[creating] = "whole"
  BY <1>1, UploadsAre
<1>7. CASE BeginUpload(u)
  <2> DEFINE rows == WithoutRows(r, Expired)
             files == [WithoutFiles(f, Expired) EXCEPT ![u] = "part"]
  <2>1. r[u] = "none" /\ f[u] = "none" /\ uploading' = uploading \cup {u}
    BY <1>7 DEF BeginUpload, Row, File
  <2>2. \A z \in Uploads : z \in Expired <=> r[z] = "expired"
    BY DEF Expired, Row
  <2>3. /\ rows \in [Uploads -> RowStates]
        /\ \A z \in Uploads : rows[z] = IF r[z] = "expired" THEN "none" ELSE r[z]
    BY <1>2, <2>2 DEF WithoutRows, RowStates
  <2>4. /\ files \in [Uploads -> FileStates]
        /\ \A z \in Uploads : files[z] = IF z = u THEN "part"
                                        ELSE IF r[z] = "expired" THEN "gone" ELSE f[z]
    BY <1>2, <2>2 DEF WithoutFiles, FileStates
  <2>5. Commit(server, [x.db EXCEPT !.rows = rows], files)
    BY <1>7 DEF BeginUpload
  <2> HIDE DEF rows, files
  <2>6. FilesGoOn(f, files) /\ RowsGoOn(r, rows)
    BY <2>1, <2>3, <2>4 DEF FilesGoOn, RowsGoOn, Kept
  <2>7. server \notin torn => \A z \in Uploads : rows[z] \in Kept => files[z] = "whole"
    BY <1>6, <2>1, <2>3, <2>4 DEF Kept
  <2>8. uploading' \subseteq Uploads /\ \A z \in uploading' : rows[z] = "none"
    BY <1>6, <2>1, <2>3
  <2>9. creating # None /\ server \notin torn =>
           rows[creating] = "none" \/ files[creating] = "whole"
    BY <1>6, <2>1, <2>3, <2>4
  <2> QED
    BY <1>5, <2>3, <2>4, <2>5, <2>6, <2>7, <2>8, <2>9
<1>8. ASSUME u \in uploading, NEW s \in {"whole", "gone"}, f[u] = "whole" => s = "gone",
             f[u] # "gone", uploading' \subseteq uploading,
             Commit(server, x.db, [f EXCEPT ![u] = s])
      PROVE  Inv'
  <2> DEFINE files == [f EXCEPT ![u] = s]
  <2>1. r[u] = "none"
    BY <1>6, <1>8
  <2>2. files \in [Uploads -> FileStates] /\ \A z \in Uploads : files[z] = IF z = u THEN s ELSE f[z]
    BY <1>2, <1>8 DEF FileStates
  <2>3. Commit(server, [x.db EXCEPT !.rows = r], files)
    BY <1>3, <1>8
  <2> HIDE DEF files
  <2>4. FilesGoOn(f, files) /\ RowsGoOn(r, r)
    BY <1>8, <2>2 DEF FilesGoOn, RowsGoOn
  <2>5. server \notin torn => \A z \in Uploads : r[z] \in Kept => files[z] = "whole"
    BY <1>6, <2>1, <2>2 DEF Kept
  <2>6. creating # None /\ server \notin torn => r[creating] = "none" \/ files[creating] = "whole"
    BY <1>6, <2>1, <2>2
  <2>7. uploading' \subseteq Uploads /\ \A z \in uploading' : r[z] = "none"
    BY <1>6, <1>8
  <2> QED
    BY <1>2, <1>5, <2>2, <2>3, <2>4, <2>5, <2>6, <2>7
<1>9. CASE EndFile(u)
  <2>1. u \in uploading /\ f[u] = "part"
    BY <1>9 DEF EndFile, File
  <2>2. \/ Commit(server, x.db, [f EXCEPT ![u] = "whole"]) /\ uploading' = uploading
        \/ Commit(server, x.db, [f EXCEPT ![u] = "gone"]) /\ uploading' = uploading \ {u}
    BY <1>9 DEF EndFile
  <2> QED
    BY <1>8, <2>1, <2>2
<1>10. CASE StoreUpload(u)
  <2>1. u \in uploading /\ f[u] = "whole" /\ uploading' = uploading \ {u}
    BY <1>10 DEF StoreUpload, File
  <2>2. CASE Commit(server, x.db, [f EXCEPT ![u] = "gone"])
    BY <1>8, <2>1, <2>2
  <2>3. CASE Commit(server, [x.db EXCEPT !.rows[u] = "free"], f)
    <3> DEFINE rows == [r EXCEPT ![u] = "free"]
    <3>1. /\ rows \in [Uploads -> RowStates]
          /\ \A z \in Uploads : rows[z] = IF z = u THEN "free" ELSE r[z]
      BY <1>2 DEF RowStates
    <3>2. Commit(server, [x.db EXCEPT !.rows = rows], f)
      BY <2>3
    <3> HIDE DEF rows
    <3>3. FilesGoOn(f, f) /\ RowsGoOn(r, rows)
      BY <3>1 DEF FilesGoOn, RowsGoOn, Kept
    <3>4. server \notin torn => \A z \in Uploads : rows[z] \in Kept => f[z] = "whole"
      BY <1>6, <2>1, <3>1
    <3>5. uploading' \subseteq Uploads /\ \A z \in uploading' : rows[z] = "none"
      BY <1>6, <2>1, <3>1
    <3>6. creating # None /\ server \notin torn => rows[creating] = "none" \/ f[creating] = "whole"
      BY <1>6, <2>1, <3>1
    <3> QED
      BY <1>2, <1>5, <3>1, <3>2, <3>3, <3>4, <3>5, <3>6
  <2> QED
    BY <1>10, <2>2, <2>3 DEF StoreUpload
<1> QED
  BY <1>7, <1>9, <1>10

(* Cleanup, and the uploads of tasks.                                       *)
LEMMA UploadStepSound ==
  ASSUME Inv, server # None, UNCHANGED <<code, server, torn, backup, uploading>>,
         NEW rows \in [Uploads -> RowStates], NEW refs \in SUBSET Uploads,
         NEW files \in [Uploads -> FileStates],
         data' = [data EXCEPT ![server] =
                    [db |-> [schema |-> data[server].db.schema,
                             content |-> data[server].db.content,
                             rows |-> rows, refs |-> refs],
                     files |-> files]],
         Checkpoint(server) \/ UNCHANGED tool,
         FilesGoOn(data[server].files, files), RowsGoOn(data[server].db.rows, rows),
         server \notin torn => \A u \in Uploads : rows[u] \in Kept => files[u] = "whole",
         \A u \in uploading : data[server].db.rows[u] = "none" => rows[u] = "none",
         cleaning' \subseteq Uploads, \A u \in cleaning' : rows[u] = "expired",
         creating' \in {creating, None},
         creating' # None /\ server \notin torn =>
            rows[creating] = "none" \/ files[creating] = "whole" \/ creating \in cleaning'
  PROVE  Inv'
<1>1. /\ uploading' \subseteq Uploads /\ creating' \in Uploads \cup {None}
      /\ \A u \in uploading' : rows[u] = "none"
  BY UploadsAre
<1>2. creating' # None /\ server \notin torn =>
         rows[creating'] = "none" \/ files[creating'] = "whole" \/ creating' \in cleaning'
  OBVIOUS
<1> QED
  BY <1>1, <1>2, UploadsWritten

LEMMA ExpireSound == ASSUME Inv, NEW u \in Uploads, Expire(u) PROVE Inv'
<1> DEFINE x == data[server]
           rows == [x.db.rows EXCEPT ![u] = "expired"]
<1>1. /\ server # None /\ cleaning = {} /\ x.db.rows[u] \in {"free", "ended"}
      /\ \A t \in Tools : Copying(t) => tool[t].before[u] = "whole"
      /\ UNCHANGED <<code, server, torn, backup, uploading, creating, cleaning, tool>>
  BY DEF Expire, Row, serverVars, toolVars
<1>2. /\ x \in Directory /\ x.db \in Database /\ x.db.refs \in SUBSET Uploads
      /\ x.files \in [Uploads -> FileStates] /\ x.db.rows \in [Uploads -> RowStates]
      /\ server \in Dirs
  BY <1>1, Served
<1>3. /\ rows \in [Uploads -> RowStates]
      /\ \A z \in Uploads : rows[z] = IF z = u THEN "expired" ELSE x.db.rows[z]
  BY <1>2 DEF RowStates
<1>4. data' = [data EXCEPT ![server] =
                 [db |-> [schema |-> x.db.schema, content |-> x.db.content,
                          rows |-> rows, refs |-> x.db.refs],
                  files |-> x.files]]
  <2>1. data' = [data EXCEPT ![server] = [x EXCEPT !.db = [x.db EXCEPT !.rows = rows]]]
    BY DEF Expire
  <2>2. [x.db EXCEPT !.rows = rows] = [schema |-> x.db.schema, content |-> x.db.content,
                                       rows |-> rows, refs |-> x.db.refs]
    BY <1>2, <1>3, Rewritten
  <2> HIDE DEF rows
  <2>3. \A db : [x EXCEPT !.db = db] = [db |-> db, files |-> x.files]
    BY <1>2 DEF Directory
  <2> QED
    BY <2>1, <2>2, <2>3
<1> HIDE DEF rows
<1>5. FilesGoOn(x.files, x.files) /\ RowsGoOn(x.db.rows, rows)
  BY <1>1, <1>3 DEF FilesGoOn, RowsGoOn
<1>6. server \notin torn => \A z \in Uploads : rows[z] \in Kept => x.files[z] = "whole"
  BY <1>1, <1>3, UploadsAre DEF Kept
<1>7. /\ \A z \in uploading : x.db.rows[z] = "none" => rows[z] = "none"
      /\ cleaning' \subseteq Uploads /\ \A z \in cleaning' : rows[z] = "expired"
      /\ creating' \in {creating, None}
  BY <1>1, <1>3, UploadsAre
<1>8. creating' # None /\ server \notin torn =>
         rows[creating] = "none" \/ x.files[creating] = "whole" \/ creating \in cleaning'
  BY <1>1, <1>3, UploadsAre DEF Kept
<1> QED
  BY <1>1, <1>2, <1>3, <1>4, <1>5, <1>6, <1>7, <1>8, UploadStepSound

LEMMA CleanSound == ASSUME Inv, CleanFiles \/ CleanRows PROVE Inv'
<1> DEFINE x == data[server]
           r == x.db.rows
           f == x.files
<1>1. server # None /\ UNCHANGED <<code, server, torn, backup, uploading, creating>>
  BY DEF CleanFiles, CleanRows
<1>2. /\ x.db \in Database /\ x.db.refs \in SUBSET Uploads
      /\ f \in [Uploads -> FileStates] /\ r \in [Uploads -> RowStates]
  BY <1>1, Served
<1>3. x.db = [schema |-> x.db.schema, content |-> x.db.content, rows |-> r, refs |-> x.db.refs]
  BY <1>2 DEF Database
<1>4. CASE CleanFiles
  <2> DEFINE files == WithoutFiles(f, Expired)
  <2>1. \A z \in Uploads : z \in Expired <=> r[z] = "expired"
    BY DEF Expired, Row
  <2>2. /\ files \in [Uploads -> FileStates]
        /\ \A z \in Uploads : files[z] = IF r[z] = "expired" THEN "gone" ELSE f[z]
    BY <1>2, <2>1 DEF WithoutFiles, FileStates
  <2>3. /\ data' = [data EXCEPT ![server] = [db |-> x.db, files |-> files]]
        /\ Checkpoint(server) \/ UNCHANGED tool
        /\ cleaning = {} /\ cleaning' = Expired
    BY <1>4 DEF CleanFiles, Commit
  <2> HIDE DEF files
  <2>4. FilesGoOn(f, files) /\ RowsGoOn(r, r)
    BY <2>2 DEF FilesGoOn, RowsGoOn
  <2>5. server \notin torn => \A z \in Uploads : r[z] \in Kept => files[z] = "whole"
    BY <1>1, <2>2, UploadsAre DEF Kept
  <2>6. cleaning' \subseteq Uploads /\ \A z \in cleaning' : r[z] = "expired"
    BY <2>3 DEF Expired, Row
  <2>7. creating' # None /\ server \notin torn =>
           r[creating] = "none" \/ files[creating] = "whole" \/ creating \in cleaning'
    BY <1>1, <2>1, <2>2, <2>3, UploadsAre
  <2>8. data' = [data EXCEPT ![server] =
                   [db |-> [schema |-> x.db.schema, content |-> x.db.content,
                            rows |-> r, refs |-> x.db.refs],
                    files |-> files]]
    BY <1>3, <2>3
  <2> QED
    BY <1>1, <1>2, <2>2, <2>3, <2>4, <2>5, <2>6, <2>7, <2>8, UploadStepSound
<1>5. CASE CleanRows
  <2> DEFINE rows == WithoutRows(r, cleaning)
  <2>1. /\ rows \in [Uploads -> RowStates]
        /\ \A z \in Uploads : rows[z] = IF z \in cleaning THEN "none" ELSE r[z]
    BY <1>2 DEF WithoutRows, RowStates
  <2>2. /\ data' = [data EXCEPT ![server] = [db |-> [x.db EXCEPT !.rows = rows], files |-> f]]
        /\ Checkpoint(server) \/ UNCHANGED tool
        /\ cleaning' = {}
    BY <1>5 DEF CleanRows, Commit
  <2>3. data' = [data EXCEPT ![server] =
                   [db |-> [schema |-> x.db.schema, content |-> x.db.content,
                            rows |-> rows, refs |-> x.db.refs],
                    files |-> f]]
    BY <1>2, <2>1, <2>2, Rewritten
  <2> HIDE DEF rows
  <2>4. \A z \in cleaning : r[z] = "expired"
    BY <1>1, UploadsAre
  <2>5. FilesGoOn(f, f) /\ RowsGoOn(r, rows)
    BY <2>1, <2>4 DEF FilesGoOn, RowsGoOn, Kept
  <2>6. server \notin torn => \A z \in Uploads : rows[z] \in Kept => f[z] = "whole"
    BY <1>1, <2>1, UploadsAre DEF Kept
  <2>7. \A z \in uploading : r[z] = "none" => rows[z] = "none"
    BY <1>1, <2>1, UploadsAre
  <2>8. creating' # None /\ server \notin torn =>
           rows[creating] = "none" \/ f[creating] = "whole" \/ creating \in cleaning'
    BY <1>1, <2>1, UploadsAre
  <2>9. creating' = creating /\ cleaning' \subseteq Uploads /\ \A z \in cleaning' : FALSE
    BY <1>1, <2>2
  <2> QED
    BY <1>1, <1>2, <2>1, <2>2, <2>3, <2>5, <2>6, <2>7, <2>8, <2>9, UploadStepSound
<1> QED
  BY <1>4, <1>5

LEMMA TaskSound ==
  ASSUME Inv, NEW u \in Uploads, Validate(u) \/ Bind \/ EndTask(u)
  PROVE  Inv'
<1> DEFINE x == data[server]
           r == x.db.rows
           f == x.files
<1>1. server # None /\ UNCHANGED <<code, server, torn, backup, uploading, cleaning>>
  BY DEF Validate, Bind, EndTask, Serving, serverVars, toolVars
<1>2. /\ x.db \in Database /\ x.db.refs \in SUBSET Uploads
      /\ f \in [Uploads -> FileStates] /\ r \in [Uploads -> RowStates]
  BY <1>1, Served
<1>3. CASE Validate(u)
  <2>1. r[u] = "free" /\ creating' = u /\ UNCHANGED <<data, tool>>
    BY <1>3 DEF Validate, Row, toolVars
  <2>2. server \notin torn => f[u] = "whole"
    BY <1>1, <2>1, UploadsAre DEF Kept
  <2>3. ServesSound(x, server \notin torn, uploading, creating, cleaning)'
    BY <1>1, <2>1, <2>2, Served DEF ServesSound
  <2>4. Serves'
    BY <1>1, <2>1, <2>3 DEF Inv, Serves
  <2>5. Storage'
    BY <1>1, <2>1 DEF Inv, Storage, StorageTypes, DirsSound, BackupsSound, CopiesSound,
                      MovesSound, Apart, Copying, At
  <2> QED
    BY <2>4, <2>5 DEF Inv
<1>4. ASSUME NEW z \in Uploads, NEW s \in RowStates, NEW refs \in SUBSET Uploads,
             Commit(server, [x.db EXCEPT !.refs = refs, !.rows[z] = s], f),
             r[z] = "none" => s = "none", r[z] \in Kept => s \in Kept,
             s \in Kept /\ server \notin torn => f[z] = "whole",
             cleaning = {},
             creating' \in {creating, None}
      PROVE  Inv'
  <2> DEFINE rows == [r EXCEPT ![z] = s]
  <2>1. /\ rows \in [Uploads -> RowStates]
        /\ \A w \in Uploads : rows[w] = IF w = z THEN s ELSE r[w]
    BY <1>2
  <2>2. /\ data' = [data EXCEPT ![server] =
                      [db |-> [x.db EXCEPT !.refs = refs, !.rows = rows], files |-> f]]
        /\ Checkpoint(server) \/ UNCHANGED tool
    BY <1>4 DEF Commit
  <2>3. data' = [data EXCEPT ![server] =
                   [db |-> [schema |-> x.db.schema, content |-> x.db.content,
                            rows |-> rows, refs |-> refs],
                    files |-> f]]
    <3>1. [x.db EXCEPT !.refs = refs, !.rows = rows]
             = [schema |-> x.db.schema, content |-> x.db.content, rows |-> rows, refs |-> refs]
      BY <1>2, <2>1, Rewritten
    <3> QED
      BY <2>2, <3>1
  <2> HIDE DEF rows
  <2>4. FilesGoOn(f, f) /\ RowsGoOn(r, rows)
    BY <1>4, <2>1 DEF FilesGoOn, RowsGoOn
  <2>5. server \notin torn => \A w \in Uploads : rows[w] \in Kept => f[w] = "whole"
    BY <1>1, <1>4, <2>1, UploadsAre
  <2>6. \A w \in uploading : r[w] = "none" => rows[w] = "none"
    BY <1>1, <1>4, <2>1, UploadsAre
  <2>7. creating' # None /\ server \notin torn =>
           rows[creating] = "none" \/ f[creating] = "whole" \/ creating \in cleaning'
    BY <1>1, <1>4, <2>1, UploadsAre
  <2>8. cleaning' \subseteq Uploads /\ \A w \in cleaning' : rows[w] = "expired"
    BY <1>1, <1>4
  <2> QED
    BY <1>1, <1>2, <1>4, <2>1, <2>2, <2>3, <2>4, <2>5, <2>6, <2>7, <2>8, UploadStepSound
<1>5. CASE Bind
  <2> DEFINE s == IF r[creating] = "none" THEN "none" ELSE "bound"
  <2>1. creating \in Uploads /\ creating # None /\ cleaning = {} /\ creating' = None
    BY <1>1, <1>5, UploadsAre DEF Bind
  <2>2. Commit(server, [x.db EXCEPT !.refs = @ \cup {creating}, !.rows[creating] = s], f)
    BY <1>5 DEF Bind
  <2>3. x.db.refs \cup {creating} \in SUBSET Uploads
    BY <1>2, <2>1
  <2>4. s \in RowStates /\ (r[creating] = "none" => s = "none")
        /\ (r[creating] \in Kept => s \in Kept)
        /\ (s \in Kept /\ server \notin torn => f[creating] = "whole")
    BY <1>1, <2>1, UploadsAre DEF RowStates, Kept
  <2> HIDE DEF s
  <2> QED
    BY <1>4, <2>1, <2>2, <2>3, <2>4
<1>6. CASE EndTask(u)
  <2> DEFINE s == IF r[u] = "bound" THEN "ended" ELSE r[u]
  <2>1. cleaning = {} /\ creating' = creating
    BY <1>6 DEF EndTask, Serving, serverVars
  <2>2. Commit(server, [x.db EXCEPT !.refs = @ \ {u}, !.rows[u] = s], f)
    BY <1>6 DEF EndTask
  <2>3. x.db.refs \ {u} \in SUBSET Uploads
    BY <1>2
  <2>4. s \in RowStates /\ (r[u] = "none" => s = "none") /\ (r[u] \in Kept => s \in Kept)
        /\ (s \in Kept /\ server \notin torn => f[u] = "whole")
    BY <1>1, <1>2, UploadsAre DEF RowStates, Kept
  <2> HIDE DEF s
  <2> QED
    BY <1>4, <2>1, <2>2, <2>3, <2>4
<1> QED
  BY <1>3, <1>5, <1>6

-----------------------------------------------------------------------------
(* The life of the process.                                                 *)

LEMMA MigratedIs ==
  ASSUME NEW db \in Database, code \in 1..MaxVersion
  PROVE  /\ Migrated(db) \in Database
         /\ Migrated(db).rows = db.rows /\ Migrated(db).content = db.content
         /\ Migrated(db).schema = IF db.schema < code THEN code ELSE db.schema
<1> DEFINE v == IF db.schema < code THEN code ELSE db.schema
<1>1. Migrated(db) = [db EXCEPT !.schema = v]
  BY DEF Migrated
<1>2. v \in 0..MaxVersion
  BY DataAssumption DEF Database
<1> HIDE DEF v
<1> QED
  BY <1>1, <1>2 DEF Database, v

(* The Server's own directory is left alone.                                *)
LEMMA ServesOn ==
  ASSUME Serves, UNCHANGED <<code, server, uploading, creating, cleaning>>,
         server # None => data'[server] = data[server] /\ (server \in torn => server \in torn')
  PROVE  Serves'
<1>1. CASE server = None
  BY <1>1 DEF Serves
<1>2. CASE server # None
  <2>1. ServesSound(data[server], server \notin torn, uploading, creating, cleaning)
    BY <1>2 DEF Serves
  <2>2. ServesSound(data[server], server \notin torn, uploading, creating, cleaning)'
    BY <1>2, <2>1 DEF ServesSound
  <2> QED
    BY <1>2, <2>2 DEF Serves
<1> QED
  BY <1>1, <1>2

LEMMA StartSound ==
  ASSUME Inv, NEW d \in Dirs, Start(d) \/ TornStart(d)
  PROVE  Inv'
<1>1. /\ server = None /\ Quiesced(d) /\ Supported(Found(d)) /\ Checkpoint(d)
      /\ UNCHANGED <<code, torn, backup, uploading, creating, cleaning>>
      /\ uploading = {} /\ creating = None /\ cleaning = {}
      /\ code \in 1..MaxVersion
  BY DEF Start, TornStart, serverVars, Inv, Serves
<1>2. /\ Here(d) \in Directory /\ Found(d) \in Database /\ Here(d).files \in Files
  BY DirIs DEF Inv, Storage
<1>3. \A db : [Here(d) EXCEPT !.db = db] = [db |-> db, files |-> Here(d).files]
  BY <1>2 DEF Directory
<1>4. ASSUME NEW db \in Database, db.rows = Found(d).rows, server' \in {None, d},
             data' = [data EXCEPT ![d] = [Here(d) EXCEPT !.db = db]]
      PROVE  Storage'
  <2>1. ToolsAsBefore
    BY <1>1, Checkpoints DEF Inv, Storage
  <2>2. FilesGoOn(Here(d).files, Here(d).files) /\ RowsGoOn(Found(d).rows, db.rows)
    BY <1>4 DEF FilesGoOn, RowsGoOn
  <2>3. HaveFiles(Found(d), Here(d).files) => HaveFiles(db, Here(d).files)
    BY <1>4 DEF HaveFiles
  <2>4. data' = [data EXCEPT ![d] = [db |-> db, files |-> Here(d).files]]
    BY <1>3, <1>4
  <2> QED
    BY <1>1, <1>2, <1>4, <2>1, <2>2, <2>3, <2>4, DirWritten DEF Inv
<1>5. CASE Start(d)
  <2> DEFINE db == Migrated(Found(d))
  <2>1. db \in Database /\ db.rows = Found(d).rows
    BY <1>1, <1>2, MigratedIs
  <2>2. db.schema = code
    <3>1. Found(d).schema <= code
      BY <1>1 DEF Supported
    <3>2. Found(d).schema \in Nat /\ code \in Nat
      BY <1>1, <1>2, DataAssumption DEF Database
    <3> QED
      BY <1>1, <1>2, <3>1, <3>2, MigratedIs
  <2>3. server' = d /\ data' = [data EXCEPT ![d] = [Here(d) EXCEPT !.db = db]]
    BY <1>5 DEF Start
  <2> HIDE DEF db
  <2>4. data'[d] = [db |-> db, files |-> Here(d).files]
    BY <1>3, <2>3 DEF Inv, Storage, StorageTypes
  <2>5. data'[d] # None /\ data'[d].db = db /\ db # None
    BY <1>2, <2>1, <2>4, NoneAssumption DEF Directory
  <2>6. ServesSound(data[server], server \notin torn, uploading, creating, cleaning)'
    BY <1>1, <2>2, <2>3, <2>5 DEF ServesSound
  <2>7. Serves'
    BY <1>1, <2>3, <2>6, NoneAssumption DEF Inv, Serves
  <2>8. Storage'
    BY <1>4, <2>1, <2>3
  <2> QED
    BY <2>7, <2>8 DEF Inv
<1>6. CASE TornStart(d)
  <2>1. server' = server /\ data' = [data EXCEPT ![d] = [Here(d) EXCEPT !.db = Found(d)]]
    BY <1>6 DEF TornStart, serverVars
  <2>2. Storage'
    BY <1>1, <1>2, <1>4, <2>1
  <2>3. Serves'
    BY <1>1, <2>1, ServesOn DEF Inv
  <2> QED
    BY <2>2, <2>3 DEF Inv
<1> QED
  BY <1>5, <1>6

LEMMA ClassicSound ==
  ASSUME Inv, NEW d \in Dirs, ClassicWrite(d)
  PROVE  Inv'
<1> DEFINE x == data[d]
           db == [x.db EXCEPT !.content = x.db.content + 1]
<1>1. /\ x # None /\ x.db # None /\ server # d /\ x.db.content < MaxContent
      /\ UNCHANGED <<code, torn, backup, server, uploading, creating, cleaning>>
  BY DEF ClassicWrite, serverVars
<1>2. /\ Here(d) = x /\ Found(d) = x.db /\ x \in Directory /\ x.db \in Database
      /\ x.files \in Files
  BY <1>1, DirIs DEF Inv, Storage
<1>3. x.db.content + 1 \in 0..MaxContent
  BY <1>1, <1>2, DataAssumption DEF Database
<1>4. db \in Database /\ db.rows = x.db.rows
  BY <1>2, <1>3 DEF Database
<1>5. data' = [data EXCEPT ![d] = [db |-> db, files |-> x.files]] /\ ToolsAsBefore
  BY Checkpoints DEF ClassicWrite, Commit, Inv, Storage
<1> HIDE DEF db
<1>6. FilesGoOn(x.files, x.files) /\ RowsGoOn(x.db.rows, db.rows)
  BY <1>4 DEF FilesGoOn, RowsGoOn
<1>7. HaveFiles(x.db, x.files) => HaveFiles(db, x.files)
  BY <1>4 DEF HaveFiles
<1>8. Storage'
  BY <1>1, <1>2, <1>4, <1>5, <1>6, <1>7, DirWritten DEF Inv
<1>9. server # None => data'[server] = data[server]
  BY <1>1, <1>5 DEF Inv, Serves, Storage, StorageTypes
<1>10. Serves'
  BY <1>1, <1>9, ServesOn DEF Inv
<1> QED
  BY <1>8, <1>10 DEF Inv

LEMMA StopSound == ASSUME Inv, Stop PROVE Inv'
<1> DEFINE x == data[server]
<1>1. /\ server # None /\ server' = None /\ uploading' = {} /\ creating' = None
      /\ cleaning' = {}
      /\ Checkpoint(server) \/ UNCHANGED tool
      /\ UNCHANGED <<code, data, torn, backup>>
  BY DEF Stop
<1>2. /\ server \in Dirs /\ Quiesced(server) /\ x \in Directory /\ x.db \in Database
      /\ Here(server) = x /\ Found(server) = x.db
  BY <1>1, Served
<1>3. x.files \in Files /\ x = [db |-> x.db, files |-> x.files]
  BY <1>2 DEF Directory
<1>4. data' = [data EXCEPT ![server] = [db |-> x.db, files |-> x.files]]
  BY <1>1, <1>2, <1>3 DEF Inv, Storage, StorageTypes
<1>5. FilesGoOn(x.files, x.files) /\ RowsGoOn(x.db.rows, x.db.rows) /\ ToolsAsBefore
  BY <1>1, Checkpoints DEF FilesGoOn, RowsGoOn, Inv, Storage
<1>6. Storage'
  BY <1>1, <1>2, <1>3, <1>4, <1>5, DirWritten DEF Inv
<1>7. Serves'
  BY <1>1 DEF Inv, Serves
<1> QED
  BY <1>6, <1>7 DEF Inv

LEMMA InstallSound == ASSUME Inv, NEW v \in 1..MaxVersion, Install(v) PROVE Inv'
<1>1. UNCHANGED <<data, server, uploading, creating, cleaning, tool, backup, torn>> /\ server = None
  BY DEF Install, serverVars, toolVars
<1>2. Storage'
  BY <1>1 DEF Inv, Storage, StorageTypes, DirsSound, BackupsSound, CopiesSound,
              MovesSound, Apart, Copying, At
<1>3. Serves'
  BY <1>1 DEF Inv, Serves, Install
<1> QED
  BY <1>2, <1>3 DEF Inv

-----------------------------------------------------------------------------
(* The tools at work.                                                       *)

(* One tool goes on; directories and backups stay as they are.              *)
LEMMA ToolChanges ==
  ASSUME Storage, NEW t \in Tools, NEW w \in ToolType, tool' = [tool EXCEPT ![t] = w],
         UNCHANGED <<data, backup, server>>,
         torn \subseteq torn', torn' \subseteq Dirs \cup Backups,
         w.pc \in {"database", "files"} => CopySound(w, data[w.from]),
         w.pc = "moving" =>
            /\ MoveSound(w, data[w.to], backup[w.backup])
            /\ w.to \in torn' /\ w.to # server
            /\ \A z \in Tools : z # t /\ At(z, "moving") => tool[z].to # w.to
  PROVE  Storage'
<1>1. \A z \in Tools : tool'[z] = IF z = t THEN w ELSE tool[z]
  BY DEF Storage, StorageTypes
<1>2. StorageTypes'
  BY DEF Storage, StorageTypes
<1>3. DirsSound' /\ BackupsSound'
  BY DEF Storage, DirsSound, BackupsSound
<1>4. CopiesSound'
  BY <1>1 DEF Storage, CopiesSound, Copying
<1>5. MovesSound'
  BY <1>1 DEF Storage, MovesSound, At
<1>6. Apart'
  BY <1>1 DEF Storage, Apart, At
<1> QED
  BY <1>2, <1>3, <1>4, <1>5, <1>6 DEF Storage

(* A directory appears where none was, or an empty one; the tool that made  *)
(* it is done.                                                              *)
LEMMA Placed ==
  ASSUME Storage, NEW d \in Dirs, data[d] \in {None, EmptyDirectory},
         Quiesced(d), server # d,
         NEW x \in Directory, data' = [data EXCEPT ![d] = x], UNCHANGED <<backup, server>>,
         UNCHANGED tool \/ \E t \in Tools : tool' = [tool EXCEPT ![t] = Idle],
         torn' \in {torn, torn \cup {d}, torn \ {d}},
         d \notin torn' /\ x.db # None => HaveFiles(x.db, x.files)
  PROVE  Storage'
<1>1. \A e \in Dirs : data'[e] = IF e = d THEN x ELSE data[e]
  BY DEF Storage, StorageTypes
<1>2. \A z \in Tools : tool'[z] \in {tool[z], Idle}
  BY DEF Storage, StorageTypes
<1>3. \A e \in Dirs \cup Backups : e # d => (e \in torn <=> e \in torn')
  OBVIOUS
<1>4. StorageTypes'
  <2>1. data' \in [Dirs -> Directory \cup {None}] /\ torn' \subseteq Dirs \cup Backups
    BY DEF Storage, StorageTypes
  <2>2. tool' \in [Tools -> ToolType]
    BY ToolsAre DEF Storage, StorageTypes
  <2> QED
    BY <2>1, <2>2 DEF Storage, StorageTypes
<1>5. DirsSound'
  BY <1>1, <1>3 DEF Storage, DirsSound
<1>6. BackupsSound'
  BY <1>3, DataAssumption DEF Storage, BackupsSound
<1>7. ASSUME NEW z \in Tools, tool'[z].pc # "idle"
      PROVE  tool'[z] = tool[z] /\ tool[z] \in ToolType
  BY <1>2, <1>7, ToolsAre DEF Storage, StorageTypes
<1>8. CopiesSound'
  <2> SUFFICES ASSUME NEW z \in Tools, Copying(z)'
               PROVE  CopySound(tool'[z], data'[tool'[z].from])
    BY DEF CopiesSound
  <2>1. tool'[z] = tool[z] /\ Copying(z) /\ tool[z].from \in Dirs
    BY <1>7, ToolIs DEF Copying, Began, Filing
  <2>2. CopySound(tool[z], data[tool[z].from])
    BY <2>1 DEF Storage, CopiesSound
  <2>3. tool[z].from # d
    BY <2>2, EmptyIs DEF CopySound
  <2> QED
    BY <1>1, <2>1, <2>2, <2>3
<1>9. MovesSound'
  <2> SUFFICES ASSUME NEW z \in Tools, At(z, "moving")'
               PROVE  /\ MoveSound(tool'[z], data'[tool'[z].to], backup[tool'[z].backup])
                      /\ tool'[z].to \in torn' /\ tool'[z].to # server
    BY DEF MovesSound
  <2>1. tool'[z] = tool[z] /\ At(z, "moving") /\ tool[z].to \in Dirs
    BY <1>7, ToolIs DEF At, Moving
  <2>2. tool[z].to # d
    BY <2>1 DEF Quiesced
  <2> QED
    BY <1>1, <1>3, <2>1, <2>2 DEF Storage, MovesSound
<1>10. Apart'
  BY <1>7 DEF Storage, Apart, At
<1> QED
  BY <1>4, <1>5, <1>6, <1>8, <1>9, <1>10 DEF Storage

LEMMA BackupMade ==
  ASSUME Storage, NEW b \in Backups, backup[b] = None,
         NEW x \in Copy, backup' = [backup EXCEPT ![b] = x], UNCHANGED <<data, server>>,
         NEW t \in Tools, tool' = [tool EXCEPT ![t] = Idle],
         torn' \in {torn \cup {b}, torn \ {b}},
         b \notin torn' => HaveFiles(x.db, x.files)
  PROVE  Storage'
<1>1. \A e \in Backups : backup'[e] = IF e = b THEN x ELSE backup[e]
  BY DEF Storage, StorageTypes
<1>2. \A z \in Tools : tool'[z] \in {tool[z], Idle}
  BY DEF Storage, StorageTypes
<1>3. \A e \in Dirs \cup Backups : e # b => (e \in torn <=> e \in torn')
  OBVIOUS
<1>4. StorageTypes'
  <2>1. backup' \in [Backups -> Copy \cup {None}] /\ torn' \subseteq Dirs \cup Backups
    BY DEF Storage, StorageTypes
  <2>2. tool' \in [Tools -> ToolType]
    BY ToolsAre DEF Storage, StorageTypes
  <2> QED
    BY <2>1, <2>2 DEF Storage, StorageTypes
<1>5. DirsSound'
  BY <1>3, DataAssumption DEF Storage, DirsSound
<1>6. BackupsSound'
  BY <1>1, <1>3 DEF Storage, BackupsSound
<1>7. ASSUME NEW z \in Tools, tool'[z].pc # "idle"
      PROVE  tool'[z] = tool[z] /\ tool[z] \in ToolType
  BY <1>2, <1>7, ToolsAre DEF Storage, StorageTypes
<1>8. CopiesSound'
  BY <1>7 DEF Storage, CopiesSound, Copying
<1>9. MovesSound'
  <2> SUFFICES ASSUME NEW z \in Tools, At(z, "moving")'
               PROVE  /\ MoveSound(tool'[z], data[tool'[z].to], backup'[tool'[z].backup])
                      /\ tool'[z].to \in torn' /\ tool'[z].to # server
    BY DEF MovesSound
  <2>1. /\ tool'[z] = tool[z] /\ At(z, "moving")
        /\ tool[z].to \in Dirs /\ tool[z].backup \in Backups
    BY <1>7, ToolIs DEF At, Moving
  <2>2. /\ MoveSound(tool[z], data[tool[z].to], backup[tool[z].backup])
        /\ tool[z].to \in torn /\ tool[z].to # server
    BY <2>1 DEF Storage, MovesSound
  <2>3. tool[z].backup # b /\ tool[z].to # b
    BY <2>1, <2>2, DataAssumption DEF MoveSound
  <2> QED
    BY <1>1, <1>3, <2>1, <2>2, <2>3
<1>10. Apart'
  BY <1>7 DEF Storage, Apart, At
<1> QED
  BY <1>4, <1>5, <1>6, <1>8, <1>9, <1>10 DEF Storage

(* The Server does not notice what a tool does to the tool itself.          *)
LEMMA ToolOnly ==
  ASSUME Inv, Storage', UNCHANGED <<code, data, serverVars>>, torn \subseteq torn'
  PROVE  Inv'
<1>1. Serves'
  BY ServesOn DEF Inv, serverVars
<1> QED
  BY <1>1 DEF Inv

LEMMA StartCopySound ==
  ASSUME Inv, NEW t \in Tools, NEW kind \in {"backup", "import"}, NEW d \in Dirs,
         NEW path \in (IF kind = "backup" THEN Backups ELSE Dirs), StartCopy(t, kind, d, path)
  PROVE  Inv'
<1> DEFINE w == [pc |-> "database", kind |-> kind, from |-> d, to |-> path,
                 before |-> Manifest(d), first |-> data[d].db.content, written |-> FALSE]
<1>1. /\ tool' = [tool EXCEPT ![t] = w] /\ data[d] # None /\ data[d].db # None
      /\ UNCHANGED <<code, data, torn, server, serverVars, backup>>
  BY DEF StartCopy, serverVars
<1>2. data[d].db \in Database /\ data[d].files \in Files
  BY <1>1, DirIs DEF Inv, Storage
<1>3. /\ Manifest(d) \in Files
      /\ \A u \in Uploads : Manifest(d)[u] = "whole" => data[d].files[u] = "whole"
  BY <1>2 DEF Manifest, Files, FileStates
<1>4. w \in Began
  <2>1. data[d].db.content \in 0..MaxContent /\ path \in Dirs \cup Backups
    BY <1>2 DEF Database
  <2> QED
    BY <1>3, <2>1 DEF Began
<1>5. CopySound(w, data[d])
  BY <1>1, <1>3 DEF CopySound
<1>6. w \in ToolType /\ w.pc = "database" /\ w.from = d
  BY <1>4, ToolsAre
<1> HIDE DEF w
<1>7. Storage'
  BY <1>1, <1>5, <1>6, ToolChanges DEF Inv, Storage, StorageTypes
<1> QED
  BY <1>1, <1>7, ToolOnly

LEMMA CopyDatabaseSound ==
  ASSUME Inv, NEW t \in Tools, CopyDatabase(t)
  PROVE  Inv'
<1> DEFINE v == tool[t]
           x == data[v.from]
           w == [pc |-> "files", kind |-> v.kind, from |-> v.from, to |-> v.to,
                 before |-> v.before, first |-> v.first, written |-> v.written,
                 db |-> x.db, files |-> NoFiles, todo |-> Uploads]
<1>1. /\ v.pc = "database" /\ tool' = [tool EXCEPT ![t] = w]
      /\ UNCHANGED <<code, data, torn, server, serverVars, backup>>
  BY DEF CopyDatabase, At, serverVars
<1>2. v \in Began /\ CopySound(v, x)
  BY <1>1, ToolIs DEF Inv, Storage, StorageTypes, CopiesSound, Copying
<1>3. x.db \in Database
  BY <1>2, DirIs DEF Inv, Storage, Began, CopySound
<1>4. w \in Filing
  BY <1>2, <1>3, EmptyIs DEF Began, Filing
<1>5. CopySound(w, x)
  BY <1>1, <1>2 DEF CopySound
<1>6. w \in ToolType /\ w.pc = "files" /\ w.from = v.from
  BY <1>4, ToolsAre
<1> HIDE DEF w
<1>7. Storage'
  BY <1>1, <1>5, <1>6, ToolChanges DEF Inv, Storage, StorageTypes
<1> QED
  BY <1>1, <1>7, ToolOnly

LEMMA CopyFileSound ==
  ASSUME Inv, NEW t \in Tools, NEW u \in Uploads, CopyFile(t, u)
  PROVE  Inv'
<1> DEFINE v == tool[t]
           x == data[v.from]
           files == [v.files EXCEPT ![u] = x.files[u]]
           w == [v EXCEPT !.todo = @ \ {u}, !.files = files]
<1>1. /\ v.pc = "files" /\ UNCHANGED <<code, data, torn, server, serverVars, backup>>
  BY DEF CopyFile, At, serverVars
<1>2. v \in Filing /\ CopySound(v, x)
  BY <1>1, ToolIs DEF Inv, Storage, StorageTypes, CopiesSound, Copying
<1>3. tool' = [tool EXCEPT ![t] = w]
  <2>1. tool' = [tool EXCEPT ![t].todo = @ \ {u}, ![t].files[u] = x.files[u]]
    BY DEF CopyFile
  <2> QED
    BY <1>2, <2>1 DEF Inv, Storage, StorageTypes, Filing
<1>4. x.files \in Files
  BY <1>2, DirIs DEF Inv, Storage, Filing, CopySound
<1>5. /\ files \in Files
      /\ \A z \in Uploads : files[z] = IF z = u THEN x.files[u] ELSE v.files[z]
  BY <1>2, <1>4 DEF Files, Filing
<1> HIDE DEF files
<1>6. /\ w \in Filing /\ w.todo = v.todo \ {u} /\ w.files = files /\ w.pc = "files"
      /\ w.db = v.db /\ w.before = v.before /\ w.to = v.to /\ w.kind = v.kind
      /\ w.from = v.from
  BY <1>2, <1>5 DEF Filing
<1> HIDE DEF w
<1>7. CopySound(w, x)
  BY <1>1, <1>2, <1>5, <1>6 DEF CopySound
<1>8. Storage'
  BY <1>1, <1>3, <1>6, <1>7, ToolChanges, ToolsAre DEF Inv, Storage, StorageTypes
<1> QED
  BY <1>1, <1>8, ToolOnly

LEMMA ToolEnds ==
  ASSUME Inv, NEW t \in Tools, FailCopy(t) \/ CutRestore(t)
  PROVE  Inv'
<1>1. /\ tool' = [tool EXCEPT ![t] = Idle]
      /\ UNCHANGED <<code, data, torn, server, serverVars, backup>>
  BY DEF FailCopy, CutRestore, serverVars
<1>2. Storage'
  BY <1>1, ToolChanges, ToolsAre DEF Inv, Storage, StorageTypes
<1> QED
  BY <1>1, <1>2, ToolOnly

LEMMA StartRestoreSound ==
  ASSUME Inv, NEW t \in Tools, NEW b \in Backups, NEW d \in Dirs, StartRestore(t, b, d)
  PROVE  Inv'
<1> DEFINE w == [pc |-> "moving", to |-> d, backup |-> b, todo |-> {"database", "files"}]
<1>1. /\ tool' = [tool EXCEPT ![t] = w] /\ torn' = torn \cup {d}
      /\ backup[b] # None /\ data[d] = EmptyDirectory /\ server # d /\ Quiesced(d)
      /\ UNCHANGED <<code, data, server, serverVars, backup>>
  BY DEF StartRestore, serverVars
<1>2. w \in ToolType /\ w.pc = "moving" /\ w.to = d /\ w.backup = b
      /\ w.todo = {"database", "files"}
  <2>1. w \in Moving
    BY DEF Moving
  <2> QED
    BY <2>1, ToolsAre
<1>3. MoveSound(w, data[d], backup[b])
  BY <1>1, <1>2, EmptyIs DEF MoveSound
<1> HIDE DEF w
<1>4. \A z \in Tools : At(z, "moving") => tool[z].to # d
  BY <1>1 DEF Quiesced
<1>5. torn' \subseteq Dirs \cup Backups /\ torn \subseteq torn'
  BY <1>1 DEF Inv, Storage, StorageTypes
<1>6. Storage'
  BY <1>1, <1>2, <1>3, <1>4, <1>5, ToolChanges DEF Inv
<1> QED
  BY <1>1, <1>5, <1>6, ToolOnly

(* What came of a copy of a directory that was whole: the Server may have   *)
(* run, and yet every input of which the copy has the row is in it.         *)
LEMMA CopyIsWhole ==
  ASSUME Inv, NEW t \in Tools, At(t, "files"), tool[t].todo = {}, Unchanged(t),
         tool[t].from \notin torn
  PROVE  HaveFiles(tool[t].db, tool[t].files)
<1> DEFINE w == tool[t]
           x == data[w.from]
<1>1. w \in Filing /\ CopySound(w, x)
  BY ToolIs DEF Inv, Storage, StorageTypes, CopiesSound, Copying, At
<1>2. w.from \in Dirs /\ x.db \in Database /\ HaveFiles(x.db, x.files)
  <2>1. w.from \in Dirs /\ x # None /\ x.db # None
    BY <1>1 DEF Filing, CopySound
  <2> QED
    BY <2>1, DirIs DEF Inv, Storage
<1> SUFFICES ASSUME NEW u \in Uploads, w.db.rows[u] \in Kept
             PROVE  w.files[u] = "whole"
  BY DEF HaveFiles, Kept
<1>3. Manifest(w.from)[u] = w.before[u]
  BY DEF Unchanged
<1>4. Manifest(w.from)[u] = IF x.files[u] = "gone" THEN "none" ELSE x.files[u]
  BY DEF Manifest
<1>5. CASE w.before[u] = "whole"
  BY <1>1, <1>3, <1>4, <1>5 DEF CopySound, At
<1>6. CASE w.before[u] # "whole"
  <2>1. x.db.rows[u] \in Kept
    BY <1>1, <1>6 DEF CopySound, At
  <2>2. x.files[u] = "whole"
    BY <1>2, <2>1 DEF HaveFiles, Kept
  <2> QED
    BY <1>3, <1>4, <1>6, <2>2
<1> QED
  BY <1>5, <1>6

LEMMA FinishCopySound ==
  ASSUME Inv, NEW t \in Tools, FinishCopy(t)
  PROVE  Inv'
<1> DEFINE w == tool[t]
<1>1. /\ At(t, "files") /\ w.todo = {} /\ Unchanged(t) /\ Replaceable(w.kind, w.to)
      /\ tool' = [tool EXCEPT ![t] = Idle] /\ torn' = Inherited(w.from, w.to)
      /\ UNCHANGED <<code, server, serverVars>>
  BY DEF FinishCopy, serverVars
<1>2. w \in Filing /\ CopySound(w, data[w.from])
  BY <1>1, ToolIs DEF Inv, Storage, StorageTypes, CopiesSound, Copying, At
<1>3. /\ w.db \in Database /\ w.files \in Files /\ w.kind \in {"backup", "import"}
      /\ w.from \in Dirs
  BY <1>2 DEF Filing
<1>4. /\ torn' \in {torn \cup {w.to}, torn \ {w.to}}
      /\ w.to \notin torn' => HaveFiles(w.db, w.files)
  BY <1>1, CopyIsWhole DEF Inherited
<1>5. CASE w.kind = "backup"
  <2>1. /\ backup' = [backup EXCEPT ![w.to] = Published(t)] /\ UNCHANGED data
        /\ w.to \in Backups /\ backup[w.to] = None
    BY <1>1, <1>2, <1>5 DEF FinishCopy, CopySound, Replaceable
  <2>2. Published(t) \in Copy /\ Published(t).db = w.db /\ Published(t).files = w.files
    BY <1>3 DEF Copy, Published
  <2>3. Storage'
    BY <1>1, <1>4, <2>1, <2>2, BackupMade DEF Inv
  <2>4. server # None => (server \in torn => server \in torn')
    <3>1. server # None => server \in Dirs
      BY DEF Inv, Serves
    <3> QED
      BY <1>4, <2>1, <3>1, DataAssumption
  <2>5. Serves'
    BY <1>1, <2>1, <2>4, ServesOn DEF Inv, serverVars
  <2> QED
    BY <2>3, <2>5 DEF Inv
<1>6. CASE w.kind = "import"
  <2> DEFINE x == [db |-> Migrated(w.db), files |-> w.files]
  <2>1. /\ data' = [data EXCEPT ![w.to] = x] /\ UNCHANGED backup
        /\ w.to \in Dirs /\ data[w.to] \in {None, EmptyDirectory} /\ Quiesced(w.to)
    BY <1>1, <1>2, <1>6 DEF FinishCopy, CopySound, Replaceable
  <2>2. Migrated(w.db) \in Database /\ Migrated(w.db).rows = w.db.rows
    BY <1>3, MigratedIs DEF Inv, Serves
  <2>3. /\ x \in Directory /\ x.files = w.files /\ x.db = Migrated(w.db)
    BY <1>3, <2>2 DEF Directory
  <2>4. w.to \notin torn' => HaveFiles(x.db, x.files)
    BY <1>4, <2>2, <2>3 DEF HaveFiles
  <2>5. server # w.to
    <3>1. server # None => data[server] # None /\ data[server].db # None
      BY DEF Inv, Serves, ServesSound
    <3>2. w.to # None
      BY <2>1, NoneAssumption
    <3> QED
      BY <2>1, <3>1, <3>2, EmptyIs
  <2> HIDE DEF x
  <2>6. Storage'
    BY <1>1, <1>4, <2>1, <2>3, <2>4, <2>5, Placed DEF Inv
  <2>7. server # None => data'[server] = data[server] /\ (server \in torn => server \in torn')
    BY <1>4, <2>1, <2>5 DEF Inv, Serves, Storage, StorageTypes
  <2>8. Serves'
    BY <1>1, <2>7, ServesOn DEF Inv, serverVars
  <2> QED
    BY <2>6, <2>8 DEF Inv
<1> QED
  BY <1>3, <1>5, <1>6

(* A restored or a new, empty directory.                                    *)
LEMMA PlacedSound ==
  ASSUME Inv, NEW d \in Dirs, MakeVolume(d) \/ \E b \in Backups : RestoreNew(b, d)
  PROVE  Inv'
<1>1. /\ data[d] = None /\ server # d
      /\ UNCHANGED <<code, server, serverVars, tool, backup>>
  <2>1. server # None => data[server] # None
    BY DEF Inv, Serves, ServesSound
  <2> QED
    BY <2>1, NoneAssumption DEF MakeVolume, RestoreNew, serverVars, toolVars
<1>2. Quiesced(d)
  BY <1>1 DEF Quiesced, Inv, Storage, MovesSound, MoveSound
<1>3. PICK x \in Directory :
         /\ data' = [data EXCEPT ![d] = x] /\ torn' \in {torn, torn \cup {d}, torn \ {d}}
         /\ d \notin torn' /\ x.db # None => HaveFiles(x.db, x.files)
  <2>1. CASE MakeVolume(d)
    <3>1. data' = [data EXCEPT ![d] = EmptyDirectory] /\ torn' = torn
      BY <2>1 DEF MakeVolume, toolVars
    <3> QED
      BY <3>1, EmptyIs
  <2>2. ASSUME NEW b \in Backups, RestoreNew(b, d)
        PROVE  /\ backup[b] \in Directory
               /\ data' = [data EXCEPT ![d] = backup[b]]
               /\ torn' \in {torn \cup {d}, torn \ {d}}
               /\ d \notin torn' => HaveFiles(backup[b].db, backup[b].files)
    <3>1. /\ backup[b] # None /\ data' = [data EXCEPT ![d] = backup[b]]
          /\ torn' = Inherited(b, d)
      BY <2>2 DEF RestoreNew
    <3>2. backup[b] \in Directory
      <4>1. Copy \subseteq Directory
        BY DEF Copy, Directory
      <4> QED
        BY <3>1, <4>1 DEF Inv, Storage, StorageTypes
    <3>3. b \notin torn => HaveFiles(backup[b].db, backup[b].files)
      BY <3>1 DEF Inv, Storage, BackupsSound
    <3> QED
      BY <3>1, <3>2, <3>3 DEF Inherited
  <2> QED
    BY <2>1, <2>2
<1>4. Storage'
  BY <1>1, <1>2, <1>3, Placed DEF Inv
<1>5. server # None => data'[server] = data[server] /\ (server \in torn => server \in torn')
  BY <1>1, <1>3 DEF Inv, Serves, Storage, StorageTypes
<1>6. Serves'
  BY <1>1, <1>5, ServesOn DEF Inv, serverVars
<1> QED
  BY <1>4, <1>6 DEF Inv

(* A child of the backup is moved into the directory: only what is copied   *)
(* of the directory or moved there could notice, and no other tool does     *)
(* either before the database is there.                                     *)
LEMMA MoveChildSound ==
  ASSUME Inv, NEW t \in Tools, NEW child \in {"database", "files"}, MoveChild(t, child)
  PROVE  Inv'
<1> DEFINE v == tool[t]
           d == v.to
           r == backup[v.backup]
           x == data[d]
           y == [db |-> IF child = "files" THEN x.db ELSE r.db,
                 files |-> IF child = "files" THEN r.files ELSE x.files]
           w == [v EXCEPT !.todo = @ \ {child}]
           last == v.todo = {child}
<1>1. /\ v.pc = "moving" /\ child \in v.todo
      /\ UNCHANGED <<code, server, serverVars, backup>>
      /\ last => tool' = [tool EXCEPT ![t] = Idle] /\ torn' = Inherited(v.backup, d)
      /\ ~last => torn' = torn
  BY DEF MoveChild, At, serverVars
<1>2. /\ v \in Moving /\ MoveSound(v, x, r) /\ d \in torn /\ d # server
      /\ d \in Dirs /\ v.backup \in Backups
  BY <1>1, ToolIs DEF Inv, Storage, StorageTypes, MovesSound, At, Moving
<1>3. x \in Directory /\ r \in Copy /\ x # None /\ r # None
  BY <1>2 DEF Inv, Storage, StorageTypes, MoveSound
<1>4. data' = [data EXCEPT ![d] = y]
  <2>1. data' = IF child = "files" THEN [data EXCEPT ![d].files = r.files]
                ELSE [data EXCEPT ![d].db = r.db]
    BY DEF MoveChild
  <2>2. CASE child = "files"
    <3>1. data' = [data EXCEPT ![d] = [x EXCEPT !.files = r.files]]
      BY <1>2, <2>1, <2>2 DEF Inv, Storage, StorageTypes
    <3>2. [x EXCEPT !.files = r.files] = y
      BY <1>3, <2>2 DEF Directory
    <3> QED
      BY <3>1, <3>2
  <2>3. CASE child # "files"
    <3>1. data' = [data EXCEPT ![d] = [x EXCEPT !.db = r.db]]
      BY <1>2, <2>1, <2>3 DEF Inv, Storage, StorageTypes
    <3>2. [x EXCEPT !.db = r.db] = y
      BY <1>3, <2>3 DEF Directory
    <3> QED
      BY <3>1, <3>2
  <2> QED
    BY <2>2, <2>3
<1>5. /\ y \in Directory /\ y # None
      /\ y.db = IF child = "files" THEN x.db ELSE r.db
      /\ y.files = IF child = "files" THEN r.files ELSE x.files
  BY <1>3, NoneAssumption DEF Directory, Copy
<1> HIDE DEF y
<1>6. \A e \in Dirs : data'[e] = IF e = d THEN y ELSE data[e]
  BY <1>4 DEF Inv, Storage, StorageTypes
<1>7. ~last => /\ tool' = [tool EXCEPT ![t] = w] /\ w \in Moving /\ w.pc = "moving"
               /\ w.to = d /\ w.backup = v.backup /\ w.todo = v.todo \ {child}
  <2> SUFFICES ASSUME ~last
               PROVE  /\ tool' = [tool EXCEPT ![t] = w] /\ w \in Moving /\ w.pc = "moving"
                      /\ w.to = d /\ w.backup = v.backup /\ w.todo = v.todo \ {child}
    OBVIOUS
  <2>1. tool' = [tool EXCEPT ![t].todo = @ \ {child}]
    BY DEF MoveChild
  <2>2. tool' = [tool EXCEPT ![t] = w]
    BY <2>1 DEF Inv, Storage, StorageTypes
  <2>3. v.todo \ {child} \in (SUBSET {"database", "files"}) \ {{}}
    BY <1>1, <1>2 DEF Moving
  <2> QED
    BY <1>2, <2>2, <2>3 DEF Moving
<1> HIDE DEF w
<1>8. \A z \in Tools : z # t => tool'[z] = tool[z]
  BY <1>1, <1>7 DEF Inv, Storage, StorageTypes
<1>9. tool'[t] = IF last THEN Idle ELSE w
  BY <1>1, <1>7 DEF Inv, Storage, StorageTypes
<1>10. /\ torn' \in {torn, torn \ {d}}
       /\ d \notin torn' => /\ y.db # None => HaveFiles(y.db, y.files)
  <2>1. CASE v.backup \in torn \/ ~last
    BY <1>1, <1>2, <2>1 DEF Inherited
  <2>2. CASE v.backup \notin torn /\ last
    <3>1. torn' = torn \ {d} /\ HaveFiles(r.db, r.files)
      BY <1>1, <1>2, <1>3, <2>2 DEF Inherited, Inv, Storage, BackupsSound
    <3>2. y.files = r.files
      BY <1>1, <1>2, <1>5, <2>2 DEF MoveSound, Moving
    <3>3. y.db # None => y.db.rows = r.db.rows
      BY <1>1, <1>2, <1>5, <2>2 DEF MoveSound, Moving
    <3> QED
      BY <3>1, <3>2, <3>3 DEF HaveFiles
  <2> QED
    BY <2>1, <2>2
<1>11. \A e \in Dirs \cup Backups : e # d => (e \in torn <=> e \in torn')
  BY <1>10
<1> HIDE DEF last
<1>12. StorageTypes'
  <2>1. data' \in [Dirs -> Directory \cup {None}] /\ torn' \subseteq Dirs \cup Backups
    BY <1>4, <1>5, <1>10 DEF Inv, Storage, StorageTypes
  <2>2. tool' \in [Tools -> ToolType]
    BY <1>1, <1>7, ToolsAre DEF Inv, Storage, StorageTypes
  <2> QED
    BY <1>1, <2>1, <2>2 DEF Inv, Storage, StorageTypes
<1>13. DirsSound'
  BY <1>6, <1>10, <1>11 DEF Inv, Storage, DirsSound
<1>14. BackupsSound'
  BY <1>1, <1>2, <1>11, DataAssumption DEF Inv, Storage, BackupsSound
<1>15. CopiesSound'
  <2> SUFFICES ASSUME NEW z \in Tools, Copying(z)'
               PROVE  CopySound(tool'[z], data'[tool'[z].from])
    BY DEF CopiesSound
  <2>1. z # t
    BY <1>7, <1>9, ToolsAre DEF Copying
  <2>2. tool'[z] = tool[z] /\ Copying(z) /\ tool[z] \in ToolType
    BY <1>8, <2>1 DEF Copying, Inv, Storage, StorageTypes
  <2>3. tool[z].from \in Dirs /\ CopySound(tool[z], data[tool[z].from])
    BY <2>2, ToolIs DEF Copying, Began, Filing, Inv, Storage, CopiesSound
  <2>4. CASE tool[z].from # d
    BY <1>6, <2>2, <2>3, <2>4
  <2>5. CASE tool[z].from = d
    <3>1. x.db # None
      BY <2>3, <2>5 DEF CopySound
    <3>2. child = "files" /\ x.files = NoFiles
      BY <1>1, <1>2, <3>1 DEF MoveSound
    <3>3. \A u \in Uploads : tool[z].before[u] # "whole"
      BY <2>3, <2>5, <3>2 DEF CopySound, NoFiles
    <3>4. CopySound(tool[z], y)
      BY <1>5, <2>3, <2>5, <3>1, <3>2, <3>3 DEF CopySound
    <3> QED
      BY <1>6, <2>2, <2>3, <2>5, <3>4
  <2> QED
    BY <2>4, <2>5
<1>16. ASSUME NEW z \in Tools, At(z, "moving")', z # t
       PROVE  /\ tool'[z] = tool[z] /\ At(z, "moving")
              /\ tool[z].to \in Dirs /\ tool[z].to # d
  <2>1. tool'[z] = tool[z] /\ At(z, "moving") /\ tool[z] \in ToolType
    BY <1>8, <1>16 DEF At, Inv, Storage, StorageTypes
  <2>2. tool[z].to \in Dirs
    BY <2>1, ToolIs DEF At, Moving
  <2>3. tool[z].to # d
    BY <1>1, <1>16, <2>1 DEF Inv, Storage, Apart, At
  <2> QED
    BY <2>1, <2>2, <2>3
<1>17. At(t, "moving")' => tool'[t] = w /\ torn' = torn /\ ~last
  BY <1>1, <1>9, ToolsAre DEF At
<1>18. MovesSound'
  <2> SUFFICES ASSUME NEW z \in Tools, At(z, "moving")'
               PROVE  /\ MoveSound(tool'[z], data'[tool'[z].to], backup'[tool'[z].backup])
                      /\ tool'[z].to \in torn' /\ tool'[z].to # server'
    BY DEF MovesSound
  <2>1. CASE z = t
    <3>1. MoveSound(w, y, r)
      <4>1. w.todo = v.todo \ {child} /\ tool'[t] = w
        BY <1>7, <1>17, <2>1
      <4>2. r.db # None
        BY <1>3, NoneAssumption DEF Copy
      <4>3. CASE child = "files"
        BY <1>2, <1>3, <1>5, <4>1, <4>3 DEF MoveSound
      <4>4. CASE child = "database"
        BY <1>2, <1>3, <1>5, <4>1, <4>2, <4>4 DEF MoveSound
      <4> QED
        BY <4>3, <4>4
    <3> QED
      BY <1>1, <1>2, <1>6, <1>7, <1>17, <2>1, <3>1
  <2>2. CASE z # t
    <3>1. /\ tool'[z] = tool[z] /\ At(z, "moving")
          /\ tool[z].to \in Dirs /\ tool[z].to # d
      BY <1>16, <2>2
    <3> QED
      BY <1>1, <1>6, <1>11, <3>1 DEF Inv, Storage, MovesSound
  <2> QED
    BY <2>1, <2>2
<1>19. Apart'
  <2> SUFFICES ASSUME NEW z \in Tools, NEW q \in Tools,
                      At(z, "moving")', At(q, "moving")', z # q
               PROVE  tool'[z].to # tool'[q].to
    BY DEF Apart
  <2>1. CASE z # t /\ q # t
    BY <1>16, <2>1 DEF Inv, Storage, Apart
  <2>2. CASE z = t \/ q = t
    BY <1>7, <1>16, <1>17, <2>2
  <2> QED
    BY <2>1, <2>2
<1>20. Storage'
  BY <1>12, <1>13, <1>14, <1>15, <1>18, <1>19 DEF Storage
<1>21. server # None => data'[server] = data[server] /\ (server \in torn => server \in torn')
  BY <1>2, <1>6, <1>11 DEF Inv, Serves
<1>22. Serves'
  BY <1>1, <1>21, ServesOn DEF Inv, serverVars
<1> QED
  BY <1>20, <1>22 DEF Inv

-----------------------------------------------------------------------------
(* Every state.                                                             *)

LEMMA Initially == ASSUME Init PROVE Inv
<1> DEFINE new == [EmptyDirectory EXCEPT !.db = EmptyDatabase]
<1>1. PICK d \in Dirs : data = [e \in Dirs |-> IF e # d THEN None ELSE new]
  BY DEF Init
<1>2. new \in Directory /\ new.db = EmptyDatabase
  BY EmptyIs DEF Directory, EmptyDirectory
<1> HIDE DEF new
<1>3. /\ code \in 1..MaxVersion /\ torn = {} /\ server = None /\ uploading = {}
      /\ creating = None /\ cleaning = {}
      /\ tool = [t \in Tools |-> Idle] /\ backup = [b \in Backups |-> None]
  BY DEF Init
<1>4. StorageTypes
  BY <1>1, <1>2, <1>3, ToolsAre DEF StorageTypes
<1>5. DirsSound
  BY <1>1, <1>2, EmptyIs DEF DirsSound
<1>6. BackupsSound /\ CopiesSound /\ MovesSound /\ Apart
  BY <1>3, ToolsAre DEF BackupsSound, CopiesSound, MovesSound, Apart, Copying, At
<1>7. Serves
  BY <1>3 DEF Serves
<1> QED
  BY <1>4, <1>5, <1>6, <1>7 DEF Inv, Storage

LEMMA StepSound == ASSUME Inv, [Next]_vars PROVE Inv'
<1>1. CASE UNCHANGED vars
  BY <1>1 DEF vars, Inv, Storage, StorageTypes, DirsSound, BackupsSound, CopiesSound,
              MovesSound, Apart, Copying, At, Serves, ServesSound
<1>2. CASE ServerStep
  <2>1. ASSUME NEW d \in Dirs, Start(d) \/ TornStart(d) \/ ClassicWrite(d) PROVE Inv'
    BY <2>1, StartSound, ClassicSound
  <2>2. ASSUME NEW v \in 1..MaxVersion, Install(v) PROVE Inv'
    BY <2>2, InstallSound
  <2>3. CASE Stop \/ WriteContent \/ CleanFiles \/ CleanRows
    BY <2>3, StopSound, WriteContentSound, CleanSound
  <2>4. CASE Bind
    <3>1. creating \in Uploads
      BY <2>4 DEF Bind, Inv, Serves
    <3> QED
      BY <2>4, <3>1, TaskSound
  <2>5. ASSUME NEW u \in Uploads,
               \/ BeginUpload(u) \/ EndFile(u) \/ StoreUpload(u)
               \/ Expire(u) \/ Validate(u) \/ EndTask(u)
        PROVE  Inv'
    BY <2>5, ReceiveSound, ExpireSound, TaskSound
  <2> QED
    BY <1>2, <2>1, <2>2, <2>3, <2>4, <2>5 DEF ServerStep
<1>3. ASSUME NEW t \in Tools, ToolStep(t) PROVE Inv'
  <2>1. ASSUME NEW d \in Dirs, NEW path \in Dirs, StartCopy(t, "import", d, path) PROVE Inv'
    BY <2>1, StartCopySound
  <2>2. ASSUME NEW d \in Dirs, NEW b \in Backups, StartCopy(t, "backup", d, b) PROVE Inv'
    BY <2>2, StartCopySound
  <2>3. ASSUME NEW d \in Dirs, NEW b \in Backups, StartRestore(t, b, d) PROVE Inv'
    BY <2>3, StartRestoreSound
  <2>4. CASE CopyDatabase(t) \/ FinishCopy(t) \/ FailCopy(t) \/ CutRestore(t)
    BY <2>4, CopyDatabaseSound, FinishCopySound, ToolEnds
  <2>5. ASSUME NEW u \in Uploads, CopyFile(t, u) PROVE Inv'
    BY <2>5, CopyFileSound
  <2>6. ASSUME NEW child \in {"database", "files"}, MoveChild(t, child) PROVE Inv'
    BY <2>6, MoveChildSound
  <2> QED
    BY <1>3, <2>1, <2>2, <2>3, <2>4, <2>5, <2>6 DEF ToolStep
<1>4. ASSUME NEW d \in Dirs, MakeVolume(d) \/ \E b \in Backups : RestoreNew(b, d) PROVE Inv'
  BY <1>4, PlacedSound
<1> QED
  BY <1>1, <1>2, <1>3, <1>4 DEF Next

(* The directories and backups, what copies and restores in progress rest   *)
(* on, and what the Server's operations in progress rest on.                *)
THEOREM Soundness == Spec => []Inv
<1>1. Init => Inv
  BY Initially
<1>2. Inv /\ [Next]_vars => Inv'
  BY StepSound
<1> QED
  BY <1>1, <1>2, PTL DEF Spec

(* Every variable keeps its type; the Server has a database.                *)
THEOREM TypeCorrect == Spec => []TypeOK
<1>1. Inv => TypeOK
  BY DEF Inv, Storage, StorageTypes, Serves, ServesSound, TypeOK
<1> QED
  BY <1>1, Soundness, PTL

(* Every input that has not expired is there with its row, in every         *)
(* directory and every backup, for every number of them, of inputs and of   *)
(* tools that run at once while the Server takes uploads and cleans up; but *)
(* what stems from a directory a restore was cut off in is excepted.        *)
THEOREM RowsHaveFilesHolds == Spec => []RowsHaveFiles
<1>1. Inv => RowsHaveFiles
  BY DEF Inv, Storage, DirsSound, BackupsSound, RowsHaveFiles
<1> QED
  BY <1>1, Soundness, PTL

(* The Server serves a database of its own schema only, whatever versions   *)
(* of the program are installed one after the other.                        *)
THEOREM ServedIsCurrentHolds == Spec => []ServedIsCurrent
<1>1. Inv => ServedIsCurrent
  BY DEF Inv, Serves, ServesSound, ServedIsCurrent
<1> QED
  BY <1>1, Soundness, PTL

-----------------------------------------------------------------------------
(* Every step.                                                              *)

BackupsLast == \A b \in Backups : backup[b] # None => backup'[b] = backup[b]
DirsLast == \A d \in Dirs : data[d] # None /\ data[d].db # None =>
               /\ data'[d] # None /\ data'[d].db # None
               /\ data'[d].db.schema >= data[d].db.schema
               /\ data'[d].db.content >= data[d].db.content

LEMMA OthersLast ==
  ASSUME StorageTypes, NEW d \in Dirs, NEW x, data' = [data EXCEPT ![d] = x],
         data[d] # None /\ data[d].db # None =>
            /\ x # None /\ x.db # None
            /\ x.db.schema >= data[d].db.schema /\ x.db.content >= data[d].db.content
  PROVE  DirsLast
<1> SUFFICES ASSUME NEW e \in Dirs, data[e] # None, data[e].db # None
             PROVE  /\ data'[e] # None /\ data'[e].db # None
                    /\ data'[e].db.schema >= data[e].db.schema
                    /\ data'[e].db.content >= data[e].db.content
  BY DEF DirsLast
<1>1. data[e].db.schema \in Nat /\ data[e].db.content \in Nat
  <2>1. data[e].db \in Database
    BY DirIs
  <2> QED
    BY <2>1, DataAssumption DEF Database
<1>2. data'[e] = IF e = d THEN x ELSE data[e]
  BY DEF StorageTypes
<1> QED
  BY <1>1, <1>2

LEMMA DirsStay == ASSUME StorageTypes, UNCHANGED data PROVE DirsLast
<1> SUFFICES ASSUME NEW e \in Dirs, data[e] # None, data[e].db # None
             PROVE  /\ data[e].db.schema >= data[e].db.schema
                    /\ data[e].db.content >= data[e].db.content
  BY DEF DirsLast
<1>1. data[e].db \in Database
  BY DirIs
<1> QED
  BY <1>1, DataAssumption DEF Database

(* The Server writes neither the schema nor, but to count up, the content.  *)
LEMMA ServerLasts ==
  ASSUME Inv, Inv', server # None, UNCHANGED <<code, server>>, NEW db, NEW files,
         data' = [data EXCEPT ![server] = [db |-> db, files |-> files]],
         db.content \in {data[server].db.content, data[server].db.content + 1}
  PROVE  DirsLast
<1>1. server \in Dirs /\ data[server].db \in Database /\ data[server].db.schema = code
  BY Served DEF ServesSound
<1>2. data'[server] = [db |-> db, files |-> files]
  BY <1>1 DEF Inv, Storage, StorageTypes
<1>3. data'[server] # None /\ data'[server].db # None /\ data'[server].db.schema = code
  BY DEF Inv, Serves, ServesSound
<1>4. code \in Nat /\ data[server].db.content \in Nat
  BY <1>1, DataAssumption DEF Database, Inv, Serves
<1>5. StorageTypes
  BY DEF Inv, Storage
<1>6. \A e \in Dirs : e # server => data'[e] = data[e]
  BY <1>5 DEF StorageTypes
<1> SUFFICES ASSUME NEW e \in Dirs, data[e] # None, data[e].db # None
             PROVE  /\ data'[e] # None /\ data'[e].db # None
                    /\ data'[e].db.schema >= data[e].db.schema
                    /\ data'[e].db.content >= data[e].db.content
  BY DEF DirsLast
<1>7. CASE e = server
  BY <1>1, <1>2, <1>3, <1>4, <1>7
<1>8. CASE e # server
  <2>1. data[e].db \in Database
    BY <1>5, DirIs
  <2> QED
    BY <1>6, <1>8, <2>1, DataAssumption DEF Database
<1> QED
  BY <1>7, <1>8

LEMMA UploadsLast ==
  ASSUME Inv, Inv', NEW u \in Uploads,
         \/ BeginUpload(u) \/ EndFile(u) \/ StoreUpload(u) \/ Expire(u)
         \/ CleanFiles \/ CleanRows \/ Bind \/ EndTask(u)
  PROVE  BackupsLast /\ DirsLast
<1> DEFINE x == data[server]
           Written(db, files) ==
              /\ data' = [data EXCEPT ![server] = [db |-> db, files |-> files]]
              /\ db.content \in {x.db.content, x.db.content + 1}
<1>1. server # None /\ UNCHANGED <<code, server, backup>>
  BY DEF BeginUpload, EndFile, StoreUpload, Expire, CleanFiles, CleanRows,
         Bind, EndTask, Serving, serverVars, toolVars
<1>2. x \in Directory /\ x.db \in Database
  BY <1>1, Served
<1>3. CASE BeginUpload(u)
  <2>1. Written([x.db EXCEPT !.rows = WithoutRows(@, Expired)],
                [WithoutFiles(x.files, Expired) EXCEPT ![u] = "part"])
    BY <1>2, <1>3 DEF BeginUpload, Commit, Database
  <2> QED
    BY <1>1, <2>1, ServerLasts DEF BackupsLast
<1>4. CASE EndFile(u)
  <2>1. \E files : Written(x.db, files)
    BY <1>4 DEF EndFile, Commit
  <2> QED
    BY <1>1, <2>1, ServerLasts DEF BackupsLast
<1>5. CASE StoreUpload(u)
  <2>1. \E db, files : Written(db, files)
    BY <1>2, <1>5 DEF StoreUpload, Commit, Database
  <2> QED
    BY <1>1, <2>1, ServerLasts DEF BackupsLast
<1>6. CASE Expire(u)
  <2> DEFINE db == [x.db EXCEPT !.rows[u] = "expired"]
  <2>1. data' = [data EXCEPT ![server] = [x EXCEPT !.db = db]]
    BY <1>6 DEF Expire
  <2>2. db.content = x.db.content
    BY <1>2 DEF Database
  <2> HIDE DEF db
  <2>3. [x EXCEPT !.db = db] = [db |-> db, files |-> x.files]
    BY <1>2 DEF Directory
  <2>4. Written(db, x.files)
    BY <2>1, <2>2, <2>3
  <2> QED
    BY <1>1, <2>4, ServerLasts DEF BackupsLast
<1>7. CASE CleanFiles
  <2>1. \E files : Written(x.db, files)
    BY <1>7 DEF CleanFiles, Commit
  <2> QED
    BY <1>1, <2>1, ServerLasts DEF BackupsLast
<1>8. CASE CleanRows
  <2>1. Written([x.db EXCEPT !.rows = WithoutRows(@, cleaning)], x.files)
    BY <1>2, <1>8 DEF CleanRows, Commit, Database
  <2> QED
    BY <1>1, <2>1, ServerLasts DEF BackupsLast
<1>9. CASE Bind
  <2>1. Written([x.db EXCEPT !.refs = @ \cup {creating},
                             !.rows[creating] = IF @ = "none" THEN @ ELSE "bound"],
                x.files)
    BY <1>2, <1>9 DEF Bind, Commit, Database
  <2> QED
    BY <1>1, <2>1, ServerLasts DEF BackupsLast
<1>10. CASE EndTask(u)
  <2>1. Written([x.db EXCEPT !.refs = @ \ {u},
                             !.rows[u] = IF @ = "bound" THEN "ended" ELSE @],
                x.files)
    BY <1>2, <1>10 DEF EndTask, Commit, Database
  <2> QED
    BY <1>1, <2>1, ServerLasts DEF BackupsLast
<1> QED
  BY <1>3, <1>4, <1>5, <1>6, <1>7, <1>8, <1>9, <1>10

(* A migration takes the schema up, and leaves the content as it is.        *)
LEMMA StartLasts ==
  ASSUME Inv, NEW d \in Dirs, Start(d) \/ TornStart(d) \/ ClassicWrite(d)
  PROVE  BackupsLast /\ DirsLast
<1>1. UNCHANGED backup
  BY DEF Start, TornStart, ClassicWrite
<1>2. StorageTypes /\ code \in 1..MaxVersion /\ code \in Nat
  BY DataAssumption DEF Inv, Storage, Serves
<1>3. /\ Here(d) \in Directory /\ Found(d) \in Database
      /\ data[d] # None /\ data[d].db # None => Here(d) = data[d] /\ Found(d) = data[d].db
  BY <1>2, DirIs
<1>4. Found(d).schema \in Nat /\ Found(d).content \in Nat
  BY <1>3, DataAssumption DEF Database
<1>5. ASSUME NEW db \in Database, NEW files \in Files,
             data' = [data EXCEPT ![d] = [db |-> db, files |-> files]],
             db.schema >= Found(d).schema, db.content >= Found(d).content
      PROVE  DirsLast
  <2> DEFINE x == [db |-> db, files |-> files]
  <2>1. x \in Directory /\ x # None /\ x.db = db /\ x.db # None
    BY NoneAssumption DEF Directory
  <2> HIDE DEF x
  <2>2. data' = [data EXCEPT ![d] = x]
    BY <1>5 DEF x
  <2> QED
    BY <1>2, <1>3, <1>5, <2>1, <2>2, OthersLast
<1>6. \A db : [Here(d) EXCEPT !.db = db] = [db |-> db, files |-> Here(d).files]
  BY <1>3 DEF Directory
<1>7. Here(d).files \in Files
  BY <1>3 DEF Directory
<1>8. CASE Start(d)
  <2> DEFINE db == Migrated(Found(d))
  <2>1. db \in Database /\ db.content = Found(d).content
        /\ db.schema = IF Found(d).schema < code THEN code ELSE Found(d).schema
    BY <1>2, <1>3, MigratedIs
  <2>2. data' = [data EXCEPT ![d] = [Here(d) EXCEPT !.db = db]]
    BY <1>8 DEF Start
  <2> HIDE DEF db
  <2>3. data' = [data EXCEPT ![d] = [db |-> db, files |-> Here(d).files]]
    BY <1>6, <2>2
  <2>4. db.schema >= Found(d).schema /\ db.content >= Found(d).content
    BY <1>2, <1>4, <2>1
  <2>5. DirsLast
    BY <1>5, <1>7, <2>1, <2>3, <2>4
  <2> QED
    BY <1>1, <2>5 DEF BackupsLast
<1>9. CASE TornStart(d)
  <2>1. data' = [data EXCEPT ![d] = [db |-> Found(d), files |-> Here(d).files]]
    BY <1>6, <1>9 DEF TornStart
  <2>2. Found(d).schema >= Found(d).schema /\ Found(d).content >= Found(d).content
    BY <1>4
  <2>3. DirsLast
    BY <1>3, <1>5, <1>7, <2>1, <2>2
  <2> QED
    BY <1>1, <2>3 DEF BackupsLast
<1>10. CASE ClassicWrite(d)
  <2> DEFINE db == [Found(d) EXCEPT !.content = Found(d).content + 1]
  <2>1. /\ data[d] # None /\ data[d].db # None /\ data[d].db.content < MaxContent
        /\ Commit(d, [data[d].db EXCEPT !.content = @ + 1], data[d].files)
    BY <1>10 DEF ClassicWrite
  <2>2. Found(d).content + 1 \in 0..MaxContent
    BY <1>3, <1>4, <2>1, DataAssumption
  <2>3. /\ db \in Database /\ db.content = Found(d).content + 1
        /\ db.schema = Found(d).schema
    BY <1>3, <2>2 DEF Database
  <2>4. data' = [data EXCEPT ![d] = [db |-> db, files |-> Here(d).files]]
    BY <1>3, <2>1 DEF Commit
  <2> HIDE DEF db
  <2>5. db.schema >= Found(d).schema /\ db.content >= Found(d).content
    BY <1>4, <2>3
  <2>6. DirsLast
    BY <1>5, <1>7, <2>3, <2>4, <2>5
  <2> QED
    BY <1>1, <2>6 DEF BackupsLast
<1> QED
  BY <1>8, <1>9, <1>10

LEMMA FinishCopyLasts ==
  ASSUME Inv, NEW t \in Tools, FinishCopy(t)
  PROVE  BackupsLast /\ DirsLast
<1> DEFINE w == tool[t]
<1>1. At(t, "files") /\ Replaceable(w.kind, w.to) /\ StorageTypes
  BY DEF FinishCopy, Inv, Storage
<1>2. CopySound(w, data[w.from]) /\ w \in Filing
  BY <1>1, ToolIs DEF Inv, Storage, StorageTypes, CopiesSound, Copying, At
<1>3. CASE w.kind = "backup"
  <2>1. /\ backup' = [backup EXCEPT ![w.to] = Published(t)] /\ UNCHANGED data
        /\ backup[w.to] = None
    BY <1>1, <1>3 DEF FinishCopy, Replaceable
  <2>2. BackupsLast
    BY <1>1, <2>1 DEF BackupsLast, StorageTypes
  <2> QED
    BY <1>1, <2>1, <2>2, DirsStay
<1>4. CASE w.kind = "import"
  <2>1. /\ data' = [data EXCEPT ![w.to] = [db |-> Migrated(w.db), files |-> w.files]]
        /\ UNCHANGED backup
        /\ w.to \in Dirs /\ data[w.to] \in {None, EmptyDirectory}
    BY <1>1, <1>2, <1>4 DEF FinishCopy, Replaceable, CopySound
  <2>2. ~(data[w.to] # None /\ data[w.to].db # None)
    BY <2>1, EmptyIs
  <2>3. DirsLast
    BY <1>1, <2>1, <2>2, OthersLast
  <2> QED
    BY <2>1, <2>3 DEF BackupsLast
<1> QED
  BY <1>2, <1>3, <1>4 DEF Filing

LEMMA MoveChildLasts ==
  ASSUME Inv, NEW t \in Tools, NEW child \in {"database", "files"}, MoveChild(t, child)
  PROVE  BackupsLast /\ DirsLast
<1> DEFINE v == tool[t]
           d == v.to
           x == data[d]
           r == backup[v.backup]
<1>1. v.pc = "moving" /\ child \in v.todo /\ UNCHANGED backup /\ StorageTypes
  BY DEF MoveChild, At, Inv, Storage
<1>2. v \in Moving /\ MoveSound(v, x, r) /\ d \in Dirs
  BY <1>1, ToolIs DEF Inv, Storage, StorageTypes, MovesSound, At, Moving
<1>3. x \in Directory /\ x # None
  BY <1>1, <1>2 DEF StorageTypes, MoveSound
<1>4. CASE child = "files"
  <2> DEFINE y == [x EXCEPT !.files = r.files]
  <2>1. data' = [data EXCEPT ![d] = y]
    BY <1>1, <1>2, <1>4 DEF MoveChild, StorageTypes
  <2>2. y.db = x.db /\ y # None
    <3>1. r \in Copy
      BY <1>1, <1>2 DEF StorageTypes, MoveSound, Moving
    <3>2. y \in Directory /\ y.db = x.db
      BY <1>3, <3>1 DEF Directory, Copy
    <3> QED
      BY <3>2, NoneAssumption
  <2> HIDE DEF y
  <2>3. x.db # None => x.db.schema >= x.db.schema /\ x.db.content >= x.db.content
    <3>1. x.db # None => x.db \in Database
      BY <1>3 DEF Directory
    <3> QED
      BY <3>1, DataAssumption DEF Database
  <2>4. DirsLast
    BY <1>1, <1>2, <2>1, <2>2, <2>3, OthersLast
  <2> QED
    BY <1>1, <2>4 DEF BackupsLast
<1>5. CASE child = "database"
  <2>1. x.db = None
    BY <1>1, <1>2, <1>5 DEF MoveSound
  <2>2. data' = [data EXCEPT ![d] = [x EXCEPT !.db = r.db]]
    BY <1>1, <1>2, <1>5 DEF MoveChild, StorageTypes
  <2>3. DirsLast
    BY <1>1, <1>2, <2>1, <2>2, OthersLast
  <2> QED
    BY <1>1, <2>3 DEF BackupsLast
<1> QED
  BY <1>4, <1>5

LEMMA PlacedLasts ==
  ASSUME Inv, NEW d \in Dirs, MakeVolume(d) \/ \E b \in Backups : RestoreNew(b, d)
  PROVE  BackupsLast /\ DirsLast
<1>1. UNCHANGED backup /\ data[d] = None
  BY DEF MakeVolume, RestoreNew, toolVars
<1>2. \E x : data' = [data EXCEPT ![d] = x]
  BY DEF MakeVolume, RestoreNew
<1>3. DirsLast
  BY <1>1, <1>2, OthersLast DEF Inv, Storage
<1> QED
  BY <1>1, <1>3 DEF BackupsLast

LEMMA StepLasts ==
  ASSUME Inv, Inv', [Next]_vars
  PROVE  BackupsLast /\ DirsLast
<1>1. ASSUME UNCHANGED <<data, backup>> PROVE BackupsLast /\ DirsLast
  BY <1>1, DirsStay DEF Inv, Storage, BackupsLast
<1>2. CASE UNCHANGED vars
  BY <1>1, <1>2 DEF vars
<1>3. CASE ServerStep
  <2>1. ASSUME NEW d \in Dirs, Start(d) \/ TornStart(d) \/ ClassicWrite(d)
        PROVE  BackupsLast /\ DirsLast
    BY <2>1, StartLasts
  <2>2. ASSUME NEW v \in 1..MaxVersion, Install(v) PROVE BackupsLast /\ DirsLast
    BY <1>1, <2>2 DEF Install, toolVars
  <2>3. CASE Stop
    BY <1>1, <2>3 DEF Stop
  <2>4. CASE WriteContent
    <3>1. UNCHANGED backup
      BY <2>4 DEF WriteContent
    <3>2. /\ server # None /\ UNCHANGED <<code, server>>
          /\ data' = [data EXCEPT ![server] =
                        [db |-> [data[server].db EXCEPT !.content = @ + 1],
                         files |-> data[server].files]]
      BY <2>4 DEF WriteContent, Serving, Commit, serverVars
    <3>3. [data[server].db EXCEPT !.content = @ + 1].content = data[server].db.content + 1
      BY <3>2, Served DEF Database
    <3> QED
      BY <3>1, <3>2, <3>3, ServerLasts DEF BackupsLast
  <2>5. ASSUME NEW u \in Uploads,
               BeginUpload(u) \/ EndFile(u) \/ StoreUpload(u) \/ Expire(u) \/ EndTask(u)
        PROVE  BackupsLast /\ DirsLast
    BY <2>5, UploadsLast
  <2>6. ASSUME NEW u \in Uploads, Validate(u) PROVE BackupsLast /\ DirsLast
    BY <1>1, <2>6 DEF Validate, toolVars
  <2>7. CASE CleanFiles \/ CleanRows \/ Bind
    <3>1. PICK u \in Uploads : TRUE
      BY <2>7 DEF CleanFiles, Expired, CleanRows, Bind, Inv, Serves
    <3> QED
      BY <2>7, UploadsLast
  <2> QED
    BY <1>3, <2>1, <2>2, <2>3, <2>4, <2>5, <2>6, <2>7 DEF ServerStep
<1>4. ASSUME NEW t \in Tools, ToolStep(t) PROVE BackupsLast /\ DirsLast
  <2>1. CASE FinishCopy(t)
    BY <2>1, FinishCopyLasts
  <2>2. ASSUME NEW child \in {"database", "files"}, MoveChild(t, child)
        PROVE  BackupsLast /\ DirsLast
    BY <2>2, MoveChildLasts
  <2>3. CASE ~FinishCopy(t) /\ ~\E child \in {"database", "files"} : MoveChild(t, child)
    BY <1>1, <1>4, <2>3
       DEF ToolStep, StartCopy, StartRestore, CopyDatabase, FailCopy, CutRestore, CopyFile
  <2> QED
    BY <2>1, <2>2, <2>3
<1>5. ASSUME NEW d \in Dirs, MakeVolume(d) \/ \E b \in Backups : RestoreNew(b, d)
      PROVE  BackupsLast /\ DirsLast
  BY <1>5, PlacedLasts
<1> QED
  BY <1>2, <1>3, <1>4, <1>5 DEF Next

(* No step, of any program version, tool or crash, takes a database away or *)
(* its schema or content back to what it was, or changes a finished backup. *)
THEOREM NothingIsLostHolds == Spec => NothingIsLost
<1>1. Inv /\ Inv' /\ [Next]_vars => BackupsLast /\ DirsLast
  BY StepLasts
<1>2. Inv /\ Inv' /\ [Next]_vars
         => [/\ \A b \in Backups : backup[b] # None => backup'[b] = backup[b]
             /\ \A d \in Dirs : data[d] # None /\ data[d].db # None =>
                   /\ data'[d] # None /\ data'[d].db # None
                   /\ data'[d].db.schema >= data[d].db.schema
                   /\ data'[d].db.content >= data[d].db.content]_vars
  BY <1>1 DEF BackupsLast, DirsLast
<1> QED
  BY <1>2, Soundness, PTL DEF Spec, NothingIsLost

=============================================================================
