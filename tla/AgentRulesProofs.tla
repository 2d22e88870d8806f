-------------------------- MODULE AgentRulesProofs --------------------------
(***************************************************************************)
(* What AgentRules promises, for any users, documents and compilations.    *)
(***************************************************************************)
EXTENDS AgentRules, FiniteSetTheorems, TLAPS

(* A document with an active version has been created. *)
ActiveExists == \A d \in Docs : doc[d].active # None => doc[d].source > 0

(* Two active rules of one scope have different policies. *)
ScopesAgree ==
    \A e, f \in Docs :
        /\ e # f /\ ScopeOf(e) = ScopeOf(f)
        /\ doc[e].active # None /\ doc[f].active # None
        => \/ cand[doc[e].active].policy # cand[doc[f].active].policy
           \/ cand[doc[e].active].policy = Plain

(* The rules of a task have been compiled and are valid. *)
TaskRulesDrawn ==
    \A k \in Tasks : \A c \in task[k].rules : Drawn(c) /\ cand[c].policy # None

(* A compilation is of a source its document has. *)
SourcesKnown ==
    \A h \in Compilers : compiler[h] # None =>
        compiler[h].source \in 1..doc[compiler[h].doc].source

Inv == /\ TypeOK
       /\ SourcesKnown
       /\ ActiveExists
       /\ ActiveIsSound
       /\ ScopesAgree
       /\ CapacityKept
       /\ TaskRulesDrawn
       /\ TaskRulesAgree

ActiveOf(u) == {d \in System \cup Personal(u) : doc[d].active # None}

-----------------------------------------------------------------------------
(* Counting.                                                               *)

LEMMA ActiveOfFinite ==
  ASSUME NEW u \in Users PROVE IsFiniteSet(ActiveOf(u))
<1>1. ActiveOf(u) \subseteq Docs
  BY RulesAssumption DEF ActiveOf, Personal
<1> QED
  BY <1>1, RulesAssumption, FS_Subset

(* No more rules are active than before. *)
LEMMA FewerActive ==
  ASSUME CapacityKept, doc \in [Docs -> Doc],
         \A d \in Docs : doc'[d].active \in {doc[d].active, None}
  PROVE  CapacityKept'
<1> SUFFICES ASSUME NEW u \in Users
             PROVE  Cardinality(ActiveOf(u)') <= MaxActive
  BY DEF CapacityKept, ActiveOf
<1>1. ActiveOf(u)' \subseteq ActiveOf(u)
  BY RulesAssumption DEF ActiveOf, Personal
<1>2. /\ Cardinality(ActiveOf(u)') <= Cardinality(ActiveOf(u))
      /\ IsFiniteSet(ActiveOf(u)')
  BY <1>1, ActiveOfFinite, FS_Subset
<1>3. Cardinality(ActiveOf(u)) <= MaxActive
  BY DEF CapacityKept, ActiveOf
<1>4. Cardinality(ActiveOf(u)) \in Nat /\ Cardinality(ActiveOf(u)') \in Nat
  BY <1>2, ActiveOfFinite, FS_CardinalityType
<1> QED
  BY <1>2, <1>3, <1>4, RulesAssumption

(* What _validate_active_capacity() adds up is the number of the rules of  *)
(* a user, where each active version is sound.                             *)
LEMMA CapacityIsCount ==
  ASSUME NEW docs \in [Docs -> Doc], NEW u \in Users,
         \A d \in Docs : docs[d].active # None =>
             /\ docs[d].source > 0 /\ ~docs[d].deleted
             /\ cand[docs[d].active].policy # None
  PROVE  Cardinality({d \in System \cup Personal(u) : docs[d].active # None})
           = Cardinality(ActiveIn(docs, System))
               + Cardinality(ActiveIn(docs, Personal(u)))
<1> DEFINE S == ActiveIn(docs, System)
           P == ActiveIn(docs, Personal(u))
<1>1. {d \in System \cup Personal(u) : docs[d].active # None} = S \cup P
  BY RulesAssumption DEF ActiveIn, Personal
<1>2. S \cap P = {}
  BY DEF ActiveIn, Personal
<1>3. S \subseteq Docs /\ P \subseteq Docs
  BY RulesAssumption DEF ActiveIn, Personal
<1>4. IsFiniteSet(S) /\ IsFiniteSet(P)
  BY <1>3, RulesAssumption, FS_Subset
<1> HIDE DEF S, P
<1>5. Cardinality(S \cup P) = Cardinality(S) + Cardinality(P)
                                - Cardinality(S \cap P)
  BY <1>4, FS_Union
<1>6. Cardinality(S \cap P) = 0 /\ Cardinality(S) \in Nat /\ Cardinality(P) \in Nat
  BY <1>2, <1>4, FS_EmptySet, FS_CardinalityType
<1>7. Cardinality(S \cup P) = Cardinality(S) + Cardinality(P)
  BY <1>5, <1>6
<1> QED
  BY <1>1, <1>7 DEF S, P

-----------------------------------------------------------------------------
(* Activation.                                                             *)

LEMMA ActivateSound ==
  ASSUME Inv, NEW d \in Docs, NEW c \in Cands, Activate(d, c)
  PROVE  TypeOK' /\ SourcesKnown' /\ ActiveExists' /\ ActiveIsSound'
<1>1. doc' = [doc EXCEPT ![d].active = c] /\ doc \in [Docs -> Doc]
  BY DEF Activate, Inv, TypeOK
<1>2. doc' \in [Docs -> Doc]
  BY <1>1 DEF Doc
<1>3. \A e \in Docs : doc'[e].source = doc[e].source
                      /\ doc'[e].deleted = doc[e].deleted
                      /\ (e # d => doc'[e].active = doc[e].active)
  BY <1>1 DEF Doc
<1>4. doc'[d].active = c
  BY <1>1 DEF Doc
<1>5. TypeOK'
  BY <1>2, <1>3 DEF Activate, Inv, TypeOK, Drawn, Cand
<1>6. ActiveExists'
  BY <1>3, <1>4 DEF Activate, Kept, Inv, ActiveExists
<1>7. ActiveIsSound'
  BY <1>3, <1>4 DEF Activate, Kept, Activatable, Inv, ActiveIsSound
<1>8. SourcesKnown'
  BY <1>3 DEF Activate, Inv, TypeOK, Compiler, SourcesKnown
<1> QED
  BY <1>5, <1>6, <1>7, <1>8

LEMMA InOwnScope == ASSUME NEW d \in Docs PROVE d \in ScopeOf(d)
  BY RulesAssumption DEF ScopeOf, Personal

LEMMA ActivateAgrees ==
  ASSUME Inv, NEW d \in Docs, NEW c \in Cands, Activate(d, c),
         TypeOK', ActiveExists', ActiveIsSound'
  PROVE  ScopesAgree'
<1> SUFFICES ASSUME NEW e \in Docs, NEW f \in Docs,
                    e # f, ScopeOf(e) = ScopeOf(f),
                    doc'[e].active # None, doc'[f].active # None
             PROVE  \/ cand'[doc'[e].active].policy # cand'[doc'[f].active].policy
                    \/ cand'[doc'[e].active].policy = Plain
  BY DEF ScopesAgree, ScopeOf, Personal
<1>1. cand' = cand /\ doc' \in [Docs -> Doc]
  BY DEF Activate, TypeOK
<1>2. CASE e # d /\ f # d
  <2>1. doc'[e] = doc[e] /\ doc'[f] = doc[f]
    BY <1>2 DEF Activate, Inv, TypeOK
  <2> QED
    BY <1>1, <2>1 DEF Inv, ScopesAgree
<1>3. CASE e = d \/ f = d
  <2>1. e \in ScopeOf(d) /\ f \in ScopeOf(d)
    BY <1>3, InOwnScope
  <2>2. \A x \in {e, f} : x \in ActiveIn(doc', ScopeOf(d))
    BY <1>1, <2>1 DEF ActiveIn, ActiveExists, ActiveIsSound
  <2>3. NoConflict(doc', d)
    BY DEF Activate
  <2> QED
    BY <1>1, <2>2, <2>3 DEF NoConflict
<1> QED
  BY <1>2, <1>3

LEMMA ActivateFits ==
  ASSUME Inv, NEW d \in Docs, NEW c \in Cands, Activate(d, c),
         TypeOK', ActiveExists', ActiveIsSound'
  PROVE  CapacityKept'
<1> SUFFICES ASSUME NEW u \in Users
             PROVE  Cardinality({e \in System \cup Personal(u) :
                                    doc'[e].active # None}) <= MaxActive
  BY DEF CapacityKept, Personal
<1>1. cand' = cand /\ doc' \in [Docs -> Doc] /\ WithinCapacity(doc', d)
  BY DEF Activate, TypeOK
<1>2. CASE d \in System \/ OwnerOf[d] = u
  <2>1. Cardinality(ActiveIn(doc', System))
          + Cardinality(ActiveIn(doc', Personal(u))) <= MaxActive
    BY <1>1, <1>2 DEF WithinCapacity
  <2>2. \A e \in Docs : doc'[e].active # None =>
             /\ doc'[e].source > 0 /\ ~doc'[e].deleted
             /\ cand[doc'[e].active].policy # None
    BY <1>1 DEF ActiveExists, ActiveIsSound
  <2> HIDE DEF Inv, CapacityKept
  <2> QED
    BY <1>1, <2>1, <2>2, CapacityIsCount
<1>3. CASE d \notin System /\ OwnerOf[d] # u
  <2>1. \A e \in System \cup Personal(u) : doc'[e] = doc[e]
    BY <1>3, RulesAssumption DEF Activate, Personal, Inv, TypeOK
  <2>2. {e \in System \cup Personal(u) : doc'[e].active # None}
          = {e \in System \cup Personal(u) : doc[e].active # None}
    BY <2>1
  <2> QED
    BY <2>2 DEF Inv, CapacityKept
<1> QED
  BY <1>2, <1>3

(* TaskRulesAgree, said of one row of module_tasks and the table rows. *)
Agreeing(t, rows) ==
    \A c, e \in t.rules :
        /\ rows[c].doc \in System \cup Personal(t.creator)
        /\ {x \in t.rules : rows[x].doc = rows[c].doc /\ rows[x].policy # None} = {c}
        /\ c # e /\ rows[c].policy = rows[e].policy /\ rows[c].policy # Plain
              => ScopeOf(rows[c].doc) # ScopeOf(rows[e].doc)

LEMMA AgreeingIsIt ==
  /\ TaskRulesAgree <=> \A k \in Tasks : Agreeing(task[k], cand)
  /\ TaskRulesAgree' <=> \A k \in Tasks : Agreeing(task'[k], cand')
<1>1. TaskRulesAgree <=> \A k \in Tasks : Agreeing(task[k], cand)
  BY DEF TaskRulesAgree, Agreeing, RuleRead
<1>2. TaskRulesAgree' <=> \A k \in Tasks : Agreeing(task'[k], cand')
  BY DEF TaskRulesAgree, Agreeing, RuleRead, ScopeOf, Personal
<1> QED
  BY <1>1, <1>2

LEMMA TasksKept ==
  ASSUME Inv, task' = task, cand' \in [Cands -> Cand],
         \A c \in Cands : Drawn(c) => cand'[c] = cand[c]
  PROVE  TaskRulesDrawn' /\ TaskRulesAgree'
<1>1. \A k \in Tasks : \A c \in task[k].rules :
         /\ c \in Cands /\ Drawn(c) /\ cand[c].policy # None
         /\ cand'[c] = cand[c]
  BY DEF Inv, TypeOK, Task, TaskRulesDrawn
<1>2. TaskRulesDrawn'
  BY <1>1 DEF TaskRulesDrawn, Drawn
<1>3. ASSUME NEW k \in Tasks PROVE Agreeing(task'[k], cand')
  <2>1. Agreeing(task[k], cand)
    BY AgreeingIsIt DEF Inv
  <2>2. \A c \in task[k].rules : cand'[c] = cand[c]
    BY <1>1
  <2> QED
    BY <2>1, <2>2 DEF Agreeing
<1> QED
  BY <1>2, <1>3, AgreeingIsIt

LEMMA ActivateInv ==
  ASSUME Inv, NEW d \in Docs, NEW c \in Cands, Activate(d, c) PROVE Inv'
<1>1. task' = task /\ cand' = cand /\ cand' \in [Cands -> Cand]
  BY DEF Activate, Inv, TypeOK
<1>2. TaskRulesDrawn' /\ TaskRulesAgree'
  BY <1>1, TasksKept
<1> QED
  BY <1>2, ActivateSound, ActivateAgrees, ActivateFits DEF Inv

-----------------------------------------------------------------------------
(* The other steps activate nothing.                                       *)

(* A document may get a newer source or lose its active version, and be    *)
(* deleted without one; a version may be drawn.                            *)
Quiet ==
    /\ \A d \in Docs :
          /\ doc'[d].active \in {doc[d].active, None}
          /\ doc'[d].source >= doc[d].source
          /\ doc'[d].active # None => doc'[d].deleted = doc[d].deleted
    /\ \A c \in Cands :
          \/ cand'[c] = cand[c]
          \/ /\ ~Drawn(c)
             /\ cand'[c].doc \in Docs
             /\ cand'[c].source \in 1..doc'[cand'[c].doc].source

LEMMA QuietInv ==
  ASSUME Inv, Quiet, doc' \in [Docs -> Doc], cand' \in [Cands -> Cand],
         compiler' \in [Compilers -> Compiler], SourcesKnown', task' = task
  PROVE  Inv'
<1>1. \A c \in Cands : Drawn(c) => cand'[c] = cand[c]
  BY DEF Quiet
<1>2. \A d \in Docs : doc'[d].active # None =>
         /\ doc'[d].active = doc[d].active /\ doc[d].active \in Cands
         /\ doc'[d].deleted = doc[d].deleted
         /\ doc'[d].source >= doc[d].source
         /\ doc'[d].source \in Nat /\ doc[d].source \in Nat
  BY RulesAssumption DEF Quiet, Inv, TypeOK, Doc
<1>3. \A d \in Docs : doc'[d].active # None =>
         cand'[doc'[d].active] = cand[doc[d].active]
  BY <1>1, <1>2, RulesAssumption DEF Inv, ActiveIsSound, Drawn
<1>4. TypeOK'
  <2> SUFFICES ASSUME NEW c \in Cands, Drawn(c)'
               PROVE  cand'[c].source \in 1..doc'[cand'[c].doc].source
    BY DEF Inv, TypeOK
  <2>1. CASE cand'[c] = cand[c]
    <3>1. Drawn(c) /\ cand[c].doc \in Docs
      BY <2>1 DEF Drawn, Inv, TypeOK, Cand
    <3>2. cand[c].source \in 1..doc[cand[c].doc].source
      BY <3>1 DEF Inv, TypeOK
    <3>3. /\ doc'[cand[c].doc].source >= doc[cand[c].doc].source
          /\ doc'[cand[c].doc].source \in Nat /\ doc[cand[c].doc].source \in Nat
      BY <3>1, RulesAssumption DEF Quiet, Inv, TypeOK, Doc
    <3> QED
      BY <2>1, <3>2, <3>3
  <2>2. CASE cand'[c] # cand[c]
    BY <2>2 DEF Quiet
  <2> QED
    BY <2>1, <2>2
<1>5. ActiveExists'
  BY <1>2 DEF Inv, ActiveExists
<1>6. ActiveIsSound'
  BY <1>2, <1>3 DEF Inv, ActiveIsSound
<1>7. ScopesAgree'
  BY <1>2, <1>3 DEF Inv, ScopesAgree, ScopeOf, Personal
<1>8. CapacityKept'
  BY FewerActive DEF Inv, TypeOK, Quiet
<1>9. TaskRulesDrawn' /\ TaskRulesAgree'
  BY <1>1, TasksKept
<1> QED
  BY <1>4, <1>5, <1>6, <1>7, <1>8, <1>9 DEF Inv

LEMMA RowsTyped ==
  ASSUME Inv
  PROVE  /\ doc \in [Docs -> Doc] /\ cand \in [Cands -> Cand]
         /\ compiler \in [Compilers -> Compiler]
         /\ \A d \in Docs : doc[d].source \in Nat
         /\ \A d \in Docs : doc[d].source <= MaxSource
  BY RulesAssumption DEF Inv, TypeOK, Doc

(* The row of a document becomes q. *)
LEMMA RowChanges ==
  ASSUME Inv, NEW d \in Docs, NEW q \in Doc,
         doc' = [doc EXCEPT ![d] = q],
         q.active \in {doc[d].active, None}, q.source >= doc[d].source,
         q.active # None => q.deleted = doc[d].deleted,
         UNCHANGED <<cand, compiler, task>>
  PROVE  Inv'
<1>1. doc' \in [Docs -> Doc]
  BY RowsTyped
<1>2. \A e \in Docs : doc'[e] = IF e = d THEN q ELSE doc[e]
  BY RowsTyped
<1>3. Quiet
  BY <1>2, RowsTyped DEF Quiet
<1>4. SourcesKnown'
  <2> SUFFICES ASSUME NEW h \in Compilers, compiler[h] # None
               PROVE  compiler[h].source \in 1..doc'[compiler[h].doc].source
    BY DEF SourcesKnown
  <2>1. compiler[h].doc \in Docs
    BY RowsTyped DEF Compiler
  <2>2. compiler[h].source \in 1..doc[compiler[h].doc].source
    BY DEF Inv, SourcesKnown
  <2>3. /\ doc'[compiler[h].doc].source >= doc[compiler[h].doc].source
        /\ doc'[compiler[h].doc].source \in Nat
    BY <1>1, <1>3, <2>1, RulesAssumption DEF Quiet, Doc
  <2> QED
    BY <2>1, <2>2, <2>3, RowsTyped
<1> QED
  BY <1>1, <1>3, <1>4, RowsTyped, QuietInv

(* The steps of a document other than its activation. *)
LEMMA DocumentInv ==
  ASSUME Inv, NEW d \in Docs,
         \/ CreateDocument(d) \/ DeleteDocument(d) \/ Deactivate(d)
         \/ \E n \in 1..MaxSource : UpdateSource(d, n)
  PROVE  Inv'
<1>0. doc[d] \in Doc /\ doc[d].source \in Nat
  BY RowsTyped
<1>1. CASE CreateDocument(d)
  <2> DEFINE q == [doc[d] EXCEPT !.source = 1]
  <2>1. /\ q \in Doc /\ q.active = doc[d].active /\ q.source >= doc[d].source
        /\ q.deleted = doc[d].deleted
    BY <1>0, <1>1, RulesAssumption DEF CreateDocument, Doc
  <2>2. doc' = [doc EXCEPT ![d] = q] /\ UNCHANGED <<cand, compiler, task>>
    BY <1>1 DEF CreateDocument
  <2> HIDE DEF q
  <2> QED
    BY <2>1, <2>2, RowChanges
<1>2. CASE DeleteDocument(d)
  <2> DEFINE q == [doc[d] EXCEPT !.deleted = TRUE]
  <2>1. q \in Doc /\ q.active = None /\ q.source >= doc[d].source
    <3>1. q \in Doc /\ q.active = doc[d].active /\ q.source = doc[d].source
      BY <1>0 DEF Doc
    <3>2. doc[d].active = None
      BY <1>2 DEF DeleteDocument
    <3> QED
      BY <1>0, <3>1, <3>2
  <2>2. doc' = [doc EXCEPT ![d] = q] /\ UNCHANGED <<cand, compiler, task>>
    BY <1>2 DEF DeleteDocument
  <2> HIDE DEF q
  <2> QED
    BY <2>1, <2>2, RowChanges
<1>3. CASE Deactivate(d)
  <2> DEFINE q == [doc[d] EXCEPT !.active = None]
  <2>1. q \in Doc /\ q.active = None /\ q.source >= doc[d].source
    BY <1>0 DEF Doc
  <2>2. doc' = [doc EXCEPT ![d] = q] /\ UNCHANGED <<cand, compiler, task>>
    BY <1>3 DEF Deactivate
  <2> HIDE DEF q
  <2> QED
    BY <2>1, <2>2, RowChanges
<1>4. CASE \E n \in 1..MaxSource : UpdateSource(d, n)
  <2> DEFINE q == [doc[d] EXCEPT !.source = @ + 1]
  <2>1. /\ q \in Doc /\ q.active = doc[d].active /\ q.source >= doc[d].source
        /\ q.deleted = doc[d].deleted
    BY <1>0, <1>4, RulesAssumption DEF UpdateSource, Doc
  <2>2. doc' = [doc EXCEPT ![d] = q] /\ UNCHANGED <<cand, compiler, task>>
    BY <1>4 DEF UpdateSource
  <2> HIDE DEF q
  <2> QED
    BY <2>1, <2>2, RowChanges
<1> QED
  BY <1>1, <1>2, <1>3, <1>4

LEMMA CompilerInv ==
  ASSUME Inv, NEW h \in Compilers,
         \/ CompileStep(h)
         \/ \E d \in Docs, n \in 1..MaxSource : StartCompile(h, d, n)
  PROVE  Inv'
<1>1. task' = task /\ doc' = doc
  BY DEF CompileStep, FinishCompile, CompileFails, StartCompile
<1>2. compiler' \in [Compilers -> Compiler]
  BY RowsTyped DEF CompileStep, FinishCompile, CompileFails, StartCompile, Compiler
<1>4. SourcesKnown'
  BY <1>1, RowsTyped DEF CompileStep, FinishCompile, CompileFails, StartCompile,
                         Inv, SourcesKnown
<1>3. cand' \in [Cands -> Cand] /\ Quiet
  <2>1. CASE cand' = cand
    BY <1>1, <2>1, RowsTyped DEF Quiet
  <2>2. ASSUME NEW c \in Cands, NEW p \in Policies \cup {Plain, None},
               FinishCompile(h, c, p)
        PROVE  cand' \in [Cands -> Cand] /\ Quiet
    <3> DEFINE q == [doc |-> compiler[h].doc, policy |-> p,
                     source |-> compiler[h].source]
    <3>1. /\ compiler[h].doc \in Docs /\ compiler[h].source \in 1..MaxSource
          /\ compiler[h].source \in 1..doc[compiler[h].doc].source
      BY <2>2, RowsTyped DEF FinishCompile, Compiler, Inv, SourcesKnown
    <3>2. q \in Cand
      BY <3>1, RulesAssumption DEF Cand
    <3>3. cand' = [cand EXCEPT ![c] = q] /\ ~Drawn(c)
      BY <2>2 DEF FinishCompile
    <3> QED
      BY <1>1, <3>1, <3>2, <3>3, RowsTyped DEF Quiet
  <2> QED
    BY <2>1, <2>2 DEF CompileStep, CompileFails, StartCompile
<1> QED
  BY <1>1, <1>2, <1>3, <1>4, RowsTyped, QuietInv

-----------------------------------------------------------------------------
(* A task is created.                                                      *)

LEMMA SnapshotSound ==
  ASSUME Inv, NEW u \in Users, NEW c \in RuleSnapshot(u)
  PROVE  /\ c \in Cands /\ Drawn(c) /\ cand[c].policy # None
         /\ cand[c].doc \in System \cup Personal(u)
         /\ cand[c].doc \in Docs /\ doc[cand[c].doc].active = c
<1>1. PICK d \in System \cup Personal(u) : doc[d].active = c /\ doc[d].active # None
  BY DEF RuleSnapshot, ActiveIn
<1>2. d \in Docs
  BY RulesAssumption DEF Personal
<1> QED
  BY <1>1, <1>2, RowsTyped, RulesAssumption DEF Inv, ActiveIsSound, Doc, Drawn

LEMMA CreateTaskInv ==
  ASSUME Inv, NEW k \in Tasks, NEW u \in Users, CreateTask(k, u) PROVE Inv'
<1> DEFINE q == [creator |-> u, rules |-> RuleSnapshot(u)]
<1>1. task' = [task EXCEPT ![k] = q] /\ UNCHANGED ruleVars
  BY DEF CreateTask
<1>2. q \in Task
  BY SnapshotSound DEF Task
<1>3. TypeOK' /\ SourcesKnown' /\ ActiveExists' /\ ActiveIsSound' /\ CapacityKept'
      /\ ScopesAgree'
  BY <1>1, <1>2 DEF Inv, TypeOK, SourcesKnown, ActiveExists, ActiveIsSound,
        CapacityKept, ScopesAgree, ScopeOf, Personal, ruleVars, Drawn
<1>4. \A j \in Tasks : task'[j] = IF j = k THEN q ELSE task[j]
  BY <1>1 DEF Inv, TypeOK
<1>5. TaskRulesDrawn'
  BY <1>1, <1>4, SnapshotSound DEF Inv, TaskRulesDrawn, Drawn, ruleVars
<1>6. cand' = cand
  BY <1>1 DEF ruleVars
<1>7. Agreeing(q, cand)
  <2> SUFFICES ASSUME NEW c \in RuleSnapshot(u), NEW e \in RuleSnapshot(u)
               PROVE  /\ cand[c].doc \in System \cup Personal(u)
                      /\ {x \in RuleSnapshot(u) : cand[x].doc = cand[c].doc
                                                  /\ cand[x].policy # None} = {c}
                      /\ c # e /\ cand[c].policy = cand[e].policy /\ cand[c].policy # Plain
                            => ScopeOf(cand[c].doc) # ScopeOf(cand[e].doc)
    BY DEF Agreeing
  <2>1. c # e /\ cand[c].policy = cand[e].policy /\ cand[c].policy # Plain
           => ScopeOf(cand[c].doc) # ScopeOf(cand[e].doc)
    BY SnapshotSound, RulesAssumption DEF Inv, ScopesAgree
  <2>2. {x \in RuleSnapshot(u) : cand[x].doc = cand[c].doc
                                 /\ cand[x].policy # None} = {c}
    BY SnapshotSound
  <2> QED
    BY <2>1, <2>2, SnapshotSound
<1>8. ASSUME NEW j \in Tasks PROVE Agreeing(task'[j], cand')
  <2>1. Agreeing(task[j], cand)
    BY AgreeingIsIt DEF Inv
  <2> HIDE DEF q
  <2> QED
    BY <1>4, <1>6, <1>7, <2>1
<1>9. TaskRulesAgree'
  BY <1>8, AgreeingIsIt
<1> QED
  BY <1>3, <1>5, <1>9 DEF Inv

-----------------------------------------------------------------------------
LEMMA Initially == ASSUME Init PROVE Inv
<1>1. TypeOK /\ SourcesKnown /\ ActiveExists /\ ActiveIsSound /\ ScopesAgree
      /\ TaskRulesDrawn /\ TaskRulesAgree
  BY RulesAssumption
     DEF Init, TypeOK, SourcesKnown, ActiveExists, ActiveIsSound, ScopesAgree,
         TaskRulesDrawn, TaskRulesAgree, Doc, Cand, Compiler, Task, Drawn
<1>2. CapacityKept
  <2> SUFFICES ASSUME NEW u \in Users
               PROVE  Cardinality({d \in System \cup Personal(u) :
                                      doc[d].active # None}) <= MaxActive
    BY DEF CapacityKept
  <2>1. {d \in System \cup Personal(u) : doc[d].active # None} = {}
    BY RulesAssumption DEF Init, Personal
  <2>2. Cardinality({}) <= MaxActive
    BY FS_EmptySet, RulesAssumption
  <2> QED
    BY <2>1, <2>2
<1> QED
  BY <1>1, <1>2 DEF Inv

LEMMA Unchanged == ASSUME Inv, UNCHANGED vars PROVE Inv'
<1>1. /\ doc' \in [Docs -> Doc] /\ cand' \in [Cands -> Cand]
      /\ compiler' \in [Compilers -> Compiler] /\ task' = task
  BY RowsTyped DEF vars, ruleVars
<1>2. Quiet /\ SourcesKnown'
  BY RowsTyped DEF Inv, Quiet, SourcesKnown, vars, ruleVars
<1> QED
  BY <1>1, <1>2, QuietInv

LEMMA CrashInv == ASSUME Inv, Crash PROVE Inv'
<1>1. /\ doc' \in [Docs -> Doc] /\ cand' \in [Cands -> Cand]
      /\ compiler' \in [Compilers -> Compiler] /\ task' = task
  BY RowsTyped DEF Crash, Compiler
<1>2. Quiet /\ SourcesKnown'
  BY RowsTyped DEF Crash, Quiet, SourcesKnown
<1> QED
  BY <1>1, <1>2, QuietInv

LEMMA Steps == ASSUME Inv, [Next]_vars PROVE Inv'
<1>1. ASSUME NEW d \in Docs, RuleStep(d) PROVE Inv'
  BY <1>1, DocumentInv, CompilerInv, ActivateInv DEF RuleStep
<1>2. ASSUME NEW h \in Compilers, CompileStep(h) PROVE Inv'
  BY <1>2, CompilerInv
<1>3. ASSUME NEW k \in Tasks, NEW u \in Users, CreateTask(k, u) PROVE Inv'
  BY <1>3, CreateTaskInv
<1>4. ASSUME NEW k \in Tasks, RetryTask(k) PROVE Inv'
  BY <1>4, Unchanged DEF RetryTask
<1> QED
  BY <1>1, <1>2, <1>3, <1>4, CrashInv, Unchanged DEF Next

LEMMA Invariant == Spec => []Inv
  BY Initially, Steps, PTL DEF Spec

-----------------------------------------------------------------------------
(* Documents, versions, compilations and tasks keep their types, and every *)
(* version was compiled from a source its document has (agent_rules.py).   *)
THEOREM TypeCorrect == Spec => []TypeOK
<1>1. Inv => TypeOK
  BY DEF Inv
<1> QED
  BY <1>1, Invariant, PTL

(* In whatever order rules and system defaults are activated, nobody is    *)
(* left with more than a task may have (_validate_active_capacity).        *)
THEOREM CapacityIsKept == Spec => []CapacityKept
<1>1. Inv => CapacityKept
  BY DEF Inv
<1> QED
  BY <1>1, Invariant, PTL

(* Only a valid version of a document that exists is active, whatever was  *)
(* compiled, edited and deleted meanwhile (activate, delete).              *)
THEOREM ActiveStaysSound == Spec => []ActiveIsSound
<1>1. Inv => ActiveIsSound
  BY DEF Inv
<1> QED
  BY <1>1, Invariant, PTL

(* The rules a task was created with can be read for as long as it is      *)
(* known, and do not contradict one another (_resolve_rule_snapshots).     *)
THEOREM TasksKeepTheirRules == Spec => []TaskRulesAgree
<1>1. Inv => TaskRulesAgree
  BY DEF Inv
<1> QED
  BY <1>1, Invariant, PTL

=============================================================================
