----------------------------- MODULE AgentRules -----------------------------
(***************************************************************************)
(* The rules a task of the Agent module runs under (backend/agent_rules.py *)
(* and the snapshots backend/module_tasks.py takes of them).               *)
(*                                                                         *)
(* A rule is a document with numbered sources; a model compiles a source   *)
(* into a candidate, which may be activated.  Compiling awaits the model;  *)
(* everything else is one transaction.                                     *)
(***************************************************************************)
EXTENDS Naturals, FiniteSets

CONSTANTS
    Users,         \* users
    Docs,          \* rule documents, each created at most once
    System,        \* those of scope system_default
    OwnerOf,       \* owner_user_id of a document
    Cands,         \* compiled versions, each drawn at most once
    Policies,      \* record_presentation, or the tool of a pagination rule
    Plain,         \* any other kind of valid rule
    MaxActive,     \* MAX_ACTIVE_RULES_PER_TASK
    MaxSource,     \* bound on the sources of a document
    Compilers,     \* compile requests that may be in flight
    Tasks,         \* tasks
    None           \* SQL NULL

ASSUME RulesAssumption ==
    /\ System \subseteq Docs /\ IsFiniteSet(Docs)
    /\ OwnerOf \in [Docs -> Users]
    /\ Plain \notin Policies /\ None \notin Policies \cup {Plain}
    /\ None \notin Cands \cup Users \cup Docs
    /\ MaxActive \in Nat /\ MaxSource \in Nat \ {0}

VARIABLES
    doc,           \* agent_rule_documents and agent_rule_source_versions
    cand,          \* agent_compiled_rule_versions
    compiler,      \* compile requests that await the model
    task           \* module_tasks with their rule activations

ruleVars == <<doc, cand, compiler>>
vars == <<ruleVars, task>>

-----------------------------------------------------------------------------
(* source is the number of the current source, 0 before the document is    *)
(* created; active is active_compiled_version_id.                          *)
Doc == [source : 0..MaxSource, deleted : BOOLEAN, active : Cands \cup {None}]

(* policy is None where status is 'invalid'. *)
Cand == [doc : Docs \cup {None}, source : 0..MaxSource,
         policy : Policies \cup {Plain, None}]

Compiler == {None} \cup [doc : Docs, source : 1..MaxSource]

Task == [creator : Users \cup {None}, rules : SUBSET Cands]

Kept(d) == doc[d].source > 0 /\ ~doc[d].deleted
Personal(u) == {d \in Docs \ System : OwnerOf[d] = u}
Drawn(c) == cand[c].doc # None

Init ==
    /\ doc = [d \in Docs |-> [source |-> 0, deleted |-> FALSE, active |-> None]]
    /\ cand = [c \in Cands |-> [doc |-> None, source |-> 0, policy |-> None]]
    /\ compiler = [h \in Compilers |-> None]
    /\ task = [k \in Tasks |-> [creator |-> None, rules |-> {}]]

-----------------------------------------------------------------------------
(* Documents and their sources.                                            *)

CreateDocument(d) ==
    /\ doc[d].source = 0
    /\ doc' = [doc EXCEPT ![d].source = 1]
    /\ UNCHANGED <<cand, compiler, task>>

(* update_source() by somebody who has seen the current one. *)
UpdateSource(d, expected) ==
    /\ Kept(d) /\ expected = doc[d].source
    /\ doc[d].source < MaxSource
    /\ doc' = [doc EXCEPT ![d].source = @ + 1]
    /\ UNCHANGED <<cand, compiler, task>>

DeleteDocument(d) ==
    /\ Kept(d) /\ doc[d].active = None
    /\ doc' = [doc EXCEPT ![d].deleted = TRUE]
    /\ UNCHANGED <<cand, compiler, task>>

-----------------------------------------------------------------------------
(* compile_document().                                                     *)

StartCompile(h, d, n) ==
    /\ compiler[h] = None
    /\ Kept(d) /\ n \in 1..doc[d].source
    /\ compiler' = [compiler EXCEPT ![h] = [doc |-> d, source |-> n]]
    /\ UNCHANGED <<doc, cand, task>>

(* The candidate the model's output makes; p is None if it is not valid.   *)
FinishCompile(h, c, p) ==
    /\ compiler[h] # None
    /\ Kept(compiler[h].doc)
    /\ ~Drawn(c)
    /\ cand' = [cand EXCEPT ![c] = [doc |-> compiler[h].doc, policy |-> p,
                                    source |-> compiler[h].source]]
    /\ compiler' = [compiler EXCEPT ![h] = None]
    /\ UNCHANGED <<doc, task>>

(* No answer, or the document has been deleted meanwhile. *)
CompileFails(h) ==
    /\ compiler[h] # None
    /\ compiler' = [compiler EXCEPT ![h] = None]
    /\ UNCHANGED <<doc, cand, task>>

-----------------------------------------------------------------------------
(* activate(): the document is updated, and the update rolled back if the  *)
(* active rules then conflict or are too many.                             *)

(* The valid active candidates of the documents ds, under the rows docs.   *)
ActiveIn(docs, ds) ==
    {d \in ds : /\ docs[d].source > 0 /\ ~docs[d].deleted
                /\ docs[d].active # None /\ cand[docs[d].active].policy # None}

ScopeOf(d) == IF d \in System THEN System ELSE Personal(OwnerOf[d])

(* Mutant: a document may still hold another policy when it is compared. *)
MutantNoConflict(docs, d) ==
    \A e, f \in ActiveIn(docs, ScopeOf(d)) :
        e # f => docs[e].active # docs[f].active

(* _validate_active_policy_conflicts(). *)
NoConflict(docs, d) ==
    \A e, f \in ActiveIn(docs, ScopeOf(d)) :
        e # f => \/ cand[docs[e].active].policy # cand[docs[f].active].policy
                 \/ cand[docs[e].active].policy = Plain

(* Mutant: a system default is counted against the system's rules only. *)
MutantWithinCapacity(docs, d) ==
    IF d \in System THEN Cardinality(ActiveIn(docs, System)) <= MaxActive
    ELSE Cardinality(ActiveIn(docs, System))
            + Cardinality(ActiveIn(docs, Personal(OwnerOf[d]))) <= MaxActive

(* _validate_active_capacity(): a system default is one for every user.    *)
WithinCapacity(docs, d) ==
    \A u \in (IF d \in System THEN Users ELSE {OwnerOf[d]}) :
        Cardinality(ActiveIn(docs, System))
            + Cardinality(ActiveIn(docs, Personal(u))) <= MaxActive

(* Mutant: any candidate of the document will do. *)
MutantActivatable(d, c) == cand[c].doc = d

(* c may be made the active version of d. *)
Activatable(d, c) ==
    /\ cand[c].doc = d
    /\ cand[c].policy # None
    /\ d \in System => cand[c].source = doc[d].source

Activate(d, c) ==
    /\ Kept(d)
    /\ Activatable(d, c)
    /\ doc' = [doc EXCEPT ![d].active = c]
    /\ NoConflict(doc', d)
    /\ WithinCapacity(doc', d)
    /\ UNCHANGED <<cand, compiler, task>>

Deactivate(d) ==
    /\ Kept(d)
    /\ doc' = [doc EXCEPT ![d].active = None]
    /\ UNCHANGED <<cand, compiler, task>>

Crash == /\ compiler' = [h \in Compilers |-> None]
         /\ UNCHANGED <<doc, cand, task>>

-----------------------------------------------------------------------------
(* create() of a task: what it will run under is resolved and stored       *)
(* without an await.                                                       *)

(* _resolve_rule_snapshots(). *)
RuleSnapshot(u) ==
    {doc[d].active : d \in ActiveIn(doc, System \cup Personal(u))}

CreateTask(k, u) ==
    /\ task[k].creator = None
    /\ Cardinality(ActiveIn(doc, System \cup Personal(u))) <= MaxActive
    /\ task' = [task EXCEPT ![k] = [creator |-> u, rules |-> RuleSnapshot(u)]]
    /\ UNCHANGED ruleVars

(* The same key again: the row is found, and reused if the request digest, *)
(* which the rules are part of, is the same.                               *)
RetryTask(k) ==
    /\ task[k].creator # None
    /\ task[k].rules = RuleSnapshot(task[k].creator)
    /\ UNCHANGED vars

(* capability_rule_read(): what the module of k is given for document d. *)
RuleRead(k, d) ==
    {c \in task[k].rules : cand[c].doc = d /\ cand[c].policy # None}

-----------------------------------------------------------------------------
RuleStep(d) ==
    \/ CreateDocument(d) \/ DeleteDocument(d) \/ Deactivate(d)
    \/ \E n \in 1..MaxSource : UpdateSource(d, n)
    \/ \E h \in Compilers, n \in 1..MaxSource : StartCompile(h, d, n)
    \/ \E c \in Cands : Activate(d, c)

CompileStep(h) ==
    \/ \E c \in Cands, p \in Policies \cup {Plain, None} : FinishCompile(h, c, p)
    \/ CompileFails(h)

Next ==
    \/ \E d \in Docs : RuleStep(d)
    \/ \E h \in Compilers : CompileStep(h)
    \/ \E k \in Tasks, u \in Users : CreateTask(k, u)
    \/ \E k \in Tasks : RetryTask(k)
    \/ Crash

Spec == Init /\ [][Next]_vars

-----------------------------------------------------------------------------
(* Properties.                                                             *)

(* Every table and every request keeps its shape, and a candidate has been *)
(* compiled from a source of its document.                                 *)
TypeOK ==
    /\ doc \in [Docs -> Doc]
    /\ cand \in [Cands -> Cand]
    /\ compiler \in [Compilers -> Compiler]
    /\ task \in [Tasks -> Task]
    /\ \A c \in Cands : Drawn(c) =>
          cand[c].source \in 1..doc[cand[c].doc].source

(* No user is left with more rules than a task may have, whoever activates *)
(* a rule of theirs or a system default: else all their tasks are refused. *)
CapacityKept ==
    \A u \in Users :
        Cardinality({d \in System \cup Personal(u) : doc[d].active # None})
            <= MaxActive

(* An active rule is a valid version of its own document, and the document *)
(* is not deleted: whatever was compiled, edited or deleted meanwhile.     *)
ActiveIsSound ==
    \A d \in Docs : doc[d].active # None =>
        /\ ~doc[d].deleted
        /\ cand[doc[d].active].doc = d
        /\ cand[doc[d].active].policy # None

(* A task runs under rules of its creator and of the system only, at most  *)
(* one of each policy from either, and the module can read each of them    *)
(* for as long as the task is known, as the version it was given.          *)
TaskRulesAgree ==
    \A k \in Tasks : \A c, e \in task[k].rules :
        /\ cand[c].doc \in System \cup Personal(task[k].creator)
        /\ RuleRead(k, cand[c].doc) = {c}
        /\ c # e /\ cand[c].policy = cand[e].policy /\ cand[c].policy # Plain
              => ScopeOf(cand[c].doc) # ScopeOf(cand[e].doc)

=============================================================================
