------------------------ MODULE ModuleTaskRefinement ------------------------
(* The task gateway implements TaskLifecycle: a row that is not visible is *)
(* no task yet.                                                            *)
EXTENDS ModuleTask

Lifecycle == INSTANCE TaskLifecycle WITH
    Tasks <- Keys,
    phase <- [k \in Keys |-> IF row[k].visible THEN row[k].state ELSE "none"],
    chat <- [k \in Keys |-> IF row[k].visible THEN row[k].chat ELSE NoChat],
    thread <- msgs

(* Whatever the handlers, the module and restarts do, a client sees the    *)
(* life of a task that TaskLifecycle promises, as long as no two requests  *)
(* with one Idempotency-Key are in flight at once.                         *)
KeepsPromise == Lifecycle!Spec
=============================================================================
