---------------------------- MODULE TaskManager ----------------------------
(***************************************************************************)
(* The in-memory task manager (backend/tasks/manager.py): background tasks *)
(* that wait for the tasks they depend on, run, and end in `complete' or   *)
(* `error'.  Every task is an asyncio task; a waiting one looks at its     *)
(* dependencies every two seconds.  What a task does while it runs is the  *)
(* business of the module that submits it.                                 *)
(***************************************************************************)
CONSTANT Tasks              \* task ids (uuid4: never used twice)

VARIABLES
    st,        \* st[t]: Task.status; "none" before submit, "cleared" once
               \* the task is no longer in the manager's dictionary
    deps       \* deps[t]: Task.depends_on

tmVars == <<st, deps>>

TMInit ==
    /\ st = [t \in Tasks |-> "none"]
    /\ deps = [t \in Tasks |-> {}]

Known(t) == st[t] \notin {"none", "cleared"}

\* submit, for a whole batch of tasks: S with the dependencies D gives them.
\* A dependency has been submitted before, its id is submit's result.
Submit(S, D) ==
    /\ \A t \in S : st[t] = "none"
    /\ \A t \in S : \A d \in D[t] : st[d] # "none" \/ d \in S
    /\ st' = [t \in Tasks |-> IF t \in S THEN "pending" ELSE st[t]]
    /\ deps' = [t \in Tasks |-> IF t \in S THEN D[t] ELSE deps[t]]

\* The dependencies that are still in the dictionary.
Watched(t) == {d \in deps[t] : Known(d)}

\* Mutant of DependencyFailed: only when all of them failed.
DependencyFailedAll(t) ==
    /\ st[t] = "pending"
    /\ Watched(t) # {}
    /\ \A d \in Watched(t) : st[d] = "error"
    /\ st' = [st EXCEPT ![t] = "error"]
    /\ UNCHANGED deps

\* A dependency failed, so does the task.
DependencyFailed(t) ==
    /\ st[t] = "pending"
    /\ \E d \in Watched(t) : st[d] = "error"
    /\ st' = [st EXCEPT ![t] = "error"]
    /\ UNCHANGED deps

\* Mutant of Run: one complete dependency is enough.
RunAfterOne(t) ==
    /\ st[t] = "pending"
    /\ Watched(t) = {} \/ \E d \in Watched(t) : st[d] = "complete"
    /\ st' = [st EXCEPT ![t] = "running"]
    /\ UNCHANGED deps

\* Mutant of Run: a dependency need only be over.
RunAfterEnd(t) ==
    /\ st[t] = "pending"
    /\ \A d \in Watched(t) : st[d] \in {"complete", "error"}
    /\ st' = [st EXCEPT ![t] = "running"]
    /\ UNCHANGED deps

\* All dependencies are complete (or there are none): the task runs.
Run(t) ==
    /\ st[t] = "pending"
    /\ \A d \in Watched(t) : st[d] = "complete"
    /\ st' = [st EXCEPT ![t] = "running"]
    /\ UNCHANGED deps

\* fn returns.
Complete(t) ==
    /\ st[t] = "running"
    /\ st' = [st EXCEPT ![t] = "complete"]
    /\ UNCHANGED deps

\* fn raises, or the task is cancelled.
Fail(t) ==
    /\ st[t] = "running"
    /\ st' = [st EXCEPT ![t] = "error"]
    /\ UNCHANGED deps

ClearFinished ==
    /\ st' = [t \in Tasks |-> IF st[t] \in {"complete", "error"} THEN "cleared" ELSE st[t]]
    /\ UNCHANGED deps

\* A new process has a new, empty manager.
LoseAll ==
    /\ st' = [t \in Tasks |-> IF st[t] = "none" THEN "none" ELSE "cleared"]
    /\ UNCHANGED deps

\* Tasks of a batch depend on earlier ones or on each other's predecessors:
\* here, on any set of tasks already known.
Next ==
    \/ \E t \in Tasks, D \in SUBSET {d \in Tasks : st[d] # "none"} :
          Submit({t}, [u \in {t} |-> D])
    \/ \E t \in Tasks : DependencyFailed(t) \/ Run(t) \/ Complete(t) \/ Fail(t)
    \/ ClearFinished
    \/ LoseAll

Spec == TMInit /\ [][Next]_tmVars

\* Every task is scheduled, and what it runs ends.
FairSpec == Spec /\ \A t \in Tasks :
    WF_tmVars(DependencyFailed(t) \/ Run(t) \/ Complete(t) \/ Fail(t))

-----------------------------------------------------------------------------
(* Properties *)

\* A task's status and dependencies are what they are meant to be.
TMTypeOK ==
    /\ st \in [Tasks -> {"none", "pending", "running", "complete", "error", "cleared"}]
    /\ deps \in [Tasks -> SUBSET Tasks]

\* manager.py:64: a task that runs, or has run to its end, has no dependency
\* that is still waiting or running, whatever was cleared in between.
RunsAfterDependencies ==
    \A t \in Tasks : st[t] \in {"running", "complete"} =>
        \A d \in deps[t] : st[d] \in {"complete", "error", "cleared"}

\* No task runs after one it depends on has failed, as long as the failed
\* task has not been cleared.
NeverAfterFailure ==
    \A t \in Tasks : st[t] \in {"running", "complete"} =>
        \A d \in deps[t] : st[d] # "error"

\* Nothing waits for ever: every task submitted is decided.
EveryTaskEnds == \A t \in Tasks : st[t] = "pending" ~> ~Known(t) \/ st[t] \in {"complete", "error"}
=============================================================================
