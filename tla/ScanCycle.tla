----------------------------- MODULE ScanCycle -----------------------------
(***************************************************************************)
(* The parallel scan cycle (routes.py): one task per enabled domain and a  *)
(* deduplication task that depends on them all, with the cycle's state in  *)
(* one row of app_settings that the endpoints and the tasks read, modify   *)
(* and write back.                                                         *)
(*                                                                         *)
(* The tasks run on the event loop, where a piece of code without an await *)
(* is not interrupted by another task; the approve endpoint is a plain     *)
(* function and runs in a thread, so its read and its write can fall       *)
(* between the read and the write of a task.  `busy' is the task that is   *)
(* between the two.  The tasks are those of TaskManager; the scan inside a *)
(* domain task is SourceScan, the deduplication is Catalog's.              *)
(*                                                                         *)
(* Env: "scanfails", "dedupfails" a scan, a deduplication raises;          *)
(* "restart" the server is restarted; "early" the cycle is approved before *)
(* its review, which the endpoint allows and the page does not offer.      *)
(***************************************************************************)
EXTENDS Integers, FiniteSets

CONSTANTS
    Domains,      \* the enabled source sites
    Requests,     \* requests to /api/scan/all-sources that may overlap
    MaxCycles,    \* bound: cycles started
    NoTask,
    Env

Dedup == "dedup"                    \* the name of the last task of a cycle

ASSUME ScanCycleAssumption ==
    /\ Domains # {}
    /\ IsFiniteSet(Domains)
    /\ Dedup \notin Domains
    /\ MaxCycles \in Nat
    /\ NoTask \notin (1..MaxCycles) \X (Domains \cup {Dedup})

Tasks == (1..MaxCycles) \X (Domains \cup {Dedup})
DomainTasks(n) == {<<n, d>> : d \in Domains}

VARIABLES
    cyc,       \* the cycle row
    count,     \* cycles started so far
    req,       \* req[r]: where a start request is
    appr,      \* the approve request: the row it has read, or NotReading
    busy,      \* the task between its read and its write, or NoTask
    seen,      \* the row that task has read
    body,      \* body[t]: where a running task's function is
    st, deps   \* TaskManager

TM == INSTANCE TaskManager

row == <<cyc, count>>
tasks == <<busy, seen, body>>
vars == <<row, req, appr, tasks, st, deps>>

IdleRow == [status |-> "idle", started |-> {}, done |-> {}, deduped |-> FALSE]
NotReading == [IdleRow EXCEPT !.status = "none"]

Init ==
    /\ cyc = IdleRow
    /\ count = 0
    /\ req = [r \in Requests |-> "idle"]
    /\ appr = NotReading
    /\ busy = NoTask
    /\ seen = NotReading
    /\ body = [t \in Tasks |-> "none"]
    /\ TM!TMInit

-----------------------------------------------------------------------------
(* Requests *)

\* Mutants of InProgress: a status that the check forgets.
ExceptDedup == {"scanning", "review_pending"}
ExceptReview == {"scanning", "dedup_running"}

InProgress == {"scanning", "dedup_running", "review_pending"}

\* The check at the head of start_parallel_scan; the rest comes after the
\* await of the pre-flight.
StartCheck(r) ==
    /\ busy = NoTask
    /\ req[r] = "idle"
    /\ cyc.status \notin InProgress
    /\ req' = [req EXCEPT ![r] = "preflight"]
    /\ UNCHANGED <<row, appr, tasks, st, deps>>

\* A store cannot be reached: 400, nothing is touched.
PreflightFails(r) ==
    /\ busy = NoTask
    /\ req[r] = "preflight"
    /\ req' = [req EXCEPT ![r] = "idle"]
    /\ UNCHANGED <<row, appr, tasks, st, deps>>

\* The row is reset and committed, the tasks are submitted.
StartCycle(r) ==
    LET n == count + 1 IN
    /\ busy = NoTask
    /\ req[r] = "preflight"
    /\ n <= MaxCycles
    /\ req' = [req EXCEPT ![r] = "idle"]
    /\ cyc' = [status |-> "scanning", started |-> Domains, done |-> {}, deduped |-> FALSE]
    /\ count' = n
    /\ TM!Submit(DomainTasks(n) \cup {<<n, Dedup>>},
                 [t \in Tasks |-> IF t = <<n, Dedup>> THEN DomainTasks(n) ELSE {}])
    /\ UNCHANGED <<appr, tasks>>

\* approve_cycle reads the row, whatever its status ...
ApproveRead ==
    /\ appr = NotReading
    /\ cyc.status = "review_pending" \/ "early" \in Env
    /\ appr' = cyc
    /\ UNCHANGED <<row, req, tasks, st, deps>>

\* ... and writes it back as complete.
ApproveWrite ==
    /\ appr # NotReading
    /\ cyc' = [appr EXCEPT !.status = "complete"]
    /\ appr' = NotReading
    /\ UNCHANGED <<count, req, tasks, st, deps>>

-----------------------------------------------------------------------------
(* Tasks *)

RunTask(t) ==
    /\ busy = NoTask
    /\ TM!Run(t)
    /\ body' = [body EXCEPT ![t] = "work"]
    /\ UNCHANGED <<row, req, appr, busy, seen>>

SkipTask(t) ==
    /\ busy = NoTask
    /\ TM!DependencyFailed(t)
    /\ UNCHANGED <<row, req, appr, tasks>>

\* The scan, or the deduplication, is over: the task reads the row ...
ReadRow(t) ==
    /\ busy = NoTask
    /\ body[t] = "work"
    /\ busy' = t
    /\ seen' = cyc
    /\ UNCHANGED <<row, req, appr, body, st, deps>>

\* ... and writes it back: a domain ticks itself off ...
WriteDomain(t) ==
    LET done == seen.done \cup {t[2]} IN
    /\ busy = t
    /\ t[2] # Dedup
    /\ cyc' = [seen EXCEPT !.done = done,
                 !.status = IF seen.started \subseteq done THEN "dedup_running" ELSE @]
    /\ busy' = NoTask
    /\ seen' = NotReading
    /\ body' = [body EXCEPT ![t] = "notify"]
    /\ UNCHANGED <<count, req, appr, st, deps>>

\* Mutant of WriteDedup: the status is not advanced.
WriteDedupSilently(t) ==
    /\ busy = t
    /\ t[2] = Dedup
    /\ cyc' = [seen EXCEPT !.deduped = TRUE]
    /\ busy' = NoTask
    /\ seen' = NotReading
    /\ body' = [body EXCEPT ![t] = "notify"]
    /\ UNCHANGED <<count, req, appr, st, deps>>

\* ... the deduplication hands over to the user.
WriteDedup(t) ==
    /\ busy = t
    /\ t[2] = Dedup
    /\ cyc' = [seen EXCEPT !.deduped = TRUE, !.status = "review_pending"]
    /\ busy' = NoTask
    /\ seen' = NotReading
    /\ body' = [body EXCEPT ![t] = "notify"]
    /\ UNCHANGED <<count, req, appr, st, deps>>

\* The broadcast is awaited, then the function returns.
EndTask(t) ==
    /\ busy = NoTask
    /\ body[t] = "notify"
    /\ TM!Complete(t)
    /\ body' = [body EXCEPT ![t] = "none"]
    /\ UNCHANGED <<row, req, appr, busy, seen>>

\* The scan or the deduplication raises.
FailTask(t) ==
    /\ IF t[2] = Dedup THEN "dedupfails" \in Env ELSE "scanfails" \in Env
    /\ busy = NoTask
    /\ body[t] = "work"
    /\ TM!Fail(t)
    /\ body' = [body EXCEPT ![t] = "none"]
    /\ UNCHANGED <<row, req, appr, busy, seen>>

TaskStep(t) ==
    \/ RunTask(t) \/ SkipTask(t)
    \/ ReadRow(t) \/ WriteDomain(t) \/ WriteDedup(t)
    \/ EndTask(t) \/ FailTask(t)

\* The tasks are gone, the row stays as it is: nothing at startup looks at it.
Restart ==
    /\ "restart" \in Env
    /\ TM!LoseAll
    /\ req' = [r \in Requests |-> "idle"]
    /\ appr' = NotReading
    /\ busy' = NoTask
    /\ seen' = NotReading
    /\ body' = [t \in Tasks |-> "none"]
    /\ UNCHANGED row

Next ==
    \/ \E r \in Requests : StartCheck(r) \/ PreflightFails(r) \/ StartCycle(r)
    \/ ApproveRead \/ ApproveWrite
    \/ \E t \in Tasks : TaskStep(t)
    \/ Restart

Spec == Init /\ [][Next]_vars

\* The event loop runs every task, scans come to an end (SourceScan's
\* ScanEnds).  Nobody is obliged to start a cycle or to approve one.
FairSpec == Spec /\ \A t \in Tasks : WF_vars(TaskStep(t))

-----------------------------------------------------------------------------
(* Properties *)

Row == [status : {"idle", "scanning", "dedup_running", "review_pending", "complete", "none"},
        started : SUBSET Domains, done : SUBSET Domains, deduped : BOOLEAN]

\* The row, the requests and the tasks hold what they are meant to.
TypeOK ==
    /\ cyc \in Row
    /\ count \in 0..MaxCycles
    /\ req \in [Requests -> {"idle", "preflight"}]
    /\ appr \in Row
    /\ busy \in Tasks \cup {NoTask}
    /\ seen \in Row
    /\ body \in [Tasks -> {"none", "work", "notify"}]
    /\ TM!TMTypeOK

\* routes.py:1544: a cycle is never started while the row says that one is in
\* progress or waits for its approval.
NoRescanBeforeApproval ==
    [][\A r \in Requests : StartCycle(r) => cyc.status \notin InProgress]_vars

\* The deduplication of a cycle works only when every domain of that cycle has
\* been scanned and has ticked itself off.
DedupAfterAllDomains ==
    \A n \in 1..MaxCycles : body[<<n, Dedup>>] # "none" =>
        \A d \in Domains : st[<<n, d>>] = "complete" /\ body[<<n, d>>] = "none"

\* A task that has yet to write the row belongs to the cycle the row is about:
\* no straggler of an earlier cycle writes into a later one.
WritersAreCurrent ==
    \A t \in Tasks : st[t] \in {"pending", "running"} /\ body[t] # "notify" => t[1] = count

\* What holds of the cycle's row and its tasks at any time.
CycleInv == TypeOK /\ WritersAreCurrent

\* Full scans take turns, as CycleGate says.
Gate == INSTANCE CycleGate WITH phase <- cyc.status
TakesTurns == Gate!Spec

\* A task of the current cycle has failed, or was lost in a restart.
Disturbed == \E t \in Tasks : t[1] = count /\ st[t] \in {"error", "cleared"}

\* app.js:789: "deduplication will start automatically when all finish": a
\* cycle that scans reaches the user's review, or one of its tasks has failed
\* or was lost.  (Then it stays as it is: see the README.)
ScanReachesReview ==
    cyc.status = "scanning" ~> cyc.status = "review_pending" \/ Disturbed
=============================================================================
