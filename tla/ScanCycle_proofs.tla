-------------------------- MODULE ScanCycle_proofs --------------------------
(***************************************************************************)
(* Proofs about ScanCycle: for any set of domains, number of cycles and of *)
(* start requests that overlap, with failing tasks, restarts and approvals *)
(* at any time, a deduplication runs only when every domain of its cycle   *)
(* has been scanned.  With one start request at a time, and approvals only *)
(* of a cycle that waits for one, no task writes into a later cycle, and   *)
(* the row implements CycleGate: cycles take turns.                        *)
(***************************************************************************)
EXTENDS ScanCycle, TLAPS

Cycles == 1..MaxCycles

\* Who works has begun and has not ended.
WorkersRun == \A t \in Tasks : body[t] # "none" => st[t] = "running"

\* A cycle's deduplication was submitted with its domains, on which it depends,
\* and those are in the task manager as long as it is.
DedupWaits ==
    \A n \in Cycles : st[<<n, Dedup>>] \in {"pending", "running", "complete", "error"} =>
        /\ deps[<<n, Dedup>>] = DomainTasks(n)
        /\ \A d \in Domains : st[<<n, d>>] \in {"pending", "running", "complete", "error"}

\* What runs has seen every domain complete.
DedupLast ==
    \A n \in Cycles : st[<<n, Dedup>>] = "running" =>
        \A d \in Domains : st[<<n, d>>] = "complete"

IInv == TypeOK /\ WorkersRun /\ DedupWaits /\ DedupLast

-----------------------------------------------------------------------------
(* Tasks and rows *)

\* The tasks of a cycle are its domains and its deduplication, which differ.
LEMMA TaskNames ==
    ASSUME NEW n \in Cycles
    PROVE  /\ <<n, Dedup>> \in Tasks
           /\ \A d \in Domains : <<n, d>> \in Tasks /\ <<n, d>> # <<n, Dedup>>
           /\ DomainTasks(n) \subseteq Tasks /\ <<n, Dedup>> \notin DomainTasks(n)
BY ScanCycleAssumption DEF Cycles, Tasks, DomainTasks

\* A row stays a row when its fields are overwritten by what belongs there.
LEMMA RowFields ==
    ASSUME NEW c \in Row,
           NEW s \in {"idle", "scanning", "dedup_running", "review_pending", "complete", "none"},
           NEW done \in SUBSET Domains
    PROVE  /\ [c EXCEPT !.status = s] \in Row
           /\ [c EXCEPT !.done = done, !.status = s] \in Row
           /\ [c EXCEPT !.deduped = TRUE] \in Row
           /\ [c EXCEPT !.deduped = TRUE, !.status = s] \in Row
           /\ IdleRow \in Row /\ NotReading \in Row
           /\ c.status \in {"idle", "scanning", "dedup_running", "review_pending", "complete",
                            "none"}
           /\ c.done \in SUBSET Domains
BY DEF Row, IdleRow, NotReading

\* A step in which a task t goes from status a to b: no deduplication is harmed
\* when the task is a domain that was not complete, or a deduplication that is
\* over or whose domains are complete.
LEMMA TaskMoves ==
    ASSUME IInv, NEW t \in Tasks,
           NEW b \in {"running", "complete", "error"},
           st[t] \in {"pending", "running"},
           st' = [st EXCEPT ![t] = b], deps' = deps,
           body' \in [Tasks -> {"none", "work", "notify"}],
           \A u \in Tasks \ {t} : body'[u] = body[u],
           body'[t] # "none" => b = "running",
           \A n \in Cycles : t = <<n, Dedup>> /\ b = "running" =>
               \A d \in Domains : st[<<n, d>>] = "complete"
    PROVE  WorkersRun' /\ DedupWaits' /\ DedupLast' /\ TM!TMTypeOK'
<1>1. st'[t] = b /\ \A u \in Tasks \ {t} : st'[u] = st[u]
  BY DEF IInv, TypeOK, TM!TMTypeOK
<1>2. TM!TMTypeOK'
  BY DEF IInv, TypeOK, TM!TMTypeOK
<1>3. WorkersRun'
  BY <1>1 DEF IInv, WorkersRun
<1>4. DedupWaits'
  <2> SUFFICES ASSUME NEW n \in Cycles,
                      st'[<<n, Dedup>>] \in {"pending", "running", "complete", "error"}
               PROVE  /\ deps[<<n, Dedup>>] = DomainTasks(n)
                      /\ \A d \in Domains :
                            st'[<<n, d>>] \in {"pending", "running", "complete", "error"}
      BY DEF DedupWaits, DomainTasks
  <2>1. <<n, Dedup>> \in Tasks /\ \A d \in Domains : <<n, d>> \in Tasks
    BY TaskNames
  <2>2. st[<<n, Dedup>>] \in {"pending", "running", "complete", "error"}
    BY <1>1, <2>1
  <2> QED BY <1>1, <2>1, <2>2 DEF IInv, DedupWaits
<1>5. DedupLast'
  <2> SUFFICES ASSUME NEW n \in Cycles, st'[<<n, Dedup>>] = "running", NEW d \in Domains
               PROVE  st'[<<n, d>>] = "complete"
      BY DEF DedupLast
  <2>1. <<n, Dedup>> \in Tasks /\ <<n, d>> \in Tasks /\ <<n, d>> # <<n, Dedup>>
    BY TaskNames
  <2>2. st[<<n, d>>] = "complete"
    BY <1>1, <2>1 DEF IInv, DedupLast
  <2> QED BY <1>1, <2>1, <2>2
<1> QED BY <1>2, <1>3, <1>4, <1>5

\* A step that leaves the tasks alone.
LEMMA TasksRest ==
    ASSUME IInv, UNCHANGED <<body, st, deps>>
    PROVE  WorkersRun' /\ DedupWaits' /\ DedupLast' /\ TM!TMTypeOK'
BY DEF IInv, TypeOK, WorkersRun, DedupWaits, DedupLast, DomainTasks, TM!TMTypeOK

-----------------------------------------------------------------------------
(* Requests keep the invariant *)

\* Starting a cycle submits tasks that the task manager has not known.
LEMMA StartCycleInv ==
    ASSUME IInv, NEW r \in Requests, StartCycle(r)
    PROVE  IInv'
<1>1. PICK n : n = count + 1
  OBVIOUS
<1>2. PICK B : B = DomainTasks(n) \cup {<<n, Dedup>>}
  OBVIOUS
<1>3. n \in Cycles /\ count' = n /\ count' \in 0..MaxCycles
  BY <1>1, ScanCycleAssumption DEF StartCycle, IInv, TypeOK, Cycles
<1>4. B \subseteq Tasks
  BY <1>2, <1>3, TaskNames
<1>5. /\ \A t \in B : st[t] = "none"
      /\ st' = [t \in Tasks |-> IF t \in B THEN "pending" ELSE st[t]]
      /\ deps' = [t \in Tasks |->
                    IF t \in B
                    THEN [u \in Tasks |-> IF u = <<n, Dedup>> THEN DomainTasks(n) ELSE {}][t]
                    ELSE deps[t]]
  BY <1>1, <1>2 DEF StartCycle, TM!Submit
<1>6. TM!TMTypeOK'
  <2>1. \A t \in Tasks : [u \in Tasks |-> IF u = <<n, Dedup>> THEN DomainTasks(n) ELSE {}][t]
                           \in SUBSET Tasks
    BY <1>3, TaskNames
  <2> QED BY <1>5, <2>1 DEF IInv, TypeOK, TM!TMTypeOK
<1>7. TypeOK'
  <2>1. cyc' = [status |-> "scanning", started |-> Domains, done |-> {}, deduped |-> FALSE]
    BY DEF StartCycle
  <2>2. cyc' \in Row
    BY <2>1 DEF Row
  <2>3. /\ req' = [req EXCEPT ![r] = "idle"] /\ appr' = appr /\ busy' = busy /\ seen' = seen
        /\ body' = body
    BY DEF StartCycle, tasks
  <2> QED BY <1>3, <1>6, <2>2, <2>3 DEF IInv, TypeOK
<1>8. WorkersRun'
  <2>1. body' = body
    BY DEF StartCycle, tasks
  <2> QED BY <1>5, <2>1 DEF IInv, WorkersRun
<1>9. ASSUME NEW m \in Cycles, m # n
      PROVE  /\ \A d \in Domains : <<m, d>> \in Tasks \ B
             /\ <<m, Dedup>> \in Tasks \ B
  BY <1>2, <1>9, TaskNames DEF DomainTasks
<1>10. DedupWaits'
  <2> SUFFICES ASSUME NEW m \in Cycles,
                      st'[<<m, Dedup>>] \in {"pending", "running", "complete", "error"}
               PROVE  /\ deps'[<<m, Dedup>>] = DomainTasks(m)
                      /\ \A d \in Domains :
                            st'[<<m, d>>] \in {"pending", "running", "complete", "error"}
      BY DEF DedupWaits, DomainTasks
  <2>1. CASE m = n
    <3>1. <<n, Dedup>> \in B /\ \A d \in Domains : <<n, d>> \in B
      BY <1>2 DEF DomainTasks
    <3> QED BY <1>4, <1>5, <2>1, <3>1
  <2>2. CASE m # n
    BY <1>5, <1>9, <2>2 DEF IInv, DedupWaits
  <2> QED BY <2>1, <2>2
<1>11. DedupLast'
  <2> SUFFICES ASSUME NEW m \in Cycles, st'[<<m, Dedup>>] = "running", NEW d \in Domains
               PROVE  st'[<<m, d>>] = "complete"
      BY DEF DedupLast
  <2>1. m # n
    <3>1. <<n, Dedup>> \in B
      BY <1>2
    <3> QED BY <1>4, <1>5, <3>1
  <2> QED BY <1>5, <1>9, <2>1 DEF IInv, DedupLast
<1> QED BY <1>7, <1>8, <1>10, <1>11 DEF IInv

\* The other requests do not touch the tasks.
LEMMA RequestInv ==
    ASSUME IInv,
           \/ \E r \in Requests : StartCheck(r) \/ PreflightFails(r)
           \/ ApproveRead
           \/ ApproveWrite
    PROVE  IInv'
<1>1. UNCHANGED <<body, st, deps, busy, seen, count>>
  BY DEF StartCheck, PreflightFails, ApproveRead, ApproveWrite, row, tasks
<1>2. WorkersRun' /\ DedupWaits' /\ DedupLast' /\ TM!TMTypeOK'
  BY <1>1, TasksRest
<1>3. cyc' \in Row /\ appr' \in Row
  BY RowFields DEF StartCheck, PreflightFails, ApproveRead, ApproveWrite, row, IInv, TypeOK
<1>4. req' \in [Requests -> {"idle", "preflight"}]
  BY DEF StartCheck, PreflightFails, ApproveRead, ApproveWrite, IInv, TypeOK
<1> QED BY <1>1, <1>2, <1>3, <1>4 DEF IInv, TypeOK

-----------------------------------------------------------------------------
(* Tasks keep the invariant *)

\* A deduplication runs when what it waits for is complete; its domains are
\* all still known.
LEMMA RunInv ==
    ASSUME IInv, NEW t \in Tasks, RunTask(t)
    PROVE  IInv'
<1>1. /\ st[t] = "pending" /\ st' = [st EXCEPT ![t] = "running"] /\ deps' = deps
      /\ \A u \in deps[t] : st[u] \notin {"none", "cleared"} => st[u] = "complete"
      /\ body' = [body EXCEPT ![t] = "work"]
  BY DEF RunTask, TM!Run, TM!Watched, TM!Known
<1>2. ASSUME NEW n \in Cycles, t = <<n, Dedup>>, NEW d \in Domains
      PROVE  st[<<n, d>>] = "complete"
  <2>1. deps[t] = DomainTasks(n) /\ st[<<n, d>>] \in {"pending", "running", "complete", "error"}
    BY <1>1, <1>2 DEF IInv, DedupWaits
  <2>2. <<n, d>> \in deps[t]
    BY <2>1 DEF DomainTasks
  <2> QED BY <1>1, <2>1, <2>2
<1>3. /\ body' \in [Tasks -> {"none", "work", "notify"}]
      /\ \A u \in Tasks \ {t} : body'[u] = body[u]
  BY <1>1 DEF IInv, TypeOK
<1>4. WorkersRun' /\ DedupWaits' /\ DedupLast' /\ TM!TMTypeOK'
  BY <1>1, <1>2, <1>3, TaskMoves
<1>5. UNCHANGED <<cyc, count, req, appr, busy, seen>>
  BY DEF RunTask, row
<1> QED BY <1>3, <1>4, <1>5 DEF IInv, TypeOK

\* A task that ends, fails or is skipped no longer works.
LEMMA EndInv ==
    ASSUME IInv, NEW t \in Tasks, SkipTask(t) \/ EndTask(t) \/ FailTask(t)
    PROVE  IInv'
<1>1. PICK b \in {"complete", "error"} :
        st[t] \in {"pending", "running"} /\ st' = [st EXCEPT ![t] = b] /\ deps' = deps
  BY DEF SkipTask, EndTask, FailTask, TM!DependencyFailed, TM!Complete, TM!Fail
<1>2. /\ body' \in [Tasks -> {"none", "work", "notify"}]
      /\ \A u \in Tasks \ {t} : body'[u] = body[u]
      /\ body'[t] = "none"
  <2>1. CASE SkipTask(t)
    <3>1. st[t] = "pending" /\ body' = body
      BY <2>1 DEF SkipTask, TM!DependencyFailed, tasks
    <3> QED BY <3>1 DEF IInv, TypeOK, WorkersRun
  <2>2. CASE EndTask(t) \/ FailTask(t)
    <3>1. body' = [body EXCEPT ![t] = "none"]
      BY <2>2 DEF EndTask, FailTask
    <3> QED BY <3>1 DEF IInv, TypeOK
  <2> QED BY <2>1, <2>2
<1>3. WorkersRun' /\ DedupWaits' /\ DedupLast' /\ TM!TMTypeOK'
  BY <1>1, <1>2, TaskMoves
<1>4. UNCHANGED <<cyc, count, req, appr, busy, seen>>
  BY DEF SkipTask, EndTask, FailTask, row, tasks
<1> QED BY <1>2, <1>3, <1>4 DEF IInv, TypeOK

\* Reading and writing the row is done by a task that works before and after.
LEMMA RowInv ==
    ASSUME IInv, NEW t \in Tasks, ReadRow(t) \/ WriteDomain(t) \/ WriteDedup(t),
           busy = t => body[t] = "work"
    PROVE  IInv'
<1>1. UNCHANGED <<count, req, appr, st, deps>>
  BY DEF ReadRow, WriteDomain, WriteDedup, row
<1>2. body[t] = "work" /\ (body' = body \/ body' = [body EXCEPT ![t] = "notify"])
  BY DEF ReadRow, WriteDomain, WriteDedup
<1>3. body' \in [Tasks -> {"none", "work", "notify"}] /\ WorkersRun'
  BY <1>1, <1>2 DEF IInv, TypeOK, WorkersRun
<1>4. DedupWaits' /\ DedupLast' /\ TM!TMTypeOK'
  BY <1>1 DEF IInv, TypeOK, DedupWaits, DedupLast, DomainTasks, TM!TMTypeOK
<1>5. cyc' \in Row /\ seen' \in Row /\ busy' \in Tasks \cup {NoTask}
  <2>1. CASE ReadRow(t)
    BY <2>1 DEF ReadRow, row, IInv, TypeOK
  <2>2. CASE WriteDomain(t)
    <3>1. PICK done : done = seen.done \cup {t[2]}
      OBVIOUS
    <3>2. PICK s : s = IF seen.started \subseteq done THEN "dedup_running" ELSE seen.status
      OBVIOUS
    <3>3. seen \in Row /\ t[2] \in Domains
      BY <2>2 DEF WriteDomain, IInv, TypeOK, Tasks
    <3>4. done \in SUBSET Domains
      BY <3>1, <3>3, RowFields
    <3>5. s \in {"idle", "scanning", "dedup_running", "review_pending", "complete", "none"}
      BY <3>2, <3>3 DEF Row
    <3>6. cyc' = [seen EXCEPT !.done = done, !.status = s]
      BY <2>2, <3>1, <3>2 DEF WriteDomain
    <3>7. cyc' \in Row
      BY <3>3, <3>4, <3>5, <3>6, RowFields
    <3> QED BY <2>2, <3>3, <3>7, RowFields DEF WriteDomain
  <2>3. CASE WriteDedup(t)
    BY <2>3, RowFields DEF WriteDedup, IInv, TypeOK
  <2> QED BY <2>1, <2>2, <2>3
<1> QED BY <1>1, <1>3, <1>4, <1>5 DEF IInv, TypeOK

\* After a restart the task manager knows nothing, and nobody works.
LEMMA RestartInv ==
    ASSUME IInv, Restart
    PROVE  IInv'
<1>1. /\ st' = [t \in Tasks |-> IF st[t] = "none" THEN "none" ELSE "cleared"] /\ deps' = deps
      /\ req' = [r \in Requests |-> "idle"] /\ appr' = NotReading /\ busy' = NoTask
      /\ seen' = NotReading /\ body' = [t \in Tasks |-> "none"]
      /\ cyc' = cyc /\ count' = count
  BY DEF Restart, TM!LoseAll, row
<1>2. TypeOK'
  <2>1. NotReading \in Row
    BY DEF NotReading, IdleRow, Row
  <2> QED BY <1>1, <2>1 DEF IInv, TypeOK, TM!TMTypeOK
<1>3. \A n \in Cycles : st'[<<n, Dedup>>] \in {"none", "cleared"}
  BY <1>1, TaskNames
<1>4. DedupWaits' /\ DedupLast'
  BY <1>3 DEF DedupWaits, DedupLast
<1> QED BY <1>1, <1>2, <1>4 DEF IInv, WorkersRun

-----------------------------------------------------------------------------
(* The theorems *)
\* The task between its read and its write of the row is at work.
BusyWorks == busy # NoTask => body[busy] = "work"

LEMMA BusyInv ==
    ASSUME IInv, BusyWorks, [Next]_vars
    PROVE  BusyWorks'
<1>1. ASSUME NEW t \in Tasks, ReadRow(t) PROVE BusyWorks'
  BY <1>1 DEF ReadRow, BusyWorks
<1>2. ASSUME NEW t \in Tasks, WriteDomain(t) \/ WriteDedup(t) PROVE BusyWorks'
  BY <1>2 DEF WriteDomain, WriteDedup, BusyWorks
<1>3. ASSUME NEW t \in Tasks, RunTask(t) \/ EndTask(t) \/ FailTask(t) PROVE BusyWorks'
  <2>1. busy' = NoTask
    BY <1>3 DEF RunTask, EndTask, FailTask
  <2> QED BY <2>1 DEF BusyWorks
<1>4. ASSUME NEW t \in Tasks, SkipTask(t) PROVE BusyWorks'
  BY <1>4 DEF SkipTask, tasks, BusyWorks
<1>5. ASSUME NEW r \in Requests, StartCheck(r) \/ PreflightFails(r) \/ StartCycle(r)
      PROVE  BusyWorks'
  BY <1>5 DEF StartCheck, PreflightFails, StartCycle, tasks, BusyWorks
<1>6. CASE ApproveRead \/ ApproveWrite
  BY <1>6 DEF ApproveRead, ApproveWrite, tasks, BusyWorks
<1>7. CASE Restart
  BY <1>7 DEF Restart, BusyWorks
<1>8. CASE UNCHANGED vars
  BY <1>8 DEF vars, tasks, BusyWorks
<1> QED BY <1>1, <1>2, <1>3, <1>4, <1>5, <1>6, <1>7, <1>8 DEF Next, TaskStep

LEMMA InitInv ==
    ASSUME Init
    PROVE  IInv /\ BusyWorks
<1>1. TypeOK
  <2>1. TM!TMTypeOK
    BY DEF Init, TM!TMInit, TM!TMTypeOK
  <2>2. IdleRow \in Row /\ NotReading \in Row
    BY DEF IdleRow, NotReading, Row
  <2>3. count \in 0..MaxCycles
    BY ScanCycleAssumption DEF Init
  <2> QED BY <2>1, <2>2, <2>3 DEF Init, TypeOK
<1>2. \A n \in Cycles : st[<<n, Dedup>>] = "none"
  BY TaskNames DEF Init, TM!TMInit
<1>3. WorkersRun /\ DedupWaits /\ DedupLast
  BY <1>2 DEF Init, WorkersRun, DedupWaits, DedupLast
<1> QED BY <1>1, <1>3 DEF Init, IInv, BusyWorks

\* Every step keeps the invariant.
LEMMA NextInv ==
    ASSUME IInv, BusyWorks, [Next]_vars
    PROVE  IInv'
<1>1. ASSUME NEW t \in Tasks, TaskStep(t) PROVE IInv'
  <2>1. CASE RunTask(t)
    BY <2>1, RunInv
  <2>2. CASE SkipTask(t) \/ EndTask(t) \/ FailTask(t)
    BY <2>2, EndInv
  <2>3. CASE ReadRow(t) \/ WriteDomain(t) \/ WriteDedup(t)
    <3>1. busy = t => body[t] = "work"
      BY ScanCycleAssumption DEF BusyWorks, Tasks
    <3> QED BY <2>3, <3>1, RowInv
  <2> QED BY <1>1, <2>1, <2>2, <2>3 DEF TaskStep
<1>2. ASSUME NEW r \in Requests, StartCycle(r) PROVE IInv'
  BY <1>2, StartCycleInv
<1>3. CASE (\E r \in Requests : StartCheck(r) \/ PreflightFails(r)) \/ ApproveRead \/ ApproveWrite
  BY <1>3, RequestInv
<1>4. CASE Restart
  BY <1>4, RestartInv
<1>5. CASE UNCHANGED vars
  <2>1. UNCHANGED <<body, st, deps, busy, seen, cyc, count, req, appr>>
    BY <1>5 DEF vars, row, tasks
  <2>2. WorkersRun' /\ DedupWaits' /\ DedupLast' /\ TM!TMTypeOK'
    BY <2>1, TasksRest
  <2> QED BY <2>1, <2>2 DEF IInv, TypeOK
<1> QED BY <1>1, <1>2, <1>3, <1>4, <1>5 DEF Next

LEMMA Inductive == Spec => []IInv
<1>1. Init => IInv /\ BusyWorks
  BY InitInv
<1>2. IInv /\ BusyWorks /\ [Next]_vars => (IInv /\ BusyWorks)'
  BY NextInv, BusyInv
<1> QED BY <1>1, <1>2, PTL DEF Spec

\* Type correctness of the cycle's row, the requests and the tasks.
THEOREM TypeCorrect == Spec => []TypeOK
<1>1. IInv => TypeOK
  BY DEF IInv
<1> QED BY <1>1, Inductive, PTL

\* routes.py:1661 and manager.py:64: whatever domains there are, however
\* start requests overlap, whoever approves when, whatever fails and whenever
\* the server restarts, a deduplication is at work only when every domain of
\* its own cycle is complete and its task has ended.
THEOREM DedupIsLast == Spec => []DedupAfterAllDomains
<1>1. IInv => DedupAfterAllDomains
  <2> SUFFICES ASSUME IInv, NEW n \in Cycles, body[<<n, Dedup>>] # "none", NEW d \in Domains
               PROVE  st[<<n, d>>] = "complete" /\ body[<<n, d>>] = "none"
      BY DEF DedupAfterAllDomains, Cycles
  <2>1. <<n, Dedup>> \in Tasks /\ <<n, d>> \in Tasks
    BY TaskNames
  <2>2. st[<<n, d>>] = "complete"
    BY <2>1 DEF IInv, WorkersRun, DedupLast
  <2> QED BY <2>1, <2>2 DEF IInv, WorkersRun
<1> QED BY <1>1, Inductive, PTL

-----------------------------------------------------------------------------
(* Where start requests do not overlap and no cycle is approved before its   *)
(* review, cycles take turns.                                                *)

\* A task that has yet to write the row, and may begin.
Working(t) == st[t] \in {"pending", "running"} /\ body[t] # "notify"

\* Such a task belongs to the cycle of the row, which is in progress.
NoStrays == \A t \in Tasks : Working(t) =>
    t[1] = count /\ cyc.status \in {"scanning", "dedup_running"}

\* The row has the domains that have written it, and not those that have not.
Ticks == \A t \in Tasks : t[1] = count /\ t[2] # Dedup =>
    /\ Working(t) => t[2] \notin cyc.done
    /\ st[t] = "complete" \/ body[t] = "notify" => t[2] \in cyc.done

\* The status says whether they all have.
Phases ==
    /\ cyc.status # "none"
    /\ cyc.status = "scanning" => cyc.started = Domains /\ ~(Domains \subseteq cyc.done)
    /\ cyc.status = "dedup_running" => Domains \subseteq cyc.done

\* Who has read the row still knows it: a task, the approval, a start request.
ReadsAreFresh ==
    /\ busy # NoTask => seen = cyc
    /\ appr # NotReading => appr = cyc /\ cyc.status = "review_pending"
    /\ \A r \in Requests : req[r] = "preflight" => cyc.status \notin InProgress

TInv == NoStrays /\ Ticks /\ Phases /\ ReadsAreFresh

\* The row does not change, no task begins to work and none is over that had
\* not written the row.
LEMMA RowRests ==
    ASSUME NoStrays, Ticks, Phases, UNCHANGED row,
           \A t \in Tasks : Working(t)' => Working(t),
           \A t \in Tasks : st'[t] = "complete" \/ body'[t] = "notify"
                            => st[t] = "complete" \/ body[t] = "notify"
    PROVE  NoStrays' /\ Ticks' /\ Phases'
<1>1. cyc' = cyc /\ count' = count
  BY DEF row
<1>2. NoStrays'
  BY <1>1 DEF NoStrays
<1>3. Ticks'
  BY <1>1 DEF Ticks
<1>4. Phases'
  BY <1>1 DEF Phases
<1> QED BY <1>2, <1>3, <1>4

\* The task between its read and its write has yet to write.
LEMMA BusyIsWorking ==
    ASSUME IInv, BusyWorks, TInv, busy # NoTask
    PROVE  /\ busy \in Tasks /\ Working(busy) /\ st[busy] = "running" /\ seen = cyc
           /\ busy[1] = count /\ cyc.status \in {"scanning", "dedup_running"}
           /\ appr = NotReading
           /\ \A r \in Requests : req[r] # "preflight"
<1>1. busy \in Tasks /\ body[busy] = "work"
  BY DEF IInv, TypeOK, BusyWorks
<1>2. st[busy] = "running"
  BY <1>1 DEF IInv, WorkersRun
<1>3. Working(busy)
  BY <1>1, <1>2 DEF Working
<1> QED BY <1>1, <1>2, <1>3 DEF TInv, NoStrays, ReadsAreFresh, InProgress

\* The steps of tasks that do not write the row.
LEMMA TaskKeepsTInv ==
    ASSUME IInv, TInv, NEW t \in Tasks,
           RunTask(t) \/ SkipTask(t) \/ ReadRow(t) \/ EndTask(t) \/ FailTask(t)
    PROVE  TInv' /\ UNCHANGED cyc
<1>0. st \in [Tasks -> {"none", "pending", "running", "complete", "error", "cleared"}]
      /\ body \in [Tasks -> {"none", "work", "notify"}]
  BY DEF IInv, TypeOK, TM!TMTypeOK
<1>1. UNCHANGED row /\ UNCHANGED <<req, appr>>
  BY DEF RunTask, SkipTask, ReadRow, EndTask, FailTask, row
<1>2. \A u \in Tasks \ {t} : st'[u] = st[u] /\ body'[u] = body[u]
  <2>1. CASE RunTask(t)
    BY <1>0, <2>1 DEF RunTask, TM!Run
  <2>2. CASE SkipTask(t)
    BY <1>0, <2>2 DEF SkipTask, TM!DependencyFailed, tasks
  <2>3. CASE ReadRow(t)
    BY <1>0, <2>3 DEF ReadRow
  <2>4. CASE EndTask(t)
    BY <1>0, <2>4 DEF EndTask, TM!Complete
  <2>5. CASE FailTask(t)
    BY <1>0, <2>5 DEF FailTask, TM!Fail
  <2> QED BY <2>1, <2>2, <2>3, <2>4, <2>5
<1>3. /\ Working(t)' => Working(t)
      /\ st'[t] = "complete" \/ body'[t] = "notify"
           => st[t] = "complete" \/ body[t] = "notify"
  <2>1. CASE RunTask(t)
    <3>1. st[t] = "pending" /\ st'[t] = "running" /\ body'[t] = "work"
      BY <1>0, <2>1 DEF RunTask, TM!Run
    <3>2. body[t] = "none"
      BY <1>0, <3>1 DEF IInv, WorkersRun
    <3> QED BY <3>1, <3>2 DEF Working
  <2>2. CASE SkipTask(t)
    <3>1. st'[t] = "error" /\ body'[t] = body[t]
      BY <1>0, <2>2 DEF SkipTask, TM!DependencyFailed, tasks
    <3> QED BY <3>1 DEF Working
  <2>3. CASE ReadRow(t)
    BY <2>3 DEF ReadRow, Working
  <2>4. CASE EndTask(t)
    <3>1. body[t] = "notify" /\ st'[t] = "complete"
      BY <1>0, <2>4 DEF EndTask, TM!Complete
    <3> QED BY <3>1 DEF Working
  <2>5. CASE FailTask(t)
    <3>1. st'[t] = "error" /\ body'[t] = "none"
      BY <1>0, <2>5 DEF FailTask, TM!Fail
    <3> QED BY <3>1 DEF Working
  <2> QED BY <2>1, <2>2, <2>3, <2>4, <2>5
<1>4. NoStrays' /\ Ticks' /\ Phases'
  <2>1. \A u \in Tasks : Working(u)' => Working(u)
    BY <1>2, <1>3 DEF Working
  <2>2. \A u \in Tasks : st'[u] = "complete" \/ body'[u] = "notify"
                         => st[u] = "complete" \/ body[u] = "notify"
    BY <1>2, <1>3
  <2> QED BY <1>1, <2>1, <2>2, RowRests DEF TInv
<1>5. ReadsAreFresh'
  <2>1. busy' # NoTask => seen' = cyc
    BY DEF RunTask, SkipTask, ReadRow, EndTask, FailTask, tasks, TInv, ReadsAreFresh
  <2> QED BY <1>1, <2>1 DEF row, TInv, ReadsAreFresh
<1> QED BY <1>1, <1>4, <1>5 DEF TInv, row

\* Start requests that do not start, the approval's read, a restart.
LEMMA OthersKeepTInv ==
    ASSUME IInv, TInv, "early" \notin Env,
           \/ \E r \in Requests : StartCheck(r) \/ PreflightFails(r)
           \/ ApproveRead
           \/ Restart
    PROVE  TInv' /\ UNCHANGED cyc
<1>0. req \in [Requests -> {"idle", "preflight"}]
  BY DEF IInv, TypeOK
<1>1. UNCHANGED row
  BY DEF StartCheck, PreflightFails, ApproveRead, Restart
<1>2. CASE Restart
  <2>1. /\ \A t \in Tasks : st'[t] \in {"none", "cleared"} /\ body'[t] = "none"
        /\ \A r \in Requests : req'[r] = "idle"
        /\ appr' = NotReading /\ busy' = NoTask
    BY <1>2 DEF Restart, TM!LoseAll
  <2>2. NoStrays' /\ Ticks' /\ Phases'
    <3>1. /\ \A u \in Tasks : Working(u)' => Working(u)
          /\ \A u \in Tasks : st'[u] = "complete" \/ body'[u] = "notify"
                              => st[u] = "complete" \/ body[u] = "notify"
      BY <2>1 DEF Working
    <3> QED BY <1>1, <3>1, RowRests DEF TInv
  <2>3. ReadsAreFresh'
    BY <2>1 DEF ReadsAreFresh
  <2> QED BY <1>1, <2>2, <2>3 DEF TInv, row
<1>3. CASE ~Restart
  <2>1. UNCHANGED <<st, body, busy, seen>>
    BY <1>3 DEF StartCheck, PreflightFails, ApproveRead, tasks
  <2>2. NoStrays' /\ Ticks' /\ Phases'
    <3>1. /\ \A u \in Tasks : Working(u)' => Working(u)
          /\ \A u \in Tasks : st'[u] = "complete" \/ body'[u] = "notify"
                              => st[u] = "complete" \/ body[u] = "notify"
      BY <2>1 DEF Working
    <3> QED BY <1>1, <3>1, RowRests DEF TInv
  <2>3. ReadsAreFresh'
    <3>1. CASE ApproveRead
      BY <1>1, <2>1, <3>1 DEF ApproveRead, row, TInv, ReadsAreFresh
    <3>2. ASSUME NEW r \in Requests, StartCheck(r) \/ PreflightFails(r)
          PROVE  ReadsAreFresh'
      <4>1. /\ appr' = appr
            /\ \A q \in Requests : req'[q] = "preflight"
                  => req[q] = "preflight" \/ cyc.status \notin InProgress
        BY <1>0, <3>2 DEF StartCheck, PreflightFails
      <4> QED BY <1>1, <2>1, <4>1 DEF row, TInv, ReadsAreFresh
    <3> QED BY <1>3, <3>1, <3>2
  <2> QED BY <1>1, <2>2, <2>3 DEF TInv, row
<1> QED BY <1>2, <1>3

\* A domain ticks itself off; the last one hands over to the deduplication.
LEMMA WriteDomainKeepsTInv ==
    ASSUME IInv, BusyWorks, TInv, NEW t \in Tasks, WriteDomain(t)
    PROVE  TInv' /\ [Gate!Next]_(cyc.status)
<1>1. busy = t /\ t # NoTask
  BY ScanCycleAssumption DEF WriteDomain, Tasks
<1>2. /\ Working(t) /\ seen = cyc /\ t[1] = count
      /\ cyc.status \in {"scanning", "dedup_running"}
      /\ appr = NotReading
      /\ \A r \in Requests : req[r] # "preflight"
  BY <1>1, BusyIsWorking
<1>3. t[2] \in Domains /\ t[2] \notin cyc.done
  BY <1>2 DEF WriteDomain, Tasks, TInv, Ticks
<1>4. cyc.status = "scanning" /\ cyc.started = Domains
  BY <1>2, <1>3 DEF TInv, Phases
<1>5. cyc \in Row /\ body \in [Tasks -> {"none", "work", "notify"}]
  BY DEF IInv, TypeOK
<1>6. PICK done : done = cyc.done \cup {t[2]}
  OBVIOUS
<1>7. /\ cyc'.done = done
      /\ cyc'.started = Domains
      /\ cyc'.status = IF Domains \subseteq done THEN "dedup_running" ELSE "scanning"
      /\ count' = count /\ busy' = NoTask /\ appr' = appr /\ req' = req /\ st' = st
      /\ body' = [body EXCEPT ![t] = "notify"]
  BY <1>2, <1>4, <1>5, <1>6 DEF WriteDomain, Row
<1>8. \A u \in Tasks \ {t} : (Working(u)' <=> Working(u)) /\ body'[u] = body[u]
  BY <1>5, <1>7 DEF Working
<1>9. ~Working(t)'
  BY <1>5, <1>7 DEF Working
<1>10. NoStrays'
  BY <1>7, <1>8, <1>9 DEF TInv, NoStrays
<1>11. Ticks'
  <2> SUFFICES ASSUME NEW u \in Tasks, u[1] = count, u[2] # Dedup
               PROVE  /\ Working(u)' => u[2] \notin done
                      /\ st[u] = "complete" \/ body'[u] = "notify" => u[2] \in done
      BY <1>7 DEF Ticks
  <2>1. CASE u = t
    BY <1>6, <1>9, <2>1
  <2>2. CASE u # t
    <3>1. u[2] # t[2]
      BY <1>2, <2>2 DEF Tasks
    <3> QED BY <1>6, <1>8, <2>2, <3>1 DEF TInv, Ticks
  <2> QED BY <2>1, <2>2
<1>12. Phases'
  BY <1>7 DEF Phases
<1>13. ReadsAreFresh'
  BY <1>2, <1>7 DEF ReadsAreFresh
<1>14. cyc'.status = cyc.status \/ Gate!AllScanned
  BY <1>4, <1>7 DEF Gate!AllScanned
<1> QED BY <1>10, <1>11, <1>12, <1>13, <1>14 DEF TInv, Gate!Next

\* The deduplication is the last to write.
LEMMA WriteDedupKeepsTInv ==
    ASSUME IInv, BusyWorks, TInv, NEW t \in Tasks, WriteDedup(t)
    PROVE  TInv' /\ [Gate!Next]_(cyc.status)
<1>1. busy = t /\ t # NoTask /\ t[2] = Dedup
  BY ScanCycleAssumption DEF WriteDedup, Tasks
<1>2. /\ Working(t) /\ st[t] = "running" /\ seen = cyc /\ t[1] = count
      /\ cyc.status \in {"scanning", "dedup_running"}
      /\ appr = NotReading
      /\ \A r \in Requests : req[r] # "preflight"
  BY <1>1, BusyIsWorking
<1>3. t = <<count, Dedup>> /\ count \in Cycles
  BY <1>1, <1>2 DEF Tasks, Cycles
<1>4. \A d \in Domains : st[<<count, d>>] = "complete"
  BY <1>2, <1>3 DEF IInv, DedupLast
<1>5. Domains \subseteq cyc.done
  <2> SUFFICES ASSUME NEW d \in Domains PROVE d \in cyc.done
      OBVIOUS
  <2>1. <<count, d>> \in Tasks /\ d # Dedup
    BY <1>3, TaskNames, ScanCycleAssumption
  <2> QED BY <1>4, <2>1 DEF TInv, Ticks
<1>6. cyc.status = "dedup_running"
  BY <1>2, <1>5 DEF TInv, Phases
<1>7. cyc \in Row /\ body \in [Tasks -> {"none", "work", "notify"}]
  BY DEF IInv, TypeOK
<1>8. /\ cyc'.status = "review_pending" /\ cyc'.done = cyc.done
      /\ count' = count /\ busy' = NoTask /\ appr' = appr /\ req' = req /\ st' = st
      /\ body' = [body EXCEPT ![t] = "notify"]
  BY <1>2, <1>7 DEF WriteDedup, Row
<1>9. ASSUME NEW u \in Tasks, u # t PROVE ~Working(u) /\ body'[u] = body[u]
  <2>1. body'[u] = body[u]
    BY <1>7, <1>8, <1>9
  <2>2. Working(u) => u[1] = count /\ u[2] \in Domains
    BY <1>3, <1>9 DEF TInv, NoStrays, Tasks
  <2>3. Working(u) => u[2] \in cyc.done /\ u[2] \notin cyc.done
    BY <1>5, <2>2, ScanCycleAssumption DEF TInv, Ticks
  <2> QED BY <2>1, <2>3
<1>10. \A u \in Tasks : ~Working(u)'
  <2>1. ~Working(t)'
    BY <1>7, <1>8 DEF Working
  <2>2. \A u \in Tasks : u # t => (Working(u)' => Working(u))
    BY <1>8, <1>9 DEF Working
  <2> QED BY <1>9, <2>1, <2>2
<1>11. NoStrays'
  BY <1>10 DEF NoStrays
<1>12. Ticks'
  <2> SUFFICES ASSUME NEW u \in Tasks, u[1] = count, u[2] # Dedup,
                      st[u] = "complete" \/ body'[u] = "notify"
               PROVE  u[2] \in cyc.done
      BY <1>8, <1>10 DEF Ticks
  <2>1. u # t
    BY <1>1
  <2> QED BY <1>9, <2>1 DEF TInv, Ticks
<1>13. Phases' /\ ReadsAreFresh'
  BY <1>2, <1>8 DEF Phases, ReadsAreFresh
<1>14. Gate!Deduplicated
  BY <1>6, <1>8 DEF Gate!Deduplicated
<1> QED BY <1>11, <1>12, <1>13, <1>14 DEF TInv, Gate!Next

\* The user approves the cycle that waits for it: nothing works on it.
LEMMA ApproveKeepsTInv ==
    ASSUME IInv, BusyWorks, TInv, ApproveWrite
    PROVE  TInv' /\ [Gate!Next]_(cyc.status)
<1>1. appr = cyc /\ cyc.status = "review_pending" /\ busy = NoTask
  BY BusyIsWorking DEF ApproveWrite, TInv, ReadsAreFresh
<1>2. \A t \in Tasks : ~Working(t)
  BY <1>1 DEF TInv, NoStrays
<1>3. cyc \in Row
  BY DEF IInv, TypeOK
<1>4. /\ cyc'.status = "complete" /\ cyc'.done = cyc.done /\ count' = count
      /\ appr' = NotReading /\ req' = req /\ busy' = busy /\ st' = st /\ body' = body
  BY <1>1, <1>3 DEF ApproveWrite, Row, tasks
<1>5. \A t \in Tasks : ~Working(t)'
  BY <1>2, <1>4 DEF Working
<1>6. NoStrays' /\ Ticks'
  BY <1>4, <1>5 DEF TInv, NoStrays, Ticks
<1>7. Phases' /\ ReadsAreFresh'
  BY <1>1, <1>4 DEF Phases, ReadsAreFresh, InProgress
<1>8. Gate!Approve
  BY <1>1, <1>4 DEF Gate!Approve
<1> QED BY <1>6, <1>7, <1>8 DEF TInv, Gate!Next

\* A cycle starts when nothing works any more; its tasks are all new.
LEMMA StartKeepsTInv ==
    ASSUME IInv, TInv, \A q, r \in Requests : q = r,
           NEW r \in Requests, StartCycle(r)
    PROVE  TInv' /\ [Gate!Next]_(cyc.status)
<1>1. PICK n : n = count + 1
  OBVIOUS
<1>2. PICK B : B = DomainTasks(n) \cup {<<n, Dedup>>}
  OBVIOUS
<1>3. /\ req \in [Requests -> {"idle", "preflight"}] /\ cyc \in Row /\ count \in Nat
      /\ st \in [Tasks -> {"none", "pending", "running", "complete", "error", "cleared"}]
  BY ScanCycleAssumption DEF IInv, TypeOK, TM!TMTypeOK
<1>4. cyc.status \notin InProgress
  BY DEF StartCycle, TInv, ReadsAreFresh
<1>5. \A t \in Tasks : ~Working(t)
  BY <1>4 DEF TInv, NoStrays, InProgress
<1>6. appr = NotReading /\ busy = NoTask
  BY <1>4 DEF StartCycle, TInv, ReadsAreFresh, InProgress
<1>7. /\ cyc'.status = "scanning" /\ cyc'.started = Domains /\ cyc'.done = {}
      /\ count' = n /\ appr' = appr /\ busy' = busy /\ body' = body
      /\ req' = [req EXCEPT ![r] = "idle"]
      /\ \A t \in B : st[t] = "none"
      /\ \A t \in Tasks : st'[t] = IF t \in B THEN "pending" ELSE st[t]
  BY <1>1, <1>2 DEF StartCycle, TM!Submit, tasks
<1>8. \A t \in Tasks : Working(t)' => t \in B
  BY <1>5, <1>7 DEF Working
<1>9. \A t \in B : t[1] = n
  BY <1>2 DEF DomainTasks
<1>10. NoStrays'
  BY <1>7, <1>8, <1>9 DEF NoStrays
<1>11. Ticks'
  <2> SUFFICES ASSUME NEW t \in Tasks, t[1] = n, t[2] # Dedup
               PROVE  st'[t] # "complete" /\ body[t] # "notify"
      BY <1>7 DEF Ticks
  <2>1. t \in B
    BY <1>2 DEF Tasks, DomainTasks
  <2>2. st[t] = "none" /\ st'[t] = "pending"
    BY <1>7, <2>1
  <2>3. body[t] = "none"
    BY <2>2 DEF IInv, TypeOK, WorkersRun
  <2> QED BY <2>2, <2>3
<1>12. Phases'
  BY <1>7, ScanCycleAssumption DEF Phases
<1>13. ReadsAreFresh'
  BY <1>3, <1>6, <1>7 DEF ReadsAreFresh
<1>14. Gate!Begin
  BY <1>3, <1>4, <1>7 DEF Gate!Begin, InProgress, Row, TInv, Phases
<1> QED BY <1>10, <1>11, <1>12, <1>13, <1>14 DEF TInv, Gate!Next

\* All steps together.
LEMMA NextKeepsTInv ==
    ASSUME IInv, BusyWorks, TInv, [Next]_vars,
           \A q, r \in Requests : q = r, "early" \notin Env
    PROVE  TInv' /\ [Gate!Next]_(cyc.status)
<1>1. ASSUME NEW t \in Tasks, TaskStep(t) PROVE TInv' /\ [Gate!Next]_(cyc.status)
  BY <1>1, TaskKeepsTInv, WriteDomainKeepsTInv, WriteDedupKeepsTInv DEF TaskStep
<1>2. ASSUME NEW r \in Requests, StartCycle(r) PROVE TInv' /\ [Gate!Next]_(cyc.status)
  BY <1>2, StartKeepsTInv
<1>3. CASE \/ \E r \in Requests : StartCheck(r) \/ PreflightFails(r)
           \/ ApproveRead
           \/ Restart
  BY <1>3, OthersKeepTInv
<1>4. CASE ApproveWrite
  BY <1>4, ApproveKeepsTInv
<1>5. CASE UNCHANGED vars
  BY <1>5 DEF vars, row, tasks, TInv, NoStrays, Ticks, Phases, ReadsAreFresh, Working
<1> QED BY <1>1, <1>2, <1>3, <1>4, <1>5 DEF Next

LEMMA InitTInv == Init => TInv
BY DEF Init, TInv, NoStrays, Ticks, Phases, ReadsAreFresh, Working, IdleRow, NotReading,
       TM!TMInit

\* routes.py:1544 and :1661: where start requests do not overlap and a cycle is
\* approved only when it asks for it, a task that has yet to write the row
\* belongs to the row's own cycle, whatever fails and whenever the server
\* restarts.
THEOREM CycleSound ==
    ASSUME \A q, r \in Requests : q = r, "early" \notin Env
    PROVE  Spec => []CycleInv
<1>1. Init => IInv /\ BusyWorks /\ TInv
  BY InitInv, InitTInv
<1>2. IInv /\ BusyWorks /\ TInv /\ [Next]_vars => (IInv /\ BusyWorks /\ TInv)'
  BY NextInv, BusyInv, NextKeepsTInv
<1>3. IInv /\ TInv => CycleInv
  BY DEF IInv, TInv, NoStrays, Working, CycleInv, WritersAreCurrent
<1> QED BY <1>1, <1>2, <1>3, PTL DEF Spec

\* Under the same conditions the cycle implements CycleGate: full scans take
\* turns, each scans every domain, then deduplicates, then waits for approval.
THEOREM CyclesTakeTurns ==
    ASSUME \A q, r \in Requests : q = r, "early" \notin Env
    PROVE  Spec => TakesTurns
<1>1. Init => IInv /\ BusyWorks /\ TInv /\ Gate!Init
  BY InitInv, InitTInv DEF Init, IdleRow, Gate!Init
<1>2. IInv /\ BusyWorks /\ TInv /\ [Next]_vars
        => (IInv /\ BusyWorks /\ TInv)' /\ [Gate!Next]_(cyc.status)
  BY NextInv, BusyInv, NextKeepsTInv
<1> QED BY <1>1, <1>2, PTL DEF Spec, TakesTurns, Gate!Spec
=============================================================================
