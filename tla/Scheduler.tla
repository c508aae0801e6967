----------------------------- MODULE Scheduler -----------------------------
(***************************************************************************)
(* The job scheduler (backend/scheduler/scheduler.py).  The table          *)
(* scheduled_jobs says which jobs there are and which are active;          *)
(* APScheduler keeps, in the memory of the process, the entries that will  *)
(* fire: `job_<id>' for a schedule, `job_<id>_manual_<time>' for run-now.  *)
(* Every endpoint is a plain function in a thread of its own, changes both *)
(* places, and not in the same order.                                      *)
(*                                                                         *)
(* A row's kind says what _build_trigger makes of its schedule:            *)
(* "repeating", "once" (one_time), or "unreadable" (None).                 *)
(***************************************************************************)
CONSTANTS
    Jobs,          \* ids of scheduled_jobs
    Asked,         \* the jobs that are asked for: [name, kind]
    JobReqs,       \* requests that may overlap
    CommitMayFail  \* may a commit raise (the database stays locked)?

ASSUME SchedulerAssumption ==
    /\ \A a \in Asked : a.kind \in {"repeating", "once", "unreadable"}
    /\ CommitMayFail \in BOOLEAN

NoJob == [name |-> "none", kind |-> "none", active |-> FALSE, runs |-> "never"]
IdleReq == [at |-> "idle"]

VARIABLES
    jobs,      \* the table
    reg,       \* the jobs APScheduler has an entry for
    manual,    \* the jobs with a run-now entry
    jreq,      \* jreq[r]: where a request is
    raced      \* history: the jobs that requests have changed at the same
               \* time, or whose commit failed, since the process started

schedVars == <<jobs, reg, manual, jreq, raced>>

JobRows == {j \in Jobs : jobs[j] # NoJob}
Buildable(j) == jobs[j].kind # "unreadable"
About(j) == {r \in JobReqs : jreq[r].at \notin {"idle", "insert"} /\ jreq[r].job = j}

SchedInit ==
    /\ jobs = [j \in Jobs |-> NoJob]
    /\ reg = {}
    /\ manual = {}
    /\ jreq = [r \in JobReqs |-> IdleReq]
    /\ raced = {}

-----------------------------------------------------------------------------
(* Requests *)

\* A request about a job begins; from now on it may meet another one.
JobRequest(r, j, state) ==
    /\ jreq[r] = IdleReq
    /\ jreq' = [jreq EXCEPT ![r] = state]
    /\ raced' = IF About(j) # {} THEN raced \cup {j} ELSE raced

JobAnswered(r) == jreq' = [jreq EXCEPT ![r] = IdleReq]

\* create_job looks for the name ...
CreateCheck(r, a) ==
    /\ jreq[r] = IdleReq
    /\ \A j \in JobRows : jobs[j].name # a.name
    /\ jreq' = [jreq EXCEPT ![r] = [at |-> "insert", row |-> a]]
    /\ UNCHANGED <<jobs, reg, manual, raced>>

\* ... inserts the row and commits, unless the column is no longer unique ...
CreateInsert(r) ==
    /\ jreq[r].at = "insert"
    /\ UNCHANGED <<reg, manual, raced>>
    /\ \/ \E j \in Jobs \ JobRows :
            /\ \A i \in JobRows : jobs[i].name # jreq[r].row.name
            /\ jobs' = [jobs EXCEPT ![j] =
                 [name |-> jreq[r].row.name, kind |-> jreq[r].row.kind,
                  active |-> TRUE, runs |-> "never"]]
            /\ jreq' = [jreq EXCEPT ![r] = [at |-> "register", job |-> j]]
       \/ /\ \E i \in JobRows : jobs[i].name = jreq[r].row.name
          /\ JobAnswered(r)
          /\ UNCHANGED jobs

\* _register_job: an entry that is there is replaced, and only removed when
\* the schedule cannot be read.
Registered(j) == IF Buildable(j) THEN reg \cup {j} ELSE reg \ {j}

\* ... and registers it, whatever has become of the row.
CreateRegister(r) ==
    /\ jreq[r].at = "register"
    /\ reg' = Registered(jreq[r].job)
    /\ JobAnswered(r)
    /\ UNCHANGED <<jobs, manual, raced>>

\* toggle_job loads the row ...
ToggleRead(r, j, on) ==
    /\ j \in JobRows
    /\ JobRequest(r, j, [at |-> "entry", job |-> j, to |-> on, saw |-> jobs[j].active])
    /\ UNCHANGED <<jobs, reg, manual>>

\* ... changes the registry ...
ToggleEntry(r) ==
    LET j == jreq[r].job IN
    /\ jreq[r].at = "entry"
    /\ reg' = IF jreq[r].to THEN Registered(j) ELSE reg \ {j}
    /\ jreq' = [jreq EXCEPT ![r].at = "commit"]
    /\ UNCHANGED <<jobs, manual, raced>>

\* ... and commits: an UPDATE only of a value that differs from the loaded
\* one.  delete_job ends in the same way.
CommitActive(r) ==
    LET j == jreq[r].job IN
    /\ jreq[r].at = "commit"
    /\ jobs' = IF jreq[r].to # jreq[r].saw
               THEN [jobs EXCEPT ![j].active = jreq[r].to] ELSE jobs
    /\ JobAnswered(r)
    /\ UNCHANGED <<reg, manual, raced>>

\* The commit raises: the row is rolled back, the registry is not.
CommitFails(r) ==
    /\ CommitMayFail
    /\ jreq[r].at = "commit"
    /\ raced' = raced \cup {jreq[r].job}
    /\ JobAnswered(r)
    /\ UNCHANGED <<jobs, reg, manual>>

\* delete_job removes the entry ...
DeleteEntry(r, j) ==
    /\ j \in JobRows
    /\ JobRequest(r, j, [at |-> "row", job |-> j])
    /\ reg' = reg \ {j}
    /\ UNCHANGED <<jobs, manual>>

\* ... and then loads the row to mark it inactive.
DeleteRead(r) ==
    LET j == jreq[r].job IN
    /\ jreq[r].at = "row"
    /\ jreq' = [jreq EXCEPT ![r] =
                    [at |-> "commit", job |-> j, to |-> FALSE, saw |-> jobs[j].active]]
    /\ UNCHANGED <<jobs, reg, manual, raced>>

\* run_job_now adds an entry of its own, for an inactive job too.
RunJobNow(j) ==
    /\ j \in JobRows
    /\ manual' = manual \cup {j}
    /\ UNCHANGED <<jobs, reg, jreq, raced>>

-----------------------------------------------------------------------------
(* The event loop *)

\* _execute_job: the import in its last branch makes session_scope a local
\* name of the whole function, so that its first statement raises and
\* APScheduler logs the exception.  No row changes.
ExecuteJob == UNCHANGED <<jobs, jreq, raced>>

\* An entry fires; a date trigger has nothing left and its entry goes.
Fire(j) ==
    /\ j \in reg
    /\ reg' = IF jobs[j].kind = "once" THEN reg \ {j} ELSE reg
    /\ ExecuteJob
    /\ UNCHANGED manual

FireManual(j) ==
    /\ j \in manual
    /\ manual' = manual \ {j}
    /\ ExecuteJob
    /\ UNCHANGED reg

\* An entry is more than misfire_grace_time late: it is passed over.
Misfire(j) ==
    /\ j \in reg
    /\ jobs[j].kind = "once"
    /\ reg' = reg \ {j}
    /\ UNCHANGED <<jobs, manual, jreq, raced>>

\* Mutant of Reload: every row is loaded.
ReloadAll ==
    /\ reg' = {j \in JobRows : Buildable(j)}
    /\ manual' = {}
    /\ jreq' = [r \in JobReqs |-> IdleReq]
    /\ raced' = {}
    /\ UNCHANGED jobs

\* start_scheduler in a new process: _reload_jobs_from_db registers the active
\* rows, one-time jobs that have fired included.
Reload ==
    /\ reg' = {j \in JobRows : jobs[j].active /\ Buildable(j)}
    /\ manual' = {}
    /\ jreq' = [r \in JobReqs |-> IdleReq]
    /\ raced' = {}
    /\ UNCHANGED jobs

SchedNext ==
    \/ \E r \in JobReqs :
          \/ \E a \in Asked : CreateCheck(r, a)
          \/ CreateInsert(r)
          \/ CreateRegister(r)
          \/ \E j \in Jobs : DeleteEntry(r, j) \/ \E on \in BOOLEAN : ToggleRead(r, j, on)
          \/ ToggleEntry(r)
          \/ DeleteRead(r)
          \/ CommitActive(r)
          \/ CommitFails(r)
    \/ \E j \in Jobs : RunJobNow(j) \/ Fire(j) \/ FireManual(j) \/ Misfire(j)
    \/ Reload

SchedSpec == SchedInit /\ [][SchedNext]_schedVars

\* The event loop fires what is due; no request is obliged to come.
SchedFairSpec == SchedSpec /\ \A j \in Jobs : WF_schedVars(Fire(j)) /\ WF_schedVars(FireManual(j))

-----------------------------------------------------------------------------
(* Properties *)

SchedTypeOK ==
    /\ jobs \in [Jobs -> {NoJob} \cup
         [name : {a.name : a \in Asked}, kind : {a.kind : a \in Asked}, active : BOOLEAN,
          runs : {"never", "some"}]]
    /\ reg \subseteq Jobs /\ manual \subseteq Jobs /\ raced \subseteq Jobs
    /\ jreq \in [JobReqs -> {IdleReq}
         \cup [at : {"insert"}, row : Asked]
         \cup [at : {"register", "row"}, job : Jobs]
         \cup [at : {"entry", "commit"}, job : Jobs, to : BOOLEAN, saw : BOOLEAN]]

\* scheduler.py:55,227,239: whenever no request about a job is under way, its
\* entry is there only if the row is active, and an active job that repeats
\* has its entry, unless two requests have changed this very job at the same
\* time or a commit failed since the process started.  Requests about
\* other jobs, failing creations and restarts do no harm.
RegistryFollowsTable ==
    \A j \in Jobs \ raced : About(j) = {} =>
        /\ j \in reg => jobs[j].active
        /\ jobs[j].active /\ jobs[j].kind = "repeating" => j \in reg

\* scheduler.py:259 "Trigger a job to run immediately": a job that run-now has
\* been asked for is run.
QueuedJobRuns == \A j \in Jobs : j \in manual ~> jobs[j].runs = "some"
=============================================================================
