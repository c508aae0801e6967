------------------------- MODULE SourceScan_proofs -------------------------
(***************************************************************************)
(* Proofs about SourceScan: for any catalogue, page size, number of        *)
(* sessions and retries, with cancellations and restarts at any point, a   *)
(* running session has a task or a cancellation behind it, an ended one is *)
(* never revived, and a scan that nothing disturbs leaves exactly the      *)
(* store's published listings active.                                      *)
(***************************************************************************)
EXTENDS SourceScan, FiniteSetTheorems, TLAPS

Tasks == [pc : {"none", "ready", "fetch", "crawl", "persist", "admin", "archive", "merge"},
          page : Nat, attempt : 0..MaxRetries, got : SUBSET Listings,
          limited : BOOLEAN, seen : SUBSET Listings, dying : BOOLEAN]
Statuses == {"none", "pending", "running", "completed", "failed", "cancelled"}

Asked == {"none", "pending", "running"}

\* A scan that has not begun has nothing; one that waits for pages has seen
\* nothing.
Beginning(t) ==
    /\ t.page # 0
    /\ t.pc = "none" => t = NoTask
    /\ t.pc = "ready" =>
         t.got = {} /\ t.seen = {} /\ t.page = 1 /\ t.limited = FALSE
    /\ t.pc \in {"fetch", "crawl"} => t.seen = {}
    /\ t.pc = "fetch" => t.limited = FALSE

\* Where a session s stands, x, by its task t and the cancellations of it, a.
Standing(s, t, x, a) ==
    /\ t.pc = "ready" => x \in {"none", "pending"}
    /\ t.pc \notin {"none", "ready"} => x \notin {"none", "pending"}
    /\ a = "running" => x \notin {"none", "pending"}
    /\ a = "pending" => x # "none"
    /\ x = "pending" => s \notin CycleSessions

\* Without cancellations that fall midway no task goes on after one.
CleanCancel(t, x, a) ==
    "midway" \notin env =>
        /\ t.dying = FALSE
        /\ a = "pending" => t.pc = "none" /\ x # "running"
        /\ x = "running" => t.pc # "none" \/ a = "running"

Sound(s, t, x, a) == Beginning(t) /\ Standing(s, t, x, a) /\ CleanCancel(t, x, a)

RowsTyped ==
    /\ status \in [Listings -> {"none", "active", "draft", "archived"}]
    /\ stamp \in [Listings -> Sessions \cup {NoStamp}]

SessionInv == TypeOK /\ \A s \in Sessions : Sound(s, task[s], sess[s], asked[s])

-----------------------------------------------------------------------------
(* Sessions *)

\* A session and its task, and what can become of them.
LEMMA OfSession ==
    ASSUME SessionInv, NEW s \in Sessions
    PROVE  /\ task[s] \in Tasks /\ sess[s] \in Statuses /\ asked[s] \in Asked
           /\ NoTask \in Tasks /\ NoTask.pc = "none" /\ NoTask.dying = FALSE /\ NoTask.page # 0
           /\ Sound(s, task[s], sess[s], asked[s])
<1>1. NoTask \in Tasks
  BY SourceScanAssumption DEF Tasks, NoTask
<1> QED BY <1>1 DEF SessionInv, TypeOK, Tasks, Statuses, Asked, NoTask

\* A step of one session leaves the others as they are.
LEMMA OneMoves ==
    ASSUME SessionInv, NEW s \in Sessions, NEW t \in Tasks, NEW x \in Statuses, NEW a \in Asked,
           task' = [task EXCEPT ![s] = t], sess' = [sess EXCEPT ![s] = x],
           asked' = [asked EXCEPT ![s] = a],
           UNCHANGED <<store, env>>, RowsTyped', Sound(s, t, x, a)
    PROVE  SessionInv'
<1>1. TypeOK'
  <2>1. task' \in [Sessions -> Tasks]
    BY DEF SessionInv, TypeOK, Tasks
  <2>2. sess' \in [Sessions -> Statuses] /\ asked' \in [Sessions -> Asked]
    BY DEF SessionInv, TypeOK, Statuses, Asked
  <2> QED BY <2>1, <2>2 DEF SessionInv, TypeOK, RowsTyped, store, Tasks, Statuses, Asked
<1>2. ASSUME NEW r \in Sessions PROVE Sound(r, task[r], sess[r], asked[r])'
  <2>1. CASE r = s
    <3>1. task'[s] = t /\ sess'[s] = x /\ asked'[s] = a
      BY DEF SessionInv, TypeOK
    <3> QED BY <2>1, <3>1 DEF Sound, Beginning, Standing, CleanCancel
  <2>2. CASE r # s
    <3>1. task'[r] = task[r] /\ sess'[r] = sess[r] /\ asked'[r] = asked[r]
      BY <2>2 DEF SessionInv, TypeOK
    <3>2. Sound(r, task[r], sess[r], asked[r])
      BY DEF SessionInv
    <3> QED BY <3>1, <3>2 DEF Sound, Beginning, Standing, CleanCancel
  <2> QED BY <2>1, <2>2
<1> QED BY <1>1, <1>2 DEF SessionInv

\* A scan that works on keeps its session's status.
LEMMA WorksOn ==
    ASSUME SessionInv, NEW s \in Sessions, NEW t \in Tasks,
           task' = [task EXCEPT ![s] = t], UNCHANGED <<store, sess, asked, env>>, RowsTyped',
           {task[s].pc, t.pc} \cap {"none", "ready"} = {}, t.dying = task[s].dying,
           t.page # 0, t.pc \in {"fetch", "crawl"} => t.seen = {},
           t.pc = "fetch" => t.limited = FALSE
    PROVE  SessionInv'
<1>1. sess' = [sess EXCEPT ![s] = sess[s]] /\ asked' = [asked EXCEPT ![s] = asked[s]]
  BY DEF SessionInv, TypeOK
<1>2. Sound(s, t, sess[s], asked[s])
  BY OfSession DEF Sound, Beginning, Standing, CleanCancel
<1> QED BY <1>1, <1>2, OfSession, OneMoves

\* Rows keep their types, stamped or as they were.
LEMMA RowsStayTyped ==
    ASSUME SessionInv
    PROVE  /\ UNCHANGED rows => RowsTyped'
           /\ \A s \in Sessions, ls \in SUBSET Listings, st \in {"active", "draft", "archived"} :
                 Stamped(s, ls, st) => RowsTyped'
<1>1. UNCHANGED rows => RowsTyped'
  BY DEF SessionInv, TypeOK, RowsTyped, rows
<1>2. ASSUME NEW s \in Sessions, NEW ls \in SUBSET Listings,
             NEW st \in {"active", "draft", "archived"}, Stamped(s, ls, st)
      PROVE  RowsTyped'
  BY <1>2 DEF SessionInv, TypeOK, RowsTyped, Stamped
<1> QED BY <1>1, <1>2

LEMMA InitSessionInv ==
    ASSUME Init
    PROVE  SessionInv
<1>1. NoTask \in Tasks
  BY SourceScanAssumption DEF NoTask, Tasks
<1>2. TypeOK
  BY <1>1, SourceScanAssumption DEF Init, TypeOK, Tasks
<1>3. ASSUME NEW s \in Sessions PROVE Sound(s, task[s], sess[s], asked[s])
  BY DEF Init, NoTask, Sound, Beginning, Standing, CleanCancel
<1> QED BY <1>2, <1>3 DEF SessionInv

\* A page arrives.
LEMMA FetchPageKeepsSessions ==
    ASSUME SessionInv, NEW s \in Sessions, FetchPage(s)
    PROVE  SessionInv'
<1>1. task[s] \in Tasks /\ task[s].page # 0
  BY OfSession DEF Sound, Beginning
<1>2. PICK t : t = [task[s] EXCEPT !.got = @ \cup Page(task[s].page), !.attempt = 0,
               !.page = IF Cardinality(Page(task[s].page)) < PageSize THEN @ ELSE @ + 1,
               !.pc = IF Cardinality(Page(task[s].page)) < PageSize THEN "persist" ELSE "fetch"]
  OBVIOUS
<1>3. t \in Tasks /\ t.page # 0
  <2>1. Page(task[s].page) \subseteq Listings
    BY DEF Page, OnPage, Listings
  <2>2. /\ task[s].got \cup Page(task[s].page) \in SUBSET Listings
        /\ 0 \in 0..MaxRetries
        /\ task[s].page + 1 \in Nat /\ task[s].page + 1 # 0
    BY <1>1, <2>1, SourceScanAssumption DEF Tasks
  <2>3. CASE Cardinality(Page(task[s].page)) < PageSize
    BY <1>1, <1>2, <2>2, <2>3 DEF Tasks
  <2>4. CASE ~(Cardinality(Page(task[s].page)) < PageSize)
    BY <1>1, <1>2, <2>2, <2>4 DEF Tasks
  <2> QED BY <2>3, <2>4
<1>4. RowsTyped'
  BY RowsStayTyped DEF rows, FetchPage
<1>5. task' = [task EXCEPT ![s] = t]
  BY <1>2 DEF FetchPage
<1>6. /\ {task[s].pc, t.pc} \cap {"none", "ready"} = {} /\ t.dying = task[s].dying
      /\ t.pc \in {"fetch", "crawl"} => t.seen = {}
      /\ t.pc = "fetch" => t.limited = FALSE
  BY <1>1, <1>2, OfSession DEF Sound, Beginning, Tasks, FetchPage
<1> QED BY <1>1, <1>3, <1>4, <1>5, <1>6, WorksOn DEF FetchPage

\* The store asks to wait: one more attempt ...
LEMMA Fetch429KeepsSessions ==
    ASSUME SessionInv, NEW s \in Sessions, Fetch429(s)
    PROVE  SessionInv'
<1>1. task[s] \in Tasks /\ task[s].page # 0
  BY OfSession DEF Sound, Beginning
<1>2. PICK t : t = [task[s] EXCEPT !.attempt = @ + 1]
  OBVIOUS
<1>3. t \in Tasks /\ t.page # 0
  <2>1. task[s].attempt + 1 \in 0..MaxRetries
    BY <1>1, SourceScanAssumption DEF Tasks, Fetch429
  <2> QED BY <1>1, <1>2, <2>1 DEF Tasks
<1>4. RowsTyped'
  BY RowsStayTyped DEF rows, Fetch429
<1>5. task' = [task EXCEPT ![s] = t]
  BY <1>2 DEF Fetch429
<1>6. /\ {task[s].pc, t.pc} \cap {"none", "ready"} = {} /\ t.dying = task[s].dying
      /\ t.pc \in {"fetch", "crawl"} => t.seen = {}
      /\ t.pc = "fetch" => t.limited = FALSE
  BY <1>1, <1>2, OfSession DEF Sound, Beginning, Tasks, Fetch429
<1> QED BY <1>1, <1>3, <1>4, <1>5, <1>6, WorksOn DEF Fetch429

\* ... or none, and the fetch is given up; ...
LEMMA GiveUpKeepsSessions ==
    ASSUME SessionInv, NEW s \in Sessions, FetchGiveUp(s)
    PROVE  SessionInv'
<1>1. task[s] \in Tasks /\ task[s].page # 0
  BY OfSession DEF Sound, Beginning
<1>2. PICK t : t = [task[s] EXCEPT !.limited = TRUE, !.pc = "persist"]
  OBVIOUS
<1>3. t \in Tasks /\ t.page # 0
  BY <1>1, <1>2 DEF Tasks, FetchGiveUp
<1>4. RowsTyped'
  BY RowsStayTyped DEF rows, FetchGiveUp
<1>5. task' = [task EXCEPT ![s] = t]
  BY <1>2 DEF FetchGiveUp
<1>6. /\ {task[s].pc, t.pc} \cap {"none", "ready"} = {} /\ t.dying = task[s].dying
      /\ t.pc \in {"fetch", "crawl"} => t.seen = {}
      /\ t.pc = "fetch" => t.limited = FALSE
  BY <1>1, <1>2, OfSession DEF Sound, Beginning, Tasks, FetchGiveUp
<1> QED BY <1>1, <1>3, <1>4, <1>5, <1>6, WorksOn DEF FetchGiveUp

\* ... or it fails.
LEMMA FetchFailKeepsSessions ==
    ASSUME SessionInv, NEW s \in Sessions, FetchFail(s)
    PROVE  SessionInv'
<1>1. task[s] \in Tasks /\ task[s].page # 0
  BY OfSession DEF Sound, Beginning
<1>2. PICK t : t = [task[s] EXCEPT !.pc = "persist"]
  OBVIOUS
<1>3. t \in Tasks /\ t.page # 0
  BY <1>1, <1>2 DEF Tasks, FetchFail
<1>4. RowsTyped'
  BY RowsStayTyped DEF rows, FetchFail
<1>5. task' = [task EXCEPT ![s] = t]
  BY <1>2 DEF FetchFail
<1>6. /\ {task[s].pc, t.pc} \cap {"none", "ready"} = {} /\ t.dying = task[s].dying
      /\ t.pc \in {"fetch", "crawl"} => t.seen = {}
      /\ t.pc = "fetch" => t.limited = FALSE
  BY <1>1, <1>2, OfSession DEF Sound, Beginning, Tasks, FetchFail
<1> QED BY <1>1, <1>3, <1>4, <1>5, <1>6, WorksOn DEF FetchFail

\* A site that is not a Shopify store is crawled.
LEMMA CrawlKeepsSessions ==
    ASSUME SessionInv, NEW s \in Sessions, NEW found \in SUBSET Listings, Crawl(s, found)
    PROVE  SessionInv'
<1>1. task[s] \in Tasks /\ task[s].page # 0
  BY OfSession DEF Sound, Beginning
<1>2. PICK t : t = [task[s] EXCEPT !.got = found, !.pc = "persist"]
  OBVIOUS
<1>3. t \in Tasks /\ t.page # 0
  BY <1>1, <1>2 DEF Tasks, Crawl
<1>4. RowsTyped'
  BY RowsStayTyped DEF rows, Crawl
<1>5. task' = [task EXCEPT ![s] = t]
  BY <1>2 DEF Crawl
<1>6. /\ {task[s].pc, t.pc} \cap {"none", "ready"} = {} /\ t.dying = task[s].dying
      /\ t.pc \in {"fetch", "crawl"} => t.seen = {}
      /\ t.pc = "fetch" => t.limited = FALSE
  BY <1>1, <1>2, OfSession DEF Sound, Beginning, Tasks, Crawl
<1> QED BY <1>1, <1>3, <1>4, <1>5, <1>6, WorksOn DEF Crawl

\* A listing is written ...
LEMMA PersistKeepsSessions ==
    ASSUME SessionInv, NEW s \in Sessions, NEW l \in Listings, Persist(s, l)
    PROVE  SessionInv'
<1>1. task[s] \in Tasks /\ task[s].page # 0
  BY OfSession DEF Sound, Beginning
<1>2. PICK t : t = [task[s] EXCEPT !.got = @ \ {l}, !.seen = @ \cup {l}]
  OBVIOUS
<1>3. t \in Tasks /\ t.page # 0
  BY <1>1, <1>2 DEF Tasks, Persist
<1>4. RowsTyped'
  BY RowsStayTyped DEF Persist
<1>5. task' = [task EXCEPT ![s] = t]
  BY <1>2 DEF Persist
<1>6. /\ {task[s].pc, t.pc} \cap {"none", "ready"} = {} /\ t.dying = task[s].dying
      /\ t.pc \in {"fetch", "crawl"} => t.seen = {}
      /\ t.pc = "fetch" => t.limited = FALSE
  BY <1>1, <1>2, OfSession DEF Sound, Beginning, Tasks, Persist
<1> QED BY <1>1, <1>3, <1>4, <1>5, <1>6, WorksOn DEF Persist

\* ... or is not.
LEMMA PersistFailKeepsSessions ==
    ASSUME SessionInv, NEW s \in Sessions, NEW l \in Listings, PersistFail(s, l)
    PROVE  SessionInv'
<1>1. task[s] \in Tasks /\ task[s].page # 0
  BY OfSession DEF Sound, Beginning
<1>2. PICK t : t = [task[s] EXCEPT !.got = @ \ {l}]
  OBVIOUS
<1>3. t \in Tasks /\ t.page # 0
  BY <1>1, <1>2 DEF Tasks, PersistFail
<1>4. RowsTyped'
  BY RowsStayTyped DEF rows, PersistFail
<1>5. task' = [task EXCEPT ![s] = t]
  BY <1>2 DEF PersistFail
<1>6. /\ {task[s].pc, t.pc} \cap {"none", "ready"} = {} /\ t.dying = task[s].dying
      /\ t.pc \in {"fetch", "crawl"} => t.seen = {}
      /\ t.pc = "fetch" => t.limited = FALSE
  BY <1>1, <1>2, OfSession DEF Sound, Beginning, Tasks, PersistFail
<1> QED BY <1>1, <1>3, <1>4, <1>5, <1>6, WorksOn DEF PersistFail

\* The Admin API's listings of a status are written ...
LEMMA AdminKeepsSessions ==
    ASSUME SessionInv, NEW s \in Sessions, NEW st \in {"draft", "archived"}, FetchAdmin(s, st)
    PROVE  SessionInv'
<1>1. task[s] \in Tasks /\ task[s].page # 0
  BY OfSession DEF Sound, Beginning
<1>2. PICK t : t = [task[s] EXCEPT !.pc = AfterAdmin(st), !.seen = @ \cup With(st)]
  OBVIOUS
<1>3. t \in Tasks /\ t.page # 0
  BY <1>1, <1>2 DEF Tasks, FetchAdmin, AtAdmin, AfterAdmin, With
<1>4. RowsTyped'
  BY RowsStayTyped DEF FetchAdmin, With
<1>5. task' = [task EXCEPT ![s] = t]
  BY <1>2 DEF FetchAdmin
<1>6. /\ {task[s].pc, t.pc} \cap {"none", "ready"} = {} /\ t.dying = task[s].dying
      /\ t.pc \in {"fetch", "crawl"} => t.seen = {}
      /\ t.pc = "fetch" => t.limited = FALSE
  BY <1>1, <1>2, OfSession DEF Sound, Beginning, Tasks, FetchAdmin, AtAdmin, AfterAdmin
<1> QED BY <1>1, <1>3, <1>4, <1>5, <1>6, WorksOn DEF FetchAdmin

\* ... or are not wanted.
LEMMA SkipAdminKeepsSessions ==
    ASSUME SessionInv, NEW s \in Sessions, NEW st \in {"draft", "archived"}, SkipAdmin(s, st)
    PROVE  SessionInv'
<1>1. task[s] \in Tasks /\ task[s].page # 0
  BY OfSession DEF Sound, Beginning
<1>2. PICK t : t = [task[s] EXCEPT !.pc = AfterAdmin(st)]
  OBVIOUS
<1>3. t \in Tasks /\ t.page # 0
  BY <1>1, <1>2 DEF Tasks, SkipAdmin, AtAdmin, AfterAdmin
<1>4. RowsTyped'
  BY RowsStayTyped DEF rows, SkipAdmin
<1>5. task' = [task EXCEPT ![s] = t]
  BY <1>2 DEF SkipAdmin
<1>6. /\ {task[s].pc, t.pc} \cap {"none", "ready"} = {} /\ t.dying = task[s].dying
      /\ t.pc \in {"fetch", "crawl"} => t.seen = {}
      /\ t.pc = "fetch" => t.limited = FALSE
  BY <1>1, <1>2, OfSession DEF Sound, Beginning, Tasks, SkipAdmin, AtAdmin, AfterAdmin
<1> QED BY <1>1, <1>3, <1>4, <1>5, <1>6, WorksOn DEF SkipAdmin

\* The unseen are archived.
LEMMA ArchiveKeepsSessions ==
    ASSUME SessionInv, NEW s \in Sessions, Archive(s)
    PROVE  SessionInv'
<1>1. task[s] \in Tasks /\ task[s].page # 0
  BY OfSession DEF Sound, Beginning
<1>2. PICK t : t = [task[s] EXCEPT !.pc = "merge"]
  OBVIOUS
<1>3. t \in Tasks /\ t.page # 0
  BY <1>1, <1>2 DEF Tasks, Archive
<1>4. RowsTyped'
  BY DEF SessionInv, TypeOK, RowsTyped, Archive
<1>5. task' = [task EXCEPT ![s] = t]
  BY <1>2 DEF Archive
<1>6. /\ {task[s].pc, t.pc} \cap {"none", "ready"} = {} /\ t.dying = task[s].dying
      /\ t.pc \in {"fetch", "crawl"} => t.seen = {}
      /\ t.pc = "fetch" => t.limited = FALSE
  BY <1>1, <1>2, OfSession DEF Sound, Beginning, Tasks, Archive
<1> QED BY <1>1, <1>3, <1>4, <1>5, <1>6, WorksOn DEF Archive

\* A scan starts: its row, or its cycle's turn.
LEMMA StartKeepsSessions ==
    ASSUME SessionInv, NEW s \in Sessions, StartScan(s)
    PROVE  SessionInv'
<1>1. PICK t : t = [task[s] EXCEPT !.pc = "ready"]
  OBVIOUS
<1>2. PICK x : x = IF s \in CycleSessions THEN sess[s] ELSE "pending"
  OBVIOUS
<1>3. task[s] = NoTask /\ sess[s] = "none" /\ asked[s] = "none"
  BY OfSession DEF StartScan, Alive, Sound, Beginning, Standing, Asked
<1>4. t \in Tasks /\ x \in Statuses
  BY <1>1, <1>2, OfSession DEF Tasks, Statuses
<1>5. /\ task' = [task EXCEPT ![s] = t] /\ sess' = [sess EXCEPT ![s] = x]
      /\ asked' = [asked EXCEPT ![s] = asked[s]] /\ UNCHANGED <<store, rows, env>>
  BY <1>1, <1>2 DEF StartScan, SessionInv, TypeOK
<1>6. Sound(s, t, x, asked[s])
  BY <1>1, <1>2, <1>3 DEF Sound, Beginning, Standing, CleanCancel, NoTask
<1> QED BY <1>4, <1>5, <1>6, OfSession, RowsStayTyped, OneMoves

\* It begins, or finds itself cancelled.
LEMMA BeginKeepsSessions ==
    ASSUME SessionInv, NEW s \in Sessions, Begin(s)
    PROVE  SessionInv'
<1>1. PICK t : /\ task' = [task EXCEPT ![s] = t]
               /\ \/ task[s].dying = TRUE /\ t = NoTask
                  \/ /\ task[s].dying = FALSE
                     /\ \/ t = [task[s] EXCEPT !.pc = "fetch"]
                        \/ t = [task[s] EXCEPT !.pc = "crawl"]
  <2>1. task[s].dying \in BOOLEAN
    BY OfSession DEF Tasks
  <2> QED BY <2>1 DEF Begin
<1>2. /\ t \in Tasks
      /\ task[s].dying = FALSE => t.dying = FALSE /\ t.pc # "none"
  BY <1>1, OfSession DEF Tasks
<1>3. sess' = [sess EXCEPT ![s] = "running"] /\ asked' = [asked EXCEPT ![s] = asked[s]]
  BY DEF Begin, SessionInv, TypeOK
<1>4. Sound(s, t, "running", asked[s])
  <2>1. Beginning(t) /\ t.pc # "ready"
    BY <1>1, OfSession DEF Begin, Sound, Beginning, Tasks
  <2>2. Standing(s, t, "running", asked[s])
    BY <2>1 DEF Standing
  <2>3. CleanCancel(t, "running", asked[s])
    BY <1>2, OfSession DEF Begin, Sound, Standing, CleanCancel
  <2> QED BY <2>1, <2>2, <2>3 DEF Sound
<1>5. "running" \in Statuses /\ asked[s] \in Asked /\ t \in Tasks
  BY <1>2, OfSession DEF Statuses
<1>6. UNCHANGED <<store, rows, env>>
  BY DEF Begin
<1>7. RowsTyped'
  BY <1>6, RowsStayTyped
<1> QED BY <1>1, <1>3, <1>4, <1>5, <1>6, <1>7, OneMoves

\* A scan that is over: its session is closed, and nothing is left of its task.
LEMMA EndKeepsSessions ==
    ASSUME SessionInv, NEW s \in Sessions, NEW x \in {"completed", "failed"},
           task' = [task EXCEPT ![s] = NoTask], sess' = [sess EXCEPT ![s] = x],
           task[s].pc \notin {"none", "ready"}, UNCHANGED <<store, rows, asked, env>>
    PROVE  SessionInv'
<1>1. asked' = [asked EXCEPT ![s] = asked[s]]
  BY DEF SessionInv, TypeOK
<1>2. Sound(s, NoTask, x, asked[s])
  BY OfSession DEF Sound, Beginning, Standing, CleanCancel
<1>3. x \in Statuses /\ asked[s] \in Asked /\ NoTask \in Tasks /\ RowsTyped'
  BY OfSession, RowsStayTyped DEF Statuses
<1> QED BY <1>1, <1>2, <1>3, OneMoves

\* A cancellation reads the session and cancels its task, ...
LEMMA CancelKeepsSessions ==
    ASSUME SessionInv, NEW s \in Sessions, CancelTask(s)
    PROVE  SessionInv'
<1>1. PICK t : /\ task' = [task EXCEPT ![s] = t]
               /\ \/ s \in CycleSessions /\ t = task[s]
                  \/ s \notin CycleSessions /\ t = NoTask
                  \/ /\ s \notin CycleSessions /\ "midway" \in env
                     /\ t = [task[s] EXCEPT !.dying = TRUE] /\ task[s].pc # "none"
  <2>1. CASE s \in CycleSessions /\ UNCHANGED task
    <3>1. task' = [task EXCEPT ![s] = task[s]]
      BY <2>1 DEF SessionInv, TypeOK
    <3> QED BY <2>1, <3>1
  <2>2. CASE s \notin CycleSessions /\ task' = [task EXCEPT ![s] = NoTask]
    BY <2>2
  <2>3. CASE /\ s \notin CycleSessions /\ "midway" \in env /\ WritesStatus(s)
             /\ task' = [task EXCEPT ![s].dying = TRUE]
    <3>1. PICK t : t = [task[s] EXCEPT !.dying = TRUE]
      OBVIOUS
    <3>2. task' = [task EXCEPT ![s] = t]
      BY <2>3, <3>1
    <3>3. task[s].pc # "none"
      BY <2>3 DEF WritesStatus, AtAdmin
    <3> QED BY <2>3, <3>1, <3>2, <3>3
  <2> QED BY <2>1, <2>2, <2>3 DEF CancelTask
<1>2. t \in Tasks
  BY <1>1, OfSession DEF Tasks
<1>3. /\ asked' = [asked EXCEPT ![s] = sess[s]] /\ sess' = [sess EXCEPT ![s] = sess[s]]
      /\ sess[s] \in Asked /\ asked[s] = "none" /\ sess[s] \in {"pending", "running"}
      /\ UNCHANGED <<store, rows, env>>
  BY DEF CancelTask, SessionInv, TypeOK, Asked
<1>4. Sound(s, t, sess[s], sess[s])
  <2>1. CASE s \in CycleSessions /\ t = task[s]
    BY <1>3, <2>1, OfSession DEF Sound, Beginning, Standing, CleanCancel
  <2>2. CASE t = NoTask
    BY <1>3, <2>2, OfSession DEF Sound, Beginning, Standing, CleanCancel
  <2>3. CASE /\ "midway" \in env /\ s \notin CycleSessions
             /\ t = [task[s] EXCEPT !.dying = TRUE] /\ task[s].pc # "none"
    <3>1. /\ t.pc = task[s].pc /\ t.page = task[s].page /\ t.got = task[s].got
          /\ t.seen = task[s].seen /\ t.limited = task[s].limited
      BY <2>3, OfSession DEF Tasks
    <3> QED BY <1>3, <2>3, <3>1, OfSession DEF Sound, Beginning, Standing, CleanCancel
  <2> QED BY <1>1, <2>1, <2>2, <2>3
<1> QED BY <1>1, <1>2, <1>3, <1>4, OfSession, RowsStayTyped, OneMoves

\* ... then marks the session.
LEMMA CancelWriteKeepsSessions ==
    ASSUME SessionInv, NEW s \in Sessions, CancelWrite(s)
    PROVE  SessionInv'
<1>1. PICK x : x = IF asked[s] = "running" THEN "cancelled" ELSE sess[s]
  OBVIOUS
<1>2. /\ x \in Statuses /\ "none" \in Asked
      /\ sess' = [sess EXCEPT ![s] = x] /\ asked' = [asked EXCEPT ![s] = "none"]
      /\ task' = [task EXCEPT ![s] = task[s]] /\ UNCHANGED <<store, rows, env>>
  BY <1>1, OfSession DEF CancelWrite, SessionInv, TypeOK, Statuses, Asked
<1>3. Sound(s, task[s], x, "none")
  BY <1>1, OfSession DEF CancelWrite, Sound, Beginning, Standing, CleanCancel, Asked
<1> QED BY <1>2, <1>3, OfSession, RowsStayTyped, OneMoves

\* A new process: no task is left, and no session that is under way.
LEMMA RestartKeepsSessions ==
    ASSUME SessionInv, Restart
    PROVE  SessionInv'
<1>1. TypeOK'
  <2>1. task' \in [Sessions -> Tasks]
    BY SourceScanAssumption DEF Restart, NoTask, Tasks
  <2> QED BY <2>1 DEF Restart, SessionInv, TypeOK, Tasks, store, rows
<1>2. ASSUME NEW s \in Sessions PROVE Sound(s, task[s], sess[s], asked[s])'
  <2>1. task'[s] = NoTask /\ asked'[s] = "none" /\ sess'[s] \notin {"pending", "running"}
    BY DEF Restart, SessionInv, TypeOK
  <2> QED BY <2>1, OfSession DEF Sound, Beginning, Standing, CleanCancel
<1> QED BY <1>1, <1>2 DEF SessionInv

\* The store changes, or nothing does.
LEMMA StoreKeepsSessions ==
    ASSUME SessionInv,
           \/ \E l \in Listings : Publish(l)
           \/ \E l \in Listings, new \in {"none", "draft", "archived"} : Withdraw(l, new)
           \/ UNCHANGED vars
    PROVE  SessionInv'
<1>1. UNCHANGED <<rows, sess, task, asked, env>>
  BY DEF Publish, Withdraw, vars
<1>2. TypeOK'
  <2>1. ASSUME NEW l \in Listings, Publish(l) PROVE TypeOK'
    BY <2>1, SourceScanAssumption DEF Publish, MayChange, SessionInv, TypeOK, rows
  <2>2. ASSUME NEW l \in Listings, NEW new \in {"none", "draft", "archived"}, Withdraw(l, new)
        PROVE  TypeOK'
    BY <2>2, SourceScanAssumption DEF Withdraw, MayChange, SessionInv, TypeOK, rows
  <2>3. CASE UNCHANGED vars
    BY <2>3 DEF SessionInv, TypeOK, vars, store, rows
  <2> QED BY <2>1, <2>2, <2>3
<1>3. ASSUME NEW s \in Sessions PROVE Sound(s, task[s], sess[s], asked[s])'
  BY <1>1, OfSession DEF Sound, Beginning, Standing, CleanCancel
<1> QED BY <1>2, <1>3 DEF SessionInv

LEMMA StepKeepsSessions ==
    ASSUME SessionInv, NEW s \in Sessions, Step(s)
    PROVE  SessionInv'
<1>1. CASE Begin(s)
  BY <1>1, BeginKeepsSessions
<1>2. CASE CrawlFail(s)
  BY <1>2, EndKeepsSessions DEF CrawlFail
<1>3. CASE Complete(s)
  BY <1>3, EndKeepsSessions DEF Complete
<1>4. ASSUME NEW st \in {"draft", "archived"}, FetchAdminFail(s, st) PROVE SessionInv'
  BY <1>4, EndKeepsSessions DEF FetchAdminFail, AtAdmin
<1>5. CASE Work(s)
  <2>1. CASE FetchPage(s) \/ Fetch429(s) \/ FetchGiveUp(s) \/ FetchFail(s) \/ Archive(s)
    BY <2>1, FetchPageKeepsSessions, Fetch429KeepsSessions, GiveUpKeepsSessions,
       FetchFailKeepsSessions, ArchiveKeepsSessions
  <2>2. ASSUME NEW found \in SUBSET Listings, Crawl(s, found) PROVE SessionInv'
    BY <2>2, CrawlKeepsSessions
  <2>3. ASSUME NEW l \in Listings, Persist(s, l) \/ PersistFail(s, l) PROVE SessionInv'
    BY <2>3, PersistKeepsSessions, PersistFailKeepsSessions
  <2>4. ASSUME NEW st \in {"draft", "archived"}, FetchAdmin(s, st) \/ SkipAdmin(s, st)
        PROVE  SessionInv'
    BY <2>4, AdminKeepsSessions, SkipAdminKeepsSessions
  <2> QED BY <1>5, <2>1, <2>2, <2>3, <2>4 DEF Work
<1> QED BY <1>1, <1>2, <1>3, <1>4, <1>5 DEF Step

LEMMA NextKeepsSessions ==
    ASSUME SessionInv, [Next]_vars
    PROVE  SessionInv'
<1>1. ASSUME NEW s \in Sessions, StartScan(s) \/ Step(s) \/ CancelTask(s) \/ CancelWrite(s)
      PROVE  SessionInv'
  BY <1>1, StartKeepsSessions, StepKeepsSessions, CancelKeepsSessions, CancelWriteKeepsSessions
<1> QED BY <1>1, RestartKeepsSessions, StoreKeepsSessions DEF Next

LEMMA SessionInvariance == Spec => []SessionInv
BY InitSessionInv, NextKeepsSessions, PTL DEF Spec

\* app.py:289: only a session of an earlier process can be an orphan: one that
\* says "running" has a task behind it or a cancellation ahead of it.
THEOREM ScansAreSound == Spec => []ScanInv
<1>1. SessionInv => ScanInv
  BY DEF SessionInv, Sound, CleanCancel, ScanInv, RunningHasTask, Alive
<1> QED BY <1>1, SessionInvariance, PTL

\* A session that has ended is never revived, by a late task or a late
\* cancellation.
THEOREM EndIsFinal == Spec => EndedStaysEnded
<1>1. ASSUME SessionInv, [Next]_vars, NEW s \in Sessions, sess[s] \in Ended
      PROVE  sess'[s] \in Ended
  <2>1. ASSUME NEW r \in Sessions, StartScan(r) \/ CancelTask(r) \/ CancelWrite(r)
        PROVE  sess'[s] \in Ended
    BY <1>1, <2>1 DEF SessionInv, TypeOK, StartScan, CancelTask, CancelWrite, Ended
  <2>2. ASSUME NEW r \in Sessions, Step(r) PROVE sess'[s] \in Ended
    <3>1. CASE Begin(r)
      BY <1>1, <3>1, OfSession DEF SessionInv, TypeOK, Begin, Sound, Standing, Ended
    <3>2. CASE Work(r)
      BY <1>1, <3>2 DEF Work, FetchPage, Fetch429, FetchGiveUp, FetchFail, Crawl, Persist,
         PersistFail, FetchAdmin, SkipAdmin, Archive
    <3>3. CASE Complete(r) \/ CrawlFail(r) \/ \E st \in {"draft", "archived"} : FetchAdminFail(r, st)
      BY <1>1, <3>3 DEF SessionInv, TypeOK, Complete, CrawlFail, FetchAdminFail, Ended
    <3> QED BY <2>2, <3>1, <3>2, <3>3 DEF Step
  <2>3. CASE Restart \/ UNCHANGED vars
    BY <1>1, <2>3 DEF SessionInv, TypeOK, Restart, vars, Ended
  <2>4. ASSUME NEW l \in Listings,
               Publish(l) \/ \E new \in {"none", "draft", "archived"} : Withdraw(l, new)
        PROVE  sess'[s] \in Ended
    BY <1>1, <2>4 DEF Publish, Withdraw
  <2> QED BY <1>1, <2>1, <2>2, <2>3, <2>4 DEF Next
<1>2. SessionInv /\ [Next]_vars => [\A s \in Sessions : sess[s] \in Ended => sess'[s] \in Ended]_vars
  BY <1>1
<1> QED BY <1>2, SessionInvariance, PTL DEF Spec, EndedStaysEnded

-----------------------------------------------------------------------------
(* The store's pages *)

\* The catalogue, and what is ahead of its first place.
LEMMA Places ==
    /\ DOMAIN Catalogue = 1..Len(Catalogue) /\ Len(Catalogue) \in Nat
    /\ Ahead(1) = 0
    /\ \A i \in DOMAIN Catalogue : Catalogue[i] \in Listings /\ Ahead(i) \in Nat
<1>1. DOMAIN Catalogue = 1..Len(Catalogue) /\ Len(Catalogue) \in Nat
  BY SourceScanAssumption
<1>2. Ahead(1) = 0
  <2>1. {j \in 1..(1 - 1) : Catalogue[j] \in shown} = {}
    OBVIOUS
  <2> QED BY <2>1, FS_EmptySet DEF Ahead
<1>3. ASSUME NEW i \in DOMAIN Catalogue PROVE Ahead(i) \in Nat
  <2>1. PICK S : S = {j \in 1..(i - 1) : Catalogue[j] \in shown}
    OBVIOUS
  <2>2. S \in SUBSET (1..(i - 1)) /\ i - 1 \in Int
    BY <1>1, <2>1
  <2>3. IsFiniteSet(1..(i - 1))
    BY <2>2, FS_Interval
  <2>4. IsFiniteSet(S)
    BY <2>2, <2>3, FS_Subset
  <2> QED BY <2>1, <2>4, FS_CardinalityType DEF Ahead
<1> QED BY <1>1, <1>2, <1>3 DEF Listings

\* A published listing is ahead of those that follow it.
LEMMA AheadGrows ==
    ASSUME NEW i \in DOMAIN Catalogue
    PROVE  Ahead(i + 1) = IF Catalogue[i] \in shown THEN Ahead(i) + 1 ELSE Ahead(i)
<1>1. PICK S : S = {j \in 1..(i - 1) : Catalogue[j] \in shown}
  OBVIOUS
<1>2. i \in Nat \ {0} /\ (i + 1) - 1 = i
  BY Places
<1>3. /\ S \in SUBSET (1..(i - 1)) /\ i \notin S
      /\ {j \in 1..i : Catalogue[j] \in shown} =
            IF Catalogue[i] \in shown THEN S \cup {i} ELSE S
  BY <1>1, <1>2
<1>4. IsFiniteSet(1..(i - 1))
  BY <1>2, FS_Interval
<1>5. IsFiniteSet(S)
  BY <1>3, <1>4, FS_Subset
<1>6. Cardinality(S \cup {i}) = Cardinality(S) + 1
  BY <1>3, <1>5, FS_AddElement
<1> QED BY <1>1, <1>2, <1>3, <1>6 DEF Ahead

\* Every number of listings up to those ahead of a published one are ahead of
\* some published one.
LEMMA EveryRank ==
    ASSUME NEW i \in DOMAIN Catalogue, Catalogue[i] \in shown, NEW k \in Nat, k <= Ahead(i)
    PROVE  \E j \in DOMAIN Catalogue : Catalogue[j] \in shown /\ Ahead(j) = k
<1>1. CASE k = Ahead(i)
  BY <1>1
<1>2. CASE k < Ahead(i)
  <2>1. PICK T : T = {j \in DOMAIN Catalogue : k < Ahead(j)}
    OBVIOUS
  <2>2. T \subseteq Nat /\ i \in T
    BY <1>2, <2>1, Places
  <2>3. PICK m \in T : \A j \in T : <<j, m>> \notin OpToRel(<, Nat)
    BY <2>2, NatLessThanWellFounded, WFMin
  <2>4. m \in DOMAIN Catalogue /\ m \in Nat /\ k < Ahead(m) /\ Ahead(m) \in Nat
    BY <2>1, <2>2, <2>3, Places
  <2>5. m # 1
    BY <2>4, Places
  <2>6. m - 1 \in DOMAIN Catalogue /\ (m - 1) + 1 = m
    BY <2>4, <2>5, Places
  <2>7. m - 1 \notin T
    <3>1. SUFFICES ASSUME m - 1 \in T PROVE FALSE
      OBVIOUS
    <3>2. <<m - 1, m>> \in OpToRel(<, Nat)
      BY <2>2, <2>4, <3>1 DEF OpToRel
    <3> QED BY <2>3, <3>1, <3>2
  <2>8. Ahead(m - 1) \in Nat /\ Ahead(m - 1) <= k
    BY <2>1, <2>6, <2>7, Places
  <2>9. Ahead(m) = IF Catalogue[m - 1] \in shown THEN Ahead(m - 1) + 1 ELSE Ahead(m - 1)
    BY <2>6, AheadGrows
  <2> QED BY <2>4, <2>6, <2>8, <2>9
<1> QED BY <1>1, <1>2, Places

\* The numbers of the listings on a page.
LEMMA PageBounds ==
    ASSUME NEW n \in Nat \ {0}
    PROVE  /\ (n - 1) * PageSize \in Nat /\ n * PageSize = (n - 1) * PageSize + PageSize
           /\ n * PageSize \in Nat
BY SourceScanAssumption

\* A page that is not full is the last one.
LEMMA ShortIsLast ==
    ASSUME NEW n \in Nat \ {0}, Cardinality(Page(n)) < PageSize,
           NEW i \in DOMAIN Catalogue, Catalogue[i] \in shown
    PROVE  Ahead(i) < n * PageSize
<1> SUFFICES ASSUME n * PageSize <= Ahead(i) PROVE FALSE
  BY PageBounds, Places
<1>1. PICK lo \in Nat : lo = (n - 1) * PageSize /\ n * PageSize = lo + PageSize
  BY PageBounds
<1>2. PageSize \in Nat \ {0}
  BY SourceScanAssumption
<1>3. \A k \in lo..(lo + PageSize - 1) :
         \E j \in DOMAIN Catalogue : Catalogue[j] \in shown /\ Ahead(j) = k
  <2>1. ASSUME NEW k \in lo..(lo + PageSize - 1) PROVE k \in Nat /\ k <= Ahead(i)
    BY <1>1, <1>2, <2>1, Places
  <2> QED BY <2>1, EveryRank
<1>4. PICK f : f = [k \in lo..(lo + PageSize - 1) |->
                     CHOOSE j \in DOMAIN Catalogue : Catalogue[j] \in shown /\ Ahead(j) = k]
  OBVIOUS
<1>5. \A k \in lo..(lo + PageSize - 1) :
         f[k] \in DOMAIN Catalogue /\ Catalogue[f[k]] \in shown /\ Ahead(f[k]) = k
  BY <1>3, <1>4
<1>6. PICK g : g = [k \in lo..(lo + PageSize - 1) |-> Catalogue[f[k]]]
  OBVIOUS
<1>7. g \in [lo..(lo + PageSize - 1) -> Page(n)]
  <2>1. ASSUME NEW k \in lo..(lo + PageSize - 1) PROVE f[k] \in OnPage(n)
    BY <1>1, <1>2, <1>5 DEF OnPage
  <2> QED BY <1>6, <2>1 DEF Page
<1>8. \A k, m \in lo..(lo + PageSize - 1) : g[k] = g[m] => k = m
  BY <1>5, <1>6, SourceScanAssumption
<1>9. g \in Injection(lo..(lo + PageSize - 1), Page(n))
  BY <1>7, <1>8 DEF Injection, IsInjective
<1>10. IsFiniteSet(Page(n))
  <2>1. IsFiniteSet(1..Len(Catalogue))
    BY Places, FS_Interval
  <2>2. IsFiniteSet(DOMAIN Catalogue)
    BY <2>1, Places
  <2>3. OnPage(n) \in SUBSET DOMAIN Catalogue
    BY DEF OnPage
  <2>4. IsFiniteSet(OnPage(n))
    BY <2>2, <2>3, FS_Subset
  <2>5. [j \in OnPage(n) |-> Catalogue[j]] \in Surjection(OnPage(n), Page(n))
    BY DEF Surjection, Page
  <2> QED BY <2>4, <2>5, FS_Surjection
<1>11. Cardinality(lo..(lo + PageSize - 1)) <= Cardinality(Page(n))
  BY <1>9, <1>10, FS_Injection
<1>12. Cardinality(lo..(lo + PageSize - 1)) = PageSize
  <2>1. lo + PageSize - 1 \in Int /\ ~(lo > lo + PageSize - 1) /\ (lo + PageSize - 1) - lo + 1 = PageSize
    BY <1>2
  <2> QED BY <2>1, FS_Interval
<1> QED BY <1>2, <1>10, <1>11, <1>12, FS_CardinalityType

-----------------------------------------------------------------------------
(* What a scan has seen *)

\* One scan at a time, where scans do not overlap.
OneAtATime == "overlap" \notin env =>
    \A s, r \in Sessions : Alive(s) /\ Alive(r) => s = r

\* The stamp of a scan with task t is on what it has seen, and on nothing before
\* it begins.
Stamps(s, t) ==
    /\ sess[s] = "none" \/ t.pc = "ready" => \A l \in Listings : stamp[l] # s
    /\ "overlap" \notin env /\ t.pc # "none" =>
          \A l \in Listings : stamp[l] = s <=> l \in t.seen

\* How far the scan with task t has got in mirroring the store: what it has to
\* write is on the store, what it has seen says what the store says, the pages
\* before its page are fetched, and then all is to be written, or seen.
Mirror(t) ==
    /\ t.pc # "crawl"
    /\ t.got \subseteq shown
    /\ \A l \in t.seen : status[l] = shop[l]
    /\ t.pc = "fetch" => \A i \in DOMAIN Catalogue :
          Catalogue[i] \in shown /\ Ahead(i) < (t.page - 1) * PageSize
          => Catalogue[i] \in t.got
    /\ t.limited = FALSE =>
          /\ t.pc = "persist" => shown \subseteq t.got \cup t.seen
          /\ t.pc \in {"admin", "archive"} => shown \subseteq t.seen
          /\ t.pc = "merge" => \A l \in Listings : status[l] = "active" <=> l \in shown

MirrorInv ==
    /\ OneAtATime
    /\ \A s \in Sessions : Stamps(s, task[s])
    /\ Undisturbed => \A s \in Sessions : Alive(s) => Mirror(task[s])

\* The store shows the same as long as it is not changed.
LEMMA ShopStands ==
    ASSUME UNCHANGED shop
    PROVE  shown' = shown /\ \A i \in DOMAIN Catalogue : Ahead(i)' = Ahead(i)
BY DEF shown, With, Ahead

LEMMA InitMirrorInv ==
    ASSUME Init
    PROVE  MirrorInv
BY SourceScanAssumption DEF Init, MirrorInv, OneAtATime, Stamps, Alive, NoTask

\* Tasks go on unchanged, or end: nothing else moves.
LEMMA RestKeepsMirror ==
    ASSUME MirrorInv, SessionInv, UNCHANGED <<store, rows, env>>,
           task' \in [Sessions -> Tasks],
           \A s \in Sessions :
              \/ task'[s].pc = "none"
              \/ /\ task'[s].pc = task[s].pc /\ task'[s].page = task[s].page
                 /\ task'[s].got = task[s].got /\ task'[s].seen = task[s].seen
                 /\ task'[s].limited = task[s].limited,
           \A s \in Sessions : sess'[s] = "none" => sess[s] = "none"
    PROVE  MirrorInv'
<1>1. UNCHANGED <<shop, status, stamp, env, shown>> /\ \A i \in DOMAIN Catalogue : Ahead(i)' = Ahead(i)
  BY ShopStands DEF store, rows
<1>2. OneAtATime'
  BY <1>1 DEF MirrorInv, OneAtATime, Alive
<1>3. ASSUME NEW s \in Sessions PROVE Stamps(s, task[s])'
  BY <1>1 DEF MirrorInv, Stamps
<1>4. ASSUME NEW s \in Sessions, Undisturbed', Alive(s)' PROVE Mirror(task[s])'
  <2>1. Undisturbed /\ Alive(s) /\ Mirror(task[s])
    BY <1>1, <1>4 DEF MirrorInv, Undisturbed, Alive
  <2> QED BY <1>1, <1>4, <2>1 DEF Mirror, Alive
<1> QED BY <1>2, <1>3, <1>4 DEF MirrorInv

\* The scan s works on, its task becoming t, and stamps some listings.
LEMMA WorkKeepsMirror ==
    ASSUME MirrorInv, SessionInv, NEW s \in Sessions, NEW t \in Tasks, NEW ls \in SUBSET Listings,
           task' = [task EXCEPT ![s] = t], UNCHANGED <<store, env>>,
           task[s].pc # "none", t.pc \notin {"none", "ready"},
           \A r \in Sessions : sess'[r] = "none" => sess[r] = "none", sess'[s] # "none",
           stamp' = [l \in Listings |-> IF l \in ls THEN s ELSE stamp[l]],
           t.seen = task[s].seen \cup ls,
           Undisturbed => Mirror(t)'
    PROVE  MirrorInv'
<1>1. task'[s] = t /\ \A r \in Sessions \ {s} : task'[r] = task[r]
  BY DEF SessionInv, TypeOK
<1>2. OneAtATime'
  BY <1>1 DEF MirrorInv, OneAtATime, Alive
<1>3. ASSUME NEW r \in Sessions PROVE Stamps(r, task[r])'
  <2>1. CASE r = s
    BY <1>1, <2>1 DEF MirrorInv, Stamps, SessionInv, TypeOK
  <2>2. CASE r # s
    <3>1. "overlap" \notin env => task[r].pc = "none"
      BY <2>2 DEF MirrorInv, OneAtATime, Alive
    <3> QED BY <1>1, <2>2, <3>1 DEF MirrorInv, Stamps
  <2> QED BY <2>1, <2>2
<1>4. ASSUME NEW r \in Sessions, Undisturbed', Alive(r)' PROVE Mirror(task[r])'
  <2>1. Undisturbed /\ "overlap" \notin env
    BY <1>4 DEF Undisturbed
  <2>2. r = s
    BY <1>1, <1>4, <2>1 DEF MirrorInv, OneAtATime, Alive
  <2>3. Mirror(t)'
    BY <2>1
  <2> QED BY <1>1, <2>2, <2>3 DEF Mirror
<1> QED BY <1>2, <1>3, <1>4 DEF MirrorInv

\* A page arrives: it has the listings that the pages before it have ahead of them.
LEMMA FetchPageKeepsMirror ==
    ASSUME MirrorInv, SessionInv, SessionInv', NEW s \in Sessions, FetchPage(s)
    PROVE  MirrorInv'
<1>1. task[s] \in Tasks /\ sess[s] # "none" /\ Sound(s, task[s], sess[s], asked[s])
  BY OfSession DEF Sound, Standing, FetchPage
<1>2. PICK t : t = [task[s] EXCEPT !.got = @ \cup Page(task[s].page), !.attempt = 0,
               !.page = IF Cardinality(Page(task[s].page)) < PageSize THEN @ ELSE @ + 1,
               !.pc = IF Cardinality(Page(task[s].page)) < PageSize THEN "persist" ELSE "fetch"]
  OBVIOUS
<1>4. task' = [task EXCEPT ![s] = t] /\ UNCHANGED <<store, env, sess>>
  BY <1>2 DEF FetchPage
<1>3. t \in Tasks /\ t.pc \notin {"none", "ready"}
  <2>1. t = task'[s]
    BY <1>4 DEF SessionInv, TypeOK
  <2>2. t \in Tasks
    BY <2>1 DEF SessionInv, TypeOK, Tasks
  <2> QED BY <1>1, <1>2, <2>2 DEF Tasks, FetchPage
<1>5. /\ stamp' = [k \in Listings |-> IF k \in {} THEN s ELSE stamp[k]]
      /\ t.seen = task[s].seen \cup {} /\ {} \in SUBSET Listings
  BY <1>1, <1>2 DEF SessionInv, TypeOK, Tasks, rows, Stamped, With, FetchPage
<1>6. Undisturbed => Mirror(t)'
  <2> SUFFICES ASSUME Undisturbed PROVE Mirror(t)'
    OBVIOUS
  <2>1. task[s].pc # "none" /\ Mirror(task[s])
    BY DEF MirrorInv, Alive, FetchPage
  <2>2. UNCHANGED <<shop, shown>> /\ \A i \in DOMAIN Catalogue : Ahead(i)' = Ahead(i)
    BY <1>4, ShopStands DEF store
  <2>3. task[s].page \in Nat \ {0} /\ task[s].got \in SUBSET Listings /\ task[s].seen = {}
    BY <1>1 DEF Tasks, Sound, Beginning, FetchPage
  <2>4. /\ t.got = task[s].got \cup Page(task[s].page) /\ t.seen = {}
        /\ t.limited = task[s].limited
    BY <1>1, <1>2, <2>3 DEF Tasks
  <2>5. /\ t.got \subseteq shown
        /\ \A i \in DOMAIN Catalogue :
              Catalogue[i] \in shown /\ Ahead(i) < task[s].page * PageSize
              => Catalogue[i] \in t.got
    <3>1. Page(task[s].page) \subseteq shown
      BY DEF Page, OnPage
    <3>2. ASSUME NEW i \in DOMAIN Catalogue, Catalogue[i] \in shown,
                 Ahead(i) < task[s].page * PageSize
          PROVE  Catalogue[i] \in t.got
      <4>1. CASE Ahead(i) < (task[s].page - 1) * PageSize
        BY <2>1, <2>4, <3>2, <4>1 DEF Mirror, FetchPage
      <4>2. CASE (task[s].page - 1) * PageSize <= Ahead(i)
        BY <2>4, <3>2, <4>2 DEF Page, OnPage
      <4>3. (task[s].page - 1) * PageSize \in Nat /\ Ahead(i) \in Nat
        BY <2>3, PageBounds, Places
      <4> QED BY <4>1, <4>2, <4>3
    <3> QED BY <2>1, <2>4, <3>1, <3>2 DEF Mirror
  <2>6. CASE Cardinality(Page(task[s].page)) < PageSize
    <3>1. t.pc = "persist"
      BY <1>1, <1>2, <2>6 DEF Tasks
    <3>2. ASSUME NEW l \in shown PROVE l \in t.got
      <4>1. PICK i \in DOMAIN Catalogue : Catalogue[i] = l
        BY DEF shown, With, Listings
      <4>2. Ahead(i) < task[s].page * PageSize
        BY <2>3, <2>6, <4>1, ShortIsLast
      <4> QED BY <2>5, <4>1, <4>2
    <3> QED BY <2>2, <2>4, <2>5, <3>1, <3>2 DEF Mirror
  <2>7. CASE ~(Cardinality(Page(task[s].page)) < PageSize)
    <3>1. t.pc = "fetch" /\ t.page = task[s].page + 1 /\ t.page - 1 = task[s].page
      BY <1>1, <1>2, <2>3, <2>7 DEF Tasks
    <3> QED BY <2>2, <2>4, <2>5, <3>1 DEF Mirror
  <2> QED BY <2>6, <2>7
<1> QED BY <1>1, <1>3, <1>4, <1>5, <1>6, WorkKeepsMirror DEF FetchPage

\* The store asks to wait, ...
LEMMA Fetch429KeepsMirror ==
    ASSUME MirrorInv, SessionInv, SessionInv', NEW s \in Sessions, Fetch429(s)
    PROVE  MirrorInv'
<1>1. task[s] \in Tasks /\ sess[s] # "none" /\ Sound(s, task[s], sess[s], asked[s])
  BY OfSession DEF Sound, Standing, Fetch429
<1>2. PICK t : t = [task[s] EXCEPT !.attempt = @ + 1]
  OBVIOUS
<1>4. task' = [task EXCEPT ![s] = t] /\ UNCHANGED <<store, env, sess>>
  BY <1>2 DEF Fetch429
<1>3. t \in Tasks /\ t.pc \notin {"none", "ready"}
  <2>1. t = task'[s]
    BY <1>4 DEF SessionInv, TypeOK
  <2>2. t \in Tasks
    BY <2>1 DEF SessionInv, TypeOK, Tasks
  <2> QED BY <1>1, <1>2, <2>2 DEF Tasks, Fetch429
<1>5. /\ stamp' = [k \in Listings |-> IF k \in {} THEN s ELSE stamp[k]]
      /\ t.seen = task[s].seen \cup {} /\ {} \in SUBSET Listings
  BY <1>1, <1>2 DEF SessionInv, TypeOK, Tasks, rows, Stamped, With, Fetch429
<1>6. Undisturbed => Mirror(t)'
  <2> SUFFICES ASSUME Undisturbed PROVE Mirror(t)'
    OBVIOUS
  <2>1. task[s].pc # "none" /\ Mirror(task[s])
    BY DEF MirrorInv, Alive, Fetch429
  <2>2. UNCHANGED <<shop, shown>> /\ \A i \in DOMAIN Catalogue : Ahead(i)' = Ahead(i)
    BY <1>4, ShopStands DEF store
  <2> QED BY <1>1, <1>2, <2>1, <2>2 DEF Mirror, Tasks, rows, Sound, Beginning, Fetch429
<1> QED BY <1>1, <1>3, <1>4, <1>5, <1>6, WorkKeepsMirror DEF Fetch429

\* ... is asked no more, ...
LEMMA GiveUpKeepsMirror ==
    ASSUME MirrorInv, SessionInv, SessionInv', NEW s \in Sessions, FetchGiveUp(s)
    PROVE  MirrorInv'
<1>1. task[s] \in Tasks /\ sess[s] # "none" /\ Sound(s, task[s], sess[s], asked[s])
  BY OfSession DEF Sound, Standing, FetchGiveUp
<1>2. PICK t : t = [task[s] EXCEPT !.limited = TRUE, !.pc = "persist"]
  OBVIOUS
<1>4. task' = [task EXCEPT ![s] = t] /\ UNCHANGED <<store, env, sess>>
  BY <1>2 DEF FetchGiveUp
<1>3. t \in Tasks /\ t.pc \notin {"none", "ready"}
  <2>1. t = task'[s]
    BY <1>4 DEF SessionInv, TypeOK
  <2>2. t \in Tasks
    BY <2>1 DEF SessionInv, TypeOK, Tasks
  <2> QED BY <1>1, <1>2, <2>2 DEF Tasks, FetchGiveUp
<1>5. /\ stamp' = [k \in Listings |-> IF k \in {} THEN s ELSE stamp[k]]
      /\ t.seen = task[s].seen \cup {} /\ {} \in SUBSET Listings
  BY <1>1, <1>2 DEF SessionInv, TypeOK, Tasks, rows, Stamped, With, FetchGiveUp
<1>6. Undisturbed => Mirror(t)'
  <2> SUFFICES ASSUME Undisturbed PROVE Mirror(t)'
    OBVIOUS
  <2>1. task[s].pc # "none" /\ Mirror(task[s])
    BY DEF MirrorInv, Alive, FetchGiveUp
  <2>2. UNCHANGED <<shop, shown>> /\ \A i \in DOMAIN Catalogue : Ahead(i)' = Ahead(i)
    BY <1>4, ShopStands DEF store
  <2> QED BY <1>1, <1>2, <2>1, <2>2 DEF Mirror, Tasks, rows, Sound, Beginning, FetchGiveUp
<1> QED BY <1>1, <1>3, <1>4, <1>5, <1>6, WorkKeepsMirror DEF FetchGiveUp

\* ... or does not answer.
LEMMA FetchFailKeepsMirror ==
    ASSUME MirrorInv, SessionInv, SessionInv', NEW s \in Sessions, FetchFail(s)
    PROVE  MirrorInv'
<1>1. task[s] \in Tasks /\ sess[s] # "none" /\ Sound(s, task[s], sess[s], asked[s])
  BY OfSession DEF Sound, Standing, FetchFail
<1>2. PICK t : t = [task[s] EXCEPT !.pc = "persist"]
  OBVIOUS
<1>4. task' = [task EXCEPT ![s] = t] /\ UNCHANGED <<store, env, sess>>
  BY <1>2 DEF FetchFail
<1>3. t \in Tasks /\ t.pc \notin {"none", "ready"}
  <2>1. t = task'[s]
    BY <1>4 DEF SessionInv, TypeOK
  <2>2. t \in Tasks
    BY <2>1 DEF SessionInv, TypeOK, Tasks
  <2> QED BY <1>1, <1>2, <2>2 DEF Tasks, FetchFail
<1>5. /\ stamp' = [k \in Listings |-> IF k \in {} THEN s ELSE stamp[k]]
      /\ t.seen = task[s].seen \cup {} /\ {} \in SUBSET Listings
  BY <1>1, <1>2 DEF SessionInv, TypeOK, Tasks, rows, Stamped, With, FetchFail
<1>6. Undisturbed => Mirror(t)'
  <2> SUFFICES ASSUME Undisturbed PROVE Mirror(t)'
    OBVIOUS
  <2>1. task[s].pc # "none" /\ Mirror(task[s])
    BY DEF MirrorInv, Alive, FetchFail
  <2>2. UNCHANGED <<shop, shown>> /\ \A i \in DOMAIN Catalogue : Ahead(i)' = Ahead(i)
    BY <1>4, ShopStands DEF store
  <2> QED BY DEF FetchFail, Undisturbed
<1> QED BY <1>1, <1>3, <1>4, <1>5, <1>6, WorkKeepsMirror DEF FetchFail

\* Another site is crawled.
LEMMA CrawlKeepsMirror ==
    ASSUME MirrorInv, SessionInv, SessionInv', NEW s \in Sessions, NEW found \in SUBSET Listings, Crawl(s, found)
    PROVE  MirrorInv'
<1>1. task[s] \in Tasks /\ sess[s] # "none" /\ Sound(s, task[s], sess[s], asked[s])
  BY OfSession DEF Sound, Standing, Crawl
<1>2. PICK t : t = [task[s] EXCEPT !.got = found, !.pc = "persist"]
  OBVIOUS
<1>4. task' = [task EXCEPT ![s] = t] /\ UNCHANGED <<store, env, sess>>
  BY <1>2 DEF Crawl
<1>3. t \in Tasks /\ t.pc \notin {"none", "ready"}
  <2>1. t = task'[s]
    BY <1>4 DEF SessionInv, TypeOK
  <2>2. t \in Tasks
    BY <2>1 DEF SessionInv, TypeOK, Tasks
  <2> QED BY <1>1, <1>2, <2>2 DEF Tasks, Crawl
<1>5. /\ stamp' = [k \in Listings |-> IF k \in {} THEN s ELSE stamp[k]]
      /\ t.seen = task[s].seen \cup {} /\ {} \in SUBSET Listings
  BY <1>1, <1>2 DEF SessionInv, TypeOK, Tasks, rows, Stamped, With, Crawl
<1>6. Undisturbed => Mirror(t)'
  <2> SUFFICES ASSUME Undisturbed PROVE Mirror(t)'
    OBVIOUS
  <2>1. task[s].pc # "none" /\ Mirror(task[s])
    BY DEF MirrorInv, Alive, Crawl
  <2>2. UNCHANGED <<shop, shown>> /\ \A i \in DOMAIN Catalogue : Ahead(i)' = Ahead(i)
    BY <1>4, ShopStands DEF store
  <2> QED BY <2>1 DEF Crawl, Mirror
<1> QED BY <1>1, <1>3, <1>4, <1>5, <1>6, WorkKeepsMirror DEF Crawl

\* A listing is written: it is on the store ...
LEMMA PersistKeepsMirror ==
    ASSUME MirrorInv, SessionInv, SessionInv', NEW s \in Sessions, NEW l \in Listings, Persist(s, l)
    PROVE  MirrorInv'
<1>1. task[s] \in Tasks /\ sess[s] # "none" /\ Sound(s, task[s], sess[s], asked[s])
  BY OfSession DEF Sound, Standing, Persist
<1>2. PICK t : t = [task[s] EXCEPT !.got = @ \ {l}, !.seen = @ \cup {l}]
  OBVIOUS
<1>4. task' = [task EXCEPT ![s] = t] /\ UNCHANGED <<store, env, sess>>
  BY <1>2 DEF Persist
<1>3. t \in Tasks /\ t.pc \notin {"none", "ready"}
  <2>1. t = task'[s]
    BY <1>4 DEF SessionInv, TypeOK
  <2>2. t \in Tasks
    BY <2>1 DEF SessionInv, TypeOK, Tasks
  <2> QED BY <1>1, <1>2, <2>2 DEF Tasks, Persist
<1>5. /\ stamp' = [k \in Listings |-> IF k \in {l} THEN s ELSE stamp[k]]
      /\ t.seen = task[s].seen \cup {l} /\ {l} \in SUBSET Listings
  BY <1>1, <1>2 DEF SessionInv, TypeOK, Tasks, rows, Stamped, With, Persist
<1>6. Undisturbed => Mirror(t)'
  <2> SUFFICES ASSUME Undisturbed PROVE Mirror(t)'
    OBVIOUS
  <2>1. task[s].pc # "none" /\ Mirror(task[s])
    BY DEF MirrorInv, Alive, Persist
  <2>2. UNCHANGED <<shop, shown>> /\ \A i \in DOMAIN Catalogue : Ahead(i)' = Ahead(i)
    BY <1>4, ShopStands DEF store
  <2>3. \A m \in Listings : status'[m] = IF m = l THEN "active" ELSE status[m]
    BY DEF Persist, Stamped
  <2>4. l \in shown /\ shop[l] = "active"
    BY <2>1 DEF Persist, Mirror, shown, With
  <2>5. /\ t.pc = "persist" /\ t.limited = task[s].limited
        /\ t.got = task[s].got \ {l} /\ t.seen = task[s].seen \cup {l}
        /\ task[s].seen \subseteq Listings
    BY <1>1, <1>2 DEF Persist, Tasks
  <2> QED BY <2>1, <2>2, <2>3, <2>4, <2>5 DEF Mirror, Persist
<1> QED BY <1>1, <1>3, <1>4, <1>5, <1>6, WorkKeepsMirror DEF Persist

\* ... or is not written.
LEMMA PersistFailKeepsMirror ==
    ASSUME MirrorInv, SessionInv, SessionInv', NEW s \in Sessions, NEW l \in Listings, PersistFail(s, l)
    PROVE  MirrorInv'
<1>1. task[s] \in Tasks /\ sess[s] # "none" /\ Sound(s, task[s], sess[s], asked[s])
  BY OfSession DEF Sound, Standing, PersistFail
<1>2. PICK t : t = [task[s] EXCEPT !.got = @ \ {l}]
  OBVIOUS
<1>4. task' = [task EXCEPT ![s] = t] /\ UNCHANGED <<store, env, sess>>
  BY <1>2 DEF PersistFail
<1>3. t \in Tasks /\ t.pc \notin {"none", "ready"}
  <2>1. t = task'[s]
    BY <1>4 DEF SessionInv, TypeOK
  <2>2. t \in Tasks
    BY <2>1 DEF SessionInv, TypeOK, Tasks
  <2> QED BY <1>1, <1>2, <2>2 DEF Tasks, PersistFail
<1>5. /\ stamp' = [k \in Listings |-> IF k \in {} THEN s ELSE stamp[k]]
      /\ t.seen = task[s].seen \cup {} /\ {} \in SUBSET Listings
  BY <1>1, <1>2 DEF SessionInv, TypeOK, Tasks, rows, Stamped, With, PersistFail
<1>6. Undisturbed => Mirror(t)'
  <2> SUFFICES ASSUME Undisturbed PROVE Mirror(t)'
    OBVIOUS
  <2>1. task[s].pc # "none" /\ Mirror(task[s])
    BY DEF MirrorInv, Alive, PersistFail
  <2>2. UNCHANGED <<shop, shown>> /\ \A i \in DOMAIN Catalogue : Ahead(i)' = Ahead(i)
    BY <1>4, ShopStands DEF store
  <2> QED BY DEF PersistFail, Undisturbed
<1> QED BY <1>1, <1>3, <1>4, <1>5, <1>6, WorkKeepsMirror DEF PersistFail

\* The Admin API's listings of a status are written ...
LEMMA AdminKeepsMirror ==
    ASSUME MirrorInv, SessionInv, SessionInv', NEW s \in Sessions, NEW st \in {"draft", "archived"}, FetchAdmin(s, st)
    PROVE  MirrorInv'
<1>1. task[s] \in Tasks /\ sess[s] # "none" /\ Sound(s, task[s], sess[s], asked[s])
  BY OfSession DEF Sound, Standing, FetchAdmin, AtAdmin, AfterAdmin
<1>2. PICK t : t = [task[s] EXCEPT !.pc = AfterAdmin(st), !.seen = @ \cup With(st)]
  OBVIOUS
<1>4. task' = [task EXCEPT ![s] = t] /\ UNCHANGED <<store, env, sess>>
  BY <1>2 DEF FetchAdmin
<1>3. t \in Tasks /\ t.pc \notin {"none", "ready"}
  <2>1. t = task'[s]
    BY <1>4 DEF SessionInv, TypeOK
  <2>2. t \in Tasks
    BY <2>1 DEF SessionInv, TypeOK, Tasks
  <2> QED BY <1>1, <1>2, <2>2 DEF Tasks, FetchAdmin, AtAdmin, AfterAdmin
<1>5. /\ stamp' = [k \in Listings |-> IF k \in With(st) THEN s ELSE stamp[k]]
      /\ t.seen = task[s].seen \cup With(st) /\ With(st) \in SUBSET Listings
  BY <1>1, <1>2 DEF SessionInv, TypeOK, Tasks, rows, Stamped, With, FetchAdmin, AtAdmin, AfterAdmin
<1>6. Undisturbed => Mirror(t)'
  <2> SUFFICES ASSUME Undisturbed PROVE Mirror(t)'
    OBVIOUS
  <2>1. task[s].pc # "none" /\ Mirror(task[s])
    BY DEF MirrorInv, Alive, FetchAdmin, AtAdmin, AfterAdmin
  <2>2. UNCHANGED <<shop, shown>> /\ \A i \in DOMAIN Catalogue : Ahead(i)' = Ahead(i)
    BY <1>4, ShopStands DEF store
  <2>3. \A m \in Listings : status'[m] = IF m \in With(st) THEN st ELSE status[m]
    BY DEF FetchAdmin, Stamped
  <2>4. \A m \in With(st) : shop[m] = st
    BY DEF With
  <2>5. /\ t.pc = AfterAdmin(st) /\ t.limited = task[s].limited
        /\ t.got = task[s].got /\ t.seen = task[s].seen \cup With(st)
        /\ task[s].seen \subseteq Listings
    BY <1>1, <1>2 DEF Tasks
  <2>6. ASSUME NEW m \in t.seen PROVE status'[m] = shop[m]
    <3>1. CASE m \in With(st)
      BY <2>3, <2>4, <3>1 DEF With
    <3>2. CASE m \notin With(st)
      <4>1. m \in task[s].seen /\ m \in Listings
        BY <2>5, <3>2
      <4>2. status[m] = shop[m]
        BY <2>1, <4>1 DEF Mirror
      <4> QED BY <2>3, <3>2, <4>1, <4>2
    <3> QED BY <3>1, <3>2
  <2>7. t.pc \in {"admin", "archive"} /\ (t.limited = FALSE => shown \subseteq t.seen)
    BY <2>1, <2>5 DEF Mirror, FetchAdmin, AtAdmin, AfterAdmin
  <2> QED BY <2>1, <2>2, <2>5, <2>6, <2>7 DEF Mirror
<1> QED BY <1>1, <1>3, <1>4, <1>5, <1>6, WorkKeepsMirror DEF FetchAdmin, AtAdmin, AfterAdmin

\* ... or are not wanted.
LEMMA SkipAdminKeepsMirror ==
    ASSUME MirrorInv, SessionInv, SessionInv', NEW s \in Sessions, NEW st \in {"draft", "archived"}, SkipAdmin(s, st)
    PROVE  MirrorInv'
<1>1. task[s] \in Tasks /\ sess[s] # "none" /\ Sound(s, task[s], sess[s], asked[s])
  BY OfSession DEF Sound, Standing, SkipAdmin, AtAdmin, AfterAdmin
<1>2. PICK t : t = [task[s] EXCEPT !.pc = AfterAdmin(st)]
  OBVIOUS
<1>4. task' = [task EXCEPT ![s] = t] /\ UNCHANGED <<store, env, sess>>
  BY <1>2 DEF SkipAdmin
<1>3. t \in Tasks /\ t.pc \notin {"none", "ready"}
  <2>1. t = task'[s]
    BY <1>4 DEF SessionInv, TypeOK
  <2>2. t \in Tasks
    BY <2>1 DEF SessionInv, TypeOK, Tasks
  <2> QED BY <1>1, <1>2, <2>2 DEF Tasks, SkipAdmin, AtAdmin, AfterAdmin
<1>5. /\ stamp' = [k \in Listings |-> IF k \in {} THEN s ELSE stamp[k]]
      /\ t.seen = task[s].seen \cup {} /\ {} \in SUBSET Listings
  BY <1>1, <1>2 DEF SessionInv, TypeOK, Tasks, rows, Stamped, With, SkipAdmin, AtAdmin, AfterAdmin
<1>6. Undisturbed => Mirror(t)'
  <2> SUFFICES ASSUME Undisturbed PROVE Mirror(t)'
    OBVIOUS
  <2>1. task[s].pc # "none" /\ Mirror(task[s])
    BY DEF MirrorInv, Alive, SkipAdmin, AtAdmin, AfterAdmin
  <2>2. UNCHANGED <<shop, shown>> /\ \A i \in DOMAIN Catalogue : Ahead(i)' = Ahead(i)
    BY <1>4, ShopStands DEF store
  <2> QED BY <1>1, <1>2, <2>1, <2>2 DEF Mirror, Tasks, rows, Sound, Beginning, SkipAdmin, AtAdmin, AfterAdmin
<1> QED BY <1>1, <1>3, <1>4, <1>5, <1>6, WorkKeepsMirror DEF SkipAdmin, AtAdmin, AfterAdmin

\* The unseen are archived: what is left active is on the store.
LEMMA ArchiveKeepsMirror ==
    ASSUME MirrorInv, SessionInv, SessionInv', NEW s \in Sessions, Archive(s)
    PROVE  MirrorInv'
<1>1. task[s] \in Tasks /\ sess[s] # "none" /\ Sound(s, task[s], sess[s], asked[s])
  BY OfSession DEF Sound, Standing, Archive
<1>2. PICK t : t = [task[s] EXCEPT !.pc = "merge"]
  OBVIOUS
<1>4. task' = [task EXCEPT ![s] = t] /\ UNCHANGED <<store, env, sess>>
  BY <1>2 DEF Archive
<1>3. t \in Tasks /\ t.pc \notin {"none", "ready"}
  <2>1. t = task'[s]
    BY <1>4 DEF SessionInv, TypeOK
  <2>2. t \in Tasks
    BY <2>1 DEF SessionInv, TypeOK, Tasks
  <2> QED BY <1>1, <1>2, <2>2 DEF Tasks, Archive
<1>5. /\ stamp' = [k \in Listings |-> IF k \in {} THEN s ELSE stamp[k]]
      /\ t.seen = task[s].seen \cup {} /\ {} \in SUBSET Listings
  BY <1>1, <1>2 DEF SessionInv, TypeOK, Tasks, rows, Stamped, With, Archive
<1>6. Undisturbed => Mirror(t)'
  <2> SUFFICES ASSUME Undisturbed PROVE Mirror(t)'
    OBVIOUS
  <2>1. task[s].pc # "none" /\ Mirror(task[s])
    BY DEF MirrorInv, Alive, Archive
  <2>2. UNCHANGED <<shop, shown>> /\ \A i \in DOMAIN Catalogue : Ahead(i)' = Ahead(i)
    BY <1>4, ShopStands DEF store
  <2>3. t.got = task[s].got /\ t.seen = task[s].seen /\ t.limited = task[s].limited /\ t.pc = "merge"
    BY <1>1, <1>2 DEF Tasks
  <2>4. \A l \in task[s].seen : status'[l] = status[l] /\ stamp[l] = s
    BY <1>1, <2>1 DEF MirrorInv, Stamps, Undisturbed, Archive, Unseen, Tasks
  <2>5. ASSUME t.limited = FALSE, NEW l \in Listings
        PROVE  status'[l] = "active" <=> l \in shown
    <3>1. shown \subseteq task[s].seen
      BY <2>1, <2>3, <2>5 DEF Mirror, Archive
    <3>2. CASE l \in task[s].seen
      BY <2>1, <2>4, <3>2 DEF Mirror, shown, With
    <3>3. CASE l \notin task[s].seen
      <4>1. stamp[l] # s
        BY <2>1, <3>3 DEF MirrorInv, Stamps, Undisturbed
      <4>2. status'[l] # "active"
        BY <2>3, <2>5, <4>1 DEF Archive, Unseen
      <4> QED BY <3>1, <3>3, <4>2
    <3> QED BY <3>2, <3>3
  <2> QED BY <2>1, <2>2, <2>3, <2>4, <2>5 DEF Mirror
<1> QED BY <1>1, <1>3, <1>4, <1>5, <1>6, WorkKeepsMirror DEF Archive

\* A scan begins: nothing is stamped, no page is fetched.
LEMMA BeginKeepsMirror ==
    ASSUME MirrorInv, SessionInv, SessionInv', NEW s \in Sessions, Begin(s)
    PROVE  MirrorInv'
<1>1. PICK t : /\ task' = [task EXCEPT ![s] = t]
               /\ \/ t = NoTask
                  \/ t = [task[s] EXCEPT !.pc = "fetch"]
                  \/ "crawl" \in env /\ t = [task[s] EXCEPT !.pc = "crawl"]
  BY DEF Begin
<1>2. task'[s] = t /\ task' \in [Sessions -> Tasks] /\ t \in Tasks
  BY <1>1 DEF SessionInv, TypeOK, Tasks
<1>3. sess'[s] = "running" /\ \A r \in Sessions : sess'[r] = "none" => sess[r] = "none"
  BY DEF SessionInv, TypeOK, Begin
<1>4. CASE t.pc = "none"
  <2>1. \A r \in Sessions : task'[r].pc = "none" \/ task'[r] = task[r]
    BY <1>1, <1>2, <1>4 DEF SessionInv, TypeOK
  <2> QED BY <1>2, <1>3, <2>1, RestKeepsMirror DEF Begin
<1>5. CASE t.pc # "none"
  <2>1. /\ task[s] \in Tasks /\ task[s].pc = "ready" /\ task[s].got = {} /\ task[s].seen = {}
        /\ task[s].page = 1
    BY OfSession DEF Begin, Sound, Beginning
  <2>2. /\ t.pc = "fetch" \/ (t.pc = "crawl" /\ "crawl" \in env)
        /\ t.got = {} /\ t.seen = {} /\ t.page = 1
    <3>1. t # NoTask
      BY <1>5 DEF NoTask
    <3>2. CASE t = [task[s] EXCEPT !.pc = "fetch"]
      BY <2>1, <3>2 DEF Tasks
    <3>3. CASE "crawl" \in env /\ t = [task[s] EXCEPT !.pc = "crawl"]
      BY <2>1, <3>3 DEF Tasks
    <3> QED BY <1>1, <3>1, <3>2, <3>3
  <2>3. ASSUME Undisturbed PROVE Mirror(t)'
    <3>1. t.pc = "fetch"
      BY <2>2, <2>3 DEF Undisturbed
    <3>2. \A i \in DOMAIN Catalogue : Ahead(i) \in Nat /\ Ahead(i)' = Ahead(i)
      BY Places, ShopStands DEF Begin, store
    <3>3. (t.page - 1) * PageSize = 0
      BY <2>2, SourceScanAssumption
    <3> QED BY <2>2, <3>1, <3>2, <3>3 DEF Mirror
  <2>4. stamp' = [k \in Listings |-> IF k \in {} THEN s ELSE stamp[k]]
    BY DEF SessionInv, TypeOK, Begin, rows
  <2>5. UNCHANGED <<store, env>> /\ t.seen = task[s].seen \cup {} /\ {} \in SUBSET Listings
    BY <2>1, <2>2 DEF Begin
  <2>6. t.pc \notin {"none", "ready"} /\ task[s].pc # "none" /\ sess'[s] # "none"
    BY <1>3, <2>1, <2>2
  <2> QED BY <1>1, <1>2, <1>3, <2>3, <2>4, <2>5, <2>6, WorkKeepsMirror
<1> QED BY <1>4, <1>5

\* A scan starts, where scans do not overlap as the only one.
LEMMA StartKeepsMirror ==
    ASSUME MirrorInv, SessionInv, NEW s \in Sessions, StartScan(s)
    PROVE  MirrorInv'
<1>1. /\ task'[s] = [NoTask EXCEPT !.pc = "ready"]
      /\ \A r \in Sessions \ {s} : task'[r] = task[r] /\ sess'[r] = sess[r]
      /\ UNCHANGED <<shop, status, stamp, env>> /\ sess[s] = "none"
  <2>1. task[s] = NoTask
    BY OfSession DEF StartScan, Alive, Sound, Beginning
  <2> QED BY <2>1 DEF StartScan, SessionInv, TypeOK, store, rows, NoTask
<1>2. OneAtATime'
  BY <1>1 DEF StartScan, OneAtATime, Alive
<1>3. ASSUME NEW r \in Sessions PROVE Stamps(r, task[r])'
  <2>1. CASE r = s
    BY <1>1, <2>1 DEF MirrorInv, Stamps, NoTask
  <2>2. CASE r # s
    BY <1>1, <2>2 DEF MirrorInv, Stamps
  <2> QED BY <2>1, <2>2
<1>4. ASSUME NEW r \in Sessions, Undisturbed', Alive(r)' PROVE Mirror(task[r])'
  <2>1. "overlap" \notin env
    BY <1>1, <1>4 DEF Undisturbed
  <2>2. r = s
    BY <1>1, <1>4, <2>1 DEF StartScan, Alive
  <2> QED BY <1>1, <2>2 DEF Mirror, NoTask
<1> QED BY <1>2, <1>3, <1>4 DEF MirrorInv

\* The store changes, or nothing does: no undisturbed scan is under way.
LEMMA StoreKeepsMirror ==
    ASSUME MirrorInv, UNCHANGED <<rows, sess, task, env>>, MayChange \/ UNCHANGED store
    PROVE  MirrorInv'
<1>1. OneAtATime' /\ \A s \in Sessions : Stamps(s, task[s])'
  BY DEF MirrorInv, OneAtATime, Stamps, Alive, rows
<1>2. ASSUME NEW s \in Sessions, Undisturbed', Alive(s)' PROVE Mirror(task[s])'
  <2>1. Undisturbed /\ Alive(s) /\ Mirror(task[s])
    BY <1>2 DEF MirrorInv, Undisturbed, Alive
  <2>2. UNCHANGED store
    BY <2>1 DEF MayChange, Undisturbed
  <2>3. UNCHANGED <<shop, shown, status>> /\ \A i \in DOMAIN Catalogue : Ahead(i)' = Ahead(i)
    BY <2>2, ShopStands DEF store, rows
  <2> QED BY <2>1, <2>3 DEF Mirror
<1> QED BY <1>1, <1>2 DEF MirrorInv

\* What ends a task, cancels it, or writes its session's status only.
LEMMA EndKeepsMirror ==
    ASSUME MirrorInv, SessionInv, SessionInv', NEW s \in Sessions,
           \/ CrawlFail(s) \/ Complete(s) \/ CancelTask(s) \/ CancelWrite(s)
           \/ \E st \in {"draft", "archived"} : FetchAdminFail(s, st)
    PROVE  MirrorInv'
<1>1. task' \in [Sessions -> Tasks]
  BY DEF SessionInv, TypeOK, Tasks
<1>2. UNCHANGED <<store, rows, env>>
  BY DEF CrawlFail, Complete, CancelTask, CancelWrite, FetchAdminFail
<1>3. ASSUME NEW r \in Sessions
      PROVE  \/ task'[r].pc = "none"
             \/ /\ task'[r].pc = task[r].pc /\ task'[r].page = task[r].page
                /\ task'[r].got = task[r].got /\ task'[r].seen = task[r].seen
                /\ task'[r].limited = task[r].limited
  <2>1. CASE r # s
    BY <2>1 DEF SessionInv, TypeOK, CrawlFail, Complete, CancelTask, CancelWrite, FetchAdminFail
  <2>2. CASE r = s
    <3>1. task[s] \in Tasks /\ NoTask.pc = "none"
      BY OfSession
    <3>2. \/ task'[s] = NoTask \/ task'[s] = task[s]
          \/ task'[s] = [task[s] EXCEPT !.dying = TRUE]
      BY DEF SessionInv, TypeOK, CrawlFail, Complete, CancelTask, CancelWrite, FetchAdminFail
    <3> QED BY <2>2, <3>1, <3>2 DEF Tasks
  <2> QED BY <2>1, <2>2
<1>4. ASSUME NEW r \in Sessions, sess'[r] = "none" PROVE sess[r] = "none"
  BY <1>4 DEF SessionInv, TypeOK, CrawlFail, Complete, CancelTask, CancelWrite, FetchAdminFail
<1> QED BY <1>1, <1>2, <1>3, <1>4, RestKeepsMirror

LEMMA RestartKeepsMirror ==
    ASSUME MirrorInv, SessionInv, SessionInv', Restart
    PROVE  MirrorInv'
<1>1. task' \in [Sessions -> Tasks]
  BY DEF SessionInv, TypeOK, Tasks
<1>2. \A s \in Sessions : task'[s].pc = "none" /\ (sess'[s] = "none" => sess[s] = "none")
  BY DEF Restart, NoTask, SessionInv, TypeOK
<1> QED BY <1>1, <1>2, RestKeepsMirror DEF Restart

LEMMA WorkKeepsMirrors ==
    ASSUME MirrorInv, SessionInv, SessionInv', NEW s \in Sessions, Work(s)
    PROVE  MirrorInv'
<1>1. CASE FetchPage(s) \/ Fetch429(s) \/ FetchGiveUp(s) \/ FetchFail(s) \/ Archive(s)
  BY <1>1, FetchPageKeepsMirror, Fetch429KeepsMirror, GiveUpKeepsMirror, FetchFailKeepsMirror,
     ArchiveKeepsMirror
<1>2. ASSUME NEW found \in SUBSET Listings, Crawl(s, found) PROVE MirrorInv'
  BY <1>2, CrawlKeepsMirror
<1>3. ASSUME NEW l \in Listings, Persist(s, l) \/ PersistFail(s, l) PROVE MirrorInv'
  BY <1>3, PersistKeepsMirror, PersistFailKeepsMirror
<1>4. ASSUME NEW st \in {"draft", "archived"}, FetchAdmin(s, st) \/ SkipAdmin(s, st)
      PROVE  MirrorInv'
  BY <1>4, AdminKeepsMirror, SkipAdminKeepsMirror
<1> QED BY <1>1, <1>2, <1>3, <1>4 DEF Work

LEMMA NextKeepsMirror ==
    ASSUME MirrorInv, SessionInv, SessionInv', [Next]_vars
    PROVE  MirrorInv'
<1>1. ASSUME NEW s \in Sessions, StartScan(s) \/ Step(s) \/ CancelTask(s) \/ CancelWrite(s)
      PROVE  MirrorInv'
  BY <1>1, StartKeepsMirror, BeginKeepsMirror, EndKeepsMirror, WorkKeepsMirrors DEF Step
<1>2. CASE \/ \E l \in Listings : Publish(l)
           \/ \E l \in Listings, new \in {"none", "draft", "archived"} : Withdraw(l, new)
           \/ UNCHANGED vars
  BY <1>2, StoreKeepsMirror DEF Publish, Withdraw, vars
<1> QED BY <1>1, <1>2, RestartKeepsMirror DEF Next

LEMMA MirrorInvariance == Spec => [](SessionInv /\ MirrorInv)
<1>1. Init => SessionInv /\ MirrorInv
  BY InitSessionInv, InitMirrorInv
<1>2. SessionInv /\ MirrorInv /\ [Next]_vars => (SessionInv /\ MirrorInv)'
  BY NextKeepsSessions, NextKeepsMirror
<1> QED BY <1>1, <1>2, PTL DEF Spec

\* source_scraper.py:257-260: an undisturbed scan, whatever the retries, the
\* cancellations and the restarts before it, archives nothing that the store
\* still shows: the pages it has fetched are all of them.
THEOREM LiveStaysActive == Spec => ArchivesOnlyGone
<1>1. ASSUME SessionInv, MirrorInv, Undisturbed, NEW s \in Sessions PROVE ~ArchivesLive(s)
  <2> SUFFICES ASSUME NEW l \in shown, Archive(s), status[l] # "archived",
                      status'[l] = "archived"
               PROVE  FALSE
    BY DEF ArchivesLive
  <2>1. l \in Listings
    BY DEF shown, With
  <2>2. task[s].limited = FALSE /\ l \in Unseen(s)
    BY <2>1, OfSession DEF Archive, Tasks
  <2>3. Mirror(task[s]) /\ Stamps(s, task[s])
    BY <1>1 DEF MirrorInv, Archive, Alive
  <2>4. l \in task[s].seen
    BY <2>2, <2>3 DEF Mirror, Archive
  <2> QED BY <1>1, <2>1, <2>2, <2>3, <2>4 DEF Stamps, Undisturbed, Unseen, Archive
<1>2. SessionInv /\ MirrorInv /\ [Next]_vars
        => [Undisturbed => \A s \in Sessions : ~ArchivesLive(s)]_vars
  BY <1>1
<1> QED BY <1>2, MirrorInvariance, PTL DEF Spec, ArchivesOnlyGone

\* source_scraper.py:423: the stamp tells the archive step what its own scan has
\* seen, wherever scans of the store do not overlap.
THEOREM StampsProtect == Spec => SeenIsNotArchived
<1>1. ASSUME SessionInv, MirrorInv, NEW s \in Sessions, NEW l \in Listings,
             "overlap" \notin env, Archive(s), l \in task[s].seen
      PROVE  status'[l] = status[l]
  BY <1>1 DEF MirrorInv, Stamps, Archive, Unseen
<1>2. SessionInv /\ MirrorInv /\ [Next]_vars
        => [\A s \in Sessions, l \in Listings :
              "overlap" \notin env /\ Archive(s) /\ l \in task[s].seen
              => status'[l] = status[l]]_vars
  BY <1>1
<1> QED BY <1>2, MirrorInvariance, PTL DEF Spec, SeenIsNotArchived

\* An undisturbed scan that completes with an unlimited fetch leaves exactly the
\* store's published listings active, for any catalogue and any page size.
THEOREM ScanMirrorsStore == Spec => CompletedMirrorsStore
<1>1. ASSUME SessionInv, MirrorInv, NEW s \in Sessions,
             Undisturbed, Complete(s), ~task[s].limited
      PROVE  {l \in Listings : status[l] = "active"} = shown
  <2>1. task[s].limited = FALSE
    BY <1>1, OfSession DEF Tasks
  <2>2. \A l \in Listings : status[l] = "active" <=> l \in shown
    BY <1>1, <2>1 DEF MirrorInv, Mirror, Complete, Alive
  <2> QED BY <2>2 DEF shown, With
<1>2. SessionInv /\ MirrorInv /\ [Next]_vars
        => [\A s \in Sessions : Undisturbed /\ Complete(s) /\ ~task[s].limited
              => {l \in Listings : status[l] = "active"} = shown]_vars
  BY <1>1
<1> QED BY <1>2, MirrorInvariance, PTL DEF Spec, CompletedMirrorsStore
=============================================================================
