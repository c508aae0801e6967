---------------------------- MODULE SourceScan -----------------------------
(***************************************************************************)
(* Scans of one store: a scan session pages through the store's            *)
(* /products.json, persists every listing it got, stamped with its session *)
(* id, and finally archives the site's listings that carry another stamp.  *)
(*                                                                         *)
(* Each scan is an asyncio task; its actions are the pieces of code        *)
(* between two awaits, so scans of one store interleave between pages and  *)
(* between listings.  A session is started by the scan endpoint, which     *)
(* remembers its task for cancellation, or by a scan cycle, which does not.*)
(*                                                                         *)
(* A listing's content is left out: only its status and its stamp matter.  *)
(* env, chosen at the beginning and constant from then on, says which of   *)
(* the surroundings' behaviours occur:                                     *)
(*   "429"     the store answers with 429                                  *)
(*   "http"    it answers with another error, or not at all                *)
(*   "crawl"   it does not answer like a Shopify store                     *)
(*   "invalid" a listing is invalid or cannot be written                   *)
(*   "admin"   the Admin API fails                                         *)
(*   "cancel"  the user cancels a session                                  *)
(*   "midway"  a cancellation falls into the middle of a piece of code     *)
(*             without an await, which then goes on to its end             *)
(*   "restart" the server is restarted                                     *)
(*   "overlap" a scan is started while another one is under way            *)
(*   "shift"   the store changes while a scan is under way                 *)
(***************************************************************************)
EXTENDS Integers, FiniteSets, Sequences

CONSTANTS
    Catalogue,      \* the listings the store can show, in its paging order
    PageSize,       \* limit=250
    MaxRetries,     \* _MAX_429_RETRIES
    Sessions,       \* scan session ids
    CycleSessions,  \* those a scan cycle starts
    Sync,           \* statuses fetched from the Admin API (sync_draft, sync_archived)
    NoStamp,
    MaxChanges,     \* bound: changes the store makes to its catalogue
    Envs            \* the surroundings considered

Listings == {Catalogue[i] : i \in DOMAIN Catalogue}

ASSUME SourceScanAssumption ==
    /\ Catalogue \in Seq(Listings)
    /\ \A i, j \in DOMAIN Catalogue : Catalogue[i] = Catalogue[j] => i = j
    /\ PageSize \in Nat \ {0}
    /\ MaxRetries \in Nat
    /\ CycleSessions \subseteq Sessions
    /\ NoStamp \notin Sessions
    /\ Sync \subseteq {"draft", "archived"}
    /\ MaxChanges \in Nat

VARIABLES
    shop,      \* shop[l]: the listing's status in the store, "none" if it has none
    changes,   \* changes the store has made
    status,    \* status[l]: ProductSource.source_status, "none" without a row
    stamp,     \* stamp[l]: ProductSource.scan_session_id
    sess,      \* sess[s]: ScanSession.status, "none" without a row
    task,      \* task[s]: the scan's asyncio task and its locals
    asked,     \* asked[s]: the status a cancel request has read, "none" else
    env        \* what the surroundings do

store == <<shop, changes>>
rows == <<status, stamp>>
vars == <<store, rows, sess, task, asked, env>>

NoTask == [pc |-> "none", page |-> 1, attempt |-> 0, got |-> {},
           limited |-> FALSE, seen |-> {}, dying |-> FALSE]

Init ==
    /\ shop \in [Listings -> {"none", "active"}]
    /\ changes = 0
    /\ status = [l \in Listings |-> "none"]
    /\ stamp = [l \in Listings |-> NoStamp]
    /\ sess = [s \in Sessions |-> "none"]
    /\ task = [s \in Sessions |-> NoTask]
    /\ asked = [s \in Sessions |-> "none"]
    /\ env \in Envs

Alive(s) == task[s].pc # "none"

-----------------------------------------------------------------------------
(* The store *)

With(s) == {l \in Listings : shop[l] = s}
shown == With("active")

\* How many published listings the store's order has ahead of its i-th one.
Ahead(i) == Cardinality({j \in 1..(i - 1) : Catalogue[j] \in shown})

\* /products.json?limit=PageSize&page=n, of what is published now
OnPage(n) == {i \in DOMAIN Catalogue :
                /\ Catalogue[i] \in shown
                /\ (n - 1) * PageSize <= Ahead(i) /\ Ahead(i) < n * PageSize}
Page(n) == {Catalogue[i] : i \in OnPage(n)}

MayChange == changes < MaxChanges /\ ("shift" \in env \/ \A s \in Sessions : ~Alive(s))

Publish(l) ==
    /\ MayChange
    /\ l \notin shown
    /\ shop' = [shop EXCEPT ![l] = "active"]
    /\ changes' = changes + 1
    /\ UNCHANGED <<rows, sess, task, asked, env>>

\* A product leaves the storefront: deleted, made a draft or archived.
Withdraw(l, new) ==
    /\ MayChange
    /\ l \in shown
    /\ shop' = [shop EXCEPT ![l] = new]
    /\ changes' = changes + 1
    /\ UNCHANGED <<rows, sess, task, asked, env>>

-----------------------------------------------------------------------------
(* The scan *)

\* start_source_scan: the session row, then a task.  The task of a cycle
\* creates its row itself when it begins.
StartScan(s) ==
    /\ sess[s] = "none" /\ ~Alive(s)
    /\ "overlap" \notin env => \A r \in Sessions : ~Alive(r)
    /\ sess' = [sess EXCEPT ![s] = IF s \in CycleSessions THEN @ ELSE "pending"]
    /\ task' = [task EXCEPT ![s].pc = "ready"]
    /\ UNCHANGED <<store, rows, asked, env>>

\* run_source_scan begins; _is_shopify_store has answered.
Begin(s) ==
    /\ task[s].pc = "ready"
    /\ sess' = [sess EXCEPT ![s] = "running"]
    /\ IF task[s].dying THEN task' = [task EXCEPT ![s] = NoTask]
       ELSE \/ task' = [task EXCEPT ![s].pc = "fetch"]
            \/ "crawl" \in env /\ task' = [task EXCEPT ![s].pc = "crawl"]
    /\ UNCHANGED <<store, rows, asked, env>>

\* Mutant of FetchPage: a full page is taken for the last one.
FetchPageShort(s) ==
    LET batch == Page(task[s].page)
        last == Cardinality(batch) <= PageSize
    IN
    /\ task[s].pc = "fetch"
    /\ task' = [task EXCEPT ![s].got = @ \cup batch,
                            ![s].attempt = 0,
                            ![s].page = IF last THEN @ ELSE @ + 1,
                            ![s].pc = IF last THEN "persist" ELSE "fetch"]
    /\ UNCHANGED <<store, rows, sess, asked, env>>

\* A page arrives.  An empty or a short one is the last.
FetchPage(s) ==
    LET batch == Page(task[s].page)
        last == Cardinality(batch) < PageSize
    IN
    /\ task[s].pc = "fetch"
    /\ task' = [task EXCEPT ![s].got = @ \cup batch,
                            ![s].attempt = 0,
                            ![s].page = IF last THEN @ ELSE @ + 1,
                            ![s].pc = IF last THEN "persist" ELSE "fetch"]
    /\ UNCHANGED <<store, rows, sess, asked, env>>

\* Mutant of Fetch429: the count wraps instead of staying at its limit.
Fetch429Forever(s) ==
    /\ "429" \in env
    /\ task[s].pc = "fetch"
    /\ task' = [task EXCEPT ![s].attempt = (@ + 1) % (MaxRetries + 1)]
    /\ UNCHANGED <<store, rows, sess, asked, env>>

\* 429: wait and ask again ...
Fetch429(s) ==
    /\ "429" \in env
    /\ task[s].pc = "fetch"
    /\ task[s].attempt < MaxRetries
    /\ task' = [task EXCEPT ![s].attempt = @ + 1]
    /\ UNCHANGED <<store, rows, sess, asked, env>>

\* ... or give up: rate_limited, with the pages there are.
FetchGiveUp(s) ==
    /\ "429" \in env
    /\ task[s].pc = "fetch"
    /\ task[s].attempt >= MaxRetries
    /\ task' = [task EXCEPT ![s].limited = TRUE, ![s].pc = "persist"]
    /\ UNCHANGED <<store, rows, sess, asked, env>>

\* Any other failure of a page leaves batch None: the loop ends as if the page
\* had been the last one.
FetchFail(s) ==
    /\ "http" \in env
    /\ task[s].pc = "fetch"
    /\ task' = [task EXCEPT ![s].pc = "persist"]
    /\ UNCHANGED <<store, rows, sess, asked, env>>

\* The crawl of a site that is not a Shopify store finds what it finds within
\* its page limit.
Crawl(s, found) ==
    /\ task[s].pc = "crawl"
    /\ found \subseteq shown
    /\ task' = [task EXCEPT ![s].got = found, ![s].pc = "persist"]
    /\ UNCHANGED <<store, rows, sess, asked, env>>

\* The crawl raises: no browser, or the site is not configured any more.
CrawlFail(s) ==
    /\ task[s].pc = "crawl"
    /\ sess' = [sess EXCEPT ![s] = "failed"]
    /\ task' = [task EXCEPT ![s] = NoTask]
    /\ UNCHANGED <<store, rows, asked, env>>

\* Mutant of Stamped: only new rows get the stamp.
StampedNew(s, ls, st) ==
    /\ status' = [l \in Listings |-> IF l \in ls THEN st ELSE status[l]]
    /\ stamp' = [l \in Listings |->
                   IF l \in ls /\ status[l] = "none" THEN s ELSE stamp[l]]

\* _persist_product: new or known, changed or not, the row is stamped.
Stamped(s, ls, st) ==
    /\ status' = [l \in Listings |-> IF l \in ls THEN st ELSE status[l]]
    /\ stamp' = [l \in Listings |-> IF l \in ls THEN s ELSE stamp[l]]

Persist(s, l) ==
    /\ task[s].pc = "persist"
    /\ l \in task[s].got
    /\ Stamped(s, {l}, "active")
    /\ task' = [task EXCEPT ![s].got = @ \ {l}, ![s].seen = @ \cup {l}]
    /\ UNCHANGED <<store, sess, asked, env>>

\* An invalid listing is skipped, a failing one is counted: no stamp.
PersistFail(s, l) ==
    /\ "invalid" \in env
    /\ task[s].pc = "persist"
    /\ l \in task[s].got
    /\ task' = [task EXCEPT ![s].got = @ \ {l}]
    /\ UNCHANGED <<store, rows, sess, asked, env>>

\* After the last listing: the Admin API's drafts, then its archived products,
\* as far as they are to be synced.
AtAdmin(s, st) ==
    \/ st = "draft" /\ task[s].pc = "persist" /\ task[s].got = {}
    \/ st = "archived" /\ task[s].pc = "admin"

AfterAdmin(st) == IF st = "draft" THEN "admin" ELSE "archive"

FetchAdmin(s, st) ==
    /\ AtAdmin(s, st)
    /\ st \in Sync
    /\ Stamped(s, With(st), st)
    /\ task' = [task EXCEPT ![s].pc = AfterAdmin(st), ![s].seen = @ \cup With(st)]
    /\ UNCHANGED <<store, sess, asked, env>>

SkipAdmin(s, st) ==
    /\ AtAdmin(s, st)
    /\ st \notin Sync
    /\ task' = [task EXCEPT ![s].pc = AfterAdmin(st)]
    /\ UNCHANGED <<store, rows, sess, asked, env>>

\* An error of the Admin API is not caught before run_source_scan.
FetchAdminFail(s, st) ==
    /\ "admin" \in env
    /\ AtAdmin(s, st)
    /\ st \in Sync
    /\ sess' = [sess EXCEPT ![s] = "failed"]
    /\ task' = [task EXCEPT ![s] = NoTask]
    /\ UNCHANGED <<store, rows, asked, env>>

\* _archive_unseen_for_site
Unseen(s) == {l \in Listings : status[l] \notin {"none", "archived"} /\ stamp[l] # s}

\* Mutant of Archive: a truncated fetch archives, too.
ArchiveAlways(s) ==
    /\ task[s].pc = "archive"
    /\ status' = [l \in Listings |-> IF l \in Unseen(s) THEN "archived" ELSE status[l]]
    /\ task' = [task EXCEPT ![s].pc = "merge"]
    /\ UNCHANGED <<store, stamp, sess, asked, env>>

Archive(s) ==
    /\ task[s].pc = "archive"
    /\ status' = [l \in Listings |->
                    IF ~task[s].limited /\ l \in Unseen(s) THEN "archived" ELSE status[l]]
    /\ task' = [task EXCEPT ![s].pc = "merge"]
    /\ UNCHANGED <<store, stamp, sess, asked, env>>

\* The force merge, in a thread, succeeds or not; then the session is closed.
Complete(s) ==
    /\ task[s].pc = "merge"
    /\ sess' = [sess EXCEPT ![s] = "completed"]
    /\ task' = [task EXCEPT ![s] = NoTask]
    /\ UNCHANGED <<store, rows, asked, env>>

\* The task is in the piece of code in which it writes its session's status.
WritesStatus(s) ==
    \/ task[s].pc \in {"ready", "crawl", "merge"}
    \/ "admin" \in env /\ \E st \in Sync : AtAdmin(s, st)

\* cancel_scan runs in a thread.  It cancels the task, if the endpoint knows
\* it, and reads the session (of one that has ended it changes nothing).  The
\* task ends where it waits; one that is not waiting goes on to its next await.
CancelTask(s) ==
    /\ "cancel" \in env
    /\ sess[s] \in {"pending", "running"}
    /\ asked[s] = "none"
    /\ asked' = [asked EXCEPT ![s] = sess[s]]
    /\ \/ s \in CycleSessions /\ UNCHANGED task
       \/ s \notin CycleSessions /\ task' = [task EXCEPT ![s] = NoTask]
       \/ /\ s \notin CycleSessions
          /\ "midway" \in env /\ WritesStatus(s)
          /\ task' = [task EXCEPT ![s].dying = TRUE]
    /\ UNCHANGED <<store, rows, sess, env>>

\* Mutant of CancelWrite: only a session that had not begun is marked.
CancelPending(s) ==
    /\ asked[s] # "none"
    /\ sess' = [sess EXCEPT ![s] = IF asked[s] = "pending" THEN "cancelled" ELSE @]
    /\ asked' = [asked EXCEPT ![s] = "none"]
    /\ UNCHANGED <<store, rows, task, env>>

\* Mutant of CancelWrite: so is a session that had not begun.
CancelUnended(s) ==
    /\ asked[s] # "none"
    /\ sess' = [sess EXCEPT
          ![s] = IF asked[s] \in {"pending", "running"} THEN "cancelled" ELSE @]
    /\ asked' = [asked EXCEPT ![s] = "none"]
    /\ UNCHANGED <<store, rows, task, env>>

\* Then it marks the session, if it was running when it was read.
CancelWrite(s) ==
    /\ asked[s] # "none"
    /\ sess' = [sess EXCEPT ![s] = IF asked[s] = "running" THEN "cancelled" ELSE @]
    /\ asked' = [asked EXCEPT ![s] = "none"]
    /\ UNCHANGED <<store, rows, task, env>>

\* The process ends; on_startup fails the sessions it left behind.
Restart ==
    /\ "restart" \in env
    /\ task' = [s \in Sessions |-> NoTask]
    /\ sess' = [s \in Sessions |->
                  IF sess[s] \in {"running", "pending"} THEN "failed" ELSE sess[s]]
    /\ asked' = [s \in Sessions |-> "none"]
    /\ UNCHANGED <<store, rows, env>>

\* A task that has been cancelled in the middle only writes its status.
Work(s) ==
    /\ ~task[s].dying
    /\ \/ FetchPage(s) \/ Fetch429(s) \/ FetchGiveUp(s) \/ FetchFail(s)
       \/ \E found \in SUBSET Listings : Crawl(s, found)
       \/ \E l \in Listings : Persist(s, l) \/ PersistFail(s, l)
       \/ \E st \in {"draft", "archived"} : FetchAdmin(s, st) \/ SkipAdmin(s, st)
       \/ Archive(s)

Step(s) ==
    \/ Begin(s) \/ CrawlFail(s) \/ Complete(s)
    \/ \E st \in {"draft", "archived"} : FetchAdminFail(s, st)
    \/ Work(s)

Next ==
    \/ \E l \in Listings : Publish(l)
    \/ \E l \in Listings, new \in {"none", "draft", "archived"} : Withdraw(l, new)
    \/ \E s \in Sessions : StartScan(s) \/ Step(s) \/ CancelTask(s) \/ CancelWrite(s)
    \/ Restart

Spec == Init /\ [][Next]_vars

\* The event loop runs every task that is ready; requests time out.
FairSpec == Spec /\ \A s \in Sessions : WF_vars(Step(s)) /\ WF_vars(CancelWrite(s))

-----------------------------------------------------------------------------
(* Properties *)

\* Rows, sessions and tasks hold what they are meant to.
TypeOK ==
    /\ shop \in [Listings -> {"none", "active", "draft", "archived"}]
    /\ changes \in 0..MaxChanges
    /\ status \in [Listings -> {"none", "active", "draft", "archived"}]
    /\ stamp \in [Listings -> Sessions \cup {NoStamp}]
    /\ sess \in [Sessions -> {"none", "pending", "running", "completed",
                              "failed", "cancelled"}]
    /\ task \in [Sessions ->
          [pc : {"none", "ready", "fetch", "crawl", "persist", "admin",
                 "archive", "merge"},
           page : Nat, attempt : 0..MaxRetries, got : SUBSET Listings,
           limited : BOOLEAN, seen : SUBSET Listings, dying : BOOLEAN]]
    /\ asked \in [Sessions -> {"none", "pending", "running"}]
    /\ env \in Envs

\* Every page is answered, every listing on it is written, and nothing else
\* moves the store or the rows while a scan is under way.
Undisturbed ==
    env \cap {"http", "crawl", "invalid", "shift", "overlap"} = {}

ArchivesLive(s) == \E l \in shown :
    Archive(s) /\ status[l] # "archived" /\ status'[l] = "archived"

\* source_scraper.py:257-260: a scan archives only what is no longer on the
\* store, if nothing disturbs it; a fetch that 429 has cut short, or one that
\* follows cancelled and failed ones, archives nothing that is still live.
ArchivesOnlyGone ==
    [][Undisturbed => \A s \in Sessions : ~ArchivesLive(s)]_vars

\* The same of a fetch that any other failure has cut short.
TruncatedArchivesNothing ==
    [][\A s \in Sessions : ~ArchivesLive(s)]_vars

\* source_scraper.py:423: the stamp tells the archive step what its own scan
\* has seen, so that nothing the scan persisted is archived by it, as long as
\* no other scan of the store overwrites the stamp.
SeenIsNotArchived ==
    [][\A s \in Sessions, l \in Listings :
         "overlap" \notin env /\ Archive(s) /\ l \in task[s].seen
         => status'[l] = status[l]]_vars

\* An undisturbed scan that completes with an unlimited fetch leaves exactly
\* the store's published listings active, whatever earlier scans left behind.
CompletedMirrorsStore ==
    [][\A s \in Sessions :
         Undisturbed /\ Complete(s) /\ ~task[s].limited
         => {l \in Listings : status[l] = "active"} = shown]_vars

\* app.py:289: only a session of an earlier process can be an orphan: one
\* that says "running" has a task behind it or a cancellation ahead of it,
\* through cancellations, failures and restarts.  (A cancellation that falls
\* midway can be read before and written after the task's last word.)
RunningHasTask == \A s \in Sessions :
    "midway" \notin env /\ sess[s] = "running" => Alive(s) \/ asked[s] = "running"

\* What holds of the sessions and their tasks at any time.
ScanInv == TypeOK /\ RunningHasTask

Ended == {"completed", "failed", "cancelled"}

\* A session that has ended is never revived: no late task and no late
\* cancellation makes it one that is under way.
EndedStaysEnded ==
    [][\A s \in Sessions : sess[s] \in Ended => sess'[s] \in Ended]_vars

\* Every session that runs comes to an end, however often the store says 429.
ScanEnds == \A s \in Sessions :
    "midway" \notin env /\ sess[s] = "running" ~> sess[s] \in Ended
=============================================================================
