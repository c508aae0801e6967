------------------------------ MODULE EditPush ------------------------------
(***************************************************************************)
(* The Edit Products page: edits are staged in the page against the rows   *)
(* of the last scan, turned into transactions (edit_products.py,           *)
(* build_edit_transactions) and pushed to the stores by one background job *)
(* (routes.py, edit_products_execute) through the executor (executor.py,   *)
(* its UPDATE branches), while the page polls for the results (app.js).    *)
(* There is one job at a time and one state of it for all pages; the live  *)
(* sync has a gate of its own, so that its execution, like the stores'     *)
(* owners, may write between the GET and the PUT of a push: `Rival'.       *)
(*                                                                         *)
(* Each store has one product.  An edit is named by its change_id, here    *)
(* the cell <<store, field, variant>>.                                     *)
(*                                                                         *)
(* Env: "rival" others write to the stores; "fail" calls fail; "raise" a   *)
(* whole store fails inside the executor; "restart" the server restarts;   *)
(* "meddle" cells are edited again, or another page pushes, during a push. *)
(***************************************************************************)
EXTENDS Naturals, FiniteSets

CONSTANTS
    Pages,
    Stores,
    Unscanned,       \* the stores whose rows come from the database
    Labels,          \* tags, and titles of collections
    Variants,
    Values,          \* titles, prices, categories
    Gone,            \* the price of a variant that is not there
    None,
    MaxWrites,       \* bound: writes of others
    MaxPushes,       \* bound: pushes
    Scopes           \* what is looked at: [cells, pages, env]

Lists == {"tags", "collections"}
Cells == (Stores \X (Lists \cup {"title", "category"}) \X {None})
           \cup (Stores \X {"price"} \X Variants)

ASSUME EditPushAssumption ==
    /\ Unscanned \subseteq Stores
    /\ Gone \notin Values
    /\ IsFiniteSet(Cells)
    /\ MaxWrites \in Nat /\ MaxPushes \in Nat
    /\ \A sc \in Scopes : sc.cells \subseteq Cells /\ sc.pages \subseteq Pages

Product == [tags : SUBSET Labels, collections : SUBSET Labels, title : Values,
            category : Values, price : [Variants -> Values \cup {Gone}]]

VARIABLES
    scope,       \* chosen at the start
    live,        \* live[s]: the product of store s
    scanned,     \* scanned[s]: the product as the last scan saw it
    edits,       \* edits[p][c]: the value staged for cell c, or None
    poll,        \* the pages that poll for the end of a push
    exec,        \* _edit_execute_state
    job,         \* the background job: what is left to do and where it is
    writes,      \* writes of others so far
    pushes,      \* pushes so far
    applied,     \* history: [cell, to]: what pushes have put into a store, or
                 \* have passed over as its variant was gone
    meddled      \* history: the pages that edited on, or whose job was
                 \* followed by another page's, before their results came

vars == <<scope, live, scanned, edits, poll, exec, job, writes, pushes, applied, meddled>>

Env == scope.env

-----------------------------------------------------------------------------
(* Changes and transactions *)

\* editBuildChanges: what was there, what is to be there.
Cell(product, c) == IF c[2] = "price" THEN product.price[c[3]] ELSE product[c[2]]
Changes(p) ==
    {[cell |-> c, old |-> Cell(scanned[c[1]], c), new |-> edits[p][c]] :
        c \in {c \in Cells : edits[p][c] # None}}

\* build_edit_transactions: only rows of a scan, and no category.
Pushable(ch) == ch.cell[1] \notin Unscanned /\ ch.cell[2] # "category"

\* The transaction of a list is a difference, any other a value.
Adds(ch) == ch.new \ ch.old
Removes(ch) == ch.old \ ch.new

Idle == [at |-> "idle", todo |-> {}, store |-> None, out |-> {}, saw |-> None,
         txn |-> None, add |-> {}, remove |-> {}, due |-> {}]
NotExecuting == [running |-> FALSE, finished |-> FALSE, done |-> 0, total |-> 0,
                 ok |-> 0, errors |-> 0, skipped |-> 0, results |-> {}, asked |-> {}]

Init ==
    /\ scope \in Scopes
    /\ \E l \in Labels, v \in Values :
          live = [s \in Stores |-> [tags |-> {l}, collections |-> {l}, title |-> v, category |-> v,
                                    price |-> [x \in Variants |-> v]]]
    /\ scanned = live
    /\ edits = [p \in Pages |-> [c \in Cells |-> None]]
    /\ poll = {}
    /\ exec = NotExecuting
    /\ job = Idle
    /\ writes = 0
    /\ pushes = 0
    /\ applied = {}
    /\ meddled = {}

Result(c, status) == [cell |-> c, status |-> status]

-----------------------------------------------------------------------------
(* Pages *)

Offered(c) ==
    CASE c[2] \in Lists -> SUBSET Labels
      [] OTHER -> Values

\* _editSet: the scanned value is no edit.
Stage(p, c, v) ==
    /\ p \in poll => "meddle" \in Env
    /\ c \in scope.cells
    /\ edits' = [edits EXCEPT ![p][c] = IF v = Cell(scanned[c[1]], c) THEN None ELSE v]
    /\ meddled' = IF p \in poll THEN meddled \cup {p} ELSE meddled
    /\ UNCHANGED <<scope, live, scanned, poll, exec, job, writes, pushes, applied>>

\* edit_products_execute, up to its create_task: the check and the new state
\* lie between two awaits.
Execute(p) ==
    LET asked == Changes(p)
        push == {ch \in asked : Pushable(ch)}
        skipped == {Result(ch.cell, "skipped") : ch \in asked \ push}
    IN
    /\ p \notin poll
    /\ push # {}
    /\ ~exec.running
    /\ pushes < MaxPushes
    /\ pushes' = pushes + 1
    /\ poll # {} => "meddle" \in Env
    /\ exec' = [NotExecuting EXCEPT !.running = TRUE, !.total = Cardinality(push),
                  !.skipped = Cardinality(skipped), !.results = skipped, !.asked = asked]
    /\ job' = [Idle EXCEPT !.at = "stores", !.todo = push]
    /\ poll' = poll \cup {p}
    /\ meddled' = (meddled \cup poll) \ {p}
    /\ UNCHANGED <<scope, live, scanned, edits, writes, applied>>

\* Nothing can be pushed: the page gets no results and its edits stay.
NothingToPush(p) ==
    LET asked == Changes(p) IN
    /\ p \notin poll
    /\ asked # {} /\ \A ch \in asked : ~Pushable(ch)
    /\ ~exec.running
    /\ pushes < MaxPushes
    /\ pushes' = pushes + 1
    /\ poll # {} => "meddle" \in Env
    /\ exec' = [NotExecuting EXCEPT !.finished = TRUE, !.skipped = Cardinality(asked),
                  !.results = {Result(ch.cell, "skipped") : ch \in asked}, !.asked = asked]
    /\ meddled' = meddled \cup poll
    /\ UNCHANGED <<scope, live, scanned, edits, poll, job, writes, applied>>

\* _editPoll, _editApplyResults: once finished, the edits with an ok are dropped,
\* whatever is staged for them by now.
Poll(p) ==
    /\ p \in poll
    /\ exec.finished
    /\ edits' = [edits EXCEPT ![p] = [c \in Cells |->
                    IF Result(c, "ok") \in exec.results THEN None ELSE @[c]]]
    /\ poll' = poll \ {p}
    /\ meddled' = meddled \ {p}
    /\ UNCHANGED <<scope, live, scanned, exec, job, writes, pushes, applied>>

-----------------------------------------------------------------------------
(* The job *)

Of(s) == {ch \in job.todo : ch.cell[1] = s}
Running == UNCHANGED <<scope, scanned, edits, poll, writes, pushes, meddled>>
Reading == live' = live /\ applied' = applied /\ Running

\* The next store of by_store.
NextStore(s) ==
    /\ job.at = "stores"
    /\ Of(s) # {}
    /\ job' = [job EXCEPT !.at = "connect", !.store = s]
    /\ UNCHANGED exec
    /\ Reading

\* Mutant of NoCredentials: the failed changes are not counted.
NoCredentialsUncounted ==
    LET failed == {Result(ch.cell, "error") : ch \in Of(job.store)} IN
    /\ "fail" \in Env
    /\ job.at = "connect"
    /\ exec' = [exec EXCEPT !.results = @ \cup failed]
    /\ job' = [job EXCEPT !.at = "stores", !.store = None, !.todo = @ \ Of(job.store)]
    /\ Reading

\* _fail_store: the store has no usable credentials.
NoCredentials ==
    LET failed == {Result(ch.cell, "error") : ch \in Of(job.store)} IN
    /\ "fail" \in Env
    /\ job.at = "connect"
    /\ exec' = [exec EXCEPT !.results = @ \cup failed, !.done = @ + Cardinality(failed),
                  !.errors = @ + Cardinality(failed)]
    /\ job' = [job EXCEPT !.at = "stores", !.store = None, !.todo = @ \ Of(job.store)]
    /\ Reading

\* The executor raises before its first transaction: errors, not counted.
ExecutorRaises ==
    /\ "raise" \in Env
    /\ job.at = "connect"
    /\ exec' = [exec EXCEPT !.results = @ \cup {Result(ch.cell, "error") : ch \in Of(job.store)}]
    /\ job' = [job EXCEPT !.at = "stores", !.store = None, !.todo = @ \ Of(job.store)]
    /\ Reading

Connected ==
    /\ job.at = "connect"
    /\ job' = [job EXCEPT !.at = "next"]
    /\ UNCHANGED exec
    /\ Reading

\* execute_transactions takes a transaction; a title needs no GET.
NextTxn(ch) ==
    /\ job.at = "next"
    /\ ch \in Of(job.store)
    /\ job' = [job EXCEPT !.txn = ch, !.todo = @ \ {ch},
                 !.at = CASE ch.cell[2] = "collections" -> "collections"
                          [] ch.cell[2] = "title" -> "put"
                          [] OTHER -> "get",
                 !.add = IF ch.cell[2] = "collections" THEN Adds(ch) ELSE {},
                 !.remove = IF ch.cell[2] = "collections" THEN Removes(ch) ELSE {}]
    /\ UNCHANGED exec
    /\ Reading

Get ==
    /\ job.at = "get"
    /\ job' = [job EXCEPT !.at = "put", !.saw = live[job.store]]
    /\ UNCHANGED exec
    /\ Reading

\* A transaction is over: its result is kept, _progress counts it.
TxnEnds(status) ==
    /\ job' = [job EXCEPT !.at = "next", !.txn = None, !.saw = None,
                 !.add = {}, !.remove = {}, !.due = {},
                 !.out = @ \cup {Result(job.txn.cell, status)}]
    /\ exec' = [exec EXCEPT !.done = @ + 1,
                  !.ok = IF status = "ok" THEN @ + 1 ELSE @,
                  !.errors = IF status = "error" THEN @ + 1 ELSE @]

\* Mutant of CallFails: a status set before the call is kept.
CallFailsQuietly ==
    /\ "fail" \in Env
    /\ job.at \in {"get", "put", "collections"}
    /\ TxnEnds("ok")
    /\ Reading

\* A call is answered with an error, or not at all.
CallFails ==
    /\ "fail" \in Env
    /\ job.at \in {"get", "put", "collections"}
    /\ TxnEnds("error")
    /\ Reading

Applied(ch) == [cell |-> ch.cell, to |-> ch.new]

\* Mutant of Put: the tags of the page, not the difference, are written.
PutPageTags ==
    LET ch == job.txn
        s == job.store
    IN
    /\ job.at = "put"
    /\ ch.cell[2] # "price"
    /\ live' = [live EXCEPT ![s][ch.cell[2]] = ch.new]
    /\ applied' = applied \cup {Applied(ch)}
    /\ TxnEnds("ok")
    /\ Running

\* The PUT: a title; the tags that were read with the difference applied; or
\* all variants as they were read, with one price changed if its variant is
\* among them.  A variant that has gone since makes the PUT an error, one that
\* has come since is removed by it.
Put ==
    LET ch == job.txn
        s == job.store
        x == ch.cell[3]
        read == job.saw.price
    IN
    /\ job.at = "put"
    /\ live' = [live EXCEPT ![s] =
        CASE ch.cell[2] = "title" -> [@ EXCEPT !.title = ch.new]
          [] ch.cell[2] = "tags" -> [@ EXCEPT !.tags = (job.saw.tags \cup Adds(ch)) \ Removes(ch)]
          [] ch.cell[2] = "price" -> [@ EXCEPT !.price =
                IF read[x] = Gone THEN read ELSE [read EXCEPT ![x] = ch.new]]]
    /\ ch.cell[2] = "price" => \A y \in Variants : live[s].price[y] = Gone => read[y] = Gone
    /\ applied' = applied \cup {Applied(ch)}
    /\ TxnEnds("ok")
    /\ Running

\* A variant that was read has gone: the PUT names an unknown id.
PutRefused ==
    /\ job.at = "put"
    /\ job.txn.cell[2] = "price"
    /\ \E y \in Variants : live[job.store].price[y] = Gone /\ job.saw.price[y] # Gone
    /\ TxnEnds("error")
    /\ Reading

\* The memberships of a product, one after another, additions first.  A
\* collection is looked up by its title, made if it is not there and to be
\* joined, and its collects are read; what is as it should be is passed over.
LookUpMembership(l) ==
    LET joins == l \in job.add
        needed == joins # (l \in live[job.store].collections)
    IN
    /\ job.at = "collections"
    /\ job.due = {}
    /\ joins \/ (job.add = {} /\ l \in job.remove)
    /\ job' = IF needed THEN [job EXCEPT !.due = {l}]
              ELSE [job EXCEPT !.add = @ \ {l}, !.remove = @ \ {l}]
    /\ UNCHANGED exec
    /\ Reading

\* ... the call for what is not.
AddMembership(l) ==
    /\ job.at = "collections"
    /\ job.due = {l} /\ l \in job.add
    /\ l \notin live[job.store].collections
    /\ live' = [live EXCEPT ![job.store].collections = @ \cup {l}]
    /\ job' = [job EXCEPT !.add = @ \ {l}, !.due = {}]
    /\ UNCHANGED <<exec, applied>>
    /\ Running

RemoveMembership(l) ==
    /\ job.at = "collections"
    /\ job.due = {l} /\ l \in job.remove
    /\ l \in live[job.store].collections
    /\ live' = [live EXCEPT ![job.store].collections = @ \ {l}]
    /\ job' = [job EXCEPT !.remove = @ \ {l}, !.due = {}]
    /\ UNCHANGED <<exec, applied>>
    /\ Running

\* Somebody else has made the call since the look-up: the collect is there
\* already, or has gone, and the transaction ends with an error.
MembershipRefused(l) ==
    /\ job.at = "collections"
    /\ job.due = {l}
    /\ (l \in job.add) = (l \in live[job.store].collections)
    /\ TxnEnds("error")
    /\ Reading

MembershipsDone ==
    /\ job.at = "collections"
    /\ job.add = {} /\ job.remove = {}
    /\ applied' = applied \cup {Applied(job.txn)}
    /\ TxnEnds("ok")
    /\ UNCHANGED live
    /\ Running

\* The executor returns: only now are the store's results in the state.
StoreDone ==
    /\ job.at = "next"
    /\ Of(job.store) = {}
    /\ exec' = [exec EXCEPT !.results = @ \cup job.out]
    /\ job' = [job EXCEPT !.at = "stores", !.store = None, !.out = {}]
    /\ Reading

\* Mutant of JobEnds: after an error the state is not reset.
JobEndsClean ==
    /\ job.at = "stores"
    /\ job.todo = {}
    /\ exec.errors = 0
    /\ exec' = [exec EXCEPT !.running = FALSE, !.finished = TRUE]
    /\ job' = Idle
    /\ Reading

JobEnds ==
    /\ job.at = "stores"
    /\ job.todo = {}
    /\ exec' = [exec EXCEPT !.running = FALSE, !.finished = TRUE]
    /\ job' = Idle
    /\ Reading

Job ==
    \/ \E s \in Stores : NextStore(s)
    \/ NoCredentials \/ ExecutorRaises \/ Connected
    \/ \E ch \in job.todo : NextTxn(ch)
    \/ Get \/ CallFails \/ Put \/ PutRefused
    \/ \E l \in Labels : \/ LookUpMembership(l) \/ MembershipRefused(l)
                         \/ AddMembership(l) \/ RemoveMembership(l)
    \/ MembershipsDone \/ StoreDone \/ JobEnds

-----------------------------------------------------------------------------
(* Others *)

\* The live sync's execution, or the store's owner.
Rival(s) ==
    /\ "rival" \in Env
    /\ writes < MaxWrites
    /\ writes' = writes + 1
    /\ \/ \E f \in Lists, T \in SUBSET Labels : live' = [live EXCEPT ![s][f] = T]
       \/ \E x \in Variants, v \in Values \cup {Gone} : live' = [live EXCEPT ![s].price[x] = v]
    /\ UNCHANGED <<scope, scanned, edits, poll, exec, job, pushes, applied, meddled>>

\* The job and its state are gone; pages poll on.
Restart ==
    /\ "restart" \in Env
    /\ exec' = NotExecuting
    /\ job' = Idle
    /\ UNCHANGED <<scope, live, scanned, edits, poll, writes, pushes, applied, meddled>>

Next ==
    \/ \E p \in scope.pages :
          \/ \E c \in scope.cells : \E v \in Offered(c) : Stage(p, c, v)
          \/ Execute(p) \/ NothingToPush(p) \/ Poll(p)
    \/ Job
    \/ \E s \in Stores : Rival(s)
    \/ Restart

Spec == Init /\ [][Next]_vars

\* The event loop runs the job, calls end; a page polls every 1.2 seconds.
FairSpec == Spec /\ WF_vars(Job) /\ \A p \in Pages : WF_vars(Poll(p))

-----------------------------------------------------------------------------
(* Properties *)

\* The stores, the pages, the shared state and the job hold what they are meant
\* to.
TypeOK ==
    /\ scope \in Scopes
    /\ live \in [Stores -> Product] /\ scanned \in [Stores -> Product]
    /\ \A p \in Pages, c \in Cells : edits[p][c] \in Offered(c) \cup {None}
    /\ poll \subseteq Pages /\ meddled \subseteq Pages
    /\ exec.running => ~exec.finished
    /\ {exec.done, exec.ok, exec.errors} \subseteq 0..exec.total
    /\ job.at \in {"idle", "stores", "connect", "next", "get", "put", "collections"}
    /\ job.at \notin {"idle", "stores"} => job.store \in Stores
    /\ writes \in 0..MaxWrites /\ pushes \in 0..MaxPushes

\* test_edit_products.py:394 "every change accounted for by change_id": a push
\* that is over has exactly one result for every change that was asked for, and
\* its counters agree with the results, except that a store that failed as a
\* whole inside the executor is missing from them.
EveryChangeAccounted ==
    exec.finished =>
        /\ \A ch \in exec.asked : Cardinality({x \in exec.results : x.cell = ch.cell}) = 1
        /\ exec.skipped + exec.total = Cardinality(exec.asked)
        /\ exec.ok = Cardinality({x \in exec.results : x.status = "ok"})
        /\ "raise" \notin Env =>
              exec.done = exec.total /\ exec.errors = Cardinality({x \in exec.results : x.status = "error"})

\* What holds of the stores and the push at any time.
PushInv == TypeOK /\ EveryChangeAccounted

\* app.js:1605: an edit disappears from the page only when a push has put that
\* value into the store or has found its variant gone, however the push went,
\* unless the page edited on or another page's push came before its results.
NoEditLost ==
    [][\A p \in Pages, c \in Cells :
          edits[p][c] # None /\ edits'[p][c] = None /\ p \notin meddled /\ Poll(p) =>
              [cell |-> c, to |-> edits[p][c]] \in applied]_vars

\* executor.py:113,120: what a push writes into a product is what its
\* transaction asks for: tags, prices and variants that are not part of it keep
\* the value they have, unless somebody else wrote to the product between the
\* GET and the PUT.
PushLeavesTheRest ==
    [][\A s \in Stores : live'[s] # live[s] /\ job' # job =>
         LET f == job.txn.cell[2] IN
         /\ \A g \in (DOMAIN live[s]) \ {f} : live'[s][g] = live[s][g]
         /\ f \in Lists /\ (f = "collections" \/ job.saw = live[s]) =>
               \A l \in Labels \ (Adds(job.txn) \cup Removes(job.txn)) :
                   (l \in live'[s][f]) = (l \in live[s][f])
         /\ f = "price" /\ job.saw = live[s] =>
               \A x \in Variants \ {job.txn.cell[3]} : live'[s].price[x] = live[s].price[x]]_vars

\* routes.py:770: a push that runs comes to an end and its page hears of it,
\* unless the server is restarted (then the page polls for ever).
PushEnds == \A p \in Pages : p \in poll /\ "restart" \notin Env ~> p \notin poll
=============================================================================
