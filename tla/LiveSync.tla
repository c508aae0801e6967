------------------------------ MODULE LiveSync ------------------------------
(***************************************************************************)
(* Live sync of one store, the source, into another, the destination: both *)
(* are scanned into snapshots, which are kept in the process and on disk   *)
(* (scanner.py, scan_cache.py); the diff of two snapshots is a plan of     *)
(* transactions (differ.py); what the user approves of it is executed by a *)
(* background job, one call to the destination after another (executor.py, *)
(* routes.py).                                                             *)
(*                                                                         *)
(* A product is named by its handle.  It has one plain field for all       *)
(* fields, tags, one variant with a price, and custom collections; images, *)
(* metafields and smart collections are left out, and scans are one step.  *)
(* The source does not change.                                             *)
(*                                                                         *)
(* `setting', chosen at the beginning, has the products and the fields the *)
(* diff is about ("products" for creating and deleting whole products) and *)
(* what else happens:                                                      *)
(*   "long"    a field can be longer than 80 characters                    *)
(*   "edit"    others change the destination while no job is between two   *)
(*             calls of one transaction                                    *)
(*   "window"  ... or at any time                                          *)
(*   "refuse"  Shopify answers a call with an error                        *)
(*   "restart" the server is restarted, scans on disk get too old          *)
(*   "overlap" an execution is requested while another request waits for   *)
(*             its access token                                            *)
(***************************************************************************)
EXTENDS Integers, FiniteSets

CONSTANTS
    Handles, Tags, Titles, Prices,
    NoTitle,
    MaxCids,      \* bound: collections a store ever has
    MaxEdits,     \* bound: changes others make
    Runs,         \* executions
    Settings      \* the settings considered

ASSUME LiveSyncAssumption ==
    /\ Prices \subseteq Nat \ {0}
    /\ NoTitle \notin Titles
    /\ MaxCids \in Nat \ {0}
    /\ MaxEdits \in Nat
    /\ \A st \in Settings : st.handles \subseteq Handles

Cids == 1..MaxCids
Values == {"a", "b", "long", "cut"}
Sides == {"source", "dest"}

VARIABLES
    shop,      \* shop[s]: what store s holds
    mem,       \* _scan_cache
    disk,      \* data/scan_cache
    plan,      \* the transactions the browser shows
    running,   \* _live_execute_state["running"]
    run,       \* run[r]: the job and its locals
    edits,     \* changes others have made
    setting

cache == <<mem, disk>>
vars == <<shop, cache, plan, running, run, edits, setting>>

Absent == [there |-> FALSE, value |-> "a", tags |-> {}, price |-> 0]
NoColls == [c \in Cids |-> NoTitle]
NoShop == [products |-> [h \in Handles |-> Absent], colls |-> NoColls, members |-> {}]
NoSnap == [shop |-> NoShop, keys |-> "none"]
NoScan == [snap |-> NoSnap, fresh |-> FALSE]

NoTxn == [kind |-> "none", handle |-> "none", value |-> "none", tags |-> {},
          price |-> 0, title |-> NoTitle, cid |-> 0]

IdleRun == [pc |-> "idle", todo |-> {}, cur |-> NoTxn, got |-> Absent,
            resolved |-> [t \in Titles |-> 0], known |-> {}, whole |-> FALSE, had |-> {}]

Happens(e) == e \in setting.env

\* The stores a setting begins with: they differ in what the diff is about.
Varies(st, f, S, default) == IF f \in st.fields THEN S ELSE {default}

ProductsOf(st) ==
    [there : Varies(st, "products", BOOLEAN, TRUE),
     value : Varies(st, "value", {"a", "b"} \cup (IF "long" \in st.env THEN {"long"} ELSE {}), "a"),
     tags : Varies(st, "tags", SUBSET Tags, {}),
     price : Varies(st, "variants", Prices \cup {0}, 0)]

Shops(st) ==
    {[products |-> [h \in Handles |-> IF h \in st.handles THEN p[h] ELSE Absent],
      colls |-> [NoColls EXCEPT ![1] = t],
      members |-> {1} \X hs] :
        p \in [st.handles -> ProductsOf(st)],
        t \in Varies(st, "collections", Titles \cup {NoTitle}, NoTitle),
        hs \in Varies(st, "collections", SUBSET st.handles, {})}

WellFormed(sh) ==
    \A m \in sh.members : sh.colls[m[1]] # NoTitle /\ sh.products[m[2]].there

Init ==
    \E st \in Settings :
        /\ setting = st
        /\ shop \in [Sides -> {sh \in Shops(st) : WellFormed(sh)}]
        /\ mem = [s \in Sides |-> NoSnap]
        /\ disk = [s \in Sides |-> NoScan]
        /\ plan = {}
        /\ running = FALSE
        /\ run = [r \in Runs |-> IdleRun]
        /\ edits = 0

dest == shop["dest"]

-----------------------------------------------------------------------------
(* Scans *)

Taken(s) == [shop |-> shop[s], keys |-> "number"]

\* shopify_live_scan, or the scan on demand of a diff: the snapshot is kept in
\* the process and written to disk, if that succeeds.
Scan(s) ==
    /\ mem' = [mem EXCEPT ![s] = Taken(s)]
    /\ \/ disk' = [disk EXCEPT ![s] = [snap |-> Taken(s), fresh |-> TRUE]]
       \/ Happens("restart") /\ UNCHANGED disk
    /\ UNCHANGED <<shop, plan, running, run, edits, setting>>

\* A diff finds a fresh snapshot on disk.  JSON has made the ids that are keys
\* of dictionaries strings.
LoadSnapshot(s) ==
    /\ mem[s] = NoSnap
    /\ disk[s].fresh
    /\ mem' = [mem EXCEPT ![s] = [disk[s].snap EXCEPT !.keys = "string"]]
    /\ UNCHANGED <<shop, disk, plan, running, run, edits, setting>>

\* MAX_AGE_DAYS pass.
Age(s) ==
    /\ Happens("restart")
    /\ disk[s].fresh
    /\ disk' = [disk EXCEPT ![s].fresh = FALSE]
    /\ UNCHANGED <<shop, mem, plan, running, run, edits, setting>>

-----------------------------------------------------------------------------
(* diff_stores *)

\* product_collections.get(id): the ids of a snapshot read from disk are not
\* found.
Memberships(snap, h) ==
    IF snap.keys = "number" THEN {c \in Cids : <<c, h>> \in snap.shop.members} ELSE {}

CollectionTitled(sh, t) == {c \in Cids : sh.colls[c] = t}

\* _short
Short(v) == IF v = "long" THEN "cut" ELSE v

Txn(k, h) == [NoTxn EXCEPT !.kind = k, !.handle = h]

\* The transactions for a product that both snapshots have.
Updates(s, d, h) ==
    LET p == s.shop.products[h]
        q == d.shop.products[h]
        titles == {s.shop.colls[c] : c \in Memberships(s, h)}
        \* the last one wins
        Target(t) == CHOOSE c \in CollectionTitled(d.shop, t) :
                        \A b \in CollectionTitled(d.shop, t) : b <= c
        missing == {t \in titles : CollectionTitled(d.shop, t) = {}}
        joined == {Target(t) : t \in titles \ missing} \ Memberships(d, h)
    IN
    (IF "value" \in setting.fields /\ p.value # q.value
     THEN {[Txn("field", h) EXCEPT !.value = Short(p.value)]} ELSE {})
    \cup (IF "tags" \in setting.fields /\ p.tags \ q.tags # {}
          THEN {[Txn("tags_add", h) EXCEPT !.tags = p.tags \ q.tags]} ELSE {})
    \cup (IF "tags" \in setting.fields /\ q.tags \ p.tags # {}
          THEN {[Txn("tags_remove", h) EXCEPT !.tags = q.tags \ p.tags]} ELSE {})
    \cup (IF "variants" \in setting.fields /\ p.price \notin {0, q.price}
          THEN {[Txn(IF q.price = 0 THEN "variant" ELSE "price", h)
                    EXCEPT !.price = p.price]} ELSE {})
    \cup (IF "collections" \in setting.fields
          THEN {[Txn("collection", h) EXCEPT !.title = t] : t \in missing}
                 \cup {[Txn("member", h) EXCEPT !.cid = c] : c \in joined}
          ELSE {})

In(snap) == {h \in Handles : snap.shop.products[h].there}

DiffStores(s, d) ==
    (UNION {Updates(s, d, h) : h \in In(s) \cap In(d)})
    \cup (IF "products" \in setting.fields
          THEN {Txn("create", h) : h \in In(s) \ In(d)}
                 \cup {Txn("delete", h) : h \in In(d) \ In(s)}
          ELSE {})

Diff ==
    /\ \A s \in Sides : mem[s] # NoSnap
    /\ plan' = DiffStores(mem["source"], mem["dest"])
    /\ UNCHANGED <<shop, cache, running, run, edits, setting>>

\* What a diff of scans taken now would say.
LiveDiff == DiffStores(Taken("source"), Taken("dest"))

\* The queue is sorted by risk.
Risk(t) == CASE t.kind \in {"create", "tags_add", "variant", "member"} -> 0
             [] t.kind \in {"field", "collection"} -> 1
             [] t.kind \in {"tags_remove", "price"} -> 2
             [] t.kind = "delete" -> 3

-----------------------------------------------------------------------------
(* shopify_live_execute *)

\* Nothing runs and something is approved: the access token is awaited.
Request(r, approved) ==
    /\ run[r].pc = "idle"
    /\ ~running
    /\ Happens("overlap") \/ \A q \in Runs : run[q].pc # "token"
    /\ approved # {} /\ approved \subseteq plan
    /\ run' = [run EXCEPT ![r].pc = "token", ![r].todo = approved]
    /\ UNCHANGED <<shop, cache, plan, running, edits, setting>>

\* There is no token: 4xx.
TokenFails(r) ==
    /\ Happens("refuse")
    /\ run[r].pc = "token"
    /\ run' = [run EXCEPT ![r] = [IdleRun EXCEPT !.pc = "done"]]
    /\ UNCHANGED <<shop, cache, plan, running, edits, setting>>

\* The job is created.  A queue with collections to create has the
\* destination's products listed first.  (whole and had, a history: all that
\* differs is approved; what the destination had.)
Start(r) ==
    /\ run[r].pc = "token"
    /\ running' = TRUE
    /\ run' = [run EXCEPT
         ![r].pc = IF \E t \in run[r].todo : t.kind = "collection" THEN "list" ELSE "next",
         ![r].whole = (run[r].todo = LiveDiff),
         ![r].had = In(Taken("dest"))]
    /\ UNCHANGED <<shop, cache, plan, edits, setting>>

List(r) ==
    /\ run[r].pc = "list"
    /\ run' = [run EXCEPT ![r].pc = "next"]
    /\ UNCHANGED <<shop, cache, plan, running, edits, setting>>

\* Mutant of End: a job that raises keeps "running".
EndOnlyWhenEmpty(r) ==
    /\ \/ run[r].pc = "next" /\ run[r].todo = {} /\ running' = FALSE
       \/ run[r].pc = "list" /\ Happens("refuse") /\ UNCHANGED running
    /\ run' = [run EXCEPT ![r] = [IdleRun EXCEPT !.pc = "done"]]
    /\ UNCHANGED <<shop, cache, plan, edits, setting>>

\* The queue is empty, or the listing has failed: the job has ended.
End(r) ==
    /\ \/ run[r].pc = "next" /\ run[r].todo = {}
       \/ run[r].pc = "list" /\ Happens("refuse")
    /\ running' = FALSE
    /\ run' = [run EXCEPT ![r] = [IdleRun EXCEPT !.pc = "done"]]
    /\ UNCHANGED <<shop, cache, plan, edits, setting>>

-----------------------------------------------------------------------------
(* execute_transactions: every await is a step *)

Dropped(r, t) == [run[r] EXCEPT !.pc = "next", !.todo = @ \ {t}, !.cur = NoTxn,
                                !.got = Absent]

\* t is next in the queue: among those of one risk, which the queue has by
\* handle, any can be.
First(r, t) ==
    /\ run[r].pc = "next"
    /\ t \in run[r].todo
    /\ \A u \in run[r].todo : Risk(t) <= Risk(u)

\* A call is refused: the transaction is reported as an error, the next follows.
CallFails(r, t) ==
    /\ \/ First(r, t)
       \/ t = run[r].cur /\ run[r].pc \in {"put", "find", "make", "add"}
    /\ Happens("refuse")
    /\ run' = [run EXCEPT ![r] = Dropped(r, t)]
    /\ UNCHANGED <<shop, cache, plan, running, edits, setting>>

\* One call that does it all.  On a product that is gone, or for a membership
\* that exists, Shopify answers with an error.
OneCall(r, t) ==
    LET h == t.handle
        p == dest.products[h]
        q == CASE t.kind = "create" ->
                    IF p.there THEN p ELSE [Absent EXCEPT !.there = TRUE]
               [] t.kind = "delete" -> Absent
               [] t.kind = "field" -> IF p.there THEN [p EXCEPT !.value = t.value] ELSE p
               [] t.kind = "member" -> p
        ms == CASE t.kind = "delete" -> {m \in dest.members : m[2] # h}
                [] t.kind = "member" /\ p.there -> dest.members \cup {<<t.cid, h>>}
                [] OTHER -> dest.members
    IN
    /\ t.kind \in {"create", "delete", "field", "member"}
    /\ First(r, t)
    /\ shop' = [shop EXCEPT !["dest"].products[h] = q, !["dest"].members = ms]
    /\ run' = [run EXCEPT ![r] = Dropped(r, t)]
    /\ UNCHANGED <<cache, plan, running, edits, setting>>

\* Mutant of Get: the product of the scan will do.
GetFromSnapshot(r, t) ==
    /\ t.kind \in {"tags_add", "tags_remove", "variant", "price"}
    /\ First(r, t)
    /\ run' = [run EXCEPT ![r].pc = "put", ![r].cur = t,
                          ![r].got = mem["dest"].shop.products[t.handle]]
    /\ UNCHANGED <<shop, cache, plan, running, edits, setting>>

\* Tags and variants: the product is read ...
Get(r, t) ==
    /\ t.kind \in {"tags_add", "tags_remove", "variant", "price"}
    /\ First(r, t)
    /\ run' = [run EXCEPT ![r] =
                 IF dest.products[t.handle].there
                 THEN [@ EXCEPT !.pc = "put", !.cur = t, !.got = dest.products[t.handle]]
                 ELSE Dropped(r, t)]
    /\ UNCHANGED <<shop, cache, plan, running, edits, setting>>

\* Mutant of Changed: the tags the plan wants, as for a plain field.
ChangedAsPlanned(p, t) ==
    CASE t.kind \in {"tags_add", "tags_remove"} ->
            [p EXCEPT !.tags = shop["source"].products[t.handle].tags]
      [] t.kind = "variant" -> IF p.price = 0 THEN [p EXCEPT !.price = t.price] ELSE p
      [] t.kind = "price" -> IF p.price = 0 THEN p ELSE [p EXCEPT !.price = t.price]

\* What a transaction makes of a product.  Shopify refuses a variant that exists.
Changed(p, t) ==
    CASE t.kind = "tags_add" -> [p EXCEPT !.tags = @ \cup t.tags]
      [] t.kind = "tags_remove" -> [p EXCEPT !.tags = @ \ t.tags]
      [] t.kind = "variant" -> IF p.price = 0 THEN [p EXCEPT !.price = t.price] ELSE p
      [] t.kind = "price" -> IF p.price = 0 THEN p ELSE [p EXCEPT !.price = t.price]

\* ... and its tags, or its variants, are written as a whole.
Put(r) ==
    LET t == run[r].cur
        h == t.handle
        p == dest.products[h]
        new == Changed(run[r].got, t)
        q == IF t.kind \in {"tags_add", "tags_remove"} THEN [p EXCEPT !.tags = new.tags]
             ELSE [p EXCEPT !.price = new.price]
    IN
    /\ run[r].pc = "put"
    /\ shop' = [shop EXCEPT !["dest"].products[h] = IF p.there THEN q ELSE p]
    /\ run' = [run EXCEPT ![r] = Dropped(r, t)]
    /\ UNCHANGED <<cache, plan, running, edits, setting>>

\* Mutant of Resolve: a collection that the plan misses is not looked up.
ResolveUnseen(r, t) ==
    /\ t.kind = "collection"
    /\ First(r, t)
    /\ run' = [run EXCEPT ![r].cur = t,
                          ![r].pc = IF run[r].resolved[t.title] = 0 THEN "make" ELSE "add"]
    /\ UNCHANGED <<shop, cache, plan, running, edits, setting>>

\* _resolve_collection, once for every title ...
Resolve(r, t) ==
    /\ t.kind = "collection"
    /\ First(r, t)
    /\ run' = [run EXCEPT ![r].cur = t,
                          ![r].pc = IF run[r].resolved[t.title] = 0 THEN "find" ELSE "add"]
    /\ UNCHANGED <<shop, cache, plan, running, edits, setting>>

Resolved(r, c) == [run EXCEPT ![r].pc = "collects", ![r].resolved[run[r].cur.title] = c]

\* ... looks for the collection in the store, ...
Find(r) ==
    LET found == CollectionTitled(dest, run[r].cur.title) IN
    /\ run[r].pc = "find"
    /\ \/ found = {} /\ run' = [run EXCEPT ![r].pc = "make"]
       \/ \E c \in found : run' = Resolved(r, c)
    /\ UNCHANGED <<shop, cache, plan, running, edits, setting>>

Free == CollectionTitled(dest, NoTitle)
NewCid == CHOOSE c \in Free : \A b \in Free : c <= b

\* ... creates it ...
Make(r) ==
    /\ run[r].pc = "make"
    /\ Free # {}
    /\ shop' = [shop EXCEPT !["dest"].colls[NewCid] = run[r].cur.title]
    /\ run' = Resolved(r, NewCid)
    /\ UNCHANGED <<cache, plan, running, edits, setting>>

\* ... and reads its members, or takes it to have none if that fails.
Collects(r) ==
    LET c == run[r].resolved[run[r].cur.title]
        members == {m \in dest.members : m[1] = c}
    IN
    /\ run[r].pc = "collects"
    /\ \E ms \in {members} \cup (IF Happens("refuse") THEN {{}} ELSE {}) :
          run' = [run EXCEPT ![r].pc = "add", ![r].known = @ \cup ms]
    /\ UNCHANGED <<shop, cache, plan, running, edits, setting>>

\* The product joins the collection, unless it is known to be a member.
Add(r) ==
    LET t == run[r].cur
        m == <<run[r].resolved[t.title], t.handle>>
        joins == m \notin run[r].known /\ dest.products[t.handle].there
    IN
    /\ run[r].pc = "add"
    /\ shop' = [shop EXCEPT !["dest"].members = IF joins THEN @ \cup {m} ELSE @]
    /\ run' = [run EXCEPT ![r] = [Dropped(r, t) EXCEPT
                 !.known = IF joins THEN @ \cup {m} ELSE @]]
    /\ UNCHANGED <<cache, plan, running, edits, setting>>

Transaction(r) ==
    \/ \E t \in run[r].todo : OneCall(r, t) \/ Get(r, t) \/ Resolve(r, t) \/ CallFails(r, t)
    \/ List(r) \/ Put(r) \/ Find(r) \/ Make(r) \/ Collects(r) \/ Add(r)

-----------------------------------------------------------------------------
(* Everybody else *)

MayEdit ==
    /\ edits < MaxEdits
    /\ \/ Happens("window")
       \/ Happens("edit") /\ \A r \in Runs : run[r].pc \in {"idle", "token", "list", "next", "done"}

Edited(sh) ==
    /\ MayEdit
    /\ sh # dest
    /\ shop' = [shop EXCEPT !["dest"] = sh]
    /\ edits' = edits + 1
    /\ UNCHANGED <<cache, plan, running, run, setting>>

\* Others retag a product or delete it, ...
EditProduct(h, ts) ==
    /\ dest.products[h].there
    /\ Edited([dest EXCEPT !.products[h].tags = ts])

DeleteProduct(h) ==
    /\ dest.products[h].there
    /\ Edited([dest EXCEPT !.products[h] = Absent,
                           !.members = {m \in @ : m[2] # h}])

\* ... or create a collection that the store does not have.
CreateCollection(t) ==
    /\ Free # {}
    /\ CollectionTitled(dest, t) = {}
    /\ Edited([dest EXCEPT !.colls[NewCid] = t])

\* A new process: no snapshots in memory, no jobs.
Restart ==
    /\ Happens("restart")
    /\ mem' = [s \in Sides |-> NoSnap]
    /\ running' = FALSE
    /\ run' = [r \in Runs |-> IF run[r].pc = "idle" THEN IdleRun
                              ELSE [IdleRun EXCEPT !.pc = "done"]]
    /\ UNCHANGED <<shop, disk, plan, edits, setting>>

Job(r) == Start(r) \/ TokenFails(r) \/ Transaction(r) \/ End(r)

Next ==
    \/ \E s \in Sides : Scan(s) \/ LoadSnapshot(s) \/ Age(s)
    \/ Diff
    \/ \E r \in Runs : Job(r) \/ \E approved \in SUBSET plan : Request(r, approved)
    \/ \E h \in Handles : DeleteProduct(h) \/ \E ts \in SUBSET Tags : EditProduct(h, ts)
    \/ \E t \in Titles : CreateCollection(t)
    \/ Restart

Spec == Init /\ [][Next]_vars

\* A job goes on: calls time out.
FairSpec == Spec /\ \A r \in Runs : WF_vars(Job(r))

-----------------------------------------------------------------------------
(* Properties *)

Product == [there : BOOLEAN, value : Values, tags : SUBSET Tags, price : Prices \cup {0}]
Shop == [products : [Handles -> Product], colls : [Cids -> Titles \cup {NoTitle}],
         members : SUBSET (Cids \X Handles)]
Snapshot == [shop : Shop, keys : {"none", "number", "string"}]
Transactions ==
    [kind : {"create", "field", "tags_add", "tags_remove", "variant", "price",
             "collection", "member", "delete"},
     handle : Handles, value : {"a", "b", "cut", "none"}, tags : SUBSET Tags,
     price : Prices \cup {0}, title : Titles \cup {NoTitle}, cid : Cids \cup {0}]

\* Stores, snapshots and jobs hold what they are meant to; a plan, which goes to
\* the browser and back, holds no value longer than 80 characters
\* (differ.py:79-81).
TypeOK ==
    /\ shop \in [Sides -> Shop]
    /\ mem \in [Sides -> Snapshot]
    /\ disk \in [Sides -> [snap : Snapshot, fresh : BOOLEAN]]
    /\ plan \subseteq Transactions
    /\ running \in BOOLEAN
    /\ run \in [Runs ->
          [pc : {"idle", "token", "list", "next", "put", "find", "make", "collects", "add", "done"},
           todo : SUBSET Transactions, cur : Transactions \cup {NoTxn}, got : Product,
           resolved : [Titles -> Cids \cup {0}], known : SUBSET (Cids \X Handles),
           whole : BOOLEAN, had : SUBSET Handles]]
    /\ edits \in 0..MaxEdits
    /\ setting \in Settings

\* Nobody gets between two calls of one transaction.
Undivided == ~Happens("window") /\ ~Happens("overlap")

\* executor.py:2: when all that differs has been approved and executed, nothing
\* differs any more on the products that the destination had, none is missing and
\* none is too many, in whatever order the transactions touch a product: as long as
\* nobody else changes it, no call fails and no value is longer than a plan shows.
SyncConverges ==
    [][setting.env \subseteq {"restart"} => \A r \in Runs :
         End(r) /\ run[r].whole =>
            \A t \in LiveDiff : t.kind \notin {"create", "delete"} /\ t.handle \notin run[r].had]_vars

\* executor.py:115-122: tags are merged with what the product has now, not with
\* what the plan has seen: whatever others did since the scan, a tag comes and
\* goes only when the transaction is about it, and the rest of the product stays.
PutKeepsOthers ==
    [][Undivided => \A r \in Runs : Put(r) =>
         LET t == run[r].cur
             p == dest.products[t.handle]
             q == shop'["dest"].products[t.handle]
         IN
         /\ \A x \in Tags \ t.tags : x \in q.tags <=> x \in p.tags
         /\ p.there => \A x \in t.tags : x \in q.tags <=> t.kind = "tags_add"
         /\ t.tags # {} => q = [p EXCEPT !.tags = q.tags]]_vars

\* executor.py:209-212: collections are created or reused, never doubled, for
\* any number of products, executions and collections that others create after
\* the scan.
OneCollectionPerTitle ==
    Undivided => \A t \in Titles : Cardinality(CollectionTitled(dest, t)) <= 1

\* What holds of the stores and the executions at any time.
SyncInv == TypeOK /\ OneCollectionPerTitle

\* routes.py:2811-2812: an execution never leaves "running" behind, however many of
\* its calls fail: the next one can start.
ExecutionEnds == running ~> ~running
=============================================================================
