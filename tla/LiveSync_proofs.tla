-------------------------- MODULE LiveSync_proofs --------------------------
(***************************************************************************)
(* Proofs about LiveSync: for any products, tags, titles, prices and       *)
(* number of executions, with other editors, refusals and restarts, what   *)
(* is written to a product is what it has now with the transaction's       *)
(* change, a title never gets a second collection, and what is approved as *)
(* a whole leaves nothing that differs.                                    *)
(***************************************************************************)
EXTENDS LiveSync, FiniteSetTheorems, TLAPS

RunRecs ==
    [pc : {"idle", "token", "list", "next", "put", "find", "make", "collects", "add", "done"},
     todo : SUBSET Transactions, cur : Transactions \cup {NoTxn}, got : Product,
     resolved : [Titles -> Cids \cup {0}], known : SUBSET (Cids \X Handles),
     whole : BOOLEAN, had : SUBSET Handles]

\* The transactions that diff_stores makes.
Txns == {t \in Transactions :
    /\ t.kind \notin {"tags_add", "tags_remove"} => t.tags = {}
    /\ t.kind = "collection" => t.title \in Titles
    /\ t.kind = "member" => t.cid \in Cids
    /\ t.kind = "field" => t.value \in Values}

\* A membership is one of a collection that has a title.
Named(sh) == \A m \in sh.members : sh.colls[m[1]] \in Titles
SourcesNamed == Named(shop["source"]) /\ Named(mem["source"].shop) /\ Named(disk["source"].snap.shop)

\* What a job with the locals x is about.
Purposeful(x) ==
    /\ x.todo \subseteq Txns
    /\ x.pc = "put" => x.cur \in Txns /\ x.cur.kind \in {"tags_add", "tags_remove", "variant", "price"}
    /\ x.pc \in {"find", "make", "collects", "add"} => x.cur \in Txns /\ x.cur.kind = "collection"
    /\ x.pc \in {"collects", "add"} => x.resolved[x.cur.title] \in Cids

Active(x) == x.pc \notin {"idle", "done"}

\* Where requests do not overlap there is one job, or one request, at a time, and
\* "running" says which.
Exclusive == ~Happens("overlap") =>
    /\ \A r, q \in Runs : Active(run[r]) /\ Active(run[q]) => r = q
    /\ \A r \in Runs : Active(run[r]) => (running <=> run[r].pc # "token")

\* What a job has read is still so.
UpToDate(x) ==
    /\ x.pc = "put" => dest.products[x.cur.handle].there /\ x.got = dest.products[x.cur.handle]
    /\ x.pc = "make" => CollectionTitled(dest, x.cur.title) = {}

OneEach == \A b, c \in Cids : dest.colls[b] = dest.colls[c] /\ dest.colls[b] # NoTitle => b = c

SInv ==
    /\ TypeOK /\ plan \subseteq Txns /\ SourcesNamed
    /\ \A r \in Runs : Purposeful(run[r])
    /\ Exclusive
    /\ Undivided => OneEach /\ \A r \in Runs : UpToDate(run[r])

-----------------------------------------------------------------------------
(* Types *)

LEMMA NothingTyped ==
    /\ Absent \in Product /\ NoShop \in Shop /\ NoSnap \in Snapshot
    /\ IdleRun \in RunRecs /\ Purposeful(IdleRun) /\ IdleRun.pc = "idle"
    /\ Named(NoShop) /\ NoSnap.shop = NoShop
<1>1. Absent \in Product
  BY DEF Absent, Product, Values
<1>2. NoShop \in Shop /\ Named(NoShop)
  BY <1>1 DEF NoShop, NoColls, Shop, Named
<1>3. NoSnap \in Snapshot /\ NoSnap.shop = NoShop
  BY <1>2 DEF NoSnap, Snapshot
<1>4. IdleRun \in RunRecs /\ Purposeful(IdleRun) /\ IdleRun.pc = "idle"
  BY <1>1 DEF IdleRun, RunRecs, Purposeful
<1> QED BY <1>1, <1>2, <1>3, <1>4

\* A store begins with at most one collection that has a title, and with members
\* only in that.
LEMMA FirstShops ==
    ASSUME NEW st \in Settings, NEW sh \in Shops(st), WellFormed(sh)
    PROVE  /\ sh \in Shop /\ Named(sh)
           /\ \A b, c \in Cids : sh.colls[b] = sh.colls[c] /\ sh.colls[b] # NoTitle => b = c
<1>1. st.handles \subseteq Handles /\ 1 \in Cids
  BY LiveSyncAssumption DEF Cids
<1>2. PICK p \in [st.handles -> ProductsOf(st)], t \in Titles \cup {NoTitle}, hs \in SUBSET st.handles :
         sh = [products |-> [h \in Handles |-> IF h \in st.handles THEN p[h] ELSE Absent],
               colls |-> [NoColls EXCEPT ![1] = t], members |-> {1} \X hs]
  BY SMTT(30) DEF Shops, Varies
<1>3. ProductsOf(st) \subseteq Product
  BY DEF ProductsOf, Varies, Product, Values
<1>4. sh.products \in [Handles -> Product]
  BY <1>2, <1>3, NothingTyped
<1>5. sh.colls \in [Cids -> Titles \cup {NoTitle}] /\ \A c \in Cids : c # 1 => sh.colls[c] = NoTitle
  BY <1>1, <1>2 DEF NoColls
<1>6. sh.members \in SUBSET (Cids \X Handles)
  BY <1>1, <1>2
<1>7. sh \in Shop
  BY <1>2, <1>4, <1>5, <1>6 DEF Shop
<1>8. Named(sh)
  BY <1>5, <1>6 DEF WellFormed, Named
<1> QED BY <1>5, <1>7, <1>8

LEMMA InitSInv ==
    ASSUME Init
    PROVE  SInv
<1>1. PICK st \in Settings :
         /\ setting = st /\ shop \in [Sides -> {sh \in Shops(st) : WellFormed(sh)}]
         /\ mem = [s \in Sides |-> NoSnap] /\ disk = [s \in Sides |-> NoScan]
         /\ plan = {} /\ running = FALSE /\ run = [r \in Runs |-> IdleRun] /\ edits = 0
  BY DEF Init
<1>2. \A s \in Sides : shop[s] \in Shops(st) /\ WellFormed(shop[s])
  BY <1>1
<1>3. \A s \in Sides : shop[s] \in Shop /\ Named(shop[s])
  BY <1>2, FirstShops
<1>4. OneEach
  BY <1>2, FirstShops DEF OneEach, dest, Sides
<1>5. TypeOK
  <2>1. NoScan \in [snap : Snapshot, fresh : BOOLEAN]
    BY NothingTyped DEF NoScan
  <2>2. shop \in [Sides -> Shop] /\ run \in [Runs -> RunRecs] /\ mem \in [Sides -> Snapshot]
    BY <1>1, <1>3, NothingTyped
  <2>3. edits \in 0..MaxEdits
    BY <1>1, LiveSyncAssumption
  <2> QED BY <1>1, <2>1, <2>2, <2>3 DEF TypeOK, RunRecs
<1>6. SourcesNamed
  BY <1>1, <1>3, NothingTyped DEF SourcesNamed, Sides, NoScan
<1>7. \A r \in Runs : Purposeful(run[r]) /\ ~Active(run[r]) /\ UpToDate(run[r])
  BY <1>1, NothingTyped DEF Active, UpToDate
<1> QED BY <1>1, <1>4, <1>5, <1>6, <1>7 DEF SInv, Exclusive

-----------------------------------------------------------------------------
(* Jobs *)

\* What a step starts from.
LEMMA OfRun ==
    ASSUME SInv
    PROVE  /\ dest \in Shop /\ shop \in [Sides -> Shop] /\ run \in [Runs -> RunRecs]
           /\ \A r \in Runs : run[r] \in RunRecs /\ Purposeful(run[r])
           /\ running \in BOOLEAN
BY DEF SInv, TypeOK, RunRecs, dest, Sides

\* A job or a request r goes on to x, and writes d into the destination: what the
\* other jobs have read is not its business, for there are none.
LEMMA JobMoves ==
    ASSUME SInv, NEW r \in Runs, NEW x \in RunRecs, NEW d \in Shop,
           run' = [run EXCEPT ![r] = x], shop' = [shop EXCEPT !["dest"] = d],
           Active(run[r]), Purposeful(x), x.pc # "token", running' \in BOOLEAN,
           ~Happens("overlap") /\ Active(x) => running',
           UNCHANGED <<cache, plan, edits, setting>>,
           Undivided => UpToDate(x)' /\ OneEach'
    PROVE  SInv'
<1>1. /\ run' \in [Runs -> RunRecs] /\ run'[r] = x
      /\ \A q \in Runs \ {r} : run'[q] = run[q]
  BY OfRun
<1>2. shop' \in [Sides -> Shop] /\ shop'["source"] = shop["source"]
  BY OfRun DEF Sides
<1>3. TypeOK'
  BY <1>1, <1>2 DEF SInv, TypeOK, RunRecs, cache
<1>4. SourcesNamed' /\ plan' \subseteq Txns
  BY <1>2 DEF SInv, SourcesNamed, cache
<1>5. \A q \in Runs : Purposeful(run[q])'
  <2>1. ASSUME NEW q \in Runs PROVE Purposeful(run[q])'
    <3>1. CASE q = r
      BY <1>1, <3>1 DEF Purposeful
    <3>2. CASE q # r
      BY <1>1, <3>2, OfRun DEF Purposeful
    <3> QED BY <3>1, <3>2
  <2> QED BY <2>1
<1>6. Happens("overlap")' = Happens("overlap") /\ Undivided' = Undivided
  BY DEF Happens, Undivided
<1>7. ~Happens("overlap") => \A q \in Runs \ {r} : ~Active(run[q])
  BY DEF SInv, Exclusive
<1>8. Exclusive'
  <2> SUFFICES ASSUME ~Happens("overlap")
               PROVE  /\ \A q, p \in Runs : Active(run'[q]) /\ Active(run'[p]) => q = p
                      /\ \A q \in Runs : Active(run'[q]) => (running' <=> run'[q].pc # "token")
    BY <1>6 DEF Exclusive, Active
  <2>1. \A q \in Runs : Active(run'[q]) => q = r
    BY <1>1, <1>7 DEF Active
  <2> QED BY <1>1, <2>1 DEF Active
<1>9. ASSUME Undivided PROVE \A q \in Runs : UpToDate(run[q])'
  <2>1. ~Happens("overlap")
    BY <1>9 DEF Undivided
  <2>2. \A q \in Runs \ {r} : run'[q].pc \in {"idle", "done"}
    BY <1>1, <1>7, <2>1 DEF Active
  <2>3. UpToDate(x)'
    BY <1>9
  <2> QED BY <1>1, <2>2, <2>3 DEF UpToDate
<1> QED BY <1>3, <1>4, <1>5, <1>6, <1>8, <1>9 DEF SInv

\* A job that writes nothing.
LEMMA JobReads ==
    ASSUME SInv, NEW r \in Runs, NEW x \in RunRecs,
           run' = [run EXCEPT ![r] = x],
           Active(run[r]), Purposeful(x), x.pc # "token", running' \in BOOLEAN,
           ~Happens("overlap") /\ Active(x) => running',
           UNCHANGED <<shop, cache, plan, edits, setting>>,
           Undivided => UpToDate(x)
    PROVE  SInv'
<1>1. shop' = [shop EXCEPT !["dest"] = dest]
  BY OfRun DEF dest, Sides
<1>2. dest' = dest
  BY DEF dest
<1>3. Undivided => UpToDate(x)' /\ OneEach'
  BY <1>2 DEF SInv, UpToDate, OneEach, CollectionTitled
<1> QED BY <1>1, <1>3, OfRun, JobMoves

\* A job that goes on, the lock being its own.
LEMMA JobHasLock ==
    ASSUME SInv, NEW r \in Runs, run[r].pc \notin {"idle", "token", "done"}
    PROVE  /\ Active(run[r]) /\ running \in BOOLEAN
           /\ ~Happens("overlap") => running
BY DEF SInv, TypeOK, Exclusive, Active

\* There is no token.
LEMMA TokenFailsKeeps ==
    ASSUME SInv, NEW r \in Runs, TokenFails(r)
    PROVE  SInv'
<1>1. PICK x : x = [IdleRun EXCEPT !.pc = "done"]
  OBVIOUS
<1>2. x \in RunRecs /\ x.pc = "done" /\ Purposeful(x)
  BY <1>1, NothingTyped DEF RunRecs, Purposeful
<1>3. run' = [run EXCEPT ![r] = x]
  BY <1>1, SMTT(30) DEF TokenFails
<1> QED BY <1>2, <1>3, OfRun, JobReads DEF TokenFails, Active, UpToDate

\* The job is created.
LEMMA StartKeeps ==
    ASSUME SInv, NEW r \in Runs, Start(r)
    PROVE  SInv'
<1>1. PICK pc \in {"list", "next"}, w \in BOOLEAN, hs \in SUBSET Handles :
         run' = [run EXCEPT ![r].pc = pc, ![r].whole = w, ![r].had = hs]
  <2>1. In(Taken("dest")) \in SUBSET Handles /\ (run[r].todo = LiveDiff) \in BOOLEAN
    BY DEF In
  <2> QED BY <2>1 DEF Start
<1>2. PICK x : x = [run[r] EXCEPT !.pc = pc, !.whole = w, !.had = hs]
  OBVIOUS
<1>3. x \in RunRecs /\ x.pc \in {"list", "next"} /\ Purposeful(x)
  BY <1>2, OfRun, ZenonT(40) DEF RunRecs, Purposeful
<1>4. run' = [run EXCEPT ![r] = x]
  BY <1>1, <1>2
<1> QED BY <1>3, <1>4, JobReads DEF Start, Active, UpToDate

\* The queue is empty, or the listing has failed.
LEMMA EndKeeps ==
    ASSUME SInv, NEW r \in Runs, End(r)
    PROVE  SInv'
<1>1. PICK x : x = [IdleRun EXCEPT !.pc = "done"]
  OBVIOUS
<1>2. x \in RunRecs /\ x.pc = "done" /\ Purposeful(x)
  BY <1>1, NothingTyped DEF RunRecs, Purposeful
<1>3. run' = [run EXCEPT ![r] = x]
  BY <1>1 DEF End
<1> QED BY <1>2, <1>3, OfRun, JobReads DEF End, Active, UpToDate

LEMMA ListKeeps ==
    ASSUME SInv, NEW r \in Runs, List(r)
    PROVE  SInv'
<1>1. PICK x : x = [run[r] EXCEPT !.pc = "next"]
  OBVIOUS
<1>2. x \in RunRecs /\ x.pc = "next" /\ Purposeful(x)
  BY <1>1, OfRun DEF RunRecs, Purposeful
<1>3. run' = [run EXCEPT ![r] = x]
  BY <1>1 DEF List
<1> QED BY <1>2, <1>3, JobReads, JobHasLock DEF List, Active, UpToDate

\* A transaction that is over.
LEMMA DroppedTyped ==
    ASSUME SInv, NEW r \in Runs, NEW t, NEW x, x = Dropped(r, t)
    PROVE  /\ x \in RunRecs /\ x.pc = "next" /\ Purposeful(x)
           /\ UpToDate(x) /\ UpToDate(x)'
<1>1. x \in RunRecs
  BY OfRun, NothingTyped DEF Dropped, RunRecs
<1>2. x.pc = "next" /\ x.todo = run[r].todo \ {t}
  BY OfRun DEF Dropped, RunRecs
<1>3. Purposeful(x)
  BY <1>2, OfRun DEF Purposeful
<1> QED BY <1>1, <1>2, <1>3 DEF UpToDate

\* What is left when a transaction is over.
LEMMA DroppedLeaves ==
    ASSUME SInv, NEW r \in Runs, NEW t, NEW x, x = Dropped(r, t)
    PROVE  /\ x \in RunRecs /\ x.pc = "next" /\ x.whole = run[r].whole /\ x.had = run[r].had
           /\ x.todo = run[r].todo \ {t} /\ x.resolved = run[r].resolved /\ x.known = run[r].known
BY OfRun, NothingTyped DEF Dropped, RunRecs

\* A call is refused.
LEMMA CallFailsKeeps ==
    ASSUME SInv, NEW r \in Runs, NEW t \in run[r].todo, CallFails(r, t)
    PROVE  SInv'
<1>1. PICK x : x = Dropped(r, t)
  OBVIOUS
<1>2. run[r].pc \notin {"idle", "token", "done"}
  BY DEF CallFails, First
<1> QED BY <1>1, <1>2, DroppedTyped, JobReads, JobHasLock DEF CallFails

\* A collection is looked up, ...
LEMMA ResolveKeeps ==
    ASSUME SInv, NEW r \in Runs, NEW t \in run[r].todo, Resolve(r, t)
    PROVE  SInv'
<1>1. PICK pc \in {"find", "add"} :
         /\ run' = [run EXCEPT ![r].cur = t, ![r].pc = pc]
         /\ pc = "add" <=> run[r].resolved[t.title] # 0
  BY DEF Resolve
<1>2. PICK x : x = [run[r] EXCEPT !.cur = t, !.pc = pc]
  OBVIOUS
<1>3. t \in Txns /\ t.title \in Titles /\ t \in Transactions
  BY OfRun DEF Resolve, Purposeful, Txns
<1>4. x \in RunRecs /\ x.pc = pc /\ x.cur = t /\ x.todo = run[r].todo /\ x.resolved = run[r].resolved
  BY <1>2, <1>3, OfRun DEF RunRecs
<1>5. x.resolved[t.title] \in Cids \cup {0}
  BY <1>3, <1>4 DEF RunRecs
<1>6. Purposeful(x)
  BY <1>1, <1>3, <1>4, <1>5, OfRun DEF Resolve, Purposeful
<1>7. run' = [run EXCEPT ![r] = x]
  BY <1>1, <1>2
<1> QED BY <1>4, <1>6, <1>7, JobReads, JobHasLock DEF Resolve, First, Active, UpToDate

\* ... found in the store or not, ...
LEMMA FindKeeps ==
    ASSUME SInv, NEW r \in Runs, Find(r)
    PROVE  SInv'
<1>1. run[r].cur \in Txns /\ run[r].cur.kind = "collection" /\ run[r].cur.title \in Titles
  BY OfRun DEF Find, Purposeful, Txns
<1>2. CASE CollectionTitled(dest, run[r].cur.title) = {} /\ run' = [run EXCEPT ![r].pc = "make"]
  <2>1. PICK x : x = [run[r] EXCEPT !.pc = "make"]
    OBVIOUS
  <2>2. x \in RunRecs /\ x.pc = "make" /\ x.cur = run[r].cur /\ x.todo = run[r].todo
    BY <2>1, OfRun DEF RunRecs
  <2>3. Purposeful(x) /\ UpToDate(x)
    BY <1>1, <1>2, <2>2, OfRun DEF Purposeful, UpToDate
  <2>4. run' = [run EXCEPT ![r] = x]
    BY <1>2, <2>1
  <2> QED BY <2>2, <2>3, <2>4, JobReads, JobHasLock DEF Find, Active
<1>3. ASSUME NEW c \in CollectionTitled(dest, run[r].cur.title), run' = Resolved(r, c)
      PROVE  SInv'
  <2>1. PICK x : x = [run[r] EXCEPT !.pc = "collects", !.resolved[run[r].cur.title] = c]
    OBVIOUS
  <2>2. c \in Cids
    BY DEF CollectionTitled
  <2>3. /\ x \in RunRecs /\ x.pc = "collects" /\ x.cur = run[r].cur /\ x.todo = run[r].todo
        /\ x.resolved[x.cur.title] \in Cids
    BY <1>1, <2>1, <2>2, OfRun, ZenonT(40) DEF RunRecs
  <2>4. Purposeful(x) /\ UpToDate(x)
    BY <1>1, <2>3, OfRun DEF Purposeful, UpToDate
  <2>5. run' = [run EXCEPT ![r] = x]
    BY <1>3, <2>1 DEF Resolved
  <2> QED BY <2>3, <2>4, <2>5, JobReads, JobHasLock DEF Find, Active
<1> QED BY <1>2, <1>3 DEF Find

\* ... with its members, ...
LEMMA CollectsKeeps ==
    ASSUME SInv, NEW r \in Runs, Collects(r)
    PROVE  SInv'
<1>1. PICK ms : /\ ms \subseteq dest.members
                /\ run' = [run EXCEPT ![r].pc = "add", ![r].known = @ \cup ms]
  BY DEF Collects
<1>2. PICK x : x = [run[r] EXCEPT !.pc = "add", !.known = @ \cup ms]
  OBVIOUS
<1>3. dest.members \subseteq Cids \X Handles
  BY OfRun DEF Shop
<1>4. /\ x \in RunRecs /\ x.pc = "add" /\ x.cur = run[r].cur /\ x.todo = run[r].todo
      /\ x.resolved = run[r].resolved
  BY <1>1, <1>2, <1>3, OfRun DEF RunRecs
<1>5. Purposeful(x) /\ UpToDate(x)
  BY <1>4, OfRun DEF Collects, Purposeful, UpToDate
<1>6. run' = [run EXCEPT ![r] = x]
  BY <1>1, <1>2
<1> QED BY <1>4, <1>5, <1>6, JobReads, JobHasLock DEF Collects, Active

\* A product is read, if it is there.
LEMMA GetKeeps ==
    ASSUME SInv, NEW r \in Runs, NEW t \in run[r].todo, Get(r, t)
    PROVE  SInv'
<1>1. t \in Txns /\ t \in Transactions /\ t.handle \in Handles
  BY OfRun DEF Purposeful, Txns, Transactions
<1>2. dest.products[t.handle] \in Product
  BY <1>1, OfRun DEF Shop
<1>3. run[r].pc \notin {"idle", "token", "done"} /\ UNCHANGED <<shop, cache, plan, running, edits, setting>>
  BY DEF Get, First
<1>4. CASE dest.products[t.handle].there
  <2>1. PICK x : x = [run[r] EXCEPT !.pc = "put", !.cur = t, !.got = dest.products[t.handle]]
    OBVIOUS
  <2>2. /\ x \in RunRecs /\ x.pc = "put" /\ x.cur = t /\ x.got = dest.products[t.handle]
        /\ x.todo = run[r].todo
    BY <1>1, <1>2, <2>1, OfRun, ZenonT(40) DEF RunRecs
  <2>3. Purposeful(x) /\ UpToDate(x)
    BY <1>1, <1>4, <2>2, OfRun DEF Get, Purposeful, UpToDate
  <2>4. run' = [run EXCEPT ![r] = x]
    BY <1>4, <2>1 DEF Get
  <2> QED BY <1>3, <2>2, <2>3, <2>4, JobReads, JobHasLock DEF Active
<1>5. CASE ~dest.products[t.handle].there
  <2>1. PICK x : x = Dropped(r, t)
    OBVIOUS
  <2>2. run' = [run EXCEPT ![r] = x]
    BY <1>5, <2>1 DEF Get
  <2> QED BY <1>3, <2>1, <2>2, DroppedTyped, JobReads, JobHasLock
<1> QED BY <1>4, <1>5

\* A transaction ends with a write that leaves the collections alone.
LEMMA JobWrites ==
    ASSUME SInv, NEW r \in Runs, NEW t, NEW d \in Shop, d.colls = dest.colls,
           run[r].pc \notin {"idle", "token", "done"},
           NEW x \in RunRecs, x.pc = "next", Purposeful(x), run' = [run EXCEPT ![r] = x],
           shop' = [shop EXCEPT !["dest"] = d], UNCHANGED <<cache, plan, running, edits, setting>>
    PROVE  SInv'
<1>1. dest' = d
  BY OfRun DEF dest, Sides
<1>2. Undivided => UpToDate(x)' /\ OneEach'
  BY <1>1, SMTT(30) DEF SInv, UpToDate, OneEach
<1> QED BY <1>2, JobMoves, JobHasLock DEF Active

\* One call that does it all.
LEMMA OneCallWrites ==
    ASSUME SInv, NEW r \in Runs, NEW t \in run[r].todo, OneCall(r, t)
    PROVE  \E d \in Shop, q \in Product :
        /\ shop' = [shop EXCEPT !["dest"] = d]
        /\ d.colls = dest.colls /\ d.products = [dest.products EXCEPT ![t.handle] = q]
        /\ d.members = CASE t.kind = "delete" -> {m \in dest.members : m[2] # t.handle}
                         [] t.kind = "member" /\ dest.products[t.handle].there
                              -> dest.members \cup {<<t.cid, t.handle>>}
                         [] OTHER -> dest.members
        /\ q = CASE t.kind = "create" -> IF dest.products[t.handle].there THEN dest.products[t.handle]
                                         ELSE [Absent EXCEPT !.there = TRUE]
                 [] t.kind = "delete" -> Absent
                 [] t.kind = "field" -> IF dest.products[t.handle].there
                                        THEN [dest.products[t.handle] EXCEPT !.value = t.value]
                                        ELSE dest.products[t.handle]
                 [] t.kind = "member" -> dest.products[t.handle]
<1>1. t \in Txns /\ t \in Transactions /\ t.handle \in Handles
  BY OfRun DEF Purposeful, Txns, Transactions
<1>2. PICK p : p = dest.products[t.handle]
  OBVIOUS
<1>3. p \in Product
  BY <1>1, <1>2, OfRun DEF Shop
<1>4. PICK q : q = CASE t.kind = "create" -> IF p.there THEN p ELSE [Absent EXCEPT !.there = TRUE]
                     [] t.kind = "delete" -> Absent
                     [] t.kind = "field" -> IF p.there THEN [p EXCEPT !.value = t.value] ELSE p
                     [] t.kind = "member" -> p
  OBVIOUS
<1>5. q \in Product
  <2>1. CASE t.kind = "create"
    BY <1>3, <1>4, <2>1, NothingTyped DEF Product
  <2>2. CASE t.kind = "field"
    <3>1. t.value \in Values
      BY <1>1, <2>2 DEF Txns
    <3> QED BY <1>3, <1>4, <2>2, <3>1 DEF Product
  <2>3. CASE t.kind \in {"delete", "member"}
    BY <1>3, <1>4, <2>3, NothingTyped
  <2> QED BY <2>1, <2>2, <2>3 DEF OneCall
<1>6. PICK ms : ms = CASE t.kind = "delete" -> {m \in dest.members : m[2] # t.handle}
                       [] t.kind = "member" /\ p.there -> dest.members \cup {<<t.cid, t.handle>>}
                       [] OTHER -> dest.members
  OBVIOUS
<1>7. ms \in SUBSET (Cids \X Handles)
  <2>1. dest.members \in SUBSET (Cids \X Handles)
    BY OfRun DEF Shop
  <2>2. CASE t.kind = "member"
    <3>1. <<t.cid, t.handle>> \in Cids \X Handles
      BY <1>1, <2>2 DEF Txns
    <3> QED BY <1>6, <2>1, <2>2, <3>1
  <2>3. CASE t.kind # "member"
    BY <1>6, <2>1, <2>3
  <2> QED BY <2>2, <2>3
<1>8. PICK d : d = [dest EXCEPT !.products[t.handle] = q, !.members = ms]
  OBVIOUS
<1>9. /\ d \in Shop /\ d.colls = dest.colls /\ d.members = ms
      /\ d.products = [dest.products EXCEPT ![t.handle] = q]
  BY <1>1, <1>5, <1>7, <1>8, OfRun DEF Shop
<1>10. shop' = [shop EXCEPT !["dest"] = d]
  <2>1. shop' = [shop EXCEPT !["dest"].products[t.handle] = q, !["dest"].members = ms]
    BY <1>2, <1>4, <1>6, Zenon DEF OneCall
  <2> QED BY <1>8, <2>1, OfRun DEF dest, Sides, Shop
<1> QED BY <1>2, <1>4, <1>5, <1>6, <1>9, <1>10, Zenon

LEMMA OneCallKeeps ==
    ASSUME SInv, NEW r \in Runs, NEW t \in run[r].todo, OneCall(r, t)
    PROVE  SInv'
<1>1. PICK d \in Shop : shop' = [shop EXCEPT !["dest"] = d] /\ d.colls = dest.colls
  BY OneCallWrites
<1>2. PICK x : x = Dropped(r, t)
  OBVIOUS
<1> QED BY <1>1, <1>2, DroppedTyped, JobWrites DEF OneCall, First

\* The tags or the variants of a product are written.
LEMMA PutWrites ==
    ASSUME SInv, NEW r \in Runs, Put(r)
    PROVE  \E d \in Shop, q \in Product :
        /\ shop' = [shop EXCEPT !["dest"] = d]
        /\ d.colls = dest.colls /\ d.members = dest.members
        /\ d.products = [dest.products EXCEPT ![run[r].cur.handle] = q]
        /\ q = IF dest.products[run[r].cur.handle].there
               THEN IF run[r].cur.kind \in {"tags_add", "tags_remove"}
                    THEN [dest.products[run[r].cur.handle]
                            EXCEPT !.tags = Changed(run[r].got, run[r].cur).tags]
                    ELSE [dest.products[run[r].cur.handle]
                            EXCEPT !.price = Changed(run[r].got, run[r].cur).price]
               ELSE dest.products[run[r].cur.handle]
<1>1. PICK t : t = run[r].cur
  OBVIOUS
<1>2. /\ t \in Txns /\ t \in Transactions /\ t.handle \in Handles /\ t.tags \subseteq Tags
      /\ t.price \in Prices \cup {0} /\ t.kind \in {"tags_add", "tags_remove", "variant", "price"}
  BY <1>1, OfRun DEF Put, Purposeful, Txns, Transactions
<1>3. PICK p, g : p = dest.products[t.handle] /\ g = run[r].got
  OBVIOUS
<1>4. p \in Product /\ g \in Product
  BY <1>2, <1>3, OfRun DEF Shop, RunRecs
<1>5. Changed(g, t) \in Product
  BY <1>2, <1>4 DEF Changed, Product
<1>6. PICK n : n = Changed(g, t)
  OBVIOUS
<1>7. PICK q : q = IF p.there
                   THEN IF t.kind \in {"tags_add", "tags_remove"} THEN [p EXCEPT !.tags = n.tags]
                        ELSE [p EXCEPT !.price = n.price]
                   ELSE p
  OBVIOUS
<1>8. q \in Product
  BY <1>4, <1>5, <1>6, <1>7 DEF Product
<1>9. PICK d : d = [dest EXCEPT !.products[t.handle] = q]
  OBVIOUS
<1>10. /\ d \in Shop /\ d.colls = dest.colls /\ d.members = dest.members
       /\ d.products = [dest.products EXCEPT ![t.handle] = q]
  BY <1>2, <1>8, <1>9, OfRun, SMTT(30) DEF Shop
<1>11. shop' = [shop EXCEPT !["dest"] = d]
  <2>1. shop' = [shop EXCEPT !["dest"].products[t.handle] = q]
    BY <1>1, <1>3, <1>6, <1>7 DEF Put
  <2> QED BY <1>9, <2>1, OfRun DEF dest, Sides, Shop
<1> QED BY <1>1, <1>3, <1>6, <1>7, <1>8, <1>10, <1>11, Zenon

LEMMA PutKeeps ==
    ASSUME SInv, NEW r \in Runs, Put(r)
    PROVE  SInv'
<1>1. PICK d \in Shop : shop' = [shop EXCEPT !["dest"] = d] /\ d.colls = dest.colls
  BY PutWrites
<1>2. PICK x : x = Dropped(r, run[r].cur)
  BY Zenon
<1> QED BY <1>1, <1>2, DroppedTyped, JobWrites, Zenon DEF Put

\* The product joins the collection.
LEMMA AddWrites ==
    ASSUME SInv, NEW r \in Runs, Add(r)
    PROVE  \E d \in Shop, x \in RunRecs, ms \in SUBSET {<<run[r].resolved[run[r].cur.title], run[r].cur.handle>>} :
        /\ shop' = [shop EXCEPT !["dest"] = d] /\ run' = [run EXCEPT ![r] = x]
        /\ d.colls = dest.colls /\ d.products = dest.products /\ d.members = dest.members \cup ms
        /\ ms = {} => <<run[r].resolved[run[r].cur.title], run[r].cur.handle>> \in run[r].known
                       \/ ~dest.products[run[r].cur.handle].there
        /\ Purposeful(x) /\ x.pc = "next" /\ x.todo = run[r].todo \ {run[r].cur}
        /\ x.resolved = run[r].resolved /\ x.known = run[r].known \cup ms
        /\ x.whole = run[r].whole /\ x.had = run[r].had
<1>1. PICK t : t = run[r].cur
  OBVIOUS
<1>2. t \in Transactions /\ t.handle \in Handles /\ run[r].resolved[t.title] \in Cids
  BY <1>1, OfRun DEF Add, Purposeful, Txns, Transactions
<1>3. PICK m : m = <<run[r].resolved[t.title], t.handle>>
  OBVIOUS
<1>4. m \in Cids \X Handles
  BY <1>2, <1>3
<1>5. PICK joins \in BOOLEAN : joins = (m \notin run[r].known /\ dest.products[t.handle].there)
  <2>1. (m \notin run[r].known /\ dest.products[t.handle].there) \in BOOLEAN
    BY <1>2, OfRun DEF Shop, Product
  <2> QED BY <2>1
<1>6. PICK d : d = [dest EXCEPT !.members = IF joins THEN @ \cup {m} ELSE @]
  OBVIOUS
<1>7. /\ d \in Shop /\ d.colls = dest.colls /\ d.products = dest.products
      /\ d.members = dest.members \cup (IF joins THEN {m} ELSE {})
  BY <1>4, <1>6, OfRun DEF Shop
<1>8. shop' = [shop EXCEPT !["dest"] = d]
  <2>1. shop' = [shop EXCEPT !["dest"].members = IF joins THEN @ \cup {m} ELSE @]
    BY <1>1, <1>3, <1>5, Zenon DEF Add
  <2> QED BY <1>6, <2>1, OfRun, SMTT(30) DEF dest, Sides, Shop
<1>9. PICK y : y = Dropped(r, t)
  OBVIOUS
<1>10. /\ y \in RunRecs /\ y.pc = "next" /\ Purposeful(y)
       /\ y.todo = run[r].todo \ {t} /\ y.resolved = run[r].resolved /\ y.known = run[r].known
       /\ y.whole = run[r].whole /\ y.had = run[r].had
  BY <1>9, DroppedTyped, DroppedLeaves
<1>11. PICK x : x = [y EXCEPT !.known = IF joins THEN @ \cup {m} ELSE @]
  BY Zenon
<1>12. /\ x \in RunRecs /\ x.pc = "next" /\ Purposeful(x)
       /\ x.todo = run[r].todo \ {t} /\ x.resolved = run[r].resolved
       /\ x.known = run[r].known \cup (IF joins THEN {m} ELSE {})
       /\ x.whole = run[r].whole /\ x.had = run[r].had
  BY <1>4, <1>10, <1>11 DEF RunRecs, Purposeful
<1>13. run' = [run EXCEPT ![r] = x]
  BY <1>1, <1>3, <1>5, <1>9, <1>11, Zenon DEF Add
<1>14. PICK ms : ms = IF joins THEN {m} ELSE {}
  OBVIOUS
<1>15. ms \in SUBSET {m} /\ (ms = {} => m \in run[r].known \/ ~dest.products[t.handle].there)
  BY <1>5, <1>14
<1> QED BY <1>1, <1>3, <1>7, <1>8, <1>12, <1>13, <1>14, <1>15, Zenon

LEMMA AddKeeps ==
    ASSUME SInv, NEW r \in Runs, Add(r)
    PROVE  SInv'
<1>1. PICK d \in Shop, x \in RunRecs :
         /\ shop' = [shop EXCEPT !["dest"] = d] /\ run' = [run EXCEPT ![r] = x]
         /\ d.colls = dest.colls /\ Purposeful(x) /\ x.pc = "next"
  BY AddWrites
<1> QED BY <1>1, JobWrites DEF Add

\* There is a least number among those that are free.
LEMMA NewCidIsFree ==
    ASSUME Free # {}
    PROVE  NewCid \in Cids /\ dest.colls[NewCid] = NoTitle
<1>1. Free \subseteq Nat /\ Free \subseteq Cids
  BY LiveSyncAssumption DEF Free, CollectionTitled, Cids
<1>2. PICK c \in Free : \A b \in Free : <<b, c>> \notin OpToRel(<, Nat)
  BY <1>1, NatLessThanWellFounded, WFMin
<1>3. ASSUME NEW b \in Free PROVE c <= b
  <2>1. b \in Nat /\ c \in Nat
    BY <1>1
  <2>2. <<b, c>> \notin OpToRel(<, Nat)
    BY <1>2
  <2>3. ~(b < c)
    BY <2>1, <2>2 DEF OpToRel
  <2> QED BY <2>1, <2>3
<1>4. NewCid \in Free
  BY <1>3 DEF NewCid
<1> QED BY <1>1, <1>4 DEF Free, CollectionTitled

\* A collection is made, where the store has none of its title.
LEMMA MakeWrites ==
    ASSUME SInv, NEW r \in Runs, Make(r)
    PROVE  \E d \in Shop, x \in RunRecs, c \in Cids :
        /\ shop' = [shop EXCEPT !["dest"] = d] /\ run' = [run EXCEPT ![r] = x]
        /\ d.products = dest.products /\ d.members = dest.members
        /\ d.colls = [dest.colls EXCEPT ![c] = run[r].cur.title] /\ dest.colls[c] = NoTitle
        /\ Purposeful(x) /\ x.pc = "collects" /\ x.cur = run[r].cur /\ x.todo = run[r].todo
        /\ x.resolved = [run[r].resolved EXCEPT ![run[r].cur.title] = c] /\ x.known = run[r].known
        /\ x.whole = run[r].whole /\ x.had = run[r].had
<1>1. PICK t, c : t = run[r].cur.title /\ c = NewCid
  OBVIOUS
<1>2. t \in Titles /\ t # NoTitle
  BY <1>1, OfRun, LiveSyncAssumption DEF Make, Purposeful, Txns
<1>3. c \in Cids /\ dest.colls[c] = NoTitle
  BY <1>1, NewCidIsFree DEF Make
<1>4. PICK d : d = [dest EXCEPT !.colls[c] = t]
  OBVIOUS
<1>5. d \in Shop /\ d.products = dest.products /\ d.members = dest.members /\ d.colls = [dest.colls EXCEPT ![c] = t] /\ dest.colls \in [Cids -> Titles \cup {NoTitle}]
  BY <1>2, <1>3, <1>4, OfRun DEF Shop
<1>6. shop' = [shop EXCEPT !["dest"] = d]
  <2>1. shop' = [shop EXCEPT !["dest"].colls[c] = t]
    BY <1>1 DEF Make
  <2> QED BY <1>4, <2>1, OfRun DEF dest, Sides, Shop
<1>7. PICK x : x = [run[r] EXCEPT !.pc = "collects", !.resolved[t] = c]
  OBVIOUS
<1>8. /\ x \in RunRecs /\ x.pc = "collects" /\ x.cur = run[r].cur /\ x.todo = run[r].todo
      /\ x.resolved[t] \in Cids /\ x.resolved = [run[r].resolved EXCEPT ![t] = c]
      /\ x.known = run[r].known /\ x.whole = run[r].whole /\ x.had = run[r].had
  BY <1>2, <1>3, <1>7, OfRun DEF RunRecs
<1>9. Purposeful(x)
  BY <1>1, <1>8, OfRun DEF Make, Purposeful
<1>10. run' = [run EXCEPT ![r] = x]
  BY <1>1, <1>7 DEF Make, Resolved
<1> QED BY <1>1, <1>3, <1>5, <1>6, <1>8, <1>9, <1>10, Zenon

LEMMA MakeKeeps ==
    ASSUME SInv, NEW r \in Runs, Make(r)
    PROVE  SInv'
<1>1. PICK d \in Shop, x \in RunRecs, c \in Cids :
         /\ shop' = [shop EXCEPT !["dest"] = d] /\ run' = [run EXCEPT ![r] = x]
         /\ d.products = dest.products /\ d.members = dest.members
         /\ d.colls = [dest.colls EXCEPT ![c] = run[r].cur.title] /\ dest.colls[c] = NoTitle
         /\ Purposeful(x) /\ x.pc = "collects" /\ x.cur = run[r].cur /\ x.todo = run[r].todo
         /\ x.resolved = [run[r].resolved EXCEPT ![run[r].cur.title] = c] /\ x.known = run[r].known
         /\ x.whole = run[r].whole /\ x.had = run[r].had
  BY MakeWrites, Zenon
<1>2. run[r].cur.title \in Titles /\ dest.colls \in [Cids -> Titles \cup {NoTitle}]
  BY OfRun DEF Make, Purposeful, Txns, Shop
<1>3. ASSUME Undivided PROVE UpToDate(x)' /\ OneEach'
  <2>1. dest' = d
    BY <1>1, OfRun DEF dest, Sides
  <2>2. \A b \in Cids : dest.colls[b] # run[r].cur.title
    BY <1>3 DEF SInv, UpToDate, Make, CollectionTitled
  <2> QED BY <1>1, <1>2, <1>3, <2>1, <2>2, LiveSyncAssumption DEF SInv, OneEach, UpToDate
<1> QED BY <1>1, <1>3, JobMoves, JobHasLock DEF Make, Active

LEMMA JobKeeps ==
    ASSUME SInv, NEW r \in Runs, Job(r)
    PROVE  SInv'
<1>1. ASSUME NEW t \in run[r].todo, OneCall(r, t) \/ Get(r, t) \/ Resolve(r, t) \/ CallFails(r, t)
      PROVE  SInv'
  BY <1>1, OneCallKeeps, GetKeeps, ResolveKeeps, CallFailsKeeps
<1>2. CASE List(r) \/ Put(r) \/ Find(r) \/ Make(r) \/ Collects(r) \/ Add(r)
  BY <1>2, ListKeeps, PutKeeps, FindKeeps, MakeKeeps, CollectsKeeps, AddKeeps
<1> QED BY <1>1, <1>2, StartKeeps, TokenFailsKeeps, EndKeeps DEF Job, Transaction

-----------------------------------------------------------------------------
(* Everybody else *)

\* A step that leaves the jobs and the destination alone.
LEMMA NobodyMoves ==
    ASSUME SInv, TypeOK', plan' \subseteq Txns, SourcesNamed',
           UNCHANGED <<shop, running, run, setting>>
    PROVE  SInv'
<1>1. dest' = dest
  BY DEF dest
<1>2. Happens("overlap")' = Happens("overlap") /\ Undivided' = Undivided
  BY DEF Happens, Undivided
<1>3. Exclusive' = Exclusive
  BY <1>2 DEF Exclusive, Active
<1>4. \A r \in Runs : Purposeful(run[r])'
  BY DEF SInv, Purposeful
<1>5. Undivided => OneEach' /\ \A r \in Runs : UpToDate(run[r])'
  BY <1>1 DEF SInv, OneEach, UpToDate, CollectionTitled
<1> QED BY <1>2, <1>3, <1>4, <1>5 DEF SInv

LEMMA ScanKeeps ==
    ASSUME SInv, NEW s \in Sides, Scan(s)
    PROVE  SInv'
<1>1. Taken(s) \in Snapshot /\ (s = "source" => Named(Taken(s).shop))
  BY OfRun DEF Taken, Snapshot, SInv, SourcesNamed
<1>2. /\ mem \in [Sides -> Snapshot] /\ mem' = [mem EXCEPT ![s] = Taken(s)]
      /\ disk \in [Sides -> [snap : Snapshot, fresh : BOOLEAN]]
      /\ disk' = [disk EXCEPT ![s] = [snap |-> Taken(s), fresh |-> TRUE]] \/ disk' = disk
  BY DEF Scan, SInv, TypeOK
<1>3. mem' \in [Sides -> Snapshot] /\ disk' \in [Sides -> [snap : Snapshot, fresh : BOOLEAN]]
  <2>1. [snap |-> Taken(s), fresh |-> TRUE] \in [snap : Snapshot, fresh : BOOLEAN]
    BY <1>1
  <2>2. mem' \in [Sides -> Snapshot]
    BY <1>1, <1>2
  <2>3. disk' \in [Sides -> [snap : Snapshot, fresh : BOOLEAN]]
    BY <1>2, <2>1
  <2> QED BY <2>2, <2>3
<1>4. TypeOK'
  BY <1>3 DEF Scan, SInv, TypeOK
<1>5. SourcesNamed'
  BY <1>1, <1>2 DEF Scan, SInv, SourcesNamed, Sides
<1> QED BY <1>4, <1>5, NobodyMoves DEF Scan, SInv

LEMMA LoadSnapshotKeeps ==
    ASSUME SInv, NEW s \in Sides, LoadSnapshot(s)
    PROVE  SInv'
<1>1. PICK x : x = [disk[s].snap EXCEPT !.keys = "string"]
  OBVIOUS
<1>2. disk[s].snap \in Snapshot /\ mem \in [Sides -> Snapshot]
  BY DEF SInv, TypeOK
<1>3. x \in Snapshot /\ x.shop = disk[s].snap.shop
  BY <1>1, <1>2 DEF Snapshot
<1>4. mem' = [mem EXCEPT ![s] = x]
  BY <1>1 DEF LoadSnapshot
<1>5. TypeOK'
  <2>1. mem' \in [Sides -> Snapshot]
    BY <1>2, <1>3, <1>4
  <2> QED BY <2>1 DEF LoadSnapshot, SInv, TypeOK
<1>6. SourcesNamed'
  BY <1>2, <1>3, <1>4 DEF LoadSnapshot, SInv, SourcesNamed, Sides
<1> QED BY <1>5, <1>6, NobodyMoves DEF LoadSnapshot, SInv

LEMMA AgeKeeps ==
    ASSUME SInv, NEW s \in Sides, Age(s)
    PROVE  SInv'
<1>1. PICK x : x = [disk[s] EXCEPT !.fresh = FALSE]
  OBVIOUS
<1>2. disk \in [Sides -> [snap : Snapshot, fresh : BOOLEAN]]
  BY DEF SInv, TypeOK
<1>3. x \in [snap : Snapshot, fresh : BOOLEAN] /\ x.snap = disk[s].snap
  BY <1>1, <1>2
<1>4. disk' = [disk EXCEPT ![s] = x]
  BY <1>1 DEF Age
<1>5. TypeOK'
  <2>1. disk' \in [Sides -> [snap : Snapshot, fresh : BOOLEAN]]
    BY <1>2, <1>3, <1>4
  <2> QED BY <2>1 DEF Age, SInv, TypeOK
<1>6. SourcesNamed'
  BY <1>2, <1>3, <1>4, SMTT(30) DEF Age, SInv, SourcesNamed, Sides
<1> QED BY <1>5, <1>6, NobodyMoves DEF Age, SInv

\* A transaction with one field set.
LEMMA TxnTyped ==
    ASSUME NEW h \in Handles
    PROVE  /\ Txn("create", h) \in Txns /\ Txn("delete", h) \in Txns
           /\ \A v \in {"a", "b", "cut"} : [Txn("field", h) EXCEPT !.value = v] \in Txns
           /\ \A ts \in SUBSET Tags, k \in {"tags_add", "tags_remove"} :
                [Txn(k, h) EXCEPT !.tags = ts] \in Txns
           /\ \A n \in Prices, k \in {"variant", "price"} : [Txn(k, h) EXCEPT !.price = n] \in Txns
           /\ \A t \in Titles : [Txn("collection", h) EXCEPT !.title = t] \in Txns
           /\ \A c \in Cids : [Txn("member", h) EXCEPT !.cid = c] \in Txns
BY Zenon DEF Txn, NoTxn, Txns, Transactions, Values

\* Of the collections with a title, the diff takes the last.
LEMMA LastTitled ==
    ASSUME NEW S, S \subseteq Cids, S # {}
    PROVE  (CHOOSE c \in S : \A b \in S : b <= c) \in S
<1> DEFINE R == {MaxCids - c : c \in S}
<1>1. R \subseteq Nat /\ R # {} /\ MaxCids \in Nat
  <2>1. MaxCids \in Nat
    BY LiveSyncAssumption
  <2>2. \A c \in S : MaxCids - c \in Nat
    BY <2>1 DEF Cids
  <2> QED BY <2>1, <2>2
<1>2. PICK n \in R : \A m \in R : <<m, n>> \notin OpToRel(<, Nat)
  BY <1>1, NatLessThanWellFounded, WFMin
<1>3. PICK c \in S : n = MaxCids - c
  OBVIOUS
<1>4. ASSUME NEW b \in S PROVE b <= c
  <2>1. b \in Nat /\ c \in Nat
    <3>1. Cids \subseteq Nat
      BY DEF Cids
    <3> QED BY <3>1
  <2>2. MaxCids - b \in R /\ MaxCids - b \in Nat /\ n \in Nat
    BY <1>1
  <2>3. <<MaxCids - b, n>> \notin OpToRel(<, Nat)
    BY <1>2, <2>2
  <2>4. ~(MaxCids - b < n)
    BY <2>2, <2>3 DEF OpToRel
  <2> QED BY <1>1, <1>3, <2>1, <2>4
<1> QED BY <1>4

\* What a diff of two snapshots says is about products and collections there are.
LEMMA UpdatesTyped ==
    ASSUME NEW s \in Snapshot, NEW d \in Snapshot, Named(s.shop), NEW h \in Handles
    PROVE  Updates(s, d, h) \subseteq Txns
<1> DEFINE p == s.shop.products[h]
           q == d.shop.products[h]
           titles == {s.shop.colls[c] : c \in Memberships(s, h)}
           Target(t) == CHOOSE c \in CollectionTitled(d.shop, t) :
                           \A b \in CollectionTitled(d.shop, t) : b <= c
           missing == {t \in titles : CollectionTitled(d.shop, t) = {}}
           joined == {Target(t) : t \in titles \ missing} \ Memberships(d, h)
<1>1. p \in Product /\ q \in Product
  BY DEF Snapshot, Shop
<1>2. titles \subseteq Titles
  BY DEF Memberships, Named
<1>3. missing \subseteq Titles
  BY <1>2
<1>4. joined \subseteq Cids
  <2>1. ASSUME NEW t \in titles \ missing PROVE Target(t) \in Cids
    <3>1. CollectionTitled(d.shop, t) \subseteq Cids /\ CollectionTitled(d.shop, t) # {}
      BY DEF CollectionTitled
    <3> QED BY <3>1, LastTitled
  <2> QED BY <2>1
<1>5. Short(p.value) \in {"a", "b", "cut"}
  BY <1>1 DEF Product, Values, Short
<1>6. [Txn("field", h) EXCEPT !.value = Short(p.value)] \in Txns
  BY <1>5, TxnTyped
<1>7. /\ p.tags \ q.tags \in SUBSET Tags /\ q.tags \ p.tags \in SUBSET Tags
      /\ p.price \notin {0, q.price} => p.price \in Prices
  BY <1>1 DEF Product
<1>8. /\ [Txn("tags_add", h) EXCEPT !.tags = p.tags \ q.tags] \in Txns
      /\ [Txn("tags_remove", h) EXCEPT !.tags = q.tags \ p.tags] \in Txns
  BY <1>7, TxnTyped
<1>9. p.price \notin {0, q.price} =>
         [Txn(IF q.price = 0 THEN "variant" ELSE "price", h) EXCEPT !.price = p.price] \in Txns
  BY <1>7, TxnTyped
<1>10. {[Txn("collection", h) EXCEPT !.title = t] : t \in missing} \subseteq Txns
  BY <1>3, TxnTyped
<1>11. {[Txn("member", h) EXCEPT !.cid = c] : c \in joined} \subseteq Txns
  BY <1>4, TxnTyped
<1> HIDE DEF p, q, titles, missing, joined
<1>12. Updates(s, d, h) =
    (IF "value" \in setting.fields /\ p.value # q.value
     THEN {[Txn("field", h) EXCEPT !.value = Short(p.value)]} ELSE {})
    \cup (IF "tags" \in setting.fields /\ p.tags \ q.tags # {}
          THEN {[Txn("tags_add", h) EXCEPT !.tags = p.tags \ q.tags]} ELSE {})
    \cup (IF "tags" \in setting.fields /\ q.tags \ p.tags # {}
          THEN {[Txn("tags_remove", h) EXCEPT !.tags = q.tags \ p.tags]} ELSE {})
    \cup (IF "variants" \in setting.fields /\ p.price \notin {0, q.price}
          THEN {[Txn(IF q.price = 0 THEN "variant" ELSE "price", h)
                    EXCEPT !.price = p.price]} ELSE {})
    \cup (IF "collections" \in setting.fields
          THEN {[Txn("collection", h) EXCEPT !.title = t] : t \in missing}
                 \cup {[Txn("member", h) EXCEPT !.cid = c] : c \in joined}
          ELSE {})
  BY Zenon DEF Updates, p, q, titles, missing, joined
<1> QED BY <1>6, <1>8, <1>9, <1>10, <1>11, <1>12

LEMMA DiffKeeps ==
    ASSUME SInv, Diff
    PROVE  SInv'
<1>1. /\ mem["source"] \in Snapshot /\ mem["dest"] \in Snapshot
      /\ Named(mem["source"].shop)
  BY DEF SInv, TypeOK, Sides, SourcesNamed
<1>2. \A h \in Handles : Updates(mem["source"], mem["dest"], h) \subseteq Txns
  BY <1>1, UpdatesTyped
<1>3. DiffStores(mem["source"], mem["dest"]) \subseteq Txns
  <2>1. UNION {Updates(mem["source"], mem["dest"], h) : h \in In(mem["source"]) \cap In(mem["dest"])}
          \subseteq Txns
    BY <1>2 DEF In
  <2>2. /\ {Txn("create", h) : h \in In(mem["source"]) \ In(mem["dest"])} \subseteq Txns
        /\ {Txn("delete", h) : h \in In(mem["dest"]) \ In(mem["source"])} \subseteq Txns
    BY TxnTyped DEF In
  <2> QED BY <2>1, <2>2 DEF DiffStores
<1>4. plan' \subseteq Txns /\ plan' \subseteq Transactions
  BY <1>3 DEF Diff, Txns
<1>5. TypeOK' /\ SourcesNamed'
  BY <1>4 DEF Diff, cache, SInv, TypeOK, SourcesNamed
<1> QED BY <1>4, <1>5, NobodyMoves DEF Diff

\* An execution is requested: nothing runs.
LEMMA RequestKeeps ==
    ASSUME SInv, NEW r \in Runs, NEW approved \in SUBSET plan, Request(r, approved)
    PROVE  SInv'
<1>1. PICK x : x = [run[r] EXCEPT !.pc = "token", !.todo = approved]
  OBVIOUS
<1>2. approved \subseteq Txns /\ approved \subseteq Transactions
  BY DEF SInv, TypeOK
<1>3. x \in RunRecs /\ x.pc = "token" /\ Purposeful(x)
  BY <1>1, <1>2, OfRun, ZenonT(40) DEF RunRecs, Purposeful
<1>4. run' = [run EXCEPT ![r] = x]
  BY <1>1 DEF Request
<1>5. run' \in [Runs -> RunRecs] /\ run'[r] = x /\ \A q \in Runs \ {r} : run'[q] = run[q]
  BY <1>3, <1>4, OfRun
<1>6. TypeOK'
  BY <1>5 DEF Request, SInv, TypeOK, RunRecs, cache
<1>7. ASSUME NEW q \in Runs PROVE Purposeful(run[q])' /\ (UpToDate(run[q]) => UpToDate(run[q])')
  <2>1. UNCHANGED dest
    BY DEF Request, dest
  <2>2. CASE q = r
    BY <1>3, <1>5, <2>2 DEF Purposeful, UpToDate
  <2>3. CASE q # r
    BY <1>5, <2>1, <2>3, OfRun DEF Purposeful, UpToDate, CollectionTitled
  <2> QED BY <2>2, <2>3
<1>8. Exclusive'
  <2> SUFFICES ASSUME ~Happens("overlap")
               PROVE  /\ \A q, p \in Runs : Active(run'[q]) /\ Active(run'[p]) => q = p
                      /\ \A q \in Runs : Active(run'[q]) => (running' <=> run'[q].pc # "token")
    BY DEF Exclusive, Active, Happens, Request
  <2>1. \A q \in Runs : ~Active(run[q])
    BY DEF SInv, Exclusive, Request, Happens
  <2> QED BY <1>3, <1>5, <2>1 DEF Active, Request
<1>9. Undivided' => OneEach' /\ \A q \in Runs : UpToDate(run[q])'
  BY <1>7 DEF SInv, Undivided, Happens, OneEach, dest, Request
<1> QED BY <1>6, <1>7, <1>8, <1>9 DEF SInv, Request, SourcesNamed, cache

\* A new process has no jobs.
LEMMA RestartKeeps ==
    ASSUME SInv, Restart
    PROVE  SInv'
<1>1. PICK x : x = [IdleRun EXCEPT !.pc = "done"]
  OBVIOUS
<1>2. x \in RunRecs /\ x.pc = "done" /\ Purposeful(x)
  BY <1>1, NothingTyped DEF RunRecs, Purposeful
<1>3. run' \in [Runs -> {IdleRun, x}]
  BY <1>1 DEF Restart
<1>4. \A r \in Runs : run'[r] \in RunRecs /\ Purposeful(run'[r]) /\ run'[r].pc \in {"idle", "done"}
  BY <1>2, <1>3, NothingTyped
<1>5. run' \in [Runs -> RunRecs] /\ mem' \in [Sides -> Snapshot]
  BY <1>3, <1>4, NothingTyped DEF Restart
<1>6. TypeOK'
  BY <1>5 DEF Restart, SInv, TypeOK, RunRecs
<1>7. SourcesNamed' /\ plan' \subseteq Txns
  BY NothingTyped DEF Restart, SInv, SourcesNamed, Sides
<1>8. \A r \in Runs : Purposeful(run[r])' /\ UpToDate(run[r])' /\ ~Active(run'[r])
  BY <1>4 DEF Purposeful, UpToDate, Active
<1>9. Exclusive'
  BY <1>8 DEF Exclusive, Active
<1>10. Undivided' => OneEach'
  BY DEF SInv, Undivided, Happens, OneEach, dest, Restart
<1> QED BY <1>6, <1>7, <1>8, <1>9, <1>10 DEF SInv

\* Others change the destination: if nobody gets between two calls of a
\* transaction, no job relies on what it has read.
LEMMA EditedKeeps ==
    ASSUME SInv, NEW sh \in Shop, Edited(sh),
           OneEach => \A b, c \in Cids : sh.colls[b] = sh.colls[c] /\ sh.colls[b] # NoTitle => b = c
    PROVE  SInv'
<1>1. shop' \in [Sides -> Shop] /\ shop'["source"] = shop["source"] /\ dest' = sh
  BY OfRun DEF Edited, Sides, dest
<1>2. edits' \in 0..MaxEdits
  BY LiveSyncAssumption DEF Edited, MayEdit, SInv, TypeOK
<1>3. TypeOK'
  BY <1>1, <1>2 DEF Edited, SInv, TypeOK, cache
<1>4. SourcesNamed' /\ plan' \subseteq Txns
  BY <1>1 DEF Edited, SInv, SourcesNamed, cache
<1>5. Exclusive' /\ \A r \in Runs : Purposeful(run[r])'
  BY DEF Edited, SInv, Exclusive, Active, Happens, Purposeful
<1>6. Undivided' => OneEach' /\ \A r \in Runs : UpToDate(run[r])'
  BY <1>1 DEF Edited, MayEdit, SInv, Undivided, Happens, OneEach, UpToDate
<1> QED BY <1>3, <1>4, <1>5, <1>6 DEF SInv

LEMMA EditProductKeeps ==
    ASSUME SInv, NEW h \in Handles, NEW ts \in SUBSET Tags, EditProduct(h, ts)
    PROVE  SInv'
<1>1. PICK sh : sh = [dest EXCEPT !.products[h].tags = ts]
  OBVIOUS
<1>2. sh \in Shop /\ sh.colls = dest.colls
  <2>1. PICK q : q = [dest.products[h] EXCEPT !.tags = ts]
    OBVIOUS
  <2>2. q \in Product
    <3>1. dest.products[h] \in Product
      BY OfRun DEF Shop
    <3> QED BY <2>1, <3>1 DEF Product
  <2>3. sh = [dest EXCEPT !.products[h] = q]
    BY <1>1, <2>1
  <2> QED BY <2>2, <2>3, OfRun DEF Shop
<1> QED BY <1>1, <1>2, EditedKeeps DEF EditProduct, OneEach

LEMMA DeleteProductKeeps ==
    ASSUME SInv, NEW h \in Handles, DeleteProduct(h)
    PROVE  SInv'
<1>1. PICK ms : ms = {m \in dest.members : m[2] # h}
  OBVIOUS
<1>2. PICK sh : sh = [dest EXCEPT !.products[h] = Absent, !.members = ms]
  OBVIOUS
<1>3. sh \in Shop /\ sh.colls = dest.colls
  BY <1>1, <1>2, OfRun, NothingTyped DEF Shop
<1>4. Edited(sh)
  BY <1>1, <1>2 DEF DeleteProduct
<1> QED BY <1>3, <1>4, EditedKeeps DEF OneEach

LEMMA CreateCollectionKeeps ==
    ASSUME SInv, NEW t \in Titles, CreateCollection(t)
    PROVE  SInv'
<1>1. PICK c : c = NewCid
  OBVIOUS
<1>2. c \in Cids /\ dest.colls[c] = NoTitle
  BY <1>1, NewCidIsFree DEF CreateCollection
<1>3. PICK sh : sh = [dest EXCEPT !.colls[c] = t]
  OBVIOUS
<1>4. /\ sh \in Shop /\ sh.colls = [dest.colls EXCEPT ![c] = t]
      /\ dest.colls \in [Cids -> Titles \cup {NoTitle}]
  BY <1>2, <1>3, OfRun DEF Shop
<1>5. \A b \in Cids : dest.colls[b] # t
  BY DEF CreateCollection, CollectionTitled
<1>6. Edited(sh)
  BY <1>1, <1>3 DEF CreateCollection
<1>7. OneEach => \A a, b \in Cids : sh.colls[a] = sh.colls[b] /\ sh.colls[a] # NoTitle => a = b
  BY <1>2, <1>4, <1>5 DEF OneEach
<1> QED BY <1>4, <1>6, <1>7, EditedKeeps

LEMMA StutterKeeps ==
    ASSUME SInv, UNCHANGED vars
    PROVE  SInv'
<1>1. TypeOK' /\ plan' \subseteq Txns /\ SourcesNamed'
  BY DEF vars, cache, SInv, TypeOK, SourcesNamed
<1> QED BY <1>1, NobodyMoves DEF vars

LEMMA SyncKeeps == Spec => []SInv
<1>1. SInv /\ [Next]_vars => SInv'
  <2> SUFFICES ASSUME SInv, [Next]_vars PROVE SInv'
    OBVIOUS
  <2>1. CASE \E s \in Sides : Scan(s) \/ LoadSnapshot(s) \/ Age(s)
    BY <2>1, ScanKeeps, LoadSnapshotKeeps, AgeKeeps
  <2>2. CASE \E r \in Runs : Job(r) \/ \E approved \in SUBSET plan : Request(r, approved)
    BY <2>2, JobKeeps, RequestKeeps
  <2>3. CASE \E h \in Handles : DeleteProduct(h) \/ \E ts \in SUBSET Tags : EditProduct(h, ts)
    BY <2>3, DeleteProductKeeps, EditProductKeeps
  <2>4. CASE \E t \in Titles : CreateCollection(t)
    BY <2>4, CreateCollectionKeeps
  <2> QED BY <2>1, <2>2, <2>3, <2>4, DiffKeeps, RestartKeeps, StutterKeeps DEF Next
<1> QED BY <1>1, InitSInv, PTL DEF Spec

-----------------------------------------------------------------------------
(* What holds of the stores and the executions *)

\* Stores, snapshots, plans and jobs are what they are meant to be, and where
\* nobody gets between two calls of a transaction no title has two collections,
\* whatever the diff missed, the executions repeat, others create and calls fail.
THEOREM SyncIsSound == Spec => []SyncInv
<1>1. SInv => SyncInv
  <2> SUFFICES ASSUME SInv PROVE SyncInv
    OBVIOUS
  <2>1. ASSUME Undivided, NEW t \in Titles PROVE Cardinality(CollectionTitled(dest, t)) <= 1
    <3>1. \A b, c \in CollectionTitled(dest, t) : b = c
      BY <2>1, LiveSyncAssumption DEF SInv, OneEach, CollectionTitled
    <3>2. CollectionTitled(dest, t) = {} \/ \E c : CollectionTitled(dest, t) = {c}
      BY <3>1
    <3>3. Cardinality(CollectionTitled(dest, t)) \in {0, 1}
      BY <3>2, FS_EmptySet, FS_Singleton, Zenon
    <3> QED BY <3>3
  <2> QED BY <2>1 DEF SInv, SyncInv, OneCollectionPerTitle
<1> QED BY <1>1, SyncKeeps, PTL

\* A write of tags or variants changes what its transaction is about and nothing
\* else of the product as it is now, whatever others did since the scan.
THEOREM WritesMerge == Spec => PutKeepsOthers
<1>1. SInv /\ Next => (Undivided => \A r \in Runs : Put(r) =>
         LET t == run[r].cur
             p == dest.products[t.handle]
             q == shop'["dest"].products[t.handle]
         IN
         /\ \A x \in Tags \ t.tags : x \in q.tags <=> x \in p.tags
         /\ p.there => \A x \in t.tags : x \in q.tags <=> t.kind = "tags_add"
         /\ t.tags # {} => q = [p EXCEPT !.tags = q.tags])
  <2> SUFFICES ASSUME SInv, Undivided, NEW r \in Runs, Put(r)
               PROVE  LET t == run[r].cur
                          p == dest.products[t.handle]
                          q == shop'["dest"].products[t.handle]
                      IN
                      /\ \A x \in Tags \ t.tags : x \in q.tags <=> x \in p.tags
                      /\ p.there => \A x \in t.tags : x \in q.tags <=> t.kind = "tags_add"
                      /\ t.tags # {} => q = [p EXCEPT !.tags = q.tags]
    BY Zenon
  <2>1. PICK t : t = run[r].cur
    OBVIOUS
  <2>2. /\ t.handle \in Handles /\ t.kind \in {"tags_add", "tags_remove", "variant", "price"}
        /\ t.kind \in {"variant", "price"} => t.tags = {}
        /\ t.tags \subseteq Tags /\ t.price \in Prices \cup {0}
    BY <2>1, OfRun, SMTT(30) DEF Put, Purposeful, Txns, Transactions
  <2>3. PICK p : p = dest.products[t.handle]
    BY Zenon
  <2>4. p \in Product /\ p.there /\ run[r].got = p
    BY <2>1, <2>2, <2>3, OfRun DEF SInv, UpToDate, Put, Shop
  <2>5. PICK n : n = Changed(p, t)
    OBVIOUS
  <2>6. PICK q : q = IF t.kind \in {"tags_add", "tags_remove"} THEN [p EXCEPT !.tags = n.tags]
                     ELSE [p EXCEPT !.price = n.price]
    BY Zenon
  <2>7. shop' = [shop EXCEPT !["dest"].products[t.handle] = q]
    BY <2>1, <2>3, <2>4, <2>5, <2>6, Zenon DEF Put
  <2>8. shop'["dest"].products[t.handle] = q
    BY <2>2, <2>7, OfRun, SMTT(30) DEF Shop, Sides
  <2>9. CASE t.kind = "tags_add"
    <3>1. q = [p EXCEPT !.tags = p.tags \cup t.tags]
      BY <2>4, <2>5, <2>6, <2>9 DEF Changed, Product
    <3>2. q.tags = p.tags \cup t.tags
      BY <2>4, <3>1 DEF Product
    <3>3. q = [p EXCEPT !.tags = q.tags]
      BY <3>1, <3>2, Zenon
    <3> QED BY <2>1, <2>3, <2>8, <2>9, <3>2, <3>3, Zenon
  <2>10. CASE t.kind = "tags_remove"
    <3>1. q = [p EXCEPT !.tags = p.tags \ t.tags]
      BY <2>4, <2>5, <2>6, <2>10 DEF Changed, Product
    <3>2. q.tags = p.tags \ t.tags
      BY <2>4, <3>1 DEF Product
    <3>3. q = [p EXCEPT !.tags = q.tags]
      BY <3>1, <3>2
    <3> QED BY <2>1, <2>3, <2>8, <2>10, <3>2, <3>3, Zenon
  <2>11. CASE t.kind \in {"variant", "price"}
    <3>1. q.tags = p.tags /\ t.tags = {}
      BY <2>2, <2>4, <2>6, <2>11 DEF Product
    <3> QED BY <2>1, <2>3, <2>8, <3>1
  <2> QED BY <2>2, <2>9, <2>10, <2>11, ZenonT(40)
<1> QED BY <1>1, SyncKeeps, PTL DEF Spec, PutKeepsOthers

-----------------------------------------------------------------------------
(* An execution of all that differs *)

\* Nobody else changes the destination, no call fails, no value is cut.
Quiet == setting.env \subseteq {"restart"}

Src(h) == shop["source"].products[h]
Dst(h) == dest.products[h]

\* Transactions about a product alone.
Plain == {"create", "delete", "field", "tags_add", "tags_remove", "variant", "price"}

\* A diff has a transaction of kind k for a product, p in the source, q in the
\* destination.
Due(k, p, q) ==
    \/ k = "create" /\ "products" \in setting.fields /\ p.there /\ ~q.there
    \/ k = "delete" /\ "products" \in setting.fields /\ ~p.there /\ q.there
    \/ /\ p.there /\ q.there
       /\ \/ k = "field" /\ "value" \in setting.fields /\ p.value # q.value
          \/ k = "tags_add" /\ "tags" \in setting.fields /\ p.tags \ q.tags # {}
          \/ k = "tags_remove" /\ "tags" \in setting.fields /\ q.tags \ p.tags # {}
          \/ k = "variant" /\ "variants" \in setting.fields /\ p.price # 0 /\ q.price = 0
          \/ k = "price" /\ "variants" \in setting.fields /\ p.price \notin {0, q.price} /\ q.price # 0

\* ... which says this.
Says(t, p, q) ==
    /\ t.kind = "field" => t.value = Short(p.value)
    /\ t.kind = "tags_add" => t.tags = p.tags \ q.tags
    /\ t.kind = "tags_remove" => t.tags = q.tags \ p.tags
    /\ t.kind \in {"variant", "price"} => t.price = p.price

\* What is left to do is what still differs in the products, of those that the
\* destination did not have that they are missing, ...
ProductsLeft(todo, had) ==
    /\ \A h \in Handles, k \in Plain :
          Due(k, Src(h), Dst(h)) /\ (h \in had \/ k \in {"create", "delete"})
             => \E t \in todo : t.kind = k /\ t.handle = h
    /\ \A t \in todo : t.kind = "create" => t.handle \notin had
    /\ \A t \in todo : t.kind \in Plain =>
          Due(t.kind, Src(t.handle), Dst(t.handle)) /\ Says(t, Src(t.handle), Dst(t.handle))
    /\ \A t, u \in todo : t.kind \in Plain /\ t.kind = u.kind /\ t.handle = u.handle => t = u

\* ... and covers the collections titled T that a product is not in.
Settled(todo, h, T) ==
    \/ \E d \in Cids :
          /\ dest.colls[d] = T
          /\ \/ <<d, h>> \in dest.members
             \/ \E t \in todo : t.kind = "member" /\ t.handle = h /\ t.cid = d
    \/ \E t \in todo : t.kind = "collection" /\ t.handle = h /\ t.title = T

CollectionsLeft(todo, had) ==
    /\ \A t \in todo : t.kind \in {"collection", "member"} => t.handle \in had /\ Src(t.handle).there
    /\ \A h \in had : Src(h).there => Dst(h).there
    /\ "collections" \in setting.fields => \A h \in had, c \in Cids :
          Src(h).there /\ <<c, h>> \in shop["source"].members
            => Settled(todo, h, shop["source"].colls[c])

\* What a job remembers of the collections is so.
Remembers(x) ==
    /\ \A T \in Titles : x.resolved[T] # 0 => dest.colls[x.resolved[T]] = T
    /\ \A c \in Cids, h \in x.had :
          Src(h).there /\ <<c, h>> \in x.known => <<c, h>> \in dest.members

\* A job that began with all that differs.
Accurate(x) ==
    /\ x.pc \in {"list", "next", "put", "find", "make", "collects", "add"}
    /\ x.pc \notin {"list", "next"} => x.cur \in x.todo
    /\ ProductsLeft(x.todo, x.had) /\ CollectionsLeft(x.todo, x.had) /\ Remembers(x)

Unbegun(x) == x.pc \in {"idle", "token"} => x.resolved = [t \in Titles |-> 0] /\ x.known = {}

QInv == Quiet =>
    /\ \A h \in Handles : Src(h).value # "long"
    /\ \A r \in Runs : Unbegun(run[r]) /\ (run[r].whole => Accurate(run[r]))

\* When a transaction is over, its product differs no more in what it was about,
\* and otherwise as before.
Effect(t, p, q, q2) ==
    /\ ~Due(t.kind, p, q2)
    /\ \A k \in Plain \ {t.kind} :
          Due(k, p, q2) => Due(k, p, q) \/ (t.kind = "create" /\ k # "delete")
    /\ \A u : u.kind \in Plain \ {t.kind} /\ Due(u.kind, p, q) /\ Says(u, p, q)
         => Due(u.kind, p, q2) /\ Says(u, p, q2)
    /\ p.there /\ q.there => q2.there

\* What the transaction makes of the product q, if p is in the source.
Made(t, p, q) ==
    CASE t.kind = "create" -> [Absent EXCEPT !.there = TRUE]
      [] t.kind = "delete" -> Absent
      [] t.kind = "field" -> [q EXCEPT !.value = t.value]
      [] OTHER -> Changed(q, t)

LEMMA MadeHasEffect ==
    ASSUME NEW p \in Product, NEW q \in Product, NEW t, t.kind \in Plain,
           Due(t.kind, p, q), Says(t, p, q), p.value # "long"
    PROVE  Effect(t, p, q, Made(t, p, q)) /\ (t.kind \notin {"create", "delete"} => q.there)
<1>1. CASE t.kind = "create"
  <2>1. PICK q2 : q2 = [Absent EXCEPT !.there = TRUE]
    OBVIOUS
  <2>2. Made(t, p, q) = q2 /\ q2.there
    BY <1>1, <2>1 DEF Made, Absent
  <2> QED BY <1>1, <2>2 DEF Effect, Due, Says, Plain
<1>2. CASE t.kind = "delete"
  <2>1. Made(t, p, q) = Absent /\ ~Absent.there
    BY <1>2 DEF Made, Absent
  <2> QED BY <1>2, <2>1 DEF Effect, Due, Says, Plain, Product
<1>3. CASE t.kind = "field"
  <2>1. Short(p.value) = p.value
    BY DEF Short
  <2>2. PICK q2 : q2 = [q EXCEPT !.value = p.value]
    OBVIOUS
  <2>3. Made(t, p, q) = q2
    BY <1>3, <2>1, <2>2 DEF Made, Says
  <2>4. q2.value = p.value /\ q2.there = q.there /\ q2.tags = q.tags /\ q2.price = q.price
    BY <2>2 DEF Product
  <2> QED BY <1>3, <2>3, <2>4 DEF Effect, Due, Says, Plain
<1>4. CASE t.kind \in {"tags_add", "tags_remove"}
  <2>1. PICK ts : ts = IF t.kind = "tags_add" THEN q.tags \cup (p.tags \ q.tags)
                       ELSE q.tags \ (q.tags \ p.tags)
    OBVIOUS
  <2>2. PICK q2 : q2 = [q EXCEPT !.tags = ts]
    OBVIOUS
  <2>3. Made(t, p, q) = q2
    BY <1>4, <2>1, <2>2 DEF Made, Says, Changed
  <2>4. q2.value = q.value /\ q2.there = q.there /\ q2.tags = ts /\ q2.price = q.price
    BY <2>2 DEF Product
  <2>5. /\ t.kind = "tags_add" => p.tags \ ts = {} /\ ts \ p.tags = q.tags \ p.tags
        /\ t.kind = "tags_remove" => ts \ p.tags = {} /\ p.tags \ ts = p.tags \ q.tags
    BY <1>4, <2>1
  <2> QED BY <1>4, <2>3, <2>4, <2>5 DEF Effect, Due, Says, Plain
<1>5. CASE t.kind \in {"variant", "price"}
  <2>1. PICK q2 : q2 = [q EXCEPT !.price = p.price]
    OBVIOUS
  <2>2. Made(t, p, q) = q2
    BY <1>5, <2>1 DEF Made, Says, Changed, Due
  <2>3. q2.value = q.value /\ q2.there = q.there /\ q2.tags = q.tags /\ q2.price = p.price
    BY <2>1 DEF Product
  <2> QED BY <1>5, <2>2, <2>3 DEF Effect, Due, Says, Plain
<1> QED BY <1>1, <1>2, <1>3, <1>4, <1>5 DEF Plain

\* Where nobody overlaps with a job, there is no other that began with all that
\* differs.
LEMMA QuietJob ==
    ASSUME SInv, QInv, NEW r \in Runs, Active(run[r]), NEW x \in RunRecs,
           run' = [run EXCEPT ![r] = x], shop'["source"] = shop["source"], setting' = setting,
           Unbegun(x), Quiet /\ x.whole => Accurate(x)'
    PROVE  QInv'
<1> SUFFICES ASSUME Quiet
             PROVE  /\ \A h \in Handles : Src(h)'.value # "long"
                    /\ \A q \in Runs : Unbegun(run'[q]) /\ (run'[q].whole => Accurate(run[q])')
  BY DEF QInv, Quiet, Unbegun
<1>1. run'[r] = x /\ \A q \in Runs \ {r} : run'[q] = run[q]
  BY OfRun
<1>2. \A q \in Runs \ {r} : ~Active(run[q])
  BY DEF Quiet, SInv, Exclusive, Happens
<1>3. \A q \in Runs \ {r} : Unbegun(run[q]) /\ ~run[q].whole
  BY <1>2 DEF QInv, Accurate, Active
<1>4. \A q \in Runs \ {r} : Unbegun(run'[q]) /\ ~run'[q].whole
  BY <1>1, <1>3
<1>5. x.whole => Accurate(run[r])'
  BY <1>1 DEF Accurate
<1> QED BY <1>1, <1>4, <1>5 DEF QInv, Src

\* A job that has begun.
LEMMA Begun ==
    ASSUME SInv, NEW r \in Runs, run[r].pc \notin {"idle", "token", "done"}
    PROVE  Active(run[r])
BY DEF Active

\* A step that leaves the stores alone.
LEMMA SameStores ==
    ASSUME UNCHANGED <<shop, setting>>, NEW x, Accurate(x)
    PROVE  Accurate(x)'
<1>1. dest' = dest /\ \A h : Src(h)' = Src(h) /\ Dst(h)' = Dst(h)
  BY DEF dest, Src, Dst
<1>2. ProductsLeft(x.todo, x.had)'
  BY <1>1 DEF Accurate, ProductsLeft, Due
<1>3. CollectionsLeft(x.todo, x.had)'
  BY <1>1 DEF Accurate, CollectionsLeft, Settled
<1>4. Remembers(x)'
  BY <1>1 DEF Accurate, Remembers
<1> QED BY <1>2, <1>3, <1>4 DEF Accurate

\* A transaction about a product is over.
LEMMA ProductsStep ==
    ASSUME NEW todo, NEW had, todo \subseteq Txns, ProductsLeft(todo, had),
           NEW t \in todo, t.kind \in Plain, NEW q, Effect(t, Src(t.handle), Dst(t.handle), q),
           Dst(t.handle)' = q, \A h \in Handles \ {t.handle} : Dst(h)' = Dst(h),
           shop'["source"] = shop["source"], setting' = setting
    PROVE  ProductsLeft(todo \ {t}, had)'
<1>1. \A h : Src(h)' = Src(h)
  BY DEF Src
<1>2. \A k, p, d : Due(k, p, d)' <=> Due(k, p, d)
  BY DEF Due
<1>3. ASSUME NEW h \in Handles, NEW k \in Plain, Due(k, Src(h)', Dst(h)'),
             h \in had \/ k \in {"create", "delete"}
      PROVE  \E u \in todo \ {t} : u.kind = k /\ u.handle = h
  <2>1. h # t.handle \/ k # t.kind
    BY <1>1, <1>3 DEF Effect
  <2>2. h = t.handle /\ t.kind = "create" => k \in {"create", "delete"}
    BY <1>3 DEF ProductsLeft
  <2>3. Due(k, Src(h), Dst(h))
    BY <1>1, <1>3, <2>1, <2>2 DEF Effect
  <2> QED BY <1>3, <2>1, <2>3 DEF ProductsLeft
<1>4. ASSUME NEW u \in todo \ {t}, u.kind \in Plain
      PROVE  Due(u.kind, Src(u.handle)', Dst(u.handle)') /\ Says(u, Src(u.handle)', Dst(u.handle)')
  <2>1. Due(u.kind, Src(u.handle), Dst(u.handle)) /\ Says(u, Src(u.handle), Dst(u.handle))
    BY <1>4 DEF ProductsLeft
  <2>2. u.handle \in Handles
    BY DEF Txns, Transactions
  <2>3. CASE u.handle = t.handle
    <3>1. u.kind # t.kind
      BY <1>4, <2>3 DEF ProductsLeft
    <3> QED BY <1>1, <1>4, <2>1, <2>3, <3>1 DEF Effect
  <2>4. CASE u.handle # t.handle
    BY <1>1, <2>1, <2>2, <2>4
  <2> QED BY <2>3, <2>4
<1>5. \A u, v \in todo \ {t} : u.kind \in Plain /\ u.kind = v.kind /\ u.handle = v.handle => u = v
  BY DEF ProductsLeft
<1> QED BY <1>1, <1>2, <1>3, <1>4, <1>5 DEF ProductsLeft, Says

\* A step that leaves the products alone and ends at most a transaction about
\* collections.
LEMMA SameProducts ==
    ASSUME NEW todo, NEW had, ProductsLeft(todo, had), NEW left, left \subseteq todo,
           \A t \in todo \ left : t.kind \notin Plain,
           \A h \in Handles : Dst(h)' = Dst(h), todo \subseteq Txns,
           shop'["source"] = shop["source"], setting' = setting
    PROVE  ProductsLeft(left, had)'
<1>1. \A h : Src(h)' = Src(h)
  BY DEF Src
<1>2. \A k, p, d : Due(k, p, d)' <=> Due(k, p, d)
  BY DEF Due
<1>3. \A t \in todo : t.handle \in Handles
  BY DEF Txns, Transactions
<1> QED BY <1>1, <1>2, <1>3 DEF ProductsLeft, Says

\* No step takes a collection's title, a member that the source knows, or a product
\* that it has: what a transaction about collections was for is there when it is over.
LEMMA CollectionsStep ==
    ASSUME SInv, NEW x \in RunRecs, CollectionsLeft(x.todo, x.had), NEW left \in SUBSET x.todo,
           \A h \in Handles : Src(h).there /\ Dst(h).there => Dst(h)'.there,
           \A c \in Cids : dest.colls[c] \in Titles => dest'.colls[c] = dest.colls[c],
           \A c \in Cids, h \in Handles :
              Src(h).there /\ <<c, h>> \in dest.members => <<c, h>> \in dest'.members,
           \A t \in x.todo \ left : t.kind = "collection" =>
              \E d \in Cids : dest'.colls[d] = t.title /\ <<d, t.handle>> \in dest'.members,
           \A t \in x.todo \ left : t.kind = "member" => <<t.cid, t.handle>> \in dest'.members,
           shop'["source"] = shop["source"], setting' = setting
    PROVE  CollectionsLeft(left, x.had)'
<1>1. \A h : Src(h)' = Src(h)
  BY DEF Src
<1>2. x.had \subseteq Handles
  BY DEF RunRecs
<1>3. ASSUME "collections" \in setting.fields, NEW h \in x.had, NEW c \in Cids, Src(h).there,
             <<c, h>> \in shop["source"].members
      PROVE  Settled(left, h, shop["source"].colls[c])'
  <2>1. PICK T : T = shop["source"].colls[c]
    OBVIOUS
  <2>2. T \in Titles
    BY <1>3, <2>1 DEF SInv, SourcesNamed, Named
  <2>3. Settled(x.todo, h, T)
    BY <1>3, <2>1 DEF CollectionsLeft
  <2>4. CASE \E d \in Cids : dest.colls[d] = T /\ <<d, h>> \in dest.members
    <3>1. PICK d \in Cids : dest.colls[d] = T /\ <<d, h>> \in dest.members
      BY <2>4
    <3>2. dest'.colls[d] = T /\ <<d, h>> \in dest'.members
      BY <1>2, <1>3, <2>2, <3>1
    <3> QED BY <2>1, <3>2 DEF Settled
  <2>5. ASSUME NEW d \in Cids, dest.colls[d] = T,
               NEW t \in x.todo, t.kind = "member", t.handle = h, t.cid = d
        PROVE  Settled(left, h, T)'
    <3>1. dest'.colls[d] = T
      BY <2>2, <2>5
    <3>2. t \in left \/ <<d, h>> \in dest'.members
      BY <2>5
    <3> QED BY <2>5, <3>1, <3>2 DEF Settled
  <2>6. ASSUME NEW t \in x.todo, t.kind = "collection", t.handle = h, t.title = T
        PROVE  Settled(left, h, T)'
    BY <2>6 DEF Settled
  <2> QED BY <2>1, <2>3, <2>4, <2>5, <2>6, ZenonT(40) DEF Settled
<1>4. \A h \in x.had : Src(h).there => Dst(h)'.there
  BY <1>2 DEF CollectionsLeft
<1>5. \A t \in left : t.kind \in {"collection", "member"} => t.handle \in x.had /\ Src(t.handle).there
  BY DEF CollectionsLeft
<1> QED BY <1>1, <1>3, <1>4, <1>5 DEF CollectionsLeft

\* ... and what was remembered of them is still so.
LEMMA RemembersStep ==
    ASSUME SInv, NEW x \in RunRecs, Remembers(x), NEW y, y.resolved = x.resolved, y.had = x.had,
           \A c \in Cids : dest.colls[c] \in Titles => dest'.colls[c] = dest.colls[c],
           \A c \in Cids, h \in Handles :
              Src(h).there /\ <<c, h>> \in dest.members => <<c, h>> \in dest'.members,
           \A m \in y.known : m \in x.known \/ m \in dest'.members,
           shop'["source"] = shop["source"]
    PROVE  Remembers(y)'
<1>1. \A h : Src(h)' = Src(h)
  BY DEF Src
<1>2. \A T \in Titles : x.resolved[T] # 0 => x.resolved[T] \in Cids
  BY DEF RunRecs
<1>3. x.had \subseteq Handles
  BY DEF RunRecs
<1> QED BY <1>1, <1>2, <1>3 DEF Remembers

\* What a step of a job that began with all that differs starts from.
LEMMA Whole ==
    ASSUME SInv, QInv, Quiet, NEW r \in Runs, run[r].whole
    PROVE  /\ Accurate(run[r]) /\ run[r] \in RunRecs /\ Active(run[r])
           /\ run[r].todo \subseteq Txns
           /\ \A t \in run[r].todo : t.handle \in Handles /\ Src(t.handle) \in Product
                                     /\ Dst(t.handle) \in Product /\ Src(t.handle).value # "long"
<1>1. Accurate(run[r]) /\ run[r] \in RunRecs /\ run[r].todo \subseteq Txns
  BY OfRun DEF QInv, Purposeful
<1>2. \A h \in Handles : Src(h) \in Product /\ Dst(h) \in Product /\ Src(h).value # "long"
  BY OfRun DEF QInv, Src, Dst, Shop, Sides
<1> QED BY <1>1, <1>2 DEF Accurate, Active, Txns, Transactions

\* A job that goes on with the same left to do.
LEMMA StillAccurate ==
    ASSUME NEW x, NEW y, Accurate(x), y.todo = x.todo, y.had = x.had, y.resolved = x.resolved,
           y.known = x.known, y.pc \in {"list", "next", "put", "find", "make", "collects", "add"},
           y.pc \notin {"list", "next"} => y.cur \in y.todo
    PROVE  Accurate(y)
<1>1. Remembers(y)
  <2>1. Remembers(x)
    BY DEF Accurate
  <2> QED BY <2>1 DEF Remembers
<1> QED BY <1>1 DEF Accurate

\* A job that writes nothing and goes on to x.
LEMMA QuietRead ==
    ASSUME SInv, QInv, NEW r \in Runs, run[r].pc \notin {"idle", "token", "done"},
           NEW x \in RunRecs, run' = [run EXCEPT ![r] = x], UNCHANGED <<shop, setting>>,
           x.pc \notin {"idle", "token"}, Quiet /\ x.whole => Accurate(x)
    PROVE  QInv'
BY QuietJob, SameStores, Begun DEF Unbegun

LEMMA StartQuiet ==
    ASSUME SInv, QInv, NEW r \in Runs, Start(r),
           Quiet /\ run[r].todo = LiveDiff =>
              ProductsLeft(run[r].todo, In(Taken("dest"))) /\ CollectionsLeft(run[r].todo, In(Taken("dest")))
    PROVE  QInv'
<1>1. PICK pc \in {"list", "next"} :
         run' = [run EXCEPT ![r].pc = pc, ![r].whole = (run[r].todo = LiveDiff),
                            ![r].had = In(Taken("dest"))]
  BY DEF Start
<1>2. PICK x : x = [run[r] EXCEPT !.pc = pc, !.whole = (run[r].todo = LiveDiff),
                                  !.had = In(Taken("dest"))]
  OBVIOUS
<1>3. In(Taken("dest")) \subseteq Handles /\ (run[r].todo = LiveDiff) \in BOOLEAN
  BY DEF In
<1>4. /\ x \in RunRecs /\ x.pc = pc /\ x.whole = (run[r].todo = LiveDiff) /\ x.had = In(Taken("dest"))
      /\ x.todo = run[r].todo /\ x.resolved = run[r].resolved /\ x.known = run[r].known
  BY <1>2, <1>3, OfRun DEF RunRecs
<1>5. run' = [run EXCEPT ![r] = x]
  BY <1>1, <1>2
<1>6. ASSUME Quiet, x.whole PROVE Accurate(x)
  <2>1. x.resolved = [t \in Titles |-> 0] /\ x.known = {}
    BY <1>4, <1>6 DEF Start, QInv, Unbegun
  <2> QED BY <1>4, <1>6, <2>1 DEF Accurate, Remembers
<1> QED BY <1>4, <1>5, <1>6, QuietJob, SameStores DEF Start, Active, Unbegun

LEMMA ListQuiet ==
    ASSUME SInv, QInv, NEW r \in Runs, List(r)
    PROVE  QInv'
<1>1. PICK x : x = [run[r] EXCEPT !.pc = "next"]
  OBVIOUS
<1>2. /\ x \in RunRecs /\ x.pc = "next" /\ x.whole = run[r].whole /\ x.had = run[r].had
      /\ x.todo = run[r].todo /\ x.resolved = run[r].resolved /\ x.known = run[r].known
  BY <1>1, OfRun DEF RunRecs
<1>3. Quiet /\ x.whole => Accurate(x)
  BY <1>2, Whole, StillAccurate
<1>4. run' = [run EXCEPT ![r] = x]
  BY <1>1 DEF List
<1> QED BY <1>2, <1>3, <1>4, QuietRead DEF List

\* The job has ended.
LEMMA EndQuiet ==
    ASSUME SInv, QInv, NEW r \in Runs, End(r) \/ TokenFails(r)
    PROVE  QInv'
<1>1. PICK x : x = [IdleRun EXCEPT !.pc = "done"]
  OBVIOUS
<1>2. x \in RunRecs /\ x.pc = "done" /\ ~x.whole
  BY <1>1, NothingTyped DEF IdleRun, RunRecs
<1>3. run' = [run EXCEPT ![r] = x] /\ UNCHANGED <<shop, setting>>
  BY <1>1 DEF End, TokenFails
<1>4. Active(run[r])
  BY DEF End, TokenFails, Active
<1> QED BY <1>2, <1>3, <1>4, QuietJob DEF Unbegun

\* Where calls are not refused, none fails.
LEMMA CallFailsQuiet ==
    ASSUME SInv, QInv, NEW r \in Runs, NEW t, CallFails(r, t)
    PROVE  QInv'
<1>1. ~Quiet /\ setting' = setting
  BY DEF CallFails, Quiet, Happens
<1> QED BY <1>1 DEF QInv, Quiet

LEMMA GetQuiet ==
    ASSUME SInv, QInv, NEW r \in Runs, NEW t \in run[r].todo, Get(r, t)
    PROVE  QInv'
<1>1. run[r].pc = "next" /\ UNCHANGED <<shop, setting>>
  BY DEF Get, First
<1>2. CASE dest.products[t.handle].there
  <2>1. PICK x : x = [run[r] EXCEPT !.pc = "put", !.cur = t, !.got = dest.products[t.handle]]
    OBVIOUS
  <2>2. t \in Transactions /\ dest.products[t.handle] \in Product
    BY OfRun DEF Purposeful, Txns, Transactions, Shop
  <2>3. /\ x \in RunRecs /\ x.pc = "put" /\ x.cur = t /\ x.whole = run[r].whole /\ x.had = run[r].had
        /\ x.todo = run[r].todo /\ x.resolved = run[r].resolved /\ x.known = run[r].known
    BY <2>1, <2>2, OfRun DEF RunRecs
  <2>4. Quiet /\ x.whole => Accurate(x)
    BY <2>3, Whole, StillAccurate
  <2>5. run' = [run EXCEPT ![r] = x]
    BY <1>2, <2>1 DEF Get
  <2> QED BY <1>1, <2>3, <2>4, <2>5, QuietRead
<1>3. CASE ~dest.products[t.handle].there
  <2>1. PICK x : x = Dropped(r, t)
    OBVIOUS
  <2>2. run' = [run EXCEPT ![r] = x]
    BY <1>3, <2>1 DEF Get
  <2>3. Quiet => ~run[r].whole
    BY <1>3, Whole DEF Get, Accurate, ProductsLeft, Plain, Due, Dst
  <2>4. x \in RunRecs /\ x.pc = "next" /\ x.whole = run[r].whole
    BY <2>1, DroppedLeaves
  <2> QED BY <1>1, <2>2, <2>3, <2>4, QuietRead
<1> QED BY <1>2, <1>3

LEMMA ResolveQuiet ==
    ASSUME SInv, QInv, NEW r \in Runs, NEW t \in run[r].todo, Resolve(r, t)
    PROVE  QInv'
<1>1. PICK pc \in {"find", "add"} : run' = [run EXCEPT ![r].cur = t, ![r].pc = pc]
  BY DEF Resolve
<1>2. PICK x : x = [run[r] EXCEPT !.cur = t, !.pc = pc]
  OBVIOUS
<1>3. t \in Transactions
  BY OfRun DEF Purposeful, Txns
<1>4. /\ x \in RunRecs /\ x.pc = pc /\ x.cur = t /\ x.whole = run[r].whole /\ x.had = run[r].had
      /\ x.todo = run[r].todo /\ x.resolved = run[r].resolved /\ x.known = run[r].known
  BY <1>2, <1>3, OfRun DEF RunRecs
<1>5. Quiet /\ x.whole => Accurate(x)
  BY <1>4, Whole, StillAccurate
<1>6. run' = [run EXCEPT ![r] = x]
  BY <1>1, <1>2
<1> QED BY <1>4, <1>5, <1>6, QuietRead DEF Resolve, First

LEMMA FindQuiet ==
    ASSUME SInv, QInv, NEW r \in Runs, Find(r)
    PROVE  QInv'
<1>1. run[r].pc = "find" /\ UNCHANGED <<shop, setting>>
  BY DEF Find
<1>2. run[r].cur.title \in Titles
  BY OfRun DEF Find, Purposeful, Txns
<1>3. CASE run' = [run EXCEPT ![r].pc = "make"]
  <2>1. PICK x : x = [run[r] EXCEPT !.pc = "make"]
    OBVIOUS
  <2>2. /\ x \in RunRecs /\ x.pc = "make" /\ x.cur = run[r].cur /\ x.whole = run[r].whole
        /\ x.had = run[r].had /\ x.todo = run[r].todo /\ x.resolved = run[r].resolved
        /\ x.known = run[r].known
    BY <2>1, OfRun DEF RunRecs
  <2>3. Quiet /\ x.whole => Accurate(x)
    <3>1. Quiet /\ run[r].whole => run[r].cur \in run[r].todo
      BY <1>1, Whole DEF Accurate
    <3> QED BY <2>2, <3>1, Whole, StillAccurate
  <2> QED BY <1>1, <1>3, <2>1, <2>2, <2>3, QuietRead
<1>4. ASSUME NEW c \in CollectionTitled(dest, run[r].cur.title), run' = Resolved(r, c)
      PROVE  QInv'
  <2>1. PICK x : x = [run[r] EXCEPT !.pc = "collects", !.resolved[run[r].cur.title] = c]
    OBVIOUS
  <2>2. c \in Cids /\ dest.colls[c] = run[r].cur.title
    BY DEF CollectionTitled
  <2>3. /\ x \in RunRecs /\ x.pc = "collects" /\ x.cur = run[r].cur /\ x.whole = run[r].whole
        /\ x.had = run[r].had /\ x.todo = run[r].todo /\ x.known = run[r].known
        /\ x.resolved = [run[r].resolved EXCEPT ![run[r].cur.title] = c]
        /\ run[r].resolved \in [Titles -> Cids \cup {0}]
    BY <1>2, <2>1, <2>2, OfRun DEF RunRecs
  <2>4. ASSUME Quiet, x.whole PROVE Accurate(x)
    <3>1. Accurate(run[r]) /\ Remembers(run[r])
      BY <2>3, <2>4, Whole DEF Accurate
    <3>2. \A T \in Titles : x.resolved[T] # 0 => dest.colls[x.resolved[T]] = T
      BY <1>2, <2>2, <2>3, <3>1 DEF Remembers
    <3>3. Remembers(x)
      BY <2>3, <3>1, <3>2 DEF Remembers
    <3> QED BY <1>1, <2>3, <3>1, <3>3 DEF Accurate
  <2>5. run' = [run EXCEPT ![r] = x]
    BY <1>4, <2>1 DEF Resolved
  <2> QED BY <1>1, <2>3, <2>4, <2>5, QuietRead
<1> QED BY <1>3, <1>4 DEF Find

LEMMA CollectsQuiet ==
    ASSUME SInv, QInv, NEW r \in Runs, Collects(r)
    PROVE  QInv'
<1>1. PICK ms : /\ ms \subseteq dest.members
                /\ run' = [run EXCEPT ![r].pc = "add", ![r].known = @ \cup ms]
  BY DEF Collects
<1>2. PICK x : x = [run[r] EXCEPT !.pc = "add", !.known = @ \cup ms]
  OBVIOUS
<1>3. dest.members \subseteq Cids \X Handles
  BY OfRun DEF Shop
<1>4. /\ x \in RunRecs /\ x.pc = "add" /\ x.cur = run[r].cur /\ x.whole = run[r].whole
      /\ x.had = run[r].had /\ x.todo = run[r].todo /\ x.resolved = run[r].resolved
      /\ x.known = run[r].known \cup ms
  BY <1>1, <1>2, <1>3, OfRun DEF RunRecs
<1>5. ASSUME Quiet, x.whole PROVE Accurate(x)
  <2>1. Accurate(run[r]) /\ Remembers(run[r])
    BY <1>4, <1>5, Whole DEF Accurate
  <2>2. Remembers(x)
    BY <1>1, <1>4, <2>1 DEF Remembers
  <2> QED BY <1>4, <2>1, <2>2 DEF Collects, Accurate
<1>6. run' = [run EXCEPT ![r] = x]
  BY <1>1, <1>2
<1> QED BY <1>4, <1>5, <1>6, QuietRead DEF Collects

\* A write to the destination.
LEMMA Written ==
    ASSUME SInv, NEW d \in Shop, shop' = [shop EXCEPT !["dest"] = d]
    PROVE  /\ dest' = d /\ shop'["source"] = shop["source"]
           /\ \A h : Src(h)' = Src(h) /\ Dst(h)' = d.products[h]
BY OfRun DEF dest, Sides, Src, Dst

\* A transaction about a product ends with a write.
LEMMA PlainQuiet ==
    ASSUME SInv, QInv, NEW r \in Runs, NEW t \in run[r].todo, t.kind \in Plain,
           run[r].pc \notin {"idle", "token", "done"},
           run' = [run EXCEPT ![r] = Dropped(r, t)], setting' = setting,
           NEW d \in Shop, shop' = [shop EXCEPT !["dest"] = d], d.colls = dest.colls,
           d.members = IF t.kind = "delete" THEN {m \in dest.members : m[2] # t.handle}
                       ELSE dest.members,
           Quiet /\ run[r].whole => d.products =
              [dest.products EXCEPT ![t.handle] = Made(t, Src(t.handle), Dst(t.handle))]
    PROVE  QInv'
<1>1. PICK x : x = Dropped(r, t)
  BY Zenon
<1>2. /\ x \in RunRecs /\ x.pc = "next" /\ x.whole = run[r].whole /\ x.had = run[r].had
      /\ x.todo = run[r].todo \ {t} /\ x.resolved = run[r].resolved /\ x.known = run[r].known
  BY <1>1, DroppedLeaves
<1>3. ASSUME Quiet, x.whole PROVE Accurate(x)'
  <2>1. PICK p, q, q2 : p = Src(t.handle) /\ q = Dst(t.handle) /\ q2 = Made(t, p, q)
    OBVIOUS
  <2>2. /\ Accurate(run[r]) /\ run[r].todo \subseteq Txns /\ run[r] \in RunRecs
        /\ t.handle \in Handles /\ p \in Product /\ q \in Product /\ p.value # "long"
    BY <1>2, <1>3, <2>1, Whole
  <2>3. Due(t.kind, p, q) /\ Says(t, p, q)
    BY <2>1, <2>2 DEF Accurate, ProductsLeft
  <2>4. Effect(t, p, q, q2)
    BY <2>1, <2>2, <2>3, MadeHasEffect
  <2>5. dest.products \in [Handles -> Product]
    BY OfRun DEF Shop
  <2>6. Dst(t.handle)' = q2 /\ \A h \in Handles \ {t.handle} : Dst(h)' = Dst(h)
    <3>1. d.products = [dest.products EXCEPT ![t.handle] = q2]
      BY <1>2, <1>3, <2>1
    <3>2. d.products[t.handle] = q2 /\ \A h \in Handles \ {t.handle} : d.products[h] = dest.products[h]
      BY <2>2, <2>5, <3>1
    <3> QED BY <3>2, Written DEF Dst
  <2>7. ProductsLeft(x.todo, x.had)'
    BY <1>2, <2>1, <2>2, <2>4, <2>6, Written, ProductsStep DEF Accurate
  <2>8. /\ \A h \in Handles : Src(h).there /\ Dst(h).there => Dst(h)'.there
        /\ \A c \in Cids, h \in Handles :
              Src(h).there /\ <<c, h>> \in dest.members => <<c, h>> \in dest'.members
    <3>1. \A h \in Handles : Src(h).there /\ Dst(h).there => Dst(h)'.there
      BY <2>1, <2>4, <2>6 DEF Effect
    <3>2. t.kind = "delete" => ~p.there
      BY <2>3 DEF Due
    <3> QED BY <2>1, <3>1, <3>2, Written
  <2>9. t.kind \notin {"collection", "member"}
    BY DEF Plain
  <2>10. \A c \in Cids : dest'.colls[c] = dest.colls[c]
    BY Written
  <2>11. CollectionsLeft(x.todo, x.had)'
    <3>1. \A u \in run[r].todo \ x.todo : u.kind \notin {"collection", "member"}
      BY <1>2, <2>9
    <3> QED BY <1>2, <2>2, <2>8, <2>10, <3>1, Written, CollectionsStep DEF Accurate
  <2>12. Remembers(x)'
    BY <1>2, <2>2, <2>8, <2>10, Written, RemembersStep DEF Accurate
  <2> QED BY <1>2, <2>7, <2>11, <2>12 DEF Accurate
<1> QED BY <1>1, <1>2, <1>3, QuietJob, Begun, Written DEF Unbegun

LEMMA PutQuiet ==
    ASSUME SInv, QInv, NEW r \in Runs, Put(r)
    PROVE  QInv'
<1>1. PICK d \in Shop, q \in Product :
        /\ shop' = [shop EXCEPT !["dest"] = d]
        /\ d.colls = dest.colls /\ d.members = dest.members
        /\ d.products = [dest.products EXCEPT ![run[r].cur.handle] = q]
        /\ q = IF dest.products[run[r].cur.handle].there
               THEN IF run[r].cur.kind \in {"tags_add", "tags_remove"}
                    THEN [dest.products[run[r].cur.handle]
                            EXCEPT !.tags = Changed(run[r].got, run[r].cur).tags]
                    ELSE [dest.products[run[r].cur.handle]
                            EXCEPT !.price = Changed(run[r].got, run[r].cur).price]
               ELSE dest.products[run[r].cur.handle]
  BY PutWrites, Zenon
<1>2. PICK t : t = run[r].cur
  OBVIOUS
<1>3. t.kind \in {"tags_add", "tags_remove", "variant", "price"} /\ t.kind \in Plain
  BY <1>2, OfRun DEF Put, Purposeful, Plain
<1>4. run' = [run EXCEPT ![r] = Dropped(r, t)] /\ setting' = setting /\ run[r].pc = "put"
  BY <1>2, Zenon DEF Put
<1>5. CASE ~(Quiet /\ run[r].whole)
  <2>1. PICK x : x = Dropped(r, t)
    BY Zenon
  <2>2. x \in RunRecs /\ x.pc = "next" /\ x.whole = run[r].whole
    BY <2>1, DroppedLeaves
  <2> QED BY <1>1, <1>4, <1>5, <2>1, <2>2, QuietJob, Begun, Written, Zenon DEF Unbegun
<1>6. CASE Quiet /\ run[r].whole
  <2>1. t \in run[r].todo /\ t.handle \in Handles /\ Dst(t.handle) \in Product
    BY <1>2, <1>4, <1>6, Whole DEF Accurate
  <2>2. Undivided
    BY <1>6 DEF Quiet, Undivided, Happens
  <2>3. Dst(t.handle).there /\ run[r].got = Dst(t.handle)
    BY <1>2, <1>4, <2>2 DEF SInv, UpToDate, Dst
  <2>4. q = IF t.kind \in {"tags_add", "tags_remove"}
            THEN [Dst(t.handle) EXCEPT !.tags = Changed(Dst(t.handle), t).tags]
            ELSE [Dst(t.handle) EXCEPT !.price = Changed(Dst(t.handle), t).price]
    BY <1>1, <1>2, <2>3, Zenon DEF Dst
  <2>5. q = Changed(Dst(t.handle), t)
    BY <1>3, <2>1, <2>4 DEF Changed, Product
  <2>6. q = Made(t, Src(t.handle), Dst(t.handle))
    BY <1>3, <2>5 DEF Made
  <2>7. /\ d.products = [dest.products EXCEPT ![t.handle] = Made(t, Src(t.handle), Dst(t.handle))]
        /\ d.members = (IF t.kind = "delete" THEN {m \in dest.members : m[2] # t.handle}
                        ELSE dest.members)
    BY <1>1, <1>2, <1>3, <2>6, Zenon
  <2> QED BY <1>1, <1>3, <1>4, <2>1, <2>7, PlainQuiet, Zenon
<1> QED BY <1>5, <1>6

LEMMA OneCallQuiet ==
    ASSUME SInv, QInv, NEW r \in Runs, NEW t \in run[r].todo, OneCall(r, t)
    PROVE  QInv'
<1>1. PICK d \in Shop, q \in Product :
        /\ shop' = [shop EXCEPT !["dest"] = d]
        /\ d.colls = dest.colls /\ d.products = [dest.products EXCEPT ![t.handle] = q]
        /\ d.members = CASE t.kind = "delete" -> {m \in dest.members : m[2] # t.handle}
                         [] t.kind = "member" /\ dest.products[t.handle].there
                              -> dest.members \cup {<<t.cid, t.handle>>}
                         [] OTHER -> dest.members
        /\ q = CASE t.kind = "create" -> IF dest.products[t.handle].there THEN dest.products[t.handle]
                                         ELSE [Absent EXCEPT !.there = TRUE]
                 [] t.kind = "delete" -> Absent
                 [] t.kind = "field" -> IF dest.products[t.handle].there
                                        THEN [dest.products[t.handle] EXCEPT !.value = t.value]
                                        ELSE dest.products[t.handle]
                 [] t.kind = "member" -> dest.products[t.handle]
  BY OneCallWrites, Zenon
<1>2. /\ t.kind \in {"create", "delete", "field", "member"} /\ run[r].pc = "next"
      /\ run' = [run EXCEPT ![r] = Dropped(r, t)] /\ setting' = setting
  BY Zenon DEF OneCall, First
<1>3. PICK x : x = Dropped(r, t)
  BY Zenon
<1>4. /\ x \in RunRecs /\ x.pc = "next" /\ x.whole = run[r].whole /\ x.had = run[r].had
      /\ x.todo = run[r].todo \ {t} /\ x.resolved = run[r].resolved /\ x.known = run[r].known
  BY <1>3, DroppedLeaves
<1>5. CASE ~(Quiet /\ run[r].whole)
  BY <1>1, <1>2, <1>3, <1>4, <1>5, QuietJob, Begun, Written DEF Unbegun
<1>6. CASE Quiet /\ run[r].whole /\ t.kind # "member"
  <2>1. t.kind \in Plain /\ t.handle \in Handles
    BY <1>2, <1>6, Whole DEF Plain
  <2>2. Due(t.kind, Src(t.handle), Dst(t.handle))
    BY <1>6, <2>1, Whole DEF Accurate, ProductsLeft
  <2>3. /\ t.kind = "create" => ~Dst(t.handle).there
        /\ t.kind = "field" => Dst(t.handle).there
    BY <2>2 DEF Due
  <2>4. q = Made(t, Src(t.handle), Dst(t.handle))
    BY <1>1, <1>2, <1>6, <2>3, Zenon DEF Made, Src, Dst
  <2>5. /\ d.products = [dest.products EXCEPT ![t.handle] = Made(t, Src(t.handle), Dst(t.handle))]
        /\ d.members = (IF t.kind = "delete" THEN {m \in dest.members : m[2] # t.handle}
                        ELSE dest.members)
    BY <1>1, <1>6, <2>4, Zenon
  <2> QED BY <1>1, <1>2, <2>1, <2>5, PlainQuiet
<1>7. CASE Quiet /\ run[r].whole /\ t.kind = "member"
  <2>1. /\ Accurate(run[r]) /\ run[r].todo \subseteq Txns /\ run[r] \in RunRecs
        /\ t.handle \in Handles
    BY <1>7, Whole
  <2>2. Dst(t.handle).there
    BY <1>7, <2>1 DEF Accurate, CollectionsLeft
  <2>3. d.members = dest.members \cup {<<t.cid, t.handle>>} /\ q = dest.products[t.handle]
    BY <1>1, <1>7, <2>2, Zenon DEF Dst
  <2>4. d.products = dest.products
    <3>1. dest.products \in [Handles -> Product]
      BY OfRun DEF Shop
    <3> QED BY <1>1, <2>1, <2>3, <3>1
  <2>5. /\ \A h : Dst(h)' = Dst(h)
        /\ dest'.members = dest.members \cup {<<t.cid, t.handle>>} /\ dest'.colls = dest.colls
        /\ shop'["source"] = shop["source"]
    BY <1>1, <2>3, <2>4, Written DEF Dst
  <2>6. ProductsLeft(x.todo, x.had)'
    BY <1>2, <1>4, <1>7, <2>1, <2>5, SameProducts DEF Accurate, Plain
  <2>7. CollectionsLeft(x.todo, x.had)'
    BY <1>2, <1>4, <1>7, <2>1, <2>5, CollectionsStep DEF Accurate
  <2>8. Remembers(x)'
    BY <1>4, <2>1, <2>5, RemembersStep DEF Accurate
  <2>9. Accurate(x)'
    BY <1>4, <2>6, <2>7, <2>8 DEF Accurate
  <2> QED BY <1>2, <1>3, <1>4, <2>5, <2>9, QuietJob, Begun DEF Unbegun
<1> QED BY <1>5, <1>6, <1>7

LEMMA MakeQuiet ==
    ASSUME SInv, QInv, NEW r \in Runs, Make(r)
    PROVE  QInv'
<1>1. PICK d \in Shop, x \in RunRecs, c \in Cids :
        /\ shop' = [shop EXCEPT !["dest"] = d] /\ run' = [run EXCEPT ![r] = x]
        /\ d.products = dest.products /\ d.members = dest.members
        /\ d.colls = [dest.colls EXCEPT ![c] = run[r].cur.title] /\ dest.colls[c] = NoTitle
        /\ Purposeful(x) /\ x.pc = "collects" /\ x.cur = run[r].cur /\ x.todo = run[r].todo
        /\ x.resolved = [run[r].resolved EXCEPT ![run[r].cur.title] = c] /\ x.known = run[r].known
        /\ x.whole = run[r].whole /\ x.had = run[r].had
  BY MakeWrites, Zenon
<1>2. /\ run[r].pc = "make" /\ setting' = setting
      /\ run[r].cur.title \in Titles /\ run[r].resolved \in [Titles -> Cids \cup {0}]
      /\ dest.colls \in [Cids -> Titles \cup {NoTitle}]
  BY OfRun DEF Make, Purposeful, Txns, RunRecs, Shop
<1>3. /\ \A h : Dst(h)' = Dst(h)
      /\ dest'.members = dest.members /\ dest'.colls = d.colls /\ shop'["source"] = shop["source"]
  BY <1>1, Written DEF Dst
<1>4. \A b \in Cids : dest.colls[b] \in Titles => dest'.colls[b] = dest.colls[b]
  BY <1>1, <1>2, <1>3, LiveSyncAssumption
<1>5. ASSUME Quiet, x.whole PROVE Accurate(x)'
  <2>1. /\ Accurate(run[r]) /\ run[r].todo \subseteq Txns /\ run[r] \in RunRecs
        /\ x.cur \in x.todo
    BY <1>1, <1>2, <1>5, Whole DEF Accurate
  <2>2. ProductsLeft(x.todo, x.had)'
    BY <1>1, <1>2, <1>3, <2>1, SameProducts DEF Accurate
  <2>3. CollectionsLeft(x.todo, x.had)'
    BY <1>1, <1>2, <1>3, <1>4, <2>1, CollectionsStep DEF Accurate
  <2>4. Remembers(x)'
    <3>1. \A T \in Titles : x.resolved[T] # 0 => dest'.colls[x.resolved[T]] = T
      <4>1. dest'.colls[c] = run[r].cur.title
        BY <1>1, <1>2, <1>3
      <4>2. \A T \in Titles : run[r].resolved[T] # 0 => dest.colls[run[r].resolved[T]] = T
                                                       /\ run[r].resolved[T] \in Cids
        BY <1>2, <2>1 DEF Accurate, Remembers
      <4> QED BY <1>1, <1>2, <1>4, <4>1, <4>2
    <3>2. \A b \in Cids, h \in x.had :
             Src(h)'.there /\ <<b, h>> \in x.known => <<b, h>> \in dest'.members
      <4>1. \A h : Src(h)' = Src(h)
        BY <1>3 DEF Src
      <4> QED BY <1>1, <1>3, <2>1, <4>1 DEF Accurate, Remembers
    <3> QED BY <3>1, <3>2 DEF Remembers
  <2> QED BY <1>1, <2>1, <2>2, <2>3, <2>4 DEF Accurate
<1> QED BY <1>1, <1>2, <1>3, <1>5, QuietJob, Begun DEF Unbegun

LEMMA AddQuiet ==
    ASSUME SInv, QInv, NEW r \in Runs, Add(r)
    PROVE  QInv'
<1>1. PICK d \in Shop, x \in RunRecs, ms \in SUBSET {<<run[r].resolved[run[r].cur.title], run[r].cur.handle>>} :
        /\ shop' = [shop EXCEPT !["dest"] = d] /\ run' = [run EXCEPT ![r] = x]
        /\ d.colls = dest.colls /\ d.products = dest.products /\ d.members = dest.members \cup ms
        /\ ms = {} => <<run[r].resolved[run[r].cur.title], run[r].cur.handle>> \in run[r].known
                       \/ ~dest.products[run[r].cur.handle].there
        /\ Purposeful(x) /\ x.pc = "next" /\ x.todo = run[r].todo \ {run[r].cur}
        /\ x.resolved = run[r].resolved /\ x.known = run[r].known \cup ms
        /\ x.whole = run[r].whole /\ x.had = run[r].had
  BY AddWrites, Zenon
<1>2. PICK t, c : t = run[r].cur /\ c = run[r].resolved[t.title]
  OBVIOUS
<1>3. /\ run[r].pc = "add" /\ setting' = setting
      /\ t.title \in Titles /\ t.kind = "collection" /\ c \in Cids
  BY <1>2, OfRun DEF Add, Purposeful, Txns
<1>4. /\ \A h : Dst(h)' = Dst(h)
      /\ dest'.members = dest.members \cup ms /\ dest'.colls = dest.colls
      /\ shop'["source"] = shop["source"]
  BY <1>1, Written DEF Dst
<1>5. ASSUME Quiet, x.whole PROVE Accurate(x)'
  <2>1. /\ Accurate(run[r]) /\ run[r].todo \subseteq Txns /\ run[r] \in RunRecs
        /\ t \in run[r].todo
    BY <1>1, <1>2, <1>3, <1>5, Whole DEF Accurate
  <2>2. t.handle \in run[r].had /\ Src(t.handle).there /\ Dst(t.handle).there
    BY <1>3, <2>1 DEF Accurate, CollectionsLeft
  <2>3. dest.colls[c] = t.title
    <3>1. c # 0
      BY <1>3 DEF Cids
    <3> QED BY <1>2, <1>3, <2>1, <3>1 DEF Accurate, Remembers
  <2>4. <<c, t.handle>> \in dest'.members
    <3>1. CASE ms = {<<c, t.handle>>}
      BY <1>4, <3>1
    <3>2. CASE ms = {}
      BY <1>1, <1>2, <1>3, <1>4, <2>1, <2>2, <3>2 DEF Accurate, Remembers, Dst
    <3> QED BY <1>1, <1>2, <3>1, <3>2
  <2>5. \A u \in run[r].todo \ x.todo : u = t
    BY <1>1, <1>2
  <2>6. ProductsLeft(x.todo, x.had)'
    BY <1>1, <1>3, <1>4, <2>1, <2>5, SameProducts DEF Accurate, Plain
  <2>7. CollectionsLeft(x.todo, x.had)'
    <3>1. \A u \in run[r].todo \ x.todo : \E b \in Cids :
             dest'.colls[b] = u.title /\ <<b, u.handle>> \in dest'.members
      BY <1>3, <1>4, <2>3, <2>4, <2>5
    <3>2. x.todo \in SUBSET run[r].todo /\ \A u \in run[r].todo \ x.todo : u.kind # "member"
      BY <1>1, <1>3, <2>5
    <3> QED BY <1>1, <1>3, <1>4, <2>1, <3>1, <3>2, CollectionsStep DEF Accurate
  <2>8. Remembers(x)'
    BY <1>1, <1>4, <2>1, RemembersStep DEF Accurate
  <2> QED BY <1>1, <2>6, <2>7, <2>8 DEF Accurate
<1> QED BY <1>1, <1>3, <1>4, <1>5, QuietJob, Begun DEF Unbegun

\* The titles of the collections that the source has a product in.
Joins(h) == {shop["source"].colls[c] : c \in {b \in Cids : <<b, h>> \in shop["source"].members}}

LEMMA TitledOf ==
    ASSUME NEW k, NEW h
    PROVE  /\ Txn(k, h).kind = k /\ Txn(k, h).handle = h
           /\ \A v : LET t == [Txn(k, h) EXCEPT !.value = v]
                     IN  t.kind = k /\ t.handle = h /\ t.value = v
           /\ \A v : LET t == [Txn(k, h) EXCEPT !.tags = v]
                     IN  t.kind = k /\ t.handle = h /\ t.tags = v
           /\ \A v : LET t == [Txn(k, h) EXCEPT !.price = v]
                     IN  t.kind = k /\ t.handle = h /\ t.price = v
           /\ \A v : LET t == [Txn(k, h) EXCEPT !.title = v]
                     IN  t.kind = k /\ t.handle = h /\ t.title = v
           /\ \A v : LET t == [Txn(k, h) EXCEPT !.cid = v]
                     IN  t.kind = k /\ t.handle = h /\ t.cid = v
BY DEF Txn, NoTxn

LiveUpdates(h) == Updates(Taken("source"), Taken("dest"), h)

\* Of a diff of the stores as they are, a transaction about a product that both
\* have says what differs, or is about a collection to join, and none is missing.
LEMMA UpdatesSay ==
    ASSUME SInv, NEW h \in Handles, Src(h).there, Dst(h).there
    PROVE
      /\ \A t \in LiveUpdates(h) :
           /\ t.handle = h
           /\ \/ t.kind \in Plain \ {"create", "delete"} /\ Due(t.kind, Src(h), Dst(h)) /\ Says(t, Src(h), Dst(h))
              \/ /\ "collections" \in setting.fields
                 /\ \/ t.kind = "collection" /\ t.title \in Joins(h) /\ CollectionTitled(dest, t.title) = {}
                    \/ /\ t.kind = "member" /\ t.cid \in Cids
                       /\ <<t.cid, h>> \notin dest.members /\ dest.colls[t.cid] \in Joins(h)
      /\ \A t, u \in LiveUpdates(h) : t.kind \in Plain /\ t.kind = u.kind => t = u
      /\ \A k \in Plain \ {"create", "delete"} :
           Due(k, Src(h), Dst(h)) => \E t \in LiveUpdates(h) : t.kind = k
      /\ "collections" \in setting.fields => \A T \in Joins(h) :
           \/ \E t \in LiveUpdates(h) : t.kind = "collection" /\ t.title = T
           \/ \E c \in CollectionTitled(dest, T) :
                 <<c, h>> \in dest.members \/ \E t \in LiveUpdates(h) : t.kind = "member" /\ t.cid = c
<1> DEFINE s == Taken("source")
           d == Taken("dest")
           p == Src(h)
           q == Dst(h)
           titles == {s.shop.colls[c] : c \in Memberships(s, h)}
           Target(T) == CHOOSE c \in CollectionTitled(d.shop, T) :
                           \A b \in CollectionTitled(d.shop, T) : b <= c
           missing == {T \in titles : CollectionTitled(d.shop, T) = {}}
           joined == {Target(T) : T \in titles \ missing} \ Memberships(d, h)
           f(v) == [Txn("field", h) EXCEPT !.value = v]
           g(k, v) == [Txn(k, h) EXCEPT !.tags = v]
           n(k, v) == [Txn(k, h) EXCEPT !.price = v]
           cl(v) == [Txn("collection", h) EXCEPT !.title = v]
           mb(v) == [Txn("member", h) EXCEPT !.cid = v]
<1>1. p = s.shop.products[h] /\ q = d.shop.products[h] /\ d.shop = dest
  BY DEF Taken, Src, Dst, dest
<1>2. titles = Joins(h) /\ Memberships(d, h) = {c \in Cids : <<c, h>> \in dest.members}
  BY DEF Taken, Memberships, Joins, dest
<1>3. ASSUME NEW T \in titles \ missing PROVE Target(T) \in CollectionTitled(dest, T)
  <2>1. CollectionTitled(dest, T) \subseteq Cids /\ CollectionTitled(dest, T) # {}
    BY <1>1 DEF CollectionTitled
  <2> QED BY <1>1, <2>1, LastTitled
<1>4. \A c \in joined : c \in Cids /\ <<c, h>> \notin dest.members /\ dest.colls[c] \in Joins(h)
  <2>1. ASSUME NEW c \in joined
        PROVE  c \in Cids /\ <<c, h>> \notin dest.members /\ dest.colls[c] \in Joins(h)
    <3>1. PICK T \in titles \ missing : c = Target(T)
      OBVIOUS
    <3>2. c \in Cids /\ dest.colls[c] = T
      BY <1>3, <3>1 DEF CollectionTitled
    <3>3. c \notin Memberships(d, h)
      OBVIOUS
    <3> QED BY <1>2, <3>2, <3>3
  <2> QED BY <2>1
<1>5. \A T \in Joins(h) \ missing : \E c \in CollectionTitled(dest, T) :
         <<c, h>> \in dest.members \/ c \in joined
  BY <1>2, <1>3
<1>6. missing = {T \in Joins(h) : CollectionTitled(dest, T) = {}}
  BY <1>1, <1>2
<1>7. /\ \A v : f(v).kind = "field" /\ f(v).handle = h /\ f(v).value = v
      /\ \A k, v : g(k, v).kind = k /\ g(k, v).handle = h /\ g(k, v).tags = v
      /\ \A k, v : n(k, v).kind = k /\ n(k, v).handle = h /\ n(k, v).price = v
      /\ \A v : cl(v).kind = "collection" /\ cl(v).handle = h /\ cl(v).title = v
      /\ \A v : mb(v).kind = "member" /\ mb(v).handle = h /\ mb(v).cid = v
  BY TitledOf
<1> HIDE DEF p, q, s, d, titles, missing, joined
<1>8. LiveUpdates(h) =
    (IF "value" \in setting.fields /\ p.value # q.value THEN {f(Short(p.value))} ELSE {})
    \cup (IF "tags" \in setting.fields /\ p.tags \ q.tags # {}
          THEN {g("tags_add", p.tags \ q.tags)} ELSE {})
    \cup (IF "tags" \in setting.fields /\ q.tags \ p.tags # {}
          THEN {g("tags_remove", q.tags \ p.tags)} ELSE {})
    \cup (IF "variants" \in setting.fields /\ p.price \notin {0, q.price}
          THEN {n(IF q.price = 0 THEN "variant" ELSE "price", p.price)} ELSE {})
    \cup (IF "collections" \in setting.fields
          THEN {cl(T) : T \in missing} \cup {mb(c) : c \in joined} ELSE {})
  BY <1>1, Zenon DEF LiveUpdates, Updates, s, d, titles, missing, joined
<1> HIDE DEF f, g, n, cl, mb
<1>9. p \in Product /\ q \in Product /\ p.there /\ q.there
  BY OfRun DEF p, q, Src, Dst, Shop, Sides
<1>10. /\ Due("field", p, q) <=> "value" \in setting.fields /\ p.value # q.value
       /\ Due("tags_add", p, q) <=> "tags" \in setting.fields /\ p.tags \ q.tags # {}
       /\ Due("tags_remove", p, q) <=> "tags" \in setting.fields /\ q.tags \ p.tags # {}
       /\ Due("variant", p, q) <=> "variants" \in setting.fields /\ p.price \notin {0, q.price} /\ q.price = 0
       /\ Due("price", p, q) <=> "variants" \in setting.fields /\ p.price \notin {0, q.price} /\ q.price # 0
  BY <1>9 DEF Due
<1>11. ASSUME NEW t
       PROVE  t \in LiveUpdates(h) <=>
           \/ Due("field", p, q) /\ t = f(Short(p.value))
           \/ Due("tags_add", p, q) /\ t = g("tags_add", p.tags \ q.tags)
           \/ Due("tags_remove", p, q) /\ t = g("tags_remove", q.tags \ p.tags)
           \/ Due("variant", p, q) /\ t = n("variant", p.price)
           \/ Due("price", p, q) /\ t = n("price", p.price)
           \/ "collections" \in setting.fields /\ \E T \in missing : t = cl(T)
           \/ "collections" \in setting.fields /\ \E c \in joined : t = mb(c)
  BY <1>8, <1>10
<1>12. ASSUME NEW t \in LiveUpdates(h)
       PROVE  /\ t.handle = h
              /\ \/ /\ t.kind \in Plain \ {"create", "delete"} /\ Due(t.kind, p, q) /\ Says(t, p, q)
                    /\ t = IF t.kind = "field" THEN f(Short(p.value))
                           ELSE IF t.kind = "tags_add" THEN g(t.kind, p.tags \ q.tags)
                           ELSE IF t.kind = "tags_remove" THEN g(t.kind, q.tags \ p.tags)
                           ELSE n(t.kind, p.price)
                 \/ /\ "collections" \in setting.fields
                    /\ \/ t.kind = "collection" /\ t.title \in Joins(h) /\ CollectionTitled(dest, t.title) = {}
                       \/ /\ t.kind = "member" /\ t.cid \in Cids
                          /\ <<t.cid, h>> \notin dest.members /\ dest.colls[t.cid] \in Joins(h)
  <2>1. CASE Due("field", p, q) /\ t = f(Short(p.value))
    BY <1>7, <2>1 DEF Says, Plain
  <2>2. CASE Due("tags_add", p, q) /\ t = g("tags_add", p.tags \ q.tags)
    BY <1>7, <2>2 DEF Says, Plain
  <2>3. CASE Due("tags_remove", p, q) /\ t = g("tags_remove", q.tags \ p.tags)
    BY <1>7, <2>3 DEF Says, Plain
  <2>4. CASE Due("variant", p, q) /\ t = n("variant", p.price)
    BY <1>7, <2>4 DEF Says, Plain
  <2>5. CASE Due("price", p, q) /\ t = n("price", p.price)
    BY <1>7, <2>5 DEF Says, Plain
  <2>6. CASE "collections" \in setting.fields /\ \E T \in missing : t = cl(T)
    BY <1>6, <1>7, <2>6
  <2>7. CASE "collections" \in setting.fields /\ \E c \in joined : t = mb(c)
    BY <1>4, <1>7, <2>7
  <2>8. \/ Due("field", p, q) /\ t = f(Short(p.value))
        \/ Due("tags_add", p, q) /\ t = g("tags_add", p.tags \ q.tags)
        \/ Due("tags_remove", p, q) /\ t = g("tags_remove", q.tags \ p.tags)
        \/ Due("variant", p, q) /\ t = n("variant", p.price)
        \/ Due("price", p, q) /\ t = n("price", p.price)
        \/ "collections" \in setting.fields /\ \E T \in missing : t = cl(T)
        \/ "collections" \in setting.fields /\ \E c \in joined : t = mb(c)
    BY <1>11, <1>12, Zenon
  <2> QED BY <2>1, <2>2, <2>3, <2>4, <2>5, <2>6, <2>7, <2>8, Zenon
<1>13. \A t, u \in LiveUpdates(h) : t.kind \in Plain /\ t.kind = u.kind => t = u
  <2>1. \A t \in LiveUpdates(h) : t.kind \in Plain =>
           t = IF t.kind = "field" THEN f(Short(p.value))
               ELSE IF t.kind = "tags_add" THEN g(t.kind, p.tags \ q.tags)
               ELSE IF t.kind = "tags_remove" THEN g(t.kind, q.tags \ p.tags)
               ELSE n(t.kind, p.price)
    BY <1>12 DEF Plain
  <2> QED BY <2>1, Zenon
<1>14. \A k \in Plain \ {"create", "delete"} : Due(k, p, q) => \E t \in LiveUpdates(h) : t.kind = k
  BY <1>7, <1>11 DEF Plain
<1>15. ASSUME "collections" \in setting.fields, NEW T \in Joins(h)
       PROVE  \/ \E t \in LiveUpdates(h) : t.kind = "collection" /\ t.title = T
              \/ \E c \in CollectionTitled(dest, T) :
                    <<c, h>> \in dest.members \/ \E t \in LiveUpdates(h) : t.kind = "member" /\ t.cid = c
  BY <1>5, <1>7, <1>11, <1>15
<1> QED BY <1>12, <1>13, <1>14, <1>15, Zenon DEF p, q

\* The transactions of a diff of the stores as they are.
LEMMA LiveDiffHas ==
    ASSUME SInv, NEW t
    PROVE  t \in LiveDiff <=>
        \/ \E h \in Handles : /\ Src(h).there /\ Dst(h).there
                              /\ t \in LiveUpdates(h)
        \/ \E h \in Handles : Due("create", Src(h), Dst(h)) /\ t = Txn("create", h)
        \/ \E h \in Handles : Due("delete", Src(h), Dst(h)) /\ t = Txn("delete", h)
<1>1. /\ In(Taken("source")) = {h \in Handles : Src(h).there}
      /\ In(Taken("dest")) = {h \in Handles : Dst(h).there}
  BY DEF In, Taken, Src, Dst, dest
<1>2. \A h : /\ Due("create", Src(h), Dst(h)) <=> "products" \in setting.fields /\ Src(h).there /\ ~Dst(h).there
             /\ Due("delete", Src(h), Dst(h)) <=> "products" \in setting.fields /\ ~Src(h).there /\ Dst(h).there
  BY DEF Due
<1> HIDE DEF Due
<1> QED BY <1>1, <1>2, ZenonT(40) DEF LiveDiff, DiffStores, LiveUpdates

\* What is to be done of a diff of the stores as they are is what differs.
LEMMA LiveDiffCovers ==
    ASSUME SInv
    PROVE  ProductsLeft(LiveDiff, In(Taken("dest"))) /\ CollectionsLeft(LiveDiff, In(Taken("dest")))
<1> DEFINE Both == {h \in Handles : Src(h).there /\ Dst(h).there}
<1>1. In(Taken("dest")) = {h \in Handles : Dst(h).there}
  BY DEF In, Taken, Dst, dest
<1>2. /\ \A h \in Handles : \A k : Due(k, Src(h), Dst(h)) /\ k \notin {"create", "delete"} => h \in Both
      /\ \A h \in Handles : ~(Due("create", Src(h), Dst(h)) /\ Due("delete", Src(h), Dst(h)))
      /\ \A h \in Both : ~Due("create", Src(h), Dst(h)) /\ ~Due("delete", Src(h), Dst(h))
  BY DEF Due
<1>3. \A h \in Both :
        /\ \A t \in LiveUpdates(h) : t.handle = h /\ t.kind \notin {"create", "delete"}
        /\ \A t \in LiveUpdates(h) : t.kind \in Plain => Due(t.kind, Src(h), Dst(h)) /\ Says(t, Src(h), Dst(h))
        /\ \A t, u \in LiveUpdates(h) : t.kind \in Plain /\ t.kind = u.kind => t = u
        /\ \A k \in Plain \ {"create", "delete"} : Due(k, Src(h), Dst(h)) => \E t \in LiveUpdates(h) : t.kind = k
        /\ "collections" \in setting.fields => \A T \in Joins(h) :
             \/ \E t \in LiveUpdates(h) : t.kind = "collection" /\ t.title = T
             \/ \E c \in CollectionTitled(dest, T) :
                   <<c, h>> \in dest.members \/ \E t \in LiveUpdates(h) : t.kind = "member" /\ t.cid = c
  <2>1. ASSUME NEW h \in Both PROVE Src(h).there /\ Dst(h).there /\ h \in Handles
    OBVIOUS
  <2>2. "create" \in Plain /\ "delete" \in Plain /\ "collection" \notin Plain /\ "member" \notin Plain
    BY DEF Plain
  <2> HIDE DEF Both
  <2> SUFFICES ASSUME NEW h \in Both
               PROVE
        /\ \A t \in LiveUpdates(h) : t.handle = h /\ t.kind \notin {"create", "delete"}
        /\ \A t \in LiveUpdates(h) : t.kind \in Plain => Due(t.kind, Src(h), Dst(h)) /\ Says(t, Src(h), Dst(h))
        /\ \A t, u \in LiveUpdates(h) : t.kind \in Plain /\ t.kind = u.kind => t = u
        /\ \A k \in Plain \ {"create", "delete"} : Due(k, Src(h), Dst(h)) => \E t \in LiveUpdates(h) : t.kind = k
        /\ "collections" \in setting.fields => \A T \in Joins(h) :
             \/ \E t \in LiveUpdates(h) : t.kind = "collection" /\ t.title = T
             \/ \E c \in CollectionTitled(dest, T) :
                   <<c, h>> \in dest.members \/ \E t \in LiveUpdates(h) : t.kind = "member" /\ t.cid = c
    OBVIOUS
  <2>3. /\ \A t \in LiveUpdates(h) : t.handle = h /\ t.kind \notin {"create", "delete"}
        /\ \A t \in LiveUpdates(h) : t.kind \in Plain => Due(t.kind, Src(h), Dst(h)) /\ Says(t, Src(h), Dst(h))
    BY <2>1, <2>2, UpdatesSay
  <2>4. \A k \in Plain \ {"create", "delete"} :
           Due(k, Src(h), Dst(h)) => \E t \in LiveUpdates(h) : t.kind = k
    BY <2>1, UpdatesSay, SMTT(30)
  <2>5. \A t, u \in LiveUpdates(h) : t.kind \in Plain /\ t.kind = u.kind => t = u
    BY <2>1, UpdatesSay, SMTT(30)
  <2>6. "collections" \in setting.fields => \A T \in Joins(h) :
             \/ \E t \in LiveUpdates(h) : t.kind = "collection" /\ t.title = T
             \/ \E c \in CollectionTitled(dest, T) :
                   <<c, h>> \in dest.members \/ \E t \in LiveUpdates(h) : t.kind = "member" /\ t.cid = c
    BY <2>1, UpdatesSay, SMTT(30)
  <2> QED BY <2>3, <2>4, <2>5, <2>6, Zenon
<1>4. \A t : t \in LiveDiff <=>
        \/ \E h \in Both : t \in LiveUpdates(h)
        \/ \E h \in Handles : Due("create", Src(h), Dst(h)) /\ t = Txn("create", h)
        \/ \E h \in Handles : Due("delete", Src(h), Dst(h)) /\ t = Txn("delete", h)
  BY LiveDiffHas, Zenon
<1>5. \A h, k : Txn(k, h).kind = k /\ Txn(k, h).handle = h
  BY TitledOf
<1>6. Both \subseteq Handles /\ \A h \in Both : Src(h).there /\ Dst(h).there
  OBVIOUS
<1> HIDE DEF Both
<1>7. ASSUME NEW h \in Handles, NEW k \in Plain, Due(k, Src(h), Dst(h))
      PROVE  \E t \in LiveDiff : t.kind = k /\ t.handle = h
  <2>1. CASE k \in {"create", "delete"}
    BY <1>4, <1>5, <1>7, <2>1
  <2>2. CASE k \notin {"create", "delete"}
    <3>1. PICK t \in LiveUpdates(h) : t.kind = k /\ t.handle = h
      BY <1>2, <1>3, <1>7, <2>2
    <3> QED BY <1>2, <1>4, <1>7, <2>2, <3>1
  <2> QED BY <2>1, <2>2
<1>8. ASSUME NEW t \in LiveDiff
      PROVE  \/ t.handle \in Both /\ t \in LiveUpdates(t.handle) /\ t.kind \notin {"create", "delete"}
             \/ /\ t.kind \in {"create", "delete"} /\ t.handle \in Handles /\ t = Txn(t.kind, t.handle)
                /\ Due(t.kind, Src(t.handle), Dst(t.handle))
  BY <1>3, <1>4, <1>5
<1>9. \A t \in LiveDiff : t.kind \in Plain =>
         Due(t.kind, Src(t.handle), Dst(t.handle)) /\ Says(t, Src(t.handle), Dst(t.handle))
  <2>1. ASSUME NEW t \in LiveDiff, t.kind \in {"create", "delete"} PROVE Says(t, Src(t.handle), Dst(t.handle))
    BY <2>1 DEF Says
  <2> QED BY <1>3, <1>8, <2>1
<1>10. \A t, u \in LiveDiff : t.kind \in Plain /\ t.kind = u.kind /\ t.handle = u.handle => t = u
  BY <1>3, <1>8
<1>11. \A t \in LiveDiff : t.kind \in {"collection", "member"} => t.handle \in Both
  BY <1>8
<1>12. ASSUME "collections" \in setting.fields, NEW h \in Both, NEW T \in Joins(h)
       PROVE  Settled(LiveDiff, h, T)
  BY <1>3, <1>4, <1>12 DEF Settled, CollectionTitled
<1>13. \A h \in Handles, c \in Cids :
         <<c, h>> \in shop["source"].members => shop["source"].colls[c] \in Joins(h)
  BY DEF Joins
<1>14. ProductsLeft(LiveDiff, In(Taken("dest")))
  <2>1. \A t \in LiveDiff : t.kind = "create" => t.handle \notin In(Taken("dest"))
    BY <1>1, <1>8 DEF Due
  <2> QED BY <1>7, <1>9, <1>10, <2>1 DEF ProductsLeft
<1>15. CollectionsLeft(LiveDiff, In(Taken("dest")))
  <2>1. \A h \in Handles : Src(h).there /\ Dst(h).there => h \in Both
    BY DEF Both
  <2> QED BY <1>1, <1>6, <1>11, <1>12, <1>13, <2>1 DEF CollectionsLeft
<1> QED BY <1>14, <1>15

\* When nothing is left to do, nothing differs in the products the destination had.
LEMMA NothingLeft ==
    ASSUME SInv, OneEach, NEW had, had \subseteq Handles,
           ProductsLeft({}, had), CollectionsLeft({}, had), NEW t \in LiveDiff
    PROVE  t.kind \notin {"create", "delete"} /\ t.handle \notin had
<1>1. PICK h \in Handles :
        \/ Src(h).there /\ Dst(h).there /\ t \in LiveUpdates(h)
        \/ Due("create", Src(h), Dst(h)) \/ Due("delete", Src(h), Dst(h))
  BY LiveDiffHas
<1>2. \A k \in Plain : Due(k, Src(h), Dst(h)) => h \notin had /\ k \notin {"create", "delete"}
  BY DEF ProductsLeft
<1>3. Src(h).there /\ Dst(h).there /\ t \in LiveUpdates(h)
  BY <1>1, <1>2 DEF Plain
<1>4. /\ t.handle = h
      /\ \/ t.kind \in Plain \ {"create", "delete"} /\ h \notin had
         \/ t.kind = "collection" /\ "collections" \in setting.fields /\ t.title \in Joins(h)
            /\ CollectionTitled(dest, t.title) = {}
         \/ /\ t.kind = "member" /\ t.cid \in Cids /\ "collections" \in setting.fields
            /\ <<t.cid, h>> \notin dest.members /\ dest.colls[t.cid] \in Joins(h)
  BY <1>2, <1>3, UpdatesSay
<1>5. ASSUME h \in had, "collections" \in setting.fields, NEW T \in Joins(h)
      PROVE  \E d \in CollectionTitled(dest, T) : <<d, h>> \in dest.members
  BY <1>3, <1>4, <1>5, SMTT(30) DEF CollectionsLeft, Settled, Joins, CollectionTitled
<1>6. \A T \in Joins(h) : T # NoTitle
  BY LiveSyncAssumption DEF Joins, SInv, SourcesNamed, Named
<1>7. ASSUME h \in had, t.kind = "member" PROVE FALSE
  <2>1. PICK d \in CollectionTitled(dest, dest.colls[t.cid]) : <<d, h>> \in dest.members
    BY <1>4, <1>5, <1>7
  <2>2. d = t.cid
    BY <1>4, <1>6, <1>7, <2>1 DEF OneEach, CollectionTitled, Plain
  <2> QED BY <1>4, <1>7, <2>1, <2>2 DEF Plain
<1>8. t.kind \notin {"create", "delete"}
  BY <1>4
<1> QED BY <1>4, <1>5, <1>7, <1>8

LEMMA JobQuiet ==
    ASSUME SInv, QInv, NEW r \in Runs, Job(r)
    PROVE  QInv'
<1>1. CASE Start(r)
  BY <1>1, StartQuiet, LiveDiffCovers
<1>2. CASE TokenFails(r) \/ End(r)
  BY <1>2, EndQuiet
<1>3. ASSUME NEW t \in run[r].todo, OneCall(r, t) \/ Get(r, t) \/ Resolve(r, t) \/ CallFails(r, t)
      PROVE  QInv'
  BY <1>3, OneCallQuiet, GetQuiet, ResolveQuiet, CallFailsQuiet
<1>4. CASE List(r) \/ Put(r) \/ Find(r) \/ Make(r) \/ Collects(r) \/ Add(r)
  BY <1>4, ListQuiet, PutQuiet, FindQuiet, MakeQuiet, CollectsQuiet, AddQuiet
<1> QED BY <1>1, <1>2, <1>3, <1>4 DEF Job, Transaction

\* A step of nobody's job, with the stores as they are.
LEMMA NobodyQuiet ==
    ASSUME SInv, QInv, run' \in [Runs -> RunRecs], UNCHANGED <<shop, setting>>,
           \A r \in Runs : \/ run'[r] = run[r]
                           \/ ~run'[r].whole /\ Unbegun(run'[r])
    PROVE  QInv'
<1> SUFFICES ASSUME Quiet
             PROVE  /\ \A h \in Handles : Src(h)'.value # "long"
                    /\ \A r \in Runs : Unbegun(run'[r]) /\ (run'[r].whole => Accurate(run[r])')
  BY DEF QInv, Quiet, Unbegun
<1>1. ASSUME NEW r \in Runs, run'[r].whole PROVE Accurate(run[r])'
  <2>1. PICK x : x = run[r]
    OBVIOUS
  <2>2. run'[r] = x /\ Accurate(x)
    BY <1>1, <2>1 DEF QInv
  <2>3. Accurate(x)'
    BY <2>2, SameStores
  <2> QED BY <2>2, <2>3 DEF Accurate
<1> QED BY <1>1 DEF QInv, Src

LEMMA RequestQuiet ==
    ASSUME SInv, QInv, NEW r \in Runs, NEW approved \in SUBSET plan, Request(r, approved)
    PROVE  QInv'
<1>1. PICK x : x = [run[r] EXCEPT !.pc = "token", !.todo = approved]
  OBVIOUS
<1>2. /\ x \in RunRecs /\ x.pc = "token" /\ x.resolved = run[r].resolved /\ x.known = run[r].known
      /\ x.whole = run[r].whole
  <2>1. approved \subseteq Transactions
    BY DEF SInv, TypeOK
  <2> QED BY <1>1, <2>1, OfRun DEF RunRecs
<1>3. run' = [run EXCEPT ![r] = x] /\ UNCHANGED <<shop, setting>> /\ run[r].pc = "idle"
  BY <1>1 DEF Request
<1>4. CASE Quiet
  <2>1. Unbegun(run[r]) /\ ~run[r].whole
    BY <1>3, <1>4 DEF QInv, Accurate
  <2>2. ~x.whole /\ Unbegun(x)
    BY <1>2, <1>3, <2>1 DEF Unbegun
  <2>3. /\ run' \in [Runs -> RunRecs] /\ run'[r] = x
        /\ \A q \in Runs \ {r} : run'[q] = run[q]
    BY <1>2, <1>3, OfRun
  <2> QED BY <1>3, <2>2, <2>3, NobodyQuiet
<1>5. CASE ~Quiet
  BY <1>3, <1>5 DEF QInv, Quiet
<1> QED BY <1>4, <1>5

LEMMA RestartQuiet ==
    ASSUME SInv, QInv, Restart
    PROVE  QInv'
<1>1. PICK x : x = [IdleRun EXCEPT !.pc = "done"]
  OBVIOUS
<1>2. x \in RunRecs /\ ~x.whole /\ Unbegun(x)
  BY <1>1, NothingTyped DEF RunRecs, Unbegun, IdleRun
<1>3. ~IdleRun.whole /\ Unbegun(IdleRun)
  BY DEF IdleRun, Unbegun
<1>4. run' \in [Runs -> {IdleRun, x}] /\ UNCHANGED <<shop, setting>>
  BY <1>1 DEF Restart
<1>5. run' \in [Runs -> RunRecs]
  BY <1>2, <1>4, NothingTyped
<1> QED BY <1>2, <1>3, <1>4, <1>5, NobodyQuiet

LEMMA InitQuiet ==
    ASSUME Init
    PROVE  QInv
<1>1. PICK st \in Settings :
         /\ setting = st /\ shop \in [Sides -> {sh \in Shops(st) : WellFormed(sh)}]
         /\ run = [r \in Runs |-> IdleRun]
  BY DEF Init
<1>2. shop["source"] \in Shops(st)
  BY <1>1 DEF Sides
<1>3. PICK p \in [st.handles -> ProductsOf(st)] :
         shop["source"].products = [h \in Handles |-> IF h \in st.handles THEN p[h] ELSE Absent]
  <2> DEFINE Of(p) == [h \in Handles |-> IF h \in st.handles THEN p[h] ELSE Absent]
             Shop0(p, t, hs) == [products |-> Of(p), colls |-> [NoColls EXCEPT ![1] = t],
                                 members |-> {1} \X hs]
  <2>1. Shops(st) = {Shop0(p, t, hs) : p \in [st.handles -> ProductsOf(st)],
           t \in Varies(st, "collections", Titles \cup {NoTitle}, NoTitle),
           hs \in Varies(st, "collections", SUBSET st.handles, {})}
    BY DEF Shops
  <2>2. \A p, t, hs : Shop0(p, t, hs).products = Of(p)
    OBVIOUS
  <2> HIDE DEF Shop0
  <2>3. PICK p \in [st.handles -> ProductsOf(st)] : \E t, hs : shop["source"] = Shop0(p, t, hs)
    BY <1>2, <2>1
  <2> QED BY <2>2, <2>3
<1>4. ASSUME Quiet, NEW h \in Handles PROVE Src(h).value # "long"
  <2>1. "long" \notin st.env
    BY <1>1, <1>4 DEF Quiet
  <2>2. \A v \in ProductsOf(st) : v.value \in {"a", "b"}
    BY <2>1 DEF ProductsOf, Varies
  <2> QED BY <1>3, <2>2 DEF Src, Absent
<1>5. \A r \in Runs : Unbegun(run[r]) /\ ~run[r].whole
  BY <1>1 DEF Unbegun, IdleRun
<1> QED BY <1>4, <1>5 DEF QInv

LEMMA QuietKeeps == Spec => []QInv
<1>1. SInv /\ QInv /\ [Next]_vars => QInv'
  <2> SUFFICES ASSUME SInv, QInv, [Next]_vars PROVE QInv'
    OBVIOUS
  <2>1. CASE \E s \in Sides : Scan(s) \/ LoadSnapshot(s) \/ Age(s)
    BY <2>1, OfRun, NobodyQuiet DEF Scan, LoadSnapshot, Age
  <2>2. CASE Diff
    BY <2>2, OfRun, NobodyQuiet DEF Diff
  <2>3. CASE \E r \in Runs : Job(r) \/ \E approved \in SUBSET plan : Request(r, approved)
    BY <2>3, JobQuiet, RequestQuiet
  <2>4. ASSUME NEW sh, Edited(sh) PROVE QInv'
    <3>1. ~Quiet /\ setting' = setting
      BY <2>4, Zenon DEF Edited, MayEdit, Quiet, Happens
    <3> QED BY <3>1 DEF QInv, Quiet
  <2>5. CASE \/ \E h \in Handles : DeleteProduct(h) \/ \E ts \in SUBSET Tags : EditProduct(h, ts)
             \/ \E t \in Titles : CreateCollection(t)
    BY <2>4, <2>5 DEF DeleteProduct, EditProduct, CreateCollection
  <2>6. CASE UNCHANGED vars
    BY <2>6, OfRun, NobodyQuiet DEF vars
  <2> QED BY <2>1, <2>2, <2>3, <2>5, <2>6, RestartQuiet DEF Next
<1> QED BY <1>1, InitQuiet, SyncKeeps, PTL DEF Spec

\* An execution of all that a diff of the stores as they are has leaves nothing that
\* differs on the products the destination had, and no product to create or delete,
\* in any order of the transactions of one risk and with restarts before it.
THEOREM SyncReachesSource == Spec => SyncConverges
<1>1. SInv /\ QInv /\ Next => (setting.env \subseteq {"restart"} => \A r \in Runs :
         End(r) /\ run[r].whole =>
            \A t \in LiveDiff : t.kind \notin {"create", "delete"} /\ t.handle \notin run[r].had)
  <2> SUFFICES ASSUME SInv, QInv, Quiet, NEW r \in Runs, End(r), run[r].whole, NEW t \in LiveDiff
               PROVE  t.kind \notin {"create", "delete"} /\ t.handle \notin run[r].had
    BY DEF Quiet
  <2>1. Accurate(run[r]) /\ run[r].had \subseteq Handles
    BY Whole DEF RunRecs
  <2>2. run[r].todo = {}
    BY DEF End, Quiet, Happens
  <2>3. Undivided
    BY DEF Quiet, Undivided, Happens
  <2> QED BY <2>1, <2>2, <2>3, NothingLeft DEF Accurate, SInv
<1> QED BY <1>1, QuietKeeps, SyncKeeps, PTL DEF Spec, SyncConverges
=============================================================================
