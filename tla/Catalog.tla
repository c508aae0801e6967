------------------------------ MODULE Catalog ------------------------------
(***************************************************************************)
(* The product catalogue: which listing (ProductSource row) belongs to     *)
(* which product, which products are active, and which pairs of products   *)
(* are candidates for a merge.                                             *)
(*                                                                         *)
(* Five kinds of actors change it, each on its own database session:       *)
(*   - scans, which create and touch listings (source_scraper.py);         *)
(*   - force-merge threads, one at the end of every scan (force_merge.py); *)
(*   - a deduplication run (engine.py), which only records candidates;     *)
(*   - the user's resolutions of candidates (engine.py, routes.py);        *)
(*   - the user's edits and deactivations of products (routes.py).         *)
(*                                                                         *)
(* SKU, model number and title are abstracted to one match key per         *)
(* product: two products match when their keys are equal.  Scores, prices, *)
(* images, options, competitor links and version snapshots are left out.   *)
(* SQLite has one writer at a time, so a transaction that writes is one    *)
(* action; what a long-lived session READ earlier is kept as state.        *)
(***************************************************************************)
EXTENDS Integers, FiniteSets, Sequences

CONSTANTS
    Listings,        \* listings the stores may show, one per canonical URL
    SiteOf,          \* the store of each listing
    KeyOf,           \* the match key a listing's product gets, or NoKey
    Keys, NoKey,
    SoR,             \* the system-of-record store (SOR_SITE)
    SecondarySites,  \* DEFAULT_SECONDARY_SITES, in order
    MaxProducts,     \* bound: product ids handed out
    NoProduct,
    Threads, Nobody, \* threads that run force_merge_source_sites
    Ops,             \* which operations of scans and of the user are exercised
    DedupRuns        \* bound: deduplication runs

ASSUME CatalogAssumption ==
    /\ KeyOf \in [Listings -> Keys \cup {NoKey}]
    /\ NoKey \notin Keys
    /\ MaxProducts \in Nat
    /\ NoProduct \notin Nat
    /\ Nobody \notin Threads
    /\ DedupRuns \in Nat
    /\ SecondarySites \in Seq({SiteOf[l] : l \in Listings})

Products == 1..MaxProducts
Pairs == {pr \in Products \X Products : pr[1] < pr[2]}
NoPair == <<0, 0>>

VARIABLES
    prod,      \* prod[l]: ProductSource.product_id, NoProduct before it exists
    live,      \* live[l]: ProductSource.is_active
    active,    \* active[p]: Product.is_active
    key,       \* key[p]: the product's match key
    nextId,    \* the id the next Product row gets
    cand,      \* cand[pr]: DuplicateCandidate.status, "none" when there is no row
    lock,      \* holder of _FORCE_MERGE_LOCK
    fm,        \* fm[t]: local state of a force-merge thread
    dd         \* local state of the deduplication run

catalog == <<prod, live, active, key, nextId, cand>>
vars == <<catalog, lock, fm, dd>>

Status == {"none", "pending", "merged", "rejected"}
Created == {p \in Products : p < nextId}
PairOf(p, q) == IF p < q THEN <<p, q>> ELSE <<q, p>>

\* Products with an active listing on a site (_site_product_ids): the product
\* itself need not be active.
OnSite(s) == {prod[l] : l \in {m \in Listings :
                 prod[m] # NoProduct /\ live[m] /\ SiteOf[m] = s}}

\* primary_sku_index / primary_model_index: the first of the matching
\* products wins (setdefault, rows come in id order).
Index(ps) ==
    [k \in Keys |->
        LET matching == {p \in ps : key[p] = k} IN
        IF matching = {} THEN NoProduct
        ELSE CHOOSE p \in matching : \A q \in matching : p <= q]

NoRows == [prod |-> [l \in Listings |-> NoProduct], key |-> [p \in Products |-> NoKey]]

IdleThread ==
    [pc |-> "idle", site |-> 0, todo |-> {}, wasActive |-> {}, primary |-> {},
     index |-> [k \in Keys |-> NoProduct], believed |-> {},
     loaded |-> FALSE, rows |-> NoRows,
     sec |-> NoProduct, target |-> NoProduct, isNew |-> FALSE]

IdleDedup == [pc |-> "idle", pairs |-> {}, cur |-> NoPair, runs |-> 0]

Init ==
    /\ prod = [l \in Listings |-> NoProduct]
    /\ live = [l \in Listings |-> FALSE]
    /\ active = [p \in Products |-> FALSE]
    /\ key = [p \in Products |-> NoKey]
    /\ nextId = 1
    /\ cand = [pr \in Pairs |-> "none"]
    /\ lock = Nobody
    /\ fm = [t \in Threads |-> IdleThread]
    /\ dd = IdleDedup

-----------------------------------------------------------------------------
(* Scans *)

\* A listing that is not in the database gets a product of its own.
PersistNew(l, archived) ==
    /\ prod[l] = NoProduct
    /\ nextId \in Products
    /\ prod' = [prod EXCEPT ![l] = nextId]
    /\ live' = [live EXCEPT ![l] = ~archived]
    /\ active' = [active EXCEPT ![nextId] = TRUE]
    /\ key' = [key EXCEPT ![nextId] = KeyOf[l]]
    /\ nextId' = nextId + 1
    /\ UNCHANGED <<cand, lock, fm, dd>>

\* A known listing keeps its product, whatever has become of that product.
PersistExisting(l, archived) ==
    /\ "rescan" \in Ops
    /\ prod[l] # NoProduct
    /\ live' = [live EXCEPT ![l] = ~archived]
    /\ UNCHANGED <<prod, active, key, nextId, cand, lock, fm, dd>>

\* One UPDATE archives the listings of a site that the scan has not stamped.
ArchiveUnseen(unseen) ==
    /\ "archive" \in Ops
    /\ unseen # {}
    /\ \A l, m \in unseen : SiteOf[l] = SiteOf[m]
    /\ \A l \in unseen : prod[l] # NoProduct /\ live[l]
    /\ live' = [l \in Listings |-> live[l] /\ l \notin unseen]
    /\ UNCHANGED <<prod, active, key, nextId, cand, lock, fm, dd>>

-----------------------------------------------------------------------------
(* _merge_products: the listings in `moved` go to `primary`, `secondary` is  *)
(* deactivated, the candidate is resolved.                                   *)

\* Mutant of MergeProducts: the listings stay where they are.
MergeWithoutMoving(primary, secondary, moved, pr) ==
    /\ UNCHANGED prod
    /\ key' = [key EXCEPT ![primary] = IF @ = NoKey THEN key[secondary] ELSE @]
    /\ active' = [active EXCEPT ![secondary] = FALSE]
    /\ cand' = [cand EXCEPT ![pr] = "merged"]
    /\ UNCHANGED <<live, nextId>>

\* Mutant of MergeProducts: one listing per site, not per site and URL.
MergeBySite(primary, secondary, moved, pr) ==
    /\ prod' = [l \in Listings |->
                  IF l \in moved /\ \A m \in Listings :
                        prod[m] = primary => SiteOf[m] # SiteOf[l]
                  THEN primary ELSE prod[l]]
    /\ key' = [key EXCEPT ![primary] = IF @ = NoKey THEN key[secondary] ELSE @]
    /\ active' = [active EXCEPT ![secondary] = FALSE]
    /\ cand' = [cand EXCEPT ![pr] = "merged"]
    /\ UNCHANGED <<live, nextId>>

\* Mutant of MergeProducts: the secondary is not deactivated.
MergeKeepingLoser(primary, secondary, moved, pr) ==
    /\ prod' = [l \in Listings |-> IF l \in moved THEN primary ELSE prod[l]]
    /\ key' = [key EXCEPT ![primary] = IF @ = NoKey THEN key[secondary] ELSE @]
    /\ cand' = [cand EXCEPT ![pr] = "merged"]
    /\ UNCHANGED <<live, active, nextId>>

MergeProducts(primary, secondary, moved, pr) ==
    /\ prod' = [l \in Listings |-> IF l \in moved THEN primary ELSE prod[l]]
    /\ key' = [key EXCEPT ![primary] = IF @ = NoKey THEN key[secondary] ELSE @]
    /\ active' = [active EXCEPT ![secondary] = FALSE]
    /\ cand' = [cand EXCEPT ![pr] = "merged"]
    /\ UNCHANGED <<live, nextId>>

SourcesOf(p) == {l \in Listings : prod[l] = p}

-----------------------------------------------------------------------------
(* Force merge.  One session_scope per run; the session keeps what it read   *)
(* until a commit or a rollback expires it.                                  *)

\* Mutant of FMStart: no lock.
FMStartUnlocked(t) ==
    /\ fm[t].pc = "idle"
    /\ lock' = t
    /\ LET primaries == {p \in OnSite(SoR) : active[p]} IN
       fm' = [fm EXCEPT ![t] = [IdleThread EXCEPT
                !.pc = "site",
                !.wasActive = {p \in Products : active[p]},
                !.primary = OnSite(SoR),
                !.index = Index(primaries),
                !.believed = primaries]]
    /\ UNCHANGED <<catalog, dd>>

\* with _FORCE_MERGE_LOCK, then the reads at the start of the run.
FMStart(t) ==
    /\ fm[t].pc = "idle"
    /\ lock = Nobody
    /\ lock' = t
    /\ LET primaries == {p \in OnSite(SoR) : active[p]} IN
       fm' = [fm EXCEPT ![t] = [IdleThread EXCEPT
                !.pc = "site",
                !.wasActive = {p \in Products : active[p]},
                !.primary = OnSite(SoR),
                !.index = Index(primaries),
                !.believed = primaries]]
    /\ UNCHANGED <<catalog, dd>>

\* for site in secondary_sites: the products of the next site to be matched,
\* loaded together with their listings (joinedload).
FMSite(t) ==
    /\ fm[t].pc = "site"
    /\ fm[t].site < Len(SecondarySites)
    /\ fm' = [fm EXCEPT ![t].pc = "pick",
                        ![t].site = @ + 1,
                        ![t].todo = (OnSite(SecondarySites[fm[t].site + 1])
                                        \cap fm[t].wasActive) \ fm[t].primary,
                        ![t].loaded = TRUE,
                        ![t].rows = [prod |-> prod, key |-> key]]
    /\ UNCHANGED <<catalog, lock, dd>>

FMNextSite(t) ==
    /\ fm[t].pc = "pick"
    /\ fm[t].todo = {}
    /\ fm' = [fm EXCEPT ![t].pc = "site", ![t].loaded = FALSE, ![t].rows = NoRows]
    /\ UNCHANGED <<catalog, lock, dd>>

\* _best_primary_match, on the key the session has loaded.
Target(t, sec) ==
    LET k == IF fm[t].loaded THEN fm[t].rows.key[sec] ELSE key[sec] IN
    IF k \in Keys THEN fm[t].index[k] ELSE NoProduct

\* primary.is_active as the session sees it: a value loaded earlier stands
\* until a commit or a rollback expires it.
SeemsActive(t, p) == p # NoProduct /\ (p \in fm[t].believed \/ active[p])

\* No match, or a match that is inactive: `continue`.
FMSkip(t, sec) ==
    /\ fm[t].pc = "pick"
    /\ sec \in fm[t].todo
    /\ ~SeemsActive(t, Target(t, sec))
    /\ fm' = [fm EXCEPT ![t].todo = @ \ {sec}]
    /\ UNCHANGED <<catalog, lock, dd>>

\* already_linked
FMLinked(t, sec) ==
    LET target == Target(t, sec) IN
    /\ fm[t].pc = "pick"
    /\ sec \in fm[t].todo
    /\ SeemsActive(t, target)
    /\ cand[PairOf(sec, target)] = "merged"
    /\ fm' = [fm EXCEPT ![t].todo = @ \ {sec}, ![t].believed = @ \cup {target}]
    /\ UNCHANGED <<catalog, lock, dd>>

\* A match: the candidate row is looked up, nothing is written yet.
FMMatch(t, sec) ==
    LET target == Target(t, sec) IN
    /\ fm[t].pc = "pick"
    /\ sec \in fm[t].todo
    /\ SeemsActive(t, target)
    /\ cand[PairOf(sec, target)] # "merged"
    /\ fm' = [fm EXCEPT ![t].pc = "merge", ![t].sec = sec, ![t].target = target,
                        ![t].todo = @ \ {sec},
                        ![t].isNew = (cand[PairOf(sec, target)] = "none")]
    /\ UNCHANGED <<catalog, lock, dd>>

FMPair(t) == PairOf(fm[t].sec, fm[t].target)

\* The insert of the candidate hits the UNIQUE constraint.
FMConflict(t) == fm[t].isNew /\ cand[FMPair(t)] # "none"

\* After a commit or a rollback the session rereads what it touches.
Expired(t) ==
    [fm[t] EXCEPT !.pc = "pick", !.believed = {}, !.loaded = FALSE, !.rows = NoRows,
                  !.sec = NoProduct, !.target = NoProduct, !.isNew = FALSE]

\* The secondary's listings as the session sees them.
LoadedSources(t, p) ==
    IF fm[t].loaded THEN {l \in Listings : fm[t].rows.prod[l] = p} ELSE SourcesOf(p)

\* flush of the candidate, _merge_products, commit.  After a conflict the
\* session has been rolled back and everything is read again.  (The fields the
\* primary lacks are read here, not when the session loaded them.)
FMMerge(t) ==
    LET sec == fm[t].sec
        target == fm[t].target
    IN
    /\ fm[t].pc = "merge"
    /\ FMConflict(t) => cand[FMPair(t)] # "merged" /\ active[target]
    /\ ~fm[t].isNew => cand[FMPair(t)] # "none"
    /\ MergeProducts(target, sec,
                     IF FMConflict(t) THEN SourcesOf(sec) ELSE LoadedSources(t, sec),
                     FMPair(t))
    /\ fm' = [fm EXCEPT ![t] = Expired(t)]
    /\ UNCHANGED <<lock, dd>>

\* The conflicting row is merged already, or the target has become inactive.
FMGiveUp(t) ==
    /\ fm[t].pc = "merge"
    /\ FMConflict(t)
    /\ cand[FMPair(t)] = "merged" \/ ~active[fm[t].target]
    /\ fm' = [fm EXCEPT ![t] = Expired(t)]
    /\ UNCHANGED <<catalog, lock, dd>>

\* The candidate that was found has been deleted since: updating it fails, the
\* run is rolled back to its last commit and ends.
FMAbort(t) ==
    /\ fm[t].pc = "merge"
    /\ ~fm[t].isNew
    /\ cand[FMPair(t)] = "none"
    /\ lock' = Nobody
    /\ fm' = [fm EXCEPT ![t] = IdleThread]
    /\ UNCHANGED <<catalog, dd>>

\* Mutant of FMEnd: the lock is not released.
FMEndLocked(t) ==
    /\ fm[t].pc = "site"
    /\ fm[t].site = Len(SecondarySites)
    /\ fm' = [fm EXCEPT ![t] = IdleThread]
    /\ UNCHANGED <<catalog, lock, dd>>

FMEnd(t) ==
    /\ fm[t].pc = "site"
    /\ fm[t].site = Len(SecondarySites)
    /\ lock' = Nobody
    /\ fm' = [fm EXCEPT ![t] = IdleThread]
    /\ UNCHANGED <<catalog, dd>>

ForceMerge(t) ==
    \/ FMStart(t) \/ FMSite(t) \/ FMNextSite(t) \/ FMEnd(t)
    \/ \E sec \in Products : FMSkip(t, sec) \/ FMLinked(t, sec) \/ FMMatch(t, sec)
    \/ FMMerge(t) \/ FMGiveUp(t) \/ FMAbort(t)

-----------------------------------------------------------------------------
(* DeduplicationEngine.run: pairs of active products that share a store and  *)
(* whose confidence reaches the review threshold.  It commits after every    *)
(* candidate here (every 250 in the code).                                   *)

ShareStore(p, q) == \E l, m \in Listings :
    prod[l] = p /\ prod[m] = q /\ live[l] /\ live[m] /\ SiteOf[l] = SiteOf[m]

DedupStart(flagged) ==
    /\ dd.pc = "idle"
    /\ dd.runs < DedupRuns
    /\ flagged \subseteq {pr \in Pairs : active[pr[1]] /\ active[pr[2]]
                                            /\ ShareStore(pr[1], pr[2])}
    /\ flagged # {}
    /\ dd' = [dd EXCEPT !.pc = "run", !.pairs = flagged, !.runs = @ + 1]
    /\ UNCHANGED <<catalog, lock, fm>>

\* The existing candidate of a pair is looked up ...
DedupCheck(pr) ==
    /\ dd.pc = "run"
    /\ pr \in dd.pairs
    /\ dd' = [dd EXCEPT !.pairs = @ \ {pr},
                        !.pc = IF cand[pr] = "none" THEN "insert" ELSE "run",
                        !.cur = IF cand[pr] = "none" THEN pr ELSE NoPair]
    /\ UNCHANGED <<catalog, lock, fm>>

\* ... and a new one inserted.
DedupInsert ==
    /\ dd.pc = "insert"
    /\ cand[dd.cur] = "none"
    /\ cand' = [cand EXCEPT ![dd.cur] = "pending"]
    /\ dd' = [dd EXCEPT !.pc = "run", !.cur = NoPair]
    /\ UNCHANGED <<prod, live, active, key, nextId, lock, fm>>

\* UNIQUE constraint: the exception ends the whole run.
DedupFail ==
    /\ dd.pc = "insert"
    /\ cand[dd.cur] # "none"
    /\ dd' = [IdleDedup EXCEPT !.runs = dd.runs]
    /\ UNCHANGED <<catalog, lock, fm>>

DedupEnd ==
    /\ dd.pc = "run"
    /\ dd.pairs = {}
    /\ dd' = [IdleDedup EXCEPT !.runs = dd.runs]
    /\ UNCHANGED <<catalog, lock, fm>>

Dedup ==
    \/ \E flagged \in SUBSET Pairs : DedupStart(flagged)
    \/ \E pr \in Pairs : DedupCheck(pr)
    \/ DedupInsert \/ DedupFail \/ DedupEnd

-----------------------------------------------------------------------------
(* The user *)

\* The pair's lower id is the primary; only a merged candidate is refused.
ManualMerge(pr) ==
    /\ "merge" \in Ops
    /\ cand[pr] \in {"pending", "rejected"}
    /\ MergeProducts(pr[1], pr[2], SourcesOf(pr[2]), pr)
    /\ UNCHANGED <<lock, fm, dd>>

\* No status is refused.
RejectDuplicate(pr) ==
    /\ "reject" \in Ops
    /\ cand[pr] # "none"
    /\ cand' = [cand EXCEPT ![pr] = "rejected"]
    /\ UNCHANGED <<prod, live, active, key, nextId, lock, fm, dd>>

\* Mutant of DeleteCandidates: rows are only marked.
DeleteSoftly(prs) ==
    /\ "delete" \in Ops
    /\ prs # {}
    /\ \A pr \in prs : cand[pr] # "none"
    /\ cand' = [pr \in Pairs |-> IF pr \in prs THEN "deleted" ELSE cand[pr]]
    /\ UNCHANGED <<prod, live, active, key, nextId, lock, fm, dd>>

DeleteCandidates(prs) ==
    /\ "delete" \in Ops
    /\ prs # {}
    /\ \A pr \in prs : cand[pr] # "none"
    /\ cand' = [pr \in Pairs |-> IF pr \in prs THEN "none" ELSE cand[pr]]
    /\ UNCHANGED <<prod, live, active, key, nextId, lock, fm, dd>>

DeactivateProducts(ps) ==
    /\ "deactivate" \in Ops
    /\ ps # {}
    /\ ps \subseteq Created
    /\ active' = [p \in Products |-> active[p] /\ p \notin ps]
    /\ UNCHANGED <<prod, live, key, nextId, cand, lock, fm, dd>>

UpdateCanonical(p, k) ==
    /\ "edit" \in Ops
    /\ active[p]
    /\ key' = [key EXCEPT ![p] = k]
    /\ UNCHANGED <<prod, live, active, nextId, cand, lock, fm, dd>>

User ==
    \/ \E pr \in Pairs : ManualMerge(pr) \/ RejectDuplicate(pr)
    \/ \E prs \in SUBSET Pairs : DeleteCandidates(prs)
    \/ \E ps \in SUBSET Products : DeactivateProducts(ps)
    \/ \E p \in Products, k \in Keys \cup {NoKey} : UpdateCanonical(p, k)

Scan ==
    \/ \E l \in Listings, archived \in BOOLEAN :
          PersistNew(l, archived) \/ PersistExisting(l, archived)
    \/ \E unseen \in SUBSET Listings : ArchiveUnseen(unseen)

Next ==
    \/ Scan
    \/ \E t \in Threads : ForceMerge(t)
    \/ Dedup
    \/ User

Spec == Init /\ [][Next]_vars

\* A force-merge thread that has begun goes on; nothing else is promised.
FairSpec == Spec /\ \A t \in Threads : WF_vars(ForceMerge(t) /\ lock = t)

-----------------------------------------------------------------------------
(* Properties *)

Rows == [prod : [Listings -> Products \cup {NoProduct}],
         key : [Products -> Keys \cup {NoKey}]]

ThreadState ==
    [pc : {"idle", "site", "pick", "merge"}, site : 0..Len(SecondarySites),
     todo : SUBSET Products, wasActive : SUBSET Products, primary : SUBSET Products,
     index : [Keys -> Products \cup {NoProduct}], believed : SUBSET Products,
     loaded : BOOLEAN, rows : Rows,
     sec : Products \cup {NoProduct}, target : Products \cup {NoProduct},
     isNew : BOOLEAN]

DedupState ==
    [pc : {"idle", "run", "insert"}, pairs : SUBSET Pairs,
     cur : Pairs \cup {NoPair}, runs : 0..DedupRuns]

\* The columns and the sessions' local state hold what they are meant to.
TypeOK ==
    /\ prod \in [Listings -> Products \cup {NoProduct}]
    /\ live \in [Listings -> BOOLEAN]
    /\ active \in [Products -> BOOLEAN]
    /\ key \in [Products -> Keys \cup {NoKey}]
    /\ nextId \in 1..(MaxProducts + 1)
    /\ cand \in [Pairs -> Status]
    /\ lock \in Threads \cup {Nobody}
    /\ fm \in [Threads -> ThreadState]
    /\ dd \in DedupState

\* A merge takes its loser out of the catalogue for good: as long as the
\* candidate says "merged", its two products are not both active, whoever
\* merged, rejected, rescanned or deactivated in whatever order
\* (_merge_products; no code sets Product.is_active back).
MergedPairHasLoser ==
    \A pr \in Pairs : cand[pr] = "merged" => ~active[pr[1]] \/ ~active[pr[2]]

\* What the process-wide lock of force_merge.py is for: with no other writer
\* of candidates, the row a run found missing is still missing when the run
\* inserts it, however many scans end at the same time.
LockPreventsDuplicateInsert ==
    \A t \in Threads :
        fm[t].pc = "merge" /\ fm[t].isNew => cand[FMPair(t)] = "none"

\* No listing is lost to the catalogue: every listing scraped belongs to an
\* active product.
NoListingLost == \A l \in Listings : prod[l] # NoProduct => active[prod[l]]

\* A run that holds the lock gives it back, so that the next scan's run starts.
LockReleased == \A t \in Threads : lock = t ~> lock # t

\* Listings once shown as one product stay together, and none disappears: the
\* catalogue implements the grouping of ListingGroups.
Groups == INSTANCE ListingGroups WITH
    groups <- {SourcesOf(p) : p \in {q \in Products : SourcesOf(q) # {}}}
GroupsOnlyGrow == Groups!Spec
=============================================================================
