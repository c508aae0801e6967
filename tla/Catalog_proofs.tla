-------------------------- MODULE Catalog_proofs --------------------------
(***************************************************************************)
(* Proofs about Catalog, for any stores, listings, keys and threads: types *)
(* are kept, a merged pair has a loser for good, one force merge runs at a *)
(* time, and without deduplication runs it never inserts a candidate that  *)
(* is there already.  Where nobody merges by hand the catalogue implements *)
(* ListingGroups, and where nobody deactivates products either no listing  *)
(* is left with an inactive one.                                           *)
(***************************************************************************)
EXTENDS Catalog, WellFoundedInduction, TLAPS

\* The products a thread remembers, and those it is about to merge.
ThreadRefers(t) ==
    /\ \A p \in fm[t].wasActive \cup fm[t].believed \cup fm[t].todo : p < nextId
    /\ fm[t].pc = "merge" =>
          /\ fm[t].sec \in Products /\ fm[t].sec < nextId
          /\ fm[t].target \in Products /\ fm[t].target < nextId

\* What refers to a product refers to one whose row exists.
RefersToCreated ==
    /\ \A p \in Products : active[p] => p < nextId
    /\ \A pr \in Pairs : cand[pr] # "none" => pr[2] < nextId
    /\ \A t \in Threads : ThreadRefers(t)
    /\ \A pr \in dd.pairs : pr[2] < nextId
    /\ dd.pc = "insert" => dd.cur \in Pairs /\ dd.cur[2] < nextId

\* Who has begun holds the lock.
LockHeld == \A t \in Threads : fm[t].pc # "idle" => lock = t

IInv == TypeOK /\ RefersToCreated /\ LockHeld /\ MergedPairHasLoser

-----------------------------------------------------------------------------
(* Operators *)

\* A set of products that is not empty has a least one.
LEMMA LeastProduct ==
    ASSUME NEW ps \in SUBSET Products, ps # {}
    PROVE  \E p \in ps : \A q \in ps : p <= q
<1>1. ps \subseteq Nat
  BY CatalogAssumption DEF Products
<1>2. PICK p \in ps : \A q \in ps : ~(<<q, p>> \in OpToRel(<, Nat))
  BY <1>1, NatLessThanWellFounded, WFMin, Zenon
<1>3. \A q \in ps : ~(q < p)
  BY <1>1, <1>2 DEF OpToRel
<1> QED BY <1>1, <1>3

\* An index of some products maps every key to one of them or to none.
LEMMA IndexType ==
    ASSUME NEW ps \in SUBSET Products
    PROVE  Index(ps) \in [Keys -> ps \cup {NoProduct}]
<1> SUFFICES ASSUME NEW k \in Keys
             PROVE  LET matching == {p \in ps : key[p] = k} IN
                    (IF matching = {} THEN NoProduct
                     ELSE CHOOSE p \in matching : \A q \in matching : p <= q)
                        \in ps \cup {NoProduct}
    BY DEF Index
<1> DEFINE matching == {p \in ps : key[p] = k}
<1>1. CASE matching = {}
  BY <1>1
<1>2. CASE matching # {}
  <2>1. matching \in SUBSET Products
    OBVIOUS
  <2>2. \E p \in matching : \A q \in matching : p <= q
    BY <1>2, <2>1, LeastProduct
  <2>3. (CHOOSE p \in matching : \A q \in matching : p <= q) \in matching
    BY <2>2
  <2> QED BY <1>2, <2>1, <2>3
<1> QED BY <1>1, <1>2

\* The products that show a listing on a site are products.
LEMMA OnSiteType ==
    ASSUME TypeOK, NEW s
    PROVE  OnSite(s) \subseteq Products
BY DEF TypeOK, OnSite

\* The pair of two products names them in the order of their ids.
LEMMA PairType ==
    ASSUME NEW p \in Products, NEW q \in Products, p # q
    PROVE  /\ PairOf(p, q) \in Pairs
           /\ \/ PairOf(p, q)[1] = p /\ PairOf(p, q)[2] = q
              \/ PairOf(p, q)[1] = q /\ PairOf(p, q)[2] = p
BY CatalogAssumption DEF PairOf, Pairs, Products

-----------------------------------------------------------------------------
(* The steps *)

\* Nothing has been created, nobody refers to anything.
LEMMA InitInv == Init => IInv
<1> SUFFICES ASSUME Init PROVE IInv
    OBVIOUS
<1> USE CatalogAssumption DEF Init
<1>1. TypeOK
  <2>1. fm \in [Threads -> ThreadState]
    <3>1. IdleThread \in ThreadState
      <4>1. NoRows \in Rows
        BY DEF NoRows, Rows
      <4>2. Len(SecondarySites) \in Nat
        OBVIOUS
      <4> QED BY <4>1, <4>2 DEF IdleThread, ThreadState
    <3> QED BY <3>1
  <2>2. dd \in DedupState
    BY DEF IdleDedup, DedupState
  <2> QED BY <2>1, <2>2 DEF TypeOK, Status
<1>2. RefersToCreated
  BY DEF RefersToCreated, ThreadRefers, IdleThread, IdleDedup
<1>3. LockHeld
  BY DEF LockHeld, IdleThread
<1>4. MergedPairHasLoser
  BY DEF MergedPairHasLoser
<1> QED BY <1>1, <1>2, <1>3, <1>4 DEF IInv

\* Products are created and never destroyed: who referred to a created one
\* before still does.
LEMMA CreatedStay ==
    ASSUME TypeOK, RefersToCreated,
           nextId' \in Nat, nextId <= nextId',
           \A p \in Products : active'[p] => active[p] \/ p < nextId',
           UNCHANGED <<cand, fm, dd>>
    PROVE  RefersToCreated'
<1> USE CatalogAssumption
<1>1. nextId \in Nat
  BY DEF TypeOK
<1>2. \A p \in Products : p < nextId => p < nextId'
  BY <1>1 DEF Products
<1>3. \A pr \in Pairs : pr[2] < nextId => pr[2] < nextId'
  BY <1>2 DEF Pairs
<1>4. \A p \in Products : active'[p] => p < nextId'
  BY <1>2 DEF RefersToCreated
<1>5. \A pr \in Pairs : cand'[pr] # "none" => pr[2] < nextId'
  BY <1>3 DEF RefersToCreated
<1>6. ASSUME NEW t \in Threads
      PROVE  ThreadRefers(t)'
  <2>1. fm[t] \in ThreadState
    BY DEF TypeOK
  <2>2. fm[t].wasActive \cup fm[t].believed \cup fm[t].todo \subseteq Products
    BY <2>1 DEF ThreadState
  <2> QED BY <1>2, <2>2 DEF RefersToCreated, ThreadRefers
<1>7. \A pr \in dd.pairs : pr[2] < nextId'
  BY <1>3 DEF TypeOK, DedupState, RefersToCreated
<1>8. dd.pc = "insert" => dd.cur \in Pairs /\ dd.cur[2] < nextId'
  BY <1>3 DEF RefersToCreated
<1> QED BY <1>4, <1>5, <1>6, <1>7, <1>8 DEF RefersToCreated

\* Scans: a new product is one that nothing refers to yet.
LEMMA ScanInv ==
    ASSUME IInv, Scan
    PROVE  IInv'
<1> USE CatalogAssumption DEF IInv
<1>1. ASSUME NEW l \in Listings, NEW archived \in BOOLEAN, PersistNew(l, archived)
      PROVE  IInv'
  <2> USE <1>1 DEF PersistNew
  <2>1. TypeOK'
    BY DEF TypeOK, Products
  <2>2. \A p \in Products : active'[p] => active[p] \/ p < nextId'
    BY DEF TypeOK, Products
  <2>3. RefersToCreated'
    BY <2>2, CreatedStay DEF TypeOK, Products
  <2>4. LockHeld'
    BY DEF LockHeld
  <2>5. MergedPairHasLoser'
    <3> SUFFICES ASSUME NEW pr \in Pairs, cand[pr] = "merged"
                 PROVE  ~active'[pr[1]] \/ ~active'[pr[2]]
        BY DEF MergedPairHasLoser
    <3>1. pr[1] \in Products /\ pr[2] \in Products /\ pr[1] < pr[2]
      BY DEF Pairs
    <3>2. pr[2] < nextId
      BY DEF RefersToCreated
    <3>3. pr[1] # nextId /\ pr[2] # nextId
      BY <3>1, <3>2 DEF Products
    <3> QED BY <3>1, <3>3 DEF TypeOK, MergedPairHasLoser
  <2> QED BY <2>1, <2>3, <2>4, <2>5
<1>2. ASSUME /\ live' \in [Listings -> BOOLEAN]
             /\ UNCHANGED <<prod, active, key, nextId, cand, lock, fm, dd>>
      PROVE  IInv'
  BY <1>2 DEF TypeOK, RefersToCreated, ThreadRefers, LockHeld, MergedPairHasLoser
<1>3. ASSUME NEW l \in Listings, NEW archived \in BOOLEAN, PersistExisting(l, archived)
      PROVE  IInv'
  BY <1>2, <1>3 DEF PersistExisting, TypeOK
<1>4. ASSUME NEW unseen \in SUBSET Listings, ArchiveUnseen(unseen)
      PROVE  IInv'
  BY <1>2, <1>4 DEF ArchiveUnseen, TypeOK
<1> QED BY <1>1, <1>3, <1>4 DEF Scan
\* What every merge keeps, whoever merges: its loser is the pair's loser.
LEMMA MergeKeeps ==
    ASSUME TypeOK, RefersToCreated, MergedPairHasLoser,
           NEW primary \in Products, NEW secondary \in Products,
           NEW moved, NEW pr,
           pr \in Pairs => secondary \in {pr[1], pr[2]} /\ pr[2] < nextId,
           MergeProducts(primary, secondary, moved, pr)
    PROVE  /\ prod' \in [Listings -> Products \cup {NoProduct}]
           /\ live' \in [Listings -> BOOLEAN]
           /\ active' \in [Products -> BOOLEAN]
           /\ key' \in [Products -> Keys \cup {NoKey}]
           /\ nextId' = nextId
           /\ cand' \in [Pairs -> Status]
           /\ \A p \in Products : active'[p] => p < nextId
           /\ \A q \in Pairs : cand'[q] # "none" => q[2] < nextId
           /\ MergedPairHasLoser'
<1> USE DEF MergeProducts
<1>1. /\ prod' \in [Listings -> Products \cup {NoProduct}]
      /\ live' \in [Listings -> BOOLEAN]
      /\ active' \in [Products -> BOOLEAN]
      /\ key' \in [Products -> Keys \cup {NoKey}]
      /\ nextId' = nextId
      /\ cand' \in [Pairs -> Status]
  BY DEF TypeOK, Status
<1>2. \A p \in Products : active'[p] => active[p] /\ p # secondary
  BY DEF TypeOK
<1>3. \A q \in Pairs : q # pr => cand'[q] = cand[q]
  BY DEF TypeOK
<1>4. \A q \in Pairs : q[1] \in Products /\ q[2] \in Products
  BY DEF Pairs
<1>5. MergedPairHasLoser'
  <2> SUFFICES ASSUME NEW q \in Pairs, cand'[q] = "merged"
               PROVE  ~active'[q[1]] \/ ~active'[q[2]]
      BY DEF MergedPairHasLoser
  <2>1. CASE q = pr
    BY <1>2, <1>4, <2>1
  <2>2. CASE q # pr
    BY <1>2, <1>3, <1>4, <2>2 DEF MergedPairHasLoser
  <2> QED BY <2>1, <2>2
<1> QED BY <1>1, <1>2, <1>3, <1>5 DEF RefersToCreated

\* The user merges, rejects, deletes, deactivates and edits.
LEMMA UserInv ==
    ASSUME IInv, User
    PROVE  IInv'
<1> USE DEF IInv
<1>1. ASSUME NEW pr \in Pairs, ManualMerge(pr) PROVE IInv'
  <2> USE <1>1 DEF ManualMerge
  <2>1. pr[1] \in Products /\ pr[2] \in Products /\ pr[2] < nextId
    BY DEF Pairs, RefersToCreated
  <2>2. /\ prod' \in [Listings -> Products \cup {NoProduct}]
        /\ live' \in [Listings -> BOOLEAN]
        /\ active' \in [Products -> BOOLEAN]
        /\ key' \in [Products -> Keys \cup {NoKey}]
        /\ nextId' = nextId
        /\ cand' \in [Pairs -> Status]
        /\ \A p \in Products : active'[p] => p < nextId
        /\ \A q \in Pairs : cand'[q] # "none" => q[2] < nextId
        /\ MergedPairHasLoser'
    BY <2>1, MergeKeeps
  <2> QED BY <2>2 DEF TypeOK, RefersToCreated, ThreadRefers, LockHeld
<1>2. ASSUME /\ active' \in [Products -> BOOLEAN]
             /\ key' \in [Products -> Keys \cup {NoKey}]
             /\ cand' \in [Pairs -> Status]
             /\ \A p \in Products : active'[p] => active[p]
             /\ \A pr \in Pairs : cand'[pr] # "none" => cand[pr] # "none"
             /\ \A pr \in Pairs : cand'[pr] = "merged" => cand[pr] = "merged"
             /\ UNCHANGED <<prod, live, nextId, lock, fm, dd>>
      PROVE  IInv'
  <2>1. \A pr \in Pairs : pr[1] \in Products /\ pr[2] \in Products
    BY DEF Pairs
  <2>2. MergedPairHasLoser'
    <3> SUFFICES ASSUME NEW pr \in Pairs, cand'[pr] = "merged"
                 PROVE  ~active'[pr[1]] \/ ~active'[pr[2]]
        BY DEF MergedPairHasLoser
    <3>1. cand[pr] = "merged"
      BY <1>2
    <3>2. ~active[pr[1]] \/ ~active[pr[2]]
      BY <3>1 DEF MergedPairHasLoser
    <3> QED BY <1>2, <2>1, <3>2
  <2>3. TypeOK'
    BY <1>2 DEF TypeOK
  <2>4. RefersToCreated'
    <3>1. /\ \A p \in Products : active'[p] => p < nextId'
          /\ \A pr \in Pairs : cand'[pr] # "none" => pr[2] < nextId'
      BY <1>2 DEF RefersToCreated
    <3>2. \A t \in Threads : ThreadRefers(t)'
      BY <1>2 DEF RefersToCreated, ThreadRefers
    <3> QED BY <1>2, <3>1, <3>2 DEF RefersToCreated
  <2>5. LockHeld'
    BY <1>2 DEF LockHeld
  <2> QED BY <2>2, <2>3, <2>4, <2>5
<1>3. ASSUME NEW pr \in Pairs, RejectDuplicate(pr) PROVE IInv'
  BY <1>2, <1>3 DEF RejectDuplicate, TypeOK, Status
<1>4. ASSUME NEW prs \in SUBSET Pairs, DeleteCandidates(prs) PROVE IInv'
  BY <1>2, <1>4 DEF DeleteCandidates, TypeOK, Status
<1>5. ASSUME NEW ps \in SUBSET Products, DeactivateProducts(ps) PROVE IInv'
  BY <1>2, <1>5 DEF DeactivateProducts, TypeOK
<1>6. ASSUME NEW p \in Products, NEW k \in Keys \cup {NoKey}, UpdateCanonical(p, k)
      PROVE  IInv'
  BY <1>2, <1>6 DEF UpdateCanonical, TypeOK
<1> QED BY <1>1, <1>3, <1>4, <1>5, <1>6 DEF User

\* A deduplication run records pairs of active products.
LEMMA DedupInv ==
    ASSUME IInv, Dedup
    PROVE  IInv'
<1> USE CatalogAssumption DEF IInv
<1>1. ASSUME dd' \in DedupState,
             \A pr \in dd'.pairs : pr[2] < nextId,
             dd'.pc = "insert" => dd'.cur \in Pairs /\ dd'.cur[2] < nextId,
             UNCHANGED <<catalog, lock, fm>>
      PROVE  IInv'
  BY <1>1 DEF TypeOK, RefersToCreated, ThreadRefers, LockHeld, MergedPairHasLoser, catalog
<1>2. ASSUME NEW flagged \in SUBSET Pairs, DedupStart(flagged) PROVE IInv'
  <2>1. \A pr \in flagged : pr[2] < nextId
    BY <1>2 DEF DedupStart, RefersToCreated, Pairs
  <2>2. dd' \in DedupState
    <3>1. dd \in DedupState /\ dd.runs + 1 \in 0..DedupRuns
      BY <1>2 DEF DedupStart, TypeOK, DedupState
    <3> QED BY <1>2, <3>1 DEF DedupStart, DedupState
  <2> QED BY <1>1, <1>2, <2>1, <2>2 DEF DedupStart, TypeOK, DedupState
<1>3. ASSUME NEW pr \in Pairs, DedupCheck(pr) PROVE IInv'
  BY <1>1, <1>3 DEF DedupCheck, TypeOK, DedupState, RefersToCreated
<1>4. ASSUME DedupInsert PROVE IInv'
  <2> USE <1>4 DEF DedupInsert
  <2>1. TypeOK'
    BY DEF TypeOK, DedupState, Status
  <2>2. RefersToCreated'
    BY DEF TypeOK, DedupState, RefersToCreated, ThreadRefers
  <2>3. LockHeld' /\ MergedPairHasLoser'
    BY DEF TypeOK, LockHeld, MergedPairHasLoser
  <2> QED BY <2>1, <2>2, <2>3
<1>5. ASSUME DedupFail \/ DedupEnd PROVE IInv'
  BY <1>1, <1>5 DEF DedupFail, DedupEnd, IdleDedup, TypeOK, DedupState
<1> QED BY <1>2, <1>3, <1>4, <1>5 DEF Dedup

\* A step of a force merge that changes its own state and perhaps the lock.
LEMMA ThreadInv ==
    ASSUME IInv, NEW t \in Threads, NEW new \in ThreadState,
           fm' = [fm EXCEPT ![t] = new],
           UNCHANGED <<catalog, dd>>,
           \A p \in new.wasActive \cup new.believed \cup new.todo : p < nextId,
           new.pc = "merge" => /\ new.sec \in Products /\ new.sec < nextId
                               /\ new.target \in Products /\ new.target < nextId,
           lock' \in Threads \cup {Nobody},
           new.pc # "idle" => lock' = t,
           lock = lock' \/ \A u \in Threads \ {t} : fm[u].pc = "idle"
    PROVE  IInv'
<1> USE DEF IInv, catalog
<1>1. TypeOK'
  BY DEF TypeOK
<1>2. RefersToCreated'
  <2>1. ASSUME NEW u \in Threads PROVE ThreadRefers(u)'
    BY DEF ThreadRefers, RefersToCreated, TypeOK
  <2> QED BY <2>1 DEF RefersToCreated
<1>3. LockHeld'
  BY DEF LockHeld, TypeOK
<1>4. MergedPairHasLoser'
  BY DEF MergedPairHasLoser
<1> QED BY <1>1, <1>2, <1>3, <1>4

\* The lock is free: nobody has begun.  It is the thread's: nobody else has.
LEMMA LockExcludes ==
    ASSUME IInv, NEW t \in Threads, fm[t].pc # "idle" \/ lock = Nobody
    PROVE  \A u \in Threads \ {t} : fm[u].pc = "idle"
BY CatalogAssumption DEF IInv, LockHeld

\* A run begins, with what it has read under the lock.
LEMMA FMStartInv ==
    ASSUME IInv, NEW t \in Threads, FMStart(t)
    PROVE  IInv'
<1> USE CatalogAssumption DEF IInv, FMStart
<1> DEFINE primaries == {p \in OnSite(SoR) : active[p]}
           new == [IdleThread EXCEPT
                     !.pc = "site",
                     !.wasActive = {p \in Products : active[p]},
                     !.primary = OnSite(SoR),
                     !.index = Index(primaries),
                     !.believed = primaries]
<1>1. OnSite(SoR) \subseteq Products
  BY OnSiteType
<1>2. Index(primaries) \in [Keys -> Products \cup {NoProduct}]
  BY <1>1, IndexType
<1>3. new \in ThreadState
  <2>1. NoRows \in Rows
    BY DEF NoRows, Rows
  <2>2. 0 \in 0..Len(SecondarySites)
    OBVIOUS
  <2> QED BY <1>1, <1>2, <2>1, <2>2 DEF IdleThread, ThreadState
<1>4. \A p \in new.wasActive \cup new.believed \cup new.todo : p < nextId
  BY <1>1 DEF IdleThread, RefersToCreated
<1>5. new.pc = "site"
  BY DEF IdleThread
<1>6. \A u \in Threads \ {t} : fm[u].pc = "idle"
  BY LockExcludes
<1>7. fm' = [fm EXCEPT ![t] = new] /\ lock' = t /\ UNCHANGED <<catalog, dd>>
  OBVIOUS
<1> HIDE DEF new, FMStart
<1> QED BY <1>3, <1>4, <1>5, <1>6, <1>7, ThreadInv

\* A run chooses among the products it has loaded, or goes to the next site.
LEMMA FMChooseInv ==
    ASSUME IInv, NEW t \in Threads,
           \/ FMSite(t) \/ FMNextSite(t)
           \/ \E sec \in Products : FMSkip(t, sec) \/ FMLinked(t, sec) \/ FMMatch(t, sec)
    PROVE  IInv'
<1> USE CatalogAssumption DEF IInv
<1> DEFINE new == fm'[t]
<1>0. /\ fm[t] \in ThreadState
      /\ fm[t].pc # "idle" => lock = t
      /\ ThreadRefers(t)
      /\ nextId \in Nat
  BY DEF TypeOK, LockHeld, RefersToCreated
<1>1. CASE FMSite(t)
  <2> DEFINE next == (OnSite(SecondarySites[fm[t].site + 1])
                         \cap fm[t].wasActive) \ fm[t].primary
             read == [prod |-> prod, key |-> key]
  <2>1. fm[t].site + 1 \in 0..Len(SecondarySites)
    BY <1>0, <1>1 DEF FMSite, ThreadState
  <2>2. next \in SUBSET Products /\ read \in Rows
    BY <1>0 DEF TypeOK, Rows, ThreadState
  <2>3. new = [fm[t] EXCEPT !.pc = "pick", !.site = @ + 1, !.todo = next,
                            !.loaded = TRUE, !.rows = read]
    BY <1>1 DEF FMSite, TypeOK
  <2> HIDE DEF read
  <2>4. new \in ThreadState
    BY <1>0, <2>1, <2>2, <2>3 DEF ThreadState
  <2>5. fm' = [fm EXCEPT ![t] = new] /\ fm[t].pc = "site" /\ UNCHANGED <<catalog, lock, dd>>
    BY <1>1 DEF FMSite, TypeOK
  <2>6. \A p \in new.wasActive \cup new.believed \cup new.todo : p < nextId
    BY <1>0, <2>3 DEF ThreadRefers, ThreadState
  <2>7. new.pc = "pick"
    BY <1>0, <2>3 DEF ThreadState
  <2> HIDE DEF new
  <2> QED BY <1>0, <2>4, <2>5, <2>6, <2>7, ThreadInv DEF TypeOK
<1>2. CASE FMNextSite(t)
  <2>1. new = [fm[t] EXCEPT !.pc = "site", !.loaded = FALSE, !.rows = NoRows]
    BY <1>2 DEF FMNextSite, TypeOK
  <2>2. NoRows \in Rows
    BY DEF NoRows, Rows
  <2>3. new \in ThreadState
    BY <1>0, <2>1, <2>2 DEF ThreadState
  <2>4. fm' = [fm EXCEPT ![t] = new] /\ fm[t].pc = "pick" /\ UNCHANGED <<catalog, lock, dd>>
    BY <1>2 DEF FMNextSite, TypeOK
  <2>5. \A p \in new.wasActive \cup new.believed \cup new.todo : p < nextId
    BY <1>0, <2>1 DEF ThreadRefers, ThreadState
  <2>6. new.pc = "site"
    BY <1>0, <2>1 DEF ThreadState
  <2> HIDE DEF new
  <2> QED BY <1>0, <2>3, <2>4, <2>5, <2>6, ThreadInv DEF TypeOK
<1>3. ASSUME NEW sec \in Products, FMSkip(t, sec)
      PROVE  IInv'
  <2>1. new = [fm[t] EXCEPT !.todo = @ \ {sec}]
    BY <1>3 DEF FMSkip, TypeOK
  <2>2. new \in ThreadState
    BY <1>0, <2>1 DEF ThreadState
  <2>3. fm' = [fm EXCEPT ![t] = new] /\ fm[t].pc = "pick" /\ UNCHANGED <<catalog, lock, dd>>
    BY <1>3 DEF FMSkip, TypeOK
  <2>4. \A p \in new.wasActive \cup new.believed \cup new.todo : p < nextId
    BY <1>0, <2>1 DEF ThreadRefers, ThreadState
  <2>5. new.pc = "pick"
    BY <1>0, <2>1, <2>3 DEF ThreadState
  <2> HIDE DEF new
  <2> QED BY <1>0, <2>2, <2>3, <2>4, <2>5, ThreadInv DEF TypeOK
<1>4. ASSUME NEW sec \in Products, SeemsActive(t, Target(t, sec))
      PROVE  Target(t, sec) \in Products /\ Target(t, sec) < nextId
  <2>1. Target(t, sec) \in Products
    BY <1>0, <1>4 DEF SeemsActive, Target, ThreadState
  <2> QED BY <1>0, <1>4, <2>1 DEF SeemsActive, ThreadRefers, RefersToCreated
<1>5. ASSUME NEW sec \in Products, FMLinked(t, sec)
      PROVE  IInv'
  <2> DEFINE target == Target(t, sec)
  <2>1. new = [fm[t] EXCEPT !.todo = @ \ {sec}, !.believed = @ \cup {target}]
    BY <1>5 DEF FMLinked, TypeOK
  <2>2. target \in Products /\ target < nextId
    BY <1>4, <1>5 DEF FMLinked
  <2> HIDE DEF target
  <2>3. new \in ThreadState
    <3>1. /\ fm[t].todo \ {sec} \in SUBSET Products
          /\ fm[t].believed \cup {target} \in SUBSET Products
      BY <1>0, <2>2 DEF ThreadState
    <3> QED BY <1>0, <2>1, <3>1 DEF ThreadState
  <2>4. fm' = [fm EXCEPT ![t] = new] /\ fm[t].pc = "pick" /\ UNCHANGED <<catalog, lock, dd>>
    BY <1>5 DEF FMLinked, TypeOK
  <2>5. \A p \in new.wasActive \cup new.believed \cup new.todo : p < nextId
    BY <1>0, <2>1, <2>2 DEF ThreadRefers, ThreadState
  <2>6. new.pc = "pick"
    BY <1>0, <2>1, <2>4 DEF ThreadState
  <2> HIDE DEF new
  <2> QED BY <1>0, <2>3, <2>4, <2>5, <2>6, ThreadInv DEF TypeOK
<1>6. ASSUME NEW sec \in Products, FMMatch(t, sec)
      PROVE  IInv'
  <2> DEFINE target == Target(t, sec)
             isNew == cand[PairOf(sec, target)] = "none"
  <2>1. new = [fm[t] EXCEPT !.pc = "merge", !.sec = sec, !.target = target,
                            !.todo = @ \ {sec}, !.isNew = isNew]
    BY <1>6 DEF FMMatch, TypeOK
  <2>2. target \in Products /\ target < nextId
    BY <1>4, <1>6 DEF FMMatch
  <2>3. sec < nextId
    BY <1>0, <1>6 DEF FMMatch, ThreadRefers
  <2>4. isNew \in BOOLEAN
    OBVIOUS
  <2> HIDE DEF target, isNew
  <2>5. new \in ThreadState
    BY <1>0, <2>1, <2>2, <2>4 DEF ThreadState
  <2>6. fm' = [fm EXCEPT ![t] = new] /\ fm[t].pc = "pick" /\ UNCHANGED <<catalog, lock, dd>>
    <3>1. fm \in [Threads -> ThreadState]
      BY DEF TypeOK
    <3>2. fm[t].pc = "pick" /\ UNCHANGED <<catalog, lock, dd>>
      BY <1>6 DEF FMMatch
    <3>3. fm' = [fm EXCEPT ![t] = [fm[t] EXCEPT !.pc = "merge", !.sec = sec,
                             !.target = target, !.todo = @ \ {sec}, !.isNew = isNew]]
      BY <1>6, <3>1 DEF FMMatch, target, isNew
    <3> QED BY <2>1, <3>2, <3>3
  <2>7. \A p \in new.wasActive \cup new.believed \cup new.todo : p < nextId
    BY <1>0, <2>1 DEF ThreadRefers, ThreadState
  <2>8. new.sec = sec /\ new.target = target /\ new.pc = "merge"
    BY <1>0, <2>1 DEF ThreadState
  <2> HIDE DEF new
  <2> QED BY <1>0, <2>2, <2>3, <2>5, <2>6, <2>7, <2>8, ThreadInv DEF TypeOK
<1> QED BY <1>1, <1>2, <1>3, <1>5, <1>6

\* A run gives up a product, is aborted or ends.
LEMMA FMStopInv ==
    ASSUME IInv, NEW t \in Threads, FMGiveUp(t) \/ FMAbort(t) \/ FMEnd(t)
    PROVE  IInv'
<1> USE CatalogAssumption DEF IInv
<1>0. /\ fm[t] \in ThreadState
      /\ fm[t].pc # "idle" => lock = t
      /\ ThreadRefers(t)
  BY DEF TypeOK, LockHeld, RefersToCreated
<1>1. NoRows \in Rows
  BY DEF NoRows, Rows
<1>2. CASE FMGiveUp(t)
  <2>1. Expired(t) \in ThreadState
    BY <1>0, <1>1 DEF Expired, ThreadState
  <2>2. /\ Expired(t).wasActive = fm[t].wasActive
        /\ Expired(t).believed = {}
        /\ Expired(t).todo = fm[t].todo
        /\ Expired(t).pc = "pick"
    BY <1>0 DEF Expired, ThreadState
  <2>3. fm' = [fm EXCEPT ![t] = Expired(t)] /\ fm[t].pc = "merge" /\ UNCHANGED <<catalog, lock, dd>>
    BY <1>2 DEF FMGiveUp
  <2>4. \A p \in Expired(t).wasActive \cup Expired(t).believed \cup Expired(t).todo : p < nextId
    BY <1>0, <2>2 DEF ThreadRefers
  <2> QED BY <1>0, <2>1, <2>2, <2>3, <2>4, ThreadInv DEF TypeOK
<1>3. CASE FMAbort(t) \/ FMEnd(t)
  <2>1. IdleThread \in ThreadState
    <3>1. 0 \in 0..Len(SecondarySites)
      OBVIOUS
    <3> QED BY <1>1, <3>1 DEF IdleThread, ThreadState
  <2>2. /\ IdleThread.wasActive = {} /\ IdleThread.believed = {} /\ IdleThread.todo = {}
        /\ IdleThread.pc = "idle"
    BY DEF IdleThread
  <2>3. fm' = [fm EXCEPT ![t] = IdleThread] /\ fm[t].pc # "idle" /\ lock' = Nobody
        /\ UNCHANGED <<catalog, dd>>
    BY <1>3 DEF FMAbort, FMEnd
  <2>4. \A u \in Threads \ {t} : fm[u].pc = "idle"
    BY <2>3, LockExcludes
  <2>5. lock' \in Threads \cup {Nobody}
    BY <2>3
  <2>6. \A p \in IdleThread.wasActive \cup IdleThread.believed \cup IdleThread.todo : p < nextId
    BY <2>2
  <2> QED BY <2>1, <2>2, <2>3, <2>4, <2>5, <2>6, ThreadInv
<1> QED BY <1>2, <1>3

\* The merge itself: the pair it resolves gets its loser.
LEMMA FMMergeInv ==
    ASSUME IInv, NEW t \in Threads, FMMerge(t)
    PROVE  IInv'
<1> USE CatalogAssumption DEF IInv
<1> DEFINE sec == fm[t].sec
           target == fm[t].target
           moved == IF FMConflict(t) THEN SourcesOf(sec) ELSE LoadedSources(t, sec)
<1>0. /\ fm[t] \in ThreadState /\ fm[t].pc = "merge" /\ ThreadRefers(t)
      /\ nextId \in Nat
  BY DEF TypeOK, RefersToCreated, FMMerge
<1>1. /\ sec \in Products /\ sec < nextId
      /\ target \in Products /\ target < nextId
  BY <1>0 DEF ThreadRefers
<1>2. FMPair(t) \in Pairs => /\ sec \in {FMPair(t)[1], FMPair(t)[2]}
                             /\ FMPair(t)[2] < nextId
  <2>1. CASE sec < target
    BY <1>1, <2>1 DEF FMPair, PairOf
  <2>2. CASE ~(sec < target)
    BY <1>1, <2>2 DEF FMPair, PairOf
  <2> QED BY <2>1, <2>2
<1>3. MergeProducts(target, sec, moved, FMPair(t))
  BY DEF FMMerge
<1>4. /\ prod' \in [Listings -> Products \cup {NoProduct}]
      /\ live' \in [Listings -> BOOLEAN]
      /\ active' \in [Products -> BOOLEAN]
      /\ key' \in [Products -> Keys \cup {NoKey}]
      /\ nextId' = nextId
      /\ cand' \in [Pairs -> Status]
      /\ \A p \in Products : active'[p] => p < nextId
      /\ \A q \in Pairs : cand'[q] # "none" => q[2] < nextId
      /\ MergedPairHasLoser'
  <2> HIDE DEF sec, target, moved
  <2> QED BY <1>1, <1>2, <1>3, MergeKeeps
<1>5. Expired(t) \in ThreadState
  <2>1. NoRows \in Rows
    BY DEF NoRows, Rows
  <2> QED BY <1>0, <2>1 DEF Expired, ThreadState
<1>6. /\ Expired(t).wasActive = fm[t].wasActive
      /\ Expired(t).believed = {}
      /\ Expired(t).todo = fm[t].todo
      /\ Expired(t).pc = "pick"
  BY <1>0 DEF Expired, ThreadState
<1>7. fm' = [fm EXCEPT ![t] = Expired(t)] /\ UNCHANGED <<lock, dd>>
  BY DEF FMMerge
<1>8. TypeOK'
  BY <1>4, <1>5, <1>7 DEF TypeOK
<1>9. RefersToCreated'
  <2>1. ASSUME NEW u \in Threads PROVE ThreadRefers(u)'
    <3>1. CASE u = t
      BY <1>0, <1>4, <1>6, <1>7, <3>1 DEF ThreadRefers, TypeOK
    <3>2. CASE u # t
      BY <1>4, <1>7, <3>2 DEF ThreadRefers, TypeOK, RefersToCreated
    <3> QED BY <3>1, <3>2
  <2> QED BY <1>4, <1>7, <2>1 DEF RefersToCreated
<1>10. LockHeld'
  BY <1>0, <1>7 DEF LockHeld, TypeOK
<1> QED BY <1>4, <1>8, <1>9, <1>10

-----------------------------------------------------------------------------
(* The theorems *)

\* IInv is an inductive invariant.
THEOREM Invariance == Spec => []IInv
<1>1. IInv /\ [Next]_vars => IInv'
  <2> SUFFICES ASSUME IInv, [Next]_vars PROVE IInv'
      OBVIOUS
  <2>1. CASE Scan
      BY <2>1, ScanInv
  <2>2. ASSUME NEW t \in Threads, ForceMerge(t) PROVE IInv'
      BY <2>2, FMStartInv, FMChooseInv, FMStopInv, FMMergeInv DEF ForceMerge
  <2>3. CASE Dedup
      BY <2>3, DedupInv
  <2>4. CASE User
      BY <2>4, UserInv
  <2>5. CASE UNCHANGED vars
      BY <2>5 DEF IInv, TypeOK, RefersToCreated, ThreadRefers, LockHeld,
                  MergedPairHasLoser, vars, catalog
  <2> QED BY <2>1, <2>2, <2>3, <2>4, <2>5 DEF Next
<1> QED BY InitInv, <1>1, PTL DEF Spec

\* The columns and the sessions' local state hold what they are meant to.
THEOREM TypeCorrect == Spec => []TypeOK
<1>1. IInv => TypeOK
  BY DEF IInv
<1> QED BY <1>1, Invariance, PTL

\* engine.py:312: whoever merges, rejects, deletes or scans in whatever order,
\* two products that are recorded as merged are never both active.
THEOREM MergesLast == Spec => []MergedPairHasLoser
<1>1. IInv => MergedPairHasLoser
  BY DEF IInv
<1> QED BY <1>1, Invariance, PTL

\* force_merge.py:128: at most one thread is inside a force merge.
THEOREM OneAtATime ==
    Spec => [](\A t, u \in Threads : fm[t].pc # "idle" /\ fm[u].pc # "idle" => t = u)
<1>1. IInv => \A t, u \in Threads : fm[t].pc # "idle" /\ fm[u].pc # "idle" => t = u
  BY DEF IInv, LockHeld
<1> QED BY <1>1, Invariance, PTL

-----------------------------------------------------------------------------
(* Without deduplication runs, the lock alone keeps candidates unique.       *)

\* The index leads to products of the system of record, the products to be
\* matched are not among those: a product is never matched with itself.
TwoProducts(t) ==
    /\ \A k \in Keys : fm[t].index[k] \in fm[t].primary \cup {NoProduct}
    /\ fm[t].todo \cap fm[t].primary = {}
    /\ fm[t].pc = "merge" => /\ fm[t].sec \notin fm[t].primary
                             /\ fm[t].target \in fm[t].primary

LInv ==
    /\ dd.pc = "idle"
    /\ \A t \in Threads : TwoProducts(t)
    /\ LockPreventsDuplicateInsert

\* The pair a thread is about to merge is a pair.
LEMMA PairIsPair ==
    ASSUME IInv, LInv, NEW t \in Threads, fm[t].pc = "merge"
    PROVE  FMPair(t) \in Pairs
BY PairType DEF IInv, LInv, RefersToCreated, ThreadRefers, TwoProducts, FMPair

\* A step that leaves the threads alone and creates no candidate.
LEMMA OthersKeepLInv ==
    ASSUME IInv, LInv, UNCHANGED fm, dd'.pc = "idle",
           \A pr \in Pairs : cand[pr] = "none" => cand'[pr] = "none"
    PROVE  LInv'
<1>1. \A t \in Threads : TwoProducts(t)'
  BY DEF LInv, TwoProducts
<1>2. ASSUME NEW t \in Threads, fm'[t].pc = "merge", fm'[t].isNew
      PROVE  cand'[FMPair(t)] = "none"
  BY <1>2, PairIsPair DEF LInv, LockPreventsDuplicateInsert
<1>3. \A t \in Threads : FMPair(t)' = FMPair(t)
  BY DEF FMPair
<1> QED BY <1>1, <1>2, <1>3 DEF LInv, LockPreventsDuplicateInsert

\* A step of one thread after which it is not about to merge.
LEMMA ThreadKeepsLInv ==
    ASSUME IInv, LInv, NEW t \in Threads,
           fm' = [fm EXCEPT ![t] = fm'[t]],
           fm'[t].pc # "merge",
           TwoProducts(t)',
           UNCHANGED dd,
           cand' = cand \/ \A u \in Threads \ {t} : fm[u].pc = "idle"
    PROVE  LInv'
<1>1. fm \in [Threads -> ThreadState]
  BY DEF IInv, TypeOK
<1>2. \A u \in Threads \ {t} : fm'[u] = fm[u]
  BY <1>1
<1>3. ASSUME NEW u \in Threads PROVE TwoProducts(u)'
  BY <1>2 DEF LInv, TwoProducts
<1>4. ASSUME NEW u \in Threads, fm'[u].pc = "merge", fm'[u].isNew
      PROVE  cand'[FMPair(u)'] = "none"
  <2>1. u # t /\ fm'[u] = fm[u] /\ cand' = cand
    BY <1>2, <1>4
  <2> QED BY <1>4, <2>1 DEF LInv, LockPreventsDuplicateInsert, FMPair
<1> QED BY <1>3, <1>4 DEF LInv, LockPreventsDuplicateInsert

\* A step of one thread keeps its two products apart and leaves the others,
\* the deduplication run and the ids alone; it is about to merge after
\* FMMatch only, and writes candidates in FMMerge only.
LEMMA ForceMergeStep ==
    ASSUME IInv, NEW t \in Threads, TwoProducts(t), ForceMerge(t)
    PROVE  /\ TwoProducts(t)'
           /\ fm' = [fm EXCEPT ![t] = fm'[t]]
           /\ UNCHANGED <<dd, nextId>>
           /\ \/ fm'[t].pc # "merge"
              \/ \E sec \in Products : FMMatch(t, sec)
           /\ UNCHANGED cand \/ FMMerge(t)
           /\ UNCHANGED prod \/ FMMerge(t)
<1> USE CatalogAssumption
<1>0. /\ fm \in [Threads -> ThreadState] /\ fm[t] \in ThreadState
  BY DEF IInv, TypeOK
<1>1. CASE FMStart(t)
  <2> DEFINE primaries == {p \in OnSite(SoR) : active[p]}
  <2>1. /\ fm'[t].pc = "site" /\ fm'[t].primary = OnSite(SoR)
        /\ fm'[t].index = Index(primaries) /\ fm'[t].todo = {}
        /\ fm' = [fm EXCEPT ![t] = fm'[t]] /\ UNCHANGED <<catalog, dd>>
    BY <1>0, <1>1 DEF FMStart, IdleThread
  <2>2. OnSite(SoR) \subseteq Products
    BY OnSiteType DEF IInv
  <2>3. Index(primaries) \in [Keys -> primaries \cup {NoProduct}]
    BY <2>2, IndexType
  <2>4. TwoProducts(t)'
    BY <2>1, <2>3 DEF TwoProducts
  <2> QED BY <2>1, <2>4 DEF catalog
<1>2. CASE FMSite(t)
  <2>1. /\ fm'[t].pc = "pick" /\ fm'[t].primary = fm[t].primary
        /\ fm'[t].index = fm[t].index /\ fm'[t].todo \cap fm[t].primary = {}
        /\ fm' = [fm EXCEPT ![t] = fm'[t]] /\ UNCHANGED <<catalog, dd>>
    BY <1>0, <1>2 DEF FMSite, ThreadState
  <2>2. TwoProducts(t)'
    BY <1>0, <2>1 DEF TwoProducts
  <2> QED BY <2>1, <2>2 DEF catalog
<1>3. ASSUME \/ FMNextSite(t)
             \/ \E sec \in Products : FMSkip(t, sec) \/ FMLinked(t, sec)
      PROVE  /\ TwoProducts(t)' /\ fm' = [fm EXCEPT ![t] = fm'[t]]
             /\ UNCHANGED <<catalog, dd>> /\ fm'[t].pc # "merge"
  <2>1. /\ fm'[t].pc # "merge" /\ fm'[t].primary = fm[t].primary
        /\ fm'[t].index = fm[t].index /\ fm'[t].todo \subseteq fm[t].todo
        /\ fm' = [fm EXCEPT ![t] = fm'[t]] /\ UNCHANGED <<catalog, dd>>
    <3>1. CASE FMNextSite(t)
      BY <1>0, <3>1 DEF FMNextSite, ThreadState
    <3>2. ASSUME NEW sec \in Products, FMSkip(t, sec)
          PROVE  /\ fm'[t].pc # "merge" /\ fm'[t].primary = fm[t].primary
                 /\ fm'[t].index = fm[t].index /\ fm'[t].todo \subseteq fm[t].todo
                 /\ fm' = [fm EXCEPT ![t] = fm'[t]] /\ UNCHANGED <<catalog, dd>>
      BY <1>0, <3>2 DEF FMSkip, ThreadState
    <3>3. ASSUME NEW sec \in Products, FMLinked(t, sec)
          PROVE  /\ fm'[t].pc # "merge" /\ fm'[t].primary = fm[t].primary
                 /\ fm'[t].index = fm[t].index /\ fm'[t].todo \subseteq fm[t].todo
                 /\ fm' = [fm EXCEPT ![t] = fm'[t]] /\ UNCHANGED <<catalog, dd>>
      BY <1>0, <3>3 DEF FMLinked, ThreadState
    <3> QED BY <1>3, <3>1, <3>2, <3>3
  <2>2. TwoProducts(t)'
    BY <1>0, <2>1 DEF TwoProducts
  <2> QED BY <2>1, <2>2
<1>4. ASSUME NEW sec \in Products, FMMatch(t, sec)
      PROVE  /\ TwoProducts(t)' /\ fm' = [fm EXCEPT ![t] = fm'[t]]
             /\ UNCHANGED <<catalog, dd>>
  <2> DEFINE target == Target(t, sec)
  <2>1. /\ fm'[t].sec = sec /\ fm'[t].target = target /\ fm'[t].primary = fm[t].primary
        /\ fm'[t].index = fm[t].index /\ fm'[t].todo \subseteq fm[t].todo
        /\ fm' = [fm EXCEPT ![t] = fm'[t]]
        /\ UNCHANGED <<catalog, dd>>
    BY <1>0, <1>4 DEF FMMatch, ThreadState
  <2>2. sec \in fm[t].todo /\ target # NoProduct
    BY <1>4 DEF FMMatch, SeemsActive
  <2>3. target \in fm[t].primary
    BY <1>0, <2>2 DEF Target, TwoProducts
  <2>4. sec \notin fm[t].primary
    BY <1>0, <2>2 DEF TwoProducts
  <2> HIDE DEF target
  <2>5. TwoProducts(t)'
    BY <1>0, <2>1, <2>3, <2>4 DEF TwoProducts
  <2> QED BY <2>1, <2>5
<1>5. CASE FMMerge(t) \/ FMGiveUp(t)
  <2>1. /\ Expired(t).pc = "pick" /\ Expired(t).primary = fm[t].primary
        /\ Expired(t).index = fm[t].index /\ Expired(t).todo = fm[t].todo
    BY <1>0 DEF Expired, ThreadState
  <2>2. /\ fm' = [fm EXCEPT ![t] = Expired(t)] /\ UNCHANGED <<dd, nextId>>
        /\ FMMerge(t) \/ UNCHANGED <<prod, cand>>
    BY <1>5 DEF FMMerge, FMGiveUp, MergeProducts, catalog
  <2>3. /\ fm'[t].pc = "pick" /\ fm' = [fm EXCEPT ![t] = fm'[t]]
        /\ fm'[t].primary = fm[t].primary
        /\ fm'[t].index = fm[t].index /\ fm'[t].todo = fm[t].todo
    BY <1>0, <2>1, <2>2
  <2>4. TwoProducts(t)'
    BY <1>0, <2>3 DEF TwoProducts
  <2> QED BY <2>2, <2>3, <2>4
<1>6. CASE FMAbort(t) \/ FMEnd(t)
  <2>1. fm' = [fm EXCEPT ![t] = IdleThread] /\ UNCHANGED <<catalog, dd>>
    BY <1>6 DEF FMAbort, FMEnd
  <2>2. /\ TwoProducts(t)' /\ fm'[t].pc = "idle" /\ fm' = [fm EXCEPT ![t] = fm'[t]]
    BY <1>0, <2>1 DEF TwoProducts, IdleThread
  <2> QED BY <2>1, <2>2 DEF catalog
<1> QED BY <1>1, <1>2, <1>3, <1>4, <1>5, <1>6 DEF ForceMerge, catalog

\* The thread that merges is alone; the others only choose.
LEMMA ForceMergeKeepsLInv ==
    ASSUME IInv, LInv, NEW t \in Threads, ForceMerge(t)
    PROVE  LInv'
<1>0. /\ fm \in [Threads -> ThreadState] /\ fm[t] \in ThreadState /\ TwoProducts(t)
  BY DEF IInv, TypeOK, LInv
<1>1. /\ TwoProducts(t)'
      /\ fm' = [fm EXCEPT ![t] = fm'[t]]
      /\ UNCHANGED dd
      /\ \/ fm'[t].pc # "merge"
         \/ \E sec \in Products : FMMatch(t, sec)
      /\ UNCHANGED cand \/ FMMerge(t)
  BY <1>0, ForceMergeStep
<1>2. CASE fm'[t].pc # "merge"
  <2>1. cand' = cand \/ \A u \in Threads \ {t} : fm[u].pc = "idle"
    BY <1>1, LockExcludes DEF FMMerge
  <2> QED BY <1>1, <1>2, <2>1, ThreadKeepsLInv
<1>3. ASSUME NEW sec \in Products, FMMatch(t, sec)
      PROVE  LInv'
  <2>1. /\ fm'[t].sec = sec /\ fm'[t].target = Target(t, sec)
        /\ fm'[t].isNew <=> cand[PairOf(sec, Target(t, sec))] = "none"
        /\ \A u \in Threads \ {t} : fm'[u] = fm[u]
        /\ UNCHANGED cand
    BY <1>0, <1>3 DEF FMMatch, ThreadState, catalog
  <2>2. ASSUME NEW u \in Threads PROVE TwoProducts(u)'
    BY <1>0, <1>1, <2>1 DEF TwoProducts, LInv
  <2>3. ASSUME NEW u \in Threads, fm'[u].pc = "merge", fm'[u].isNew
        PROVE  cand'[FMPair(u)'] = "none"
    BY <2>1, <2>3 DEF LInv, LockPreventsDuplicateInsert, FMPair
  <2> QED BY <1>1, <2>2, <2>3 DEF LInv, LockPreventsDuplicateInsert
<1> QED BY <1>1, <1>2, <1>3

\* force_merge.py:128: with no deduplication run beside them, the lock is
\* enough: however many scans end at the same time, a force merge never
\* inserts a candidate that another one has inserted.
THEOREM LockSuffices ==
    ASSUME DedupRuns = 0
    PROVE  Spec => []LockPreventsDuplicateInsert
<1>1. Init => LInv
  BY DEF Init, LInv, LockPreventsDuplicateInsert, TwoProducts, IdleThread, IdleDedup
<1>2. IInv /\ LInv /\ [Next]_vars => LInv'
  <2> SUFFICES ASSUME IInv, LInv, [Next]_vars PROVE LInv'
      OBVIOUS
  <2>1. CASE Scan
      BY <2>1, OthersKeepLInv
         DEF Scan, PersistNew, PersistExisting, ArchiveUnseen, LInv
  <2>2. ASSUME NEW t \in Threads, ForceMerge(t) PROVE LInv'
      BY <2>2, ForceMergeKeepsLInv
  <2>3. CASE Dedup
    <3>1. ~(dd.runs < DedupRuns)
      BY DEF IInv, TypeOK, DedupState
    <3>2. dd.pc = "idle"
      BY DEF LInv
    <3> QED BY <2>3, <3>1, <3>2
            DEF Dedup, DedupStart, DedupCheck, DedupInsert, DedupFail, DedupEnd
  <2>4. CASE User
    <3>1. \A pr \in Pairs : cand[pr] = "none" => cand'[pr] = "none"
      BY <2>4 DEF User, ManualMerge, MergeProducts, RejectDuplicate, DeleteCandidates,
                  DeactivateProducts, UpdateCanonical, IInv, TypeOK
    <3> QED BY <2>4, <3>1, OthersKeepLInv
            DEF User, ManualMerge, RejectDuplicate, DeleteCandidates,
                DeactivateProducts, UpdateCanonical, LInv
  <2>5. CASE UNCHANGED vars
    <3>1. UNCHANGED <<cand, fm, dd>>
      BY <2>5 DEF vars, catalog
    <3>2. dd'.pc = "idle"
      BY <3>1 DEF LInv
    <3>3. \A pr \in Pairs : cand[pr] = "none" => cand'[pr] = "none"
      BY <3>1
    <3> QED BY <3>1, <3>2, <3>3, OthersKeepLInv
  <2> QED BY <2>1, <2>2, <2>3, <2>4, <2>5 DEF Next
<1>3. LInv => LockPreventsDuplicateInsert
  BY DEF LInv
<1> QED BY <1>1, <1>2, <1>3, Invariance, PTL DEF Spec

-----------------------------------------------------------------------------
(* Without manual merges, what a force merge moves is what its loser has.    *)

\* The products a thread has yet to merge, the one it is merging included.
Pending(t) == fm[t].todo \cup (IF fm[t].pc = "merge" THEN {fm[t].sec} ELSE {})

\* What the thread's session has loaded of those products' listings is true.
RowsFresh(t) ==
    fm[t].pc # "idle" /\ fm[t].loaded => \A l \in Listings, p \in Pending(t) :
        fm[t].rows.prod[l] = p <=> prod[l] = p

\* Every listing's product has been created.
ListedCreated == \A l \in Listings : prod[l] \in Products => prod[l] < nextId

MInv ==
    /\ ListedCreated
    /\ \A t \in Threads : TwoProducts(t) /\ RowsFresh(t)

\* The products pending are products that exist.
LEMMA PendingType ==
    ASSUME IInv, NEW t \in Threads
    PROVE  \A p \in Pending(t) : p \in Products /\ p < nextId
BY DEF IInv, TypeOK, ThreadState, RefersToCreated, ThreadRefers, Pending

\* A step that leaves the threads and the listings' products alone.
LEMMA OthersKeepMInv ==
    ASSUME MInv, UNCHANGED <<prod, fm, nextId>>
    PROVE  MInv'
BY DEF MInv, ListedCreated, TwoProducts, RowsFresh, Pending

\* A new product is none that a thread is about to merge.
LEMMA PersistNewKeepsMInv ==
    ASSUME IInv, MInv, NEW l \in Listings, NEW archived \in BOOLEAN,
           PersistNew(l, archived)
    PROVE  MInv'
<1> USE CatalogAssumption DEF PersistNew
<1>1. /\ prod \in [Listings -> Products \cup {NoProduct}]
      /\ nextId \in Nat /\ nextId' = nextId + 1
      /\ prod[l] = NoProduct /\ prod' = [prod EXCEPT ![l] = nextId]
      /\ Products \subseteq Nat
  BY DEF IInv, TypeOK, Products
<1>2. ListedCreated'
  <2> SUFFICES ASSUME NEW m \in Listings, prod'[m] \in Products
               PROVE  prod'[m] < nextId'
      BY DEF ListedCreated
  <2>1. CASE m = l
    BY <1>1, <2>1
  <2>2. CASE m # l
    <3>1. prod'[m] = prod[m] /\ prod[m] \in Nat
      BY <1>1, <2>2
    <3>2. prod[m] < nextId
      BY <3>1 DEF MInv, ListedCreated
    <3> QED BY <1>1, <3>1, <3>2
  <2> QED BY <2>1, <2>2
<1>3. ASSUME NEW t \in Threads PROVE TwoProducts(t)'
  BY DEF MInv, TwoProducts
<1>4. ASSUME NEW t \in Threads PROVE RowsFresh(t)'
  <2> SUFFICES ASSUME fm[t].pc # "idle", fm[t].loaded, NEW m \in Listings, NEW p \in Pending(t)
               PROVE  fm[t].rows.prod[m] = p <=> prod'[m] = p
      BY DEF RowsFresh, Pending
  <2>1. p \in Products /\ p < nextId /\ p # NoProduct
    BY <1>1, PendingType
  <2>2. fm[t].rows.prod[m] = p <=> prod[m] = p
    BY DEF MInv, RowsFresh
  <2> QED BY <1>1, <2>1, <2>2
<1> QED BY <1>2, <1>3, <1>4 DEF MInv

\* A step of one thread, alone if it changes a listing's product.
LEMMA ThreadKeepsMInv ==
    ASSUME IInv, MInv, NEW t \in Threads,
           fm' = [fm EXCEPT ![t] = fm'[t]],
           UNCHANGED prod \/ \A u \in Threads \ {t} : fm[u].pc = "idle",
           TwoProducts(t)', RowsFresh(t)', ListedCreated'
    PROVE  MInv'
<1>1. fm \in [Threads -> ThreadState]
  BY DEF IInv, TypeOK
<1>2. \A u \in Threads \ {t} : fm'[u] = fm[u]
  BY <1>1
<1>3. ASSUME NEW u \in Threads PROVE TwoProducts(u)' /\ RowsFresh(u)'
  BY <1>2 DEF MInv, TwoProducts, RowsFresh, Pending
<1> QED BY <1>3 DEF MInv

\* What a merge does to the listings' products.
LEMMA MergeMoves ==
    ASSUME IInv, MInv, NEW t \in Threads, FMMerge(t)
    PROVE  /\ fm[t].sec \in Products /\ fm[t].target \in Products
           /\ fm[t].sec # fm[t].target
           /\ fm[t].sec < nextId /\ fm[t].target < nextId
           /\ prod' = [l \in Listings |->
                          IF prod[l] = fm[t].sec THEN fm[t].target ELSE prod[l]]
           /\ active' = [active EXCEPT ![fm[t].sec] = FALSE]
           /\ UNCHANGED nextId
<1>1. /\ fm[t].pc = "merge" /\ ThreadRefers(t) /\ TwoProducts(t) /\ RowsFresh(t)
  BY DEF IInv, MInv, RefersToCreated, FMMerge
<1>2. /\ fm[t].sec \in Products /\ fm[t].target \in Products
      /\ fm[t].sec # fm[t].target
      /\ fm[t].sec < nextId /\ fm[t].target < nextId
  BY <1>1 DEF ThreadRefers, TwoProducts
<1>3. LoadedSources(t, fm[t].sec) = SourcesOf(fm[t].sec)
  <2>1. fm[t].sec \in Pending(t)
    BY <1>1 DEF Pending
  <2>2. fm[t].loaded => \A l \in Listings :
              fm[t].rows.prod[l] = fm[t].sec <=> prod[l] = fm[t].sec
    BY <1>1, <2>1 DEF RowsFresh
  <2> QED BY <2>2 DEF LoadedSources, SourcesOf
<1>4. MergeProducts(fm[t].target, fm[t].sec, SourcesOf(fm[t].sec), FMPair(t))
  BY <1>3 DEF FMMerge
<1> QED BY <1>2, <1>4 DEF MergeProducts, SourcesOf

\* A force merge merges what its loser has.
LEMMA ForceMergeKeepsMInv ==
    ASSUME IInv, MInv, NEW t \in Threads, ForceMerge(t)
    PROVE  MInv'
<1>0. /\ fm \in [Threads -> ThreadState] /\ fm[t] \in ThreadState
      /\ TwoProducts(t) /\ RowsFresh(t) /\ nextId \in Nat
      /\ prod \in [Listings -> Products \cup {NoProduct}]
  BY DEF IInv, TypeOK, MInv
<1>1. /\ TwoProducts(t)'
      /\ fm' = [fm EXCEPT ![t] = fm'[t]]
      /\ UNCHANGED nextId
      /\ UNCHANGED prod \/ FMMerge(t)
  BY <1>0, ForceMergeStep
<1>2. UNCHANGED prod \/ \A u \in Threads \ {t} : fm[u].pc = "idle"
  BY <1>1, LockExcludes DEF FMMerge
<1>3. ListedCreated'
  <2>1. CASE UNCHANGED prod
    BY <1>1, <2>1 DEF MInv, ListedCreated
  <2>2. CASE FMMerge(t)
    BY <1>0, <1>1, <2>2, MergeMoves DEF MInv, ListedCreated
  <2> QED BY <1>1, <2>1, <2>2
<1>4. RowsFresh(t)'
  <2>1. CASE FMSite(t)
    <3>1. fm'[t].rows.prod = prod /\ UNCHANGED prod
      BY <1>0, <2>1 DEF FMSite, ThreadState, catalog
    <3> QED BY <3>1 DEF RowsFresh
  <2>2. ASSUME NEW sec \in Products, FMSkip(t, sec) \/ FMLinked(t, sec) \/ FMMatch(t, sec)
        PROVE  RowsFresh(t)'
    <3>1. /\ fm'[t].rows = fm[t].rows /\ fm'[t].loaded = fm[t].loaded /\ UNCHANGED prod
          /\ fm[t].pc # "idle"
      BY <1>0, <2>2 DEF FMSkip, FMLinked, FMMatch, ThreadState, catalog
    <3>2. Pending(t)' \subseteq Pending(t)
      BY <1>0, <2>2 DEF FMSkip, FMLinked, FMMatch, ThreadState, Pending
    <3> QED BY <1>0, <3>1, <3>2 DEF RowsFresh
  <2>3. CASE FMStart(t) \/ FMNextSite(t) \/ FMEnd(t) \/ FMAbort(t)
    <3>1. CASE FMStart(t)
      <4>1. fm'[t].loaded = FALSE
        BY <1>0, <3>1 DEF FMStart, IdleThread
      <4> QED BY <4>1 DEF RowsFresh
    <3>2. CASE FMNextSite(t)
      <4>1. fm'[t].loaded = FALSE
        BY <1>0, <3>2 DEF FMNextSite, ThreadState
      <4> QED BY <4>1 DEF RowsFresh
    <3>3. CASE FMEnd(t) \/ FMAbort(t)
      <4>1. fm'[t].loaded = FALSE
        BY <1>0, <3>3 DEF FMEnd, FMAbort, IdleThread
      <4> QED BY <4>1 DEF RowsFresh
    <3> QED BY <2>3, <3>1, <3>2, <3>3
  <2>4. CASE FMMerge(t) \/ FMGiveUp(t)
    <3>1. fm'[t] = Expired(t)
      BY <1>0, <2>4 DEF FMMerge, FMGiveUp
    <3>2. ~fm'[t].loaded
      BY <1>0, <3>1 DEF Expired, ThreadState
    <3> QED BY <3>2 DEF RowsFresh
  <2> QED BY <2>1, <2>2, <2>3, <2>4 DEF ForceMerge
<1> QED BY <1>1, <1>2, <1>3, <1>4, ThreadKeepsMInv

\* Without manual merges MInv is an invariant.
LEMMA MInvariance ==
    ASSUME "merge" \notin Ops
    PROVE  Spec => []MInv
<1>1. Init => MInv
  BY CatalogAssumption DEF Init, MInv, ListedCreated, TwoProducts, RowsFresh, IdleThread,
     Products
<1>2. IInv /\ MInv /\ [Next]_vars => MInv'
  <2> SUFFICES ASSUME IInv, MInv, [Next]_vars PROVE MInv'
      OBVIOUS
  <2>1. CASE Scan
    BY <2>1, PersistNewKeepsMInv, OthersKeepMInv
       DEF Scan, PersistExisting, ArchiveUnseen
  <2>2. ASSUME NEW t \in Threads, ForceMerge(t) PROVE MInv'
    BY <2>2, ForceMergeKeepsMInv
  <2>3. CASE Dedup
    BY <2>3, OthersKeepMInv
       DEF Dedup, DedupStart, DedupCheck, DedupInsert, DedupFail, DedupEnd, catalog
  <2>4. CASE User
    BY <2>4, OthersKeepMInv
       DEF User, ManualMerge, RejectDuplicate, DeleteCandidates, DeactivateProducts,
           UpdateCanonical
  <2>5. CASE UNCHANGED vars
    BY <2>5, OthersKeepMInv DEF vars, catalog
  <2> QED BY <2>1, <2>2, <2>3, <2>4, <2>5 DEF Next
<1> QED BY <1>1, <1>2, Invariance, PTL DEF Spec

-----------------------------------------------------------------------------
(* No listing is lost.                                                       *)

\* The products a run matches with are active, and so is every listing's.
KInv ==
    /\ NoListingLost
    /\ \A t \in Threads : fm[t].pc # "idle" =>
          /\ \A k \in Keys : fm[t].index[k] # NoProduct => active[fm[t].index[k]]
          /\ fm[t].pc = "merge" => active[fm[t].target]

\* A step that leaves the threads alone and deactivates nothing.
LEMMA OthersKeepKInv ==
    ASSUME IInv, KInv, UNCHANGED fm,
           \A p \in Products : active[p] => active'[p],
           \A l \in Listings : prod'[l] = prod[l] \/ active'[prod'[l]]
    PROVE  KInv'
<1>1. \A l \in Listings : prod[l] # NoProduct => prod[l] \in Products
  BY DEF IInv, TypeOK
<1>2. NoListingLost'
  BY <1>1 DEF KInv, NoListingLost
<1>3. ASSUME NEW t \in Threads, fm[t].pc # "idle"
      PROVE  /\ \A k \in Keys : fm[t].index[k] # NoProduct => active'[fm[t].index[k]]
             /\ fm[t].pc = "merge" => active'[fm[t].target]
  <2>1. fm[t] \in ThreadState /\ ThreadRefers(t)
    BY DEF IInv, TypeOK, RefersToCreated
  <2>2. \A k \in Keys : fm[t].index[k] # NoProduct => fm[t].index[k] \in Products
    BY <2>1 DEF ThreadState
  <2>3. fm[t].pc = "merge" => fm[t].target \in Products
    BY <2>1 DEF ThreadRefers
  <2> QED BY <1>3, <2>2, <2>3 DEF KInv
<1> QED BY <1>2, <1>3 DEF KInv

\* A thread that takes over its index, or only forgets, keeps KInv.
LEMMA ThreadKeepsKInv ==
    ASSUME IInv, KInv, NEW t \in Threads,
           fm' = [fm EXCEPT ![t] = fm'[t]],
           UNCHANGED catalog,
           fm'[t].pc # "idle" =>
              /\ fm'[t].index = fm[t].index /\ fm[t].pc # "idle"
              /\ fm'[t].pc # "merge"
    PROVE  KInv'
<1>1. \A u \in Threads \ {t} : fm'[u] = fm[u]
  BY DEF IInv, TypeOK
<1>2. NoListingLost' /\ UNCHANGED active
  BY DEF KInv, NoListingLost, catalog
<1> QED BY <1>1, <1>2 DEF KInv

\* A force merge matches with active products and moves listings to them.
LEMMA ForceMergeKeepsKInv ==
    ASSUME IInv, MInv, KInv, NEW t \in Threads, ForceMerge(t)
    PROVE  KInv'
<1> USE CatalogAssumption
<1>0. /\ fm \in [Threads -> ThreadState] /\ fm[t] \in ThreadState
      /\ TwoProducts(t) /\ active \in [Products -> BOOLEAN]
      /\ prod \in [Listings -> Products \cup {NoProduct}]
  BY DEF IInv, TypeOK, MInv
<1>1. CASE FMStart(t)
  <2> DEFINE primaries == {p \in OnSite(SoR) : active[p]}
  <2>1. /\ fm'[t].pc = "site" /\ fm'[t].index = Index(primaries)
        /\ \A u \in Threads \ {t} : fm'[u] = fm[u]
        /\ UNCHANGED catalog
    BY <1>0, <1>1 DEF FMStart, IdleThread
  <2>2. OnSite(SoR) \subseteq Products
    BY OnSiteType DEF IInv
  <2>3. Index(primaries) \in [Keys -> primaries \cup {NoProduct}]
    BY <2>2, IndexType
  <2>4. \A k \in Keys : fm'[t].index[k] # NoProduct => active[fm'[t].index[k]]
    BY <2>1, <2>3
  <2>5. NoListingLost' /\ UNCHANGED active
    BY <2>1 DEF KInv, NoListingLost, catalog
  <2> QED BY <2>1, <2>4, <2>5 DEF KInv
<1>2. CASE FMSite(t) \/ FMNextSite(t)
  <2>1. /\ fm' = [fm EXCEPT ![t] = fm'[t]] /\ UNCHANGED catalog
        /\ fm'[t].index = fm[t].index /\ fm[t].pc # "idle" /\ fm'[t].pc # "merge"
    BY <1>0, <1>2 DEF FMSite, FMNextSite, ThreadState
  <2> QED BY <2>1, ThreadKeepsKInv
<1>3. ASSUME NEW sec \in Products, FMSkip(t, sec) \/ FMLinked(t, sec) PROVE KInv'
  <2>1. /\ fm' = [fm EXCEPT ![t] = fm'[t]] /\ UNCHANGED catalog
        /\ fm'[t].index = fm[t].index /\ fm[t].pc # "idle" /\ fm'[t].pc # "merge"
    <3>1. CASE FMSkip(t, sec)
      BY <1>0, <3>1 DEF FMSkip, ThreadState
    <3>2. CASE FMLinked(t, sec)
      BY <1>0, <3>2 DEF FMLinked, ThreadState
    <3> QED BY <1>3, <3>1, <3>2
  <2> QED BY <2>1, ThreadKeepsKInv
<1>4. ASSUME NEW sec \in Products, FMMatch(t, sec) PROVE KInv'
  <2>1. /\ fm'[t].target = Target(t, sec) /\ fm'[t].index = fm[t].index
        /\ fm[t].pc # "idle"
        /\ \A u \in Threads \ {t} : fm'[u] = fm[u]
        /\ UNCHANGED catalog
    BY <1>0, <1>4 DEF FMMatch, ThreadState
  <2>2. Target(t, sec) # NoProduct
    BY <1>4 DEF FMMatch, SeemsActive
  <2>3. active[Target(t, sec)]
    BY <2>1, <2>2 DEF Target, KInv
  <2>4. NoListingLost' /\ UNCHANGED active
    BY <2>1 DEF KInv, NoListingLost, catalog
  <2> QED BY <2>1, <2>3, <2>4 DEF KInv
<1>5. CASE FMMerge(t)
  <2>1. /\ fm[t].sec \in Products /\ fm[t].target \in Products
        /\ fm[t].sec # fm[t].target
        /\ prod' = [l \in Listings |->
                       IF prod[l] = fm[t].sec THEN fm[t].target ELSE prod[l]]
        /\ active' = [active EXCEPT ![fm[t].sec] = FALSE]
    BY <1>5, MergeMoves
  <2>2. fm[t].pc = "merge" /\ fm' = [fm EXCEPT ![t] = Expired(t)]
    BY <1>5 DEF FMMerge
  <2>3. active[fm[t].target] /\ active'[fm[t].target]
    BY <1>0, <2>1, <2>2 DEF KInv
  <2>4. NoListingLost'
    <3> SUFFICES ASSUME NEW l \in Listings, prod'[l] # NoProduct
                 PROVE  active'[prod'[l]]
        BY DEF NoListingLost
    <3>1. CASE prod[l] = fm[t].sec
      BY <2>1, <2>3, <3>1
    <3>2. CASE prod[l] # fm[t].sec
      <4>1. prod'[l] = prod[l] /\ prod[l] \in Products
        BY <1>0, <2>1, <3>2
      <4>2. active[prod[l]]
        BY <4>1 DEF KInv, NoListingLost
      <4> QED BY <1>0, <2>1, <3>2, <4>1, <4>2
    <3> QED BY <3>1, <3>2
  <2>5. \A u \in Threads \ {t} : fm'[u].pc = "idle"
    BY <1>0, <2>2, LockExcludes
  <2>6. Expired(t).pc = "pick" /\ Expired(t).index = fm[t].index
    BY <1>0 DEF Expired, ThreadState
  <2>7. fm'[t].pc = "pick" /\ fm'[t].index = fm[t].index
    BY <1>0, <2>2, <2>6
  <2>8. ASSUME NEW k \in Keys, fm[t].index[k] # NoProduct
        PROVE  active'[fm[t].index[k]]
    <3>1. fm[t].index[k] \in fm[t].primary /\ fm[t].index[k] \in Products
      BY <1>0, <2>8 DEF TwoProducts, ThreadState
    <3>2. fm[t].index[k] # fm[t].sec
      BY <1>0, <2>2, <3>1 DEF TwoProducts
    <3>3. active[fm[t].index[k]]
      BY <2>2, <2>8 DEF KInv
    <3> QED BY <1>0, <2>1, <3>1, <3>2, <3>3
  <2> QED BY <2>4, <2>5, <2>7, <2>8 DEF KInv
<1>6. CASE FMGiveUp(t)
  <2>1. fm' = [fm EXCEPT ![t] = Expired(t)] /\ fm[t].pc = "merge" /\ UNCHANGED catalog
    BY <1>6 DEF FMGiveUp
  <2>2. Expired(t).pc = "pick" /\ Expired(t).index = fm[t].index
    BY <1>0 DEF Expired, ThreadState
  <2>3. /\ fm' = [fm EXCEPT ![t] = fm'[t]]
        /\ fm'[t].pc = "pick" /\ fm'[t].index = fm[t].index
    BY <1>0, <2>1, <2>2
  <2> QED BY <2>1, <2>3, ThreadKeepsKInv
<1>7. CASE FMAbort(t) \/ FMEnd(t)
  <2>1. /\ fm' = [fm EXCEPT ![t] = fm'[t]] /\ UNCHANGED catalog /\ fm'[t].pc = "idle"
    BY <1>0, <1>7 DEF FMAbort, FMEnd, IdleThread
  <2> QED BY <2>1, ThreadKeepsKInv
<1> QED BY <1>1, <1>2, <1>3, <1>4, <1>5, <1>6, <1>7 DEF ForceMerge

\* force_merge.py:190 and :279: where nobody merges or deactivates products by
\* hand, no listing is ever left with a product that is not active, although a
\* merge moves the listings that its session loaded before, and scans and a
\* deduplication run write in between.
THEOREM ListingsKept ==
    ASSUME {"merge", "deactivate"} \cap Ops = {}
    PROVE  Spec => []NoListingLost
<1>1. Init => KInv
  BY DEF Init, KInv, NoListingLost, IdleThread
<1>2. IInv /\ MInv /\ KInv /\ [Next]_vars => KInv'
  <2> SUFFICES ASSUME IInv, MInv, KInv, [Next]_vars PROVE KInv'
      OBVIOUS
  <2>1. ASSUME NEW l \in Listings, NEW archived \in BOOLEAN, PersistNew(l, archived)
        PROVE  KInv'
    <3>1. /\ \A p \in Products : active[p] => active'[p]
          /\ \A m \in Listings : prod'[m] = prod[m] \/ active'[prod'[m]]
      BY <2>1 DEF PersistNew, IInv, TypeOK
    <3> QED BY <2>1, <3>1, OthersKeepKInv DEF PersistNew
  <2>2. ASSUME UNCHANGED <<prod, active, fm>> PROVE KInv'
    BY <2>2, OthersKeepKInv
  <2>3. CASE Scan
    BY <2>1, <2>2, <2>3 DEF Scan, PersistExisting, ArchiveUnseen
  <2>4. ASSUME NEW t \in Threads, ForceMerge(t) PROVE KInv'
    BY <2>4, ForceMergeKeepsKInv
  <2>5. CASE Dedup
    BY <2>2, <2>5
       DEF Dedup, DedupStart, DedupCheck, DedupInsert, DedupFail, DedupEnd, catalog
  <2>6. CASE User
    BY <2>2, <2>6 DEF User, ManualMerge, RejectDuplicate, DeleteCandidates,
                      DeactivateProducts, UpdateCanonical
  <2>7. CASE UNCHANGED vars
    BY <2>2, <2>7 DEF vars, catalog
  <2> QED BY <2>3, <2>4, <2>5, <2>6, <2>7 DEF Next
<1>3. "merge" \notin Ops
  OBVIOUS
<1>4. KInv => NoListingLost
  BY DEF KInv
<1> QED BY <1>1, <1>2, <1>3, <1>4, Invariance, MInvariance, PTL DEF Spec

-----------------------------------------------------------------------------
(* The catalogue implements the grouping of ListingGroups.                   *)

\* The listings shown together, product by product.
Shown == {SourcesOf(p) : p \in {q \in Products : SourcesOf(q) # {}}}

\* A new listing makes a group of its own.
LEMMA PersistNewScrapes ==
    ASSUME IInv, MInv, NEW l \in Listings, NEW archived \in BOOLEAN,
           PersistNew(l, archived)
    PROVE  l \notin UNION Shown /\ Shown' = Shown \cup {{l}}
<1>0. PICK n : n = nextId
  OBVIOUS
<1>1. /\ prod \in [Listings -> Products \cup {NoProduct}]
      /\ n \in Products /\ n \in Nat /\ NoProduct \notin Products
      /\ prod[l] = NoProduct /\ prod' = [prod EXCEPT ![l] = n]
  BY <1>0, CatalogAssumption DEF PersistNew, IInv, TypeOK, Products
<1>2. \A m \in Listings : prod[m] # n
  BY <1>0, <1>1 DEF MInv, ListedCreated
<1>3. SourcesOf(n) = {} /\ SourcesOf(n)' = {l}
  BY <1>1, <1>2 DEF SourcesOf
<1>4. \A p \in Products \ {n} : SourcesOf(p)' = SourcesOf(p)
  BY <1>1 DEF SourcesOf
<1>5. \A p \in Products : l \notin SourcesOf(p)
  BY <1>1 DEF SourcesOf
<1>6. Shown' = {SourcesOf(p)' : p \in {q \in Products : SourcesOf(q)' # {}}}
  BY DEF Shown
<1>7. ASSUME NEW g PROVE g \in Shown' <=> g \in Shown \cup {{l}}
  <2>1. g \in Shown' <=> \E p \in Products : SourcesOf(p)' # {} /\ g = SourcesOf(p)'
    BY <1>6
  <2>2. g \in Shown <=> \E p \in Products : SourcesOf(p) # {} /\ g = SourcesOf(p)
    BY DEF Shown
  <2> QED BY <1>1, <1>3, <1>4, <2>1, <2>2
<1> QED BY <1>5, <1>7 DEF Shown

\* A merge joins two groups, or gives one to another product.
LEMMA MergeJoins ==
    ASSUME IInv, MInv, NEW t \in Threads, FMMerge(t)
    PROVE  \/ UNCHANGED Shown
           \/ \E g, h \in Shown : g # h /\ Shown' = (Shown \ {g, h}) \cup {g \cup h}
<1>0. PICK s, d : s = fm[t].sec /\ d = fm[t].target
  OBVIOUS
<1>1. /\ prod \in [Listings -> Products \cup {NoProduct}]
      /\ NoProduct \notin Products
  BY CatalogAssumption DEF IInv, TypeOK, Products
<1>2. /\ s \in Products /\ d \in Products /\ s # d
      /\ prod' = [l \in Listings |-> IF prod[l] = s THEN d ELSE prod[l]]
  BY <1>0, MergeMoves
<1>3. /\ SourcesOf(s)' = {}
      /\ SourcesOf(d)' = SourcesOf(s) \cup SourcesOf(d)
      /\ \A p \in Products \ {s, d} : SourcesOf(p)' = SourcesOf(p)
  BY <1>2 DEF SourcesOf
<1>4. \A p, q \in Products : SourcesOf(p) \cap SourcesOf(q) # {} => p = q
  BY DEF SourcesOf
<1>5. \A g : g \in Shown' <=> \E p \in Products : SourcesOf(p)' # {} /\ g = SourcesOf(p)'
  BY DEF Shown
<1>6. \A g : g \in Shown <=> \E p \in Products : SourcesOf(p) # {} /\ g = SourcesOf(p)
  BY DEF Shown
<1>7. CASE SourcesOf(s) = {}
  <2>1. \A p \in Products : SourcesOf(p)' = SourcesOf(p)
    BY <1>3, <1>7
  <2> QED BY <2>1 DEF Shown
<1>8. CASE SourcesOf(s) # {} /\ SourcesOf(d) = {}
  <2>1. ASSUME NEW g PROVE g \in Shown' <=> g \in Shown
    <3>1. ASSUME g \in Shown' PROVE g \in Shown
      BY <1>2, <1>3, <1>5, <1>6, <1>8, <3>1
    <3>2. ASSUME g \in Shown PROVE g \in Shown'
      <4>1. PICK p \in Products : SourcesOf(p) # {} /\ g = SourcesOf(p)
        BY <1>6, <3>2
      <4>2. CASE p = s
        BY <1>2, <1>3, <1>5, <1>8, <4>1, <4>2
      <4>3. CASE p # s
        BY <1>2, <1>3, <1>5, <1>8, <4>1, <4>3
      <4> QED BY <4>2, <4>3
    <3> QED BY <3>1, <3>2
  <2> QED BY <2>1 DEF Shown
<1>9. CASE SourcesOf(s) # {} /\ SourcesOf(d) # {}
  <2>0. PICK g, h : g = SourcesOf(s) /\ h = SourcesOf(d)
    OBVIOUS
  <2>1. g \in Shown /\ h \in Shown /\ g # h
    BY <1>2, <1>4, <1>6, <1>9, <2>0
  <2>2. ASSUME NEW x PROVE x \in Shown' <=> x \in (Shown \ {g, h}) \cup {g \cup h}
    <3>1. ASSUME x \in Shown' PROVE x \in (Shown \ {g, h}) \cup {g \cup h}
      <4>1. PICK p \in Products : SourcesOf(p)' # {} /\ x = SourcesOf(p)'
        BY <1>5, <3>1
      <4>2. p # s
        BY <1>3, <4>1
      <4>3. CASE p = d
        BY <1>3, <2>0, <4>1, <4>3
      <4>4. CASE p # d
        <5>1. x = SourcesOf(p) /\ SourcesOf(p) # {}
          BY <1>3, <4>1, <4>2, <4>4
        <5>2. x # g /\ x # h
          BY <1>2, <1>4, <1>9, <2>0, <4>2, <4>4, <5>1
        <5> QED BY <1>6, <5>1, <5>2
      <4> QED BY <4>3, <4>4
    <3>2. ASSUME x \in (Shown \ {g, h}) \cup {g \cup h} PROVE x \in Shown'
      <4>1. CASE x = g \cup h
        BY <1>2, <1>3, <1>5, <1>9, <2>0, <4>1
      <4>2. CASE x \in Shown \ {g, h}
        <5>1. PICK p \in Products : SourcesOf(p) # {} /\ x = SourcesOf(p)
          BY <1>6, <4>2
        <5>2. p # s /\ p # d
          BY <2>0, <4>2, <5>1
        <5> QED BY <1>3, <1>5, <5>1, <5>2
      <4> QED BY <3>2, <4>1, <4>2
    <3> QED BY <3>1, <3>2
  <2>3. Shown' = (Shown \ {g, h}) \cup {g \cup h}
    BY <2>2 DEF Shown
  <2> QED BY <2>1, <2>3
<1> QED BY <1>7, <1>8, <1>9

\* force_merge.py:279: where nobody merges by hand, listings that were once
\* shown as one product stay together and none disappears, through scans, edits,
\* rejected and deleted candidates and deduplication runs.
THEOREM CatalogGroups ==
    ASSUME "merge" \notin Ops
    PROVE  Spec => GroupsOnlyGrow
<1>1. Init => Groups!Init
  BY CatalogAssumption DEF Init, Groups!Init, SourcesOf, Products
<1>2. IInv /\ MInv /\ [Next]_vars => [Groups!Next]_Shown
  <2> SUFFICES ASSUME IInv, MInv, [Next]_vars PROVE Groups!Next \/ UNCHANGED Shown
      OBVIOUS
  <2>1. ASSUME UNCHANGED prod PROVE UNCHANGED Shown
    BY <2>1 DEF Shown, SourcesOf
  <2>2. ASSUME NEW l \in Listings, NEW archived \in BOOLEAN, PersistNew(l, archived)
        PROVE  Groups!Next
    BY <2>2, PersistNewScrapes
       DEF Groups!Next, Groups!Scrape, Groups!Scraped, Shown
  <2>3. CASE Scan
    BY <2>1, <2>2, <2>3 DEF Scan, PersistExisting, ArchiveUnseen
  <2>4. ASSUME NEW t \in Threads, ForceMerge(t) PROVE Groups!Next \/ UNCHANGED Shown
    <3>1. TwoProducts(t)
      BY DEF MInv
    <3>2. CASE UNCHANGED prod
      BY <2>1, <3>2
    <3>3. CASE FMMerge(t)
      BY <3>3, MergeJoins DEF Groups!Next, Groups!Join, Shown
    <3> QED BY <2>4, <3>1, <3>2, <3>3, ForceMergeStep
  <2>5. CASE Dedup
    BY <2>1, <2>5
       DEF Dedup, DedupStart, DedupCheck, DedupInsert, DedupFail, DedupEnd, catalog
  <2>6. CASE User
    BY <2>1, <2>6 DEF User, ManualMerge, RejectDuplicate, DeleteCandidates,
                      DeactivateProducts, UpdateCanonical
  <2>7. CASE UNCHANGED vars
    BY <2>1, <2>7 DEF vars, catalog
  <2> QED BY <2>3, <2>4, <2>5, <2>6, <2>7 DEF Next
<1>3. [Groups!Next]_Shown <=>
        [Groups!Next]_({SourcesOf(p) : p \in {q \in Products : SourcesOf(q) # {}}})
  BY DEF Shown
<1> QED BY <1>1, <1>2, <1>3, Invariance, MInvariance, PTL
        DEF Spec, GroupsOnlyGrow, Groups!Spec
=============================================================================
