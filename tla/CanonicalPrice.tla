--------------------------- MODULE CanonicalPrice ---------------------------
(***************************************************************************)
(* The canonical price of a product: taken over from the listing a product *)
(* is created for (source_scraper.py), adjusted when a store changes a     *)
(* price (source_scraper.py), recomputed when products merge (engine.py),  *)
(* overwritten by the user (routes.py).                                    *)
(*                                                                         *)
(* A product is named by the listing it was created for.  Prices are whole *)
(* numbers, 0 stands for none.  price_min and price_max, which only a      *)
(* merge recomputes, are left out, and so are candidates: any two products *)
(* may be merged (Catalog has the rules). Scans run on the event loop, one *)
(* piece of code at a time; merges and the user's edits run in threads and *)
(* may fall between the read and the write of a listing that is saved.     *)
(*                                                                         *)
(* `setting', chosen at the beginning, says which listings the stores can  *)
(* show and what happens to them: "edit" the user sets prices, "archive"   *)
(* listings are archived and come back, "secondary" listings of other stores  *)
(* change, "race" merges fall between the read and the write of a listing. *)
(***************************************************************************)
EXTENDS Integers, FiniteSets

CONSTANTS
    Listings,
    SoRListings,     \* those of the system of record (SOR_SITE)
    Prices,          \* positive prices the stores ask or the user types in
    NoProduct,
    MaxMerges,       \* bound: merges
    PriceSettings    \* the settings considered

ASSUME CanonicalPriceAssumption ==
    /\ SoRListings \subseteq Listings
    /\ Prices \subseteq Nat \ {0}
    /\ NoProduct \notin Listings
    /\ MaxMerges \in Nat
    /\ IsFiniteSet(Listings)

ASSUME PriceSettingsAssumption == \A x \in PriceSettings :
    x.listings \subseteq Listings /\ x.prices \subseteq Prices

VARIABLES
    prod,      \* prod[l]: ProductSource.product_id
    price,     \* price[l]: ProductSource.source_price
    live,      \* live[l]: ProductSource.is_active
    age,       \* age[l]: the order of their scraped_at: how many listings
               \* were scraped after l, and Oldest for those that never were
    active,    \* active[p]: Product.is_active
    canon,     \* canon[p]: Product.price_canonical
    merges,    \* merges so far
    saving,    \* the listing being saved, with the product and the canonical
               \* price that its session has read
    known,     \* history: prices listing l has had, or the user has given
               \* the product named l
    setting    \* [listings, prices, ops]: what the stores show, what they and
               \* the user may ask, what is exercised

priceVars == <<prod, price, live, age, active, canon, merges, saving, known, setting>>

Oldest == Cardinality(Listings)
NotSaving == [listing |-> NoProduct, product |-> NoProduct, canon |-> 0]

PriceInit ==
    /\ prod = [l \in Listings |-> NoProduct]
    /\ price = [l \in Listings |-> 0]
    /\ live = [l \in Listings |-> FALSE]
    /\ age = [l \in Listings |-> Oldest]
    /\ active = [p \in Listings |-> FALSE]
    /\ canon = [p \in Listings |-> 0]
    /\ merges = 0
    /\ saving = NotSaving
    /\ known = [l \in Listings |-> {}]
    /\ setting \in PriceSettings

Scraped == {l \in Listings : prod[l] # NoProduct}
SourcesOf(p) == {l \in Listings : prod[l] = p}

\* The listing of ls scraped last.
Latest(ls) == CHOOSE l \in ls : \A m \in ls : age[l] <= age[m]

\* Mutant of Touched: the other listings keep their places.
TouchedAlone(l) == [age EXCEPT ![l] = 0]

\* scraped_at = now
Touched(l) ==
    [m \in Listings |-> IF m = l THEN 0 ELSE IF age[m] < age[l] THEN age[m] + 1 ELSE age[m]]

\* The store may show a listing as archived: source_status "archived".
MayArchive(archived) == archived => "archive" \in setting.ops

\* A new listing and its product.
PersistNew(l, x, archived) ==
    /\ saving = NotSaving
    /\ MayArchive(archived)
    /\ l \in setting.listings
    /\ prod[l] = NoProduct
    /\ prod' = [prod EXCEPT ![l] = l]
    /\ price' = [price EXCEPT ![l] = x]
    /\ live' = [live EXCEPT ![l] = ~archived]
    /\ age' = Touched(l)
    /\ active' = [active EXCEPT ![l] = TRUE]
    /\ canon' = [canon EXCEPT ![l] = x]
    /\ known' = [known EXCEPT ![l] = {x}]
    /\ UNCHANGED <<merges, saving, setting>>

\* "rescanned": the listing is shown again with the same content hash.
PersistSame(l, archived) ==
    /\ saving = NotSaving
    /\ "archive" \in setting.ops
    /\ l \in Scraped
    /\ live' = [live EXCEPT ![l] = ~archived]
    /\ UNCHANGED <<prod, price, age, active, canon, merges, saving, known, setting>>

\* More than one per cent off, or nothing to compare with.
Differs(x, c) == c = 0 \/ 100 * (x - c) > c \/ 100 * (c - x) > c

\* The content has changed, the price perhaps with it.  The listing and its
\* product are read ...
ReadChanged(l) ==
    /\ saving = NotSaving
    /\ l \in Scraped
    /\ l \in SoRListings \/ "secondary" \in setting.ops
    /\ saving' = [listing |-> l, product |-> prod[l], canon |-> canon[prod[l]]]
    /\ UNCHANGED <<prod, price, live, age, active, canon, merges, known, setting>>

\* ... and written: the product follows, whichever store the listing is of.
PersistChanged(x, archived) ==
    LET l == saving.listing IN
    /\ saving # NotSaving
    /\ MayArchive(archived)
    /\ saving' = NotSaving
    /\ price' = [price EXCEPT ![l] = x]
    /\ live' = [live EXCEPT ![l] = ~archived]
    /\ age' = Touched(l)
    /\ canon' = [canon EXCEPT ![saving.product] =
                   IF x # 0 /\ Differs(x, saving.canon) THEN x ELSE @]
    /\ known' = [known EXCEPT ![l] = @ \cup {x}]
    /\ UNCHANGED <<prod, active, merges, setting>>

Archive(l) ==
    /\ saving = NotSaving
    /\ "archive" \in setting.ops
    /\ live[l]
    /\ live' = [live EXCEPT ![l] = FALSE]
    /\ UNCHANGED <<prod, price, age, active, canon, merges, saving, known, setting>>

\* Mutant of Recomputed: the latest price of any store.
RecomputedLatest(p, ls) ==
    LET srcs == {l \in ls : live[l] /\ price[l] > 0} IN
    IF srcs = {} THEN canon[p] ELSE price[Latest(srcs)]

\* Mutant of Recomputed: the mean of the highest and the lowest price.
RecomputedMean(p, ls) ==
    LET asked == {price[l] : l \in {m \in ls : live[m] /\ price[m] > 0}} IN
    IF asked = {} THEN canon[p]
    ELSE ((CHOOSE x \in asked : \A y \in asked : x <= y)
            + (CHOOSE x \in asked : \A y \in asked : y <= x)) \div 2

\* recompute_product_prices for a product with the listings ls; the price
\* stays as it is when none of them has one.
Recomputed(p, ls) ==
    LET srcs == {l \in ls : live[l] /\ price[l] > 0}
        sor == srcs \cap SoRListings
    IN
    IF srcs = {} THEN canon[p]
    ELSE price[Latest(IF sor # {} THEN sor ELSE srcs)]

\* _merge_products
Merge(p, q) ==
    /\ merges < MaxMerges
    /\ saving = NotSaving \/ "race" \in setting.ops
    /\ p # q
    /\ {p, q} \subseteq Scraped
    /\ prod' = [l \in Listings |-> IF prod[l] = q THEN p ELSE prod[l]]
    /\ canon' = [canon EXCEPT ![p] = Recomputed(p, SourcesOf(p) \cup SourcesOf(q))]
    /\ active' = [active EXCEPT ![q] = FALSE]
    /\ merges' = merges + 1
    /\ UNCHANGED <<price, live, age, saving, known, setting>>

\* update_canonical with a price.
UpdateCanonical(p, x) ==
    /\ "edit" \in setting.ops
    /\ active[p]
    /\ canon' = [canon EXCEPT ![p] = x]
    /\ known' = [known EXCEPT ![p] = @ \cup {x}]
    /\ UNCHANGED <<prod, price, live, age, active, merges, saving, setting>>

PriceNext ==
    \/ \E l \in Listings, x \in setting.prices \cup {0}, archived \in BOOLEAN :
          PersistNew(l, x, archived)
    \/ \E l \in Listings : ReadChanged(l)
    \/ \E x \in setting.prices \cup {0}, archived \in BOOLEAN : PersistChanged(x, archived)
    \/ \E l \in Listings, archived \in BOOLEAN : PersistSame(l, archived)
    \/ \E l \in Listings : Archive(l)
    \/ \E p, q \in Listings : Merge(p, q)
    \/ \E p \in Listings, x \in setting.prices : UpdateCanonical(p, x)

PriceSpec == PriceInit /\ [][PriceNext]_priceVars

-----------------------------------------------------------------------------
(* Properties *)

\* The columns hold what they are meant to; scraped_at orders the listings.
PriceTypeOK ==
    /\ prod \in [Listings -> Listings \cup {NoProduct}]
    /\ price \in [Listings -> Prices \cup {0}]
    /\ live \in [Listings -> BOOLEAN]
    /\ age \in [Listings -> 0..Oldest]
    /\ \A l \in Listings : IF l \in Scraped THEN age[l] < Cardinality(Scraped)
                                            ELSE age[l] = Oldest
    /\ \A l, m \in Scraped : age[l] = age[m] => l = m
    /\ active \in [Listings -> BOOLEAN]
    /\ canon \in [Listings -> Prices \cup {0}]
    /\ merges \in 0..MaxMerges
    /\ saving \in [listing : Listings, product : Listings, canon : Prices \cup {0}]
                     \cup {NotSaving}
    /\ setting \in PriceSettings

\* engine.py:38: a canonical price is a real price, one that a listing of the
\* product has had at some time or that the user has given it, however the
\* product was merged together.
CanonicalIsReal ==
    \A p \in Listings : active[p] /\ canon[p] # 0 =>
        canon[p] \in UNION {known[l] : l \in SourcesOf(p)}

\* As long as only the system of record changes its listings, and no merge
\* falls into the saving of one, a product's canonical price is within one per
\* cent of what the listing scraped last there shows, across merges and price
\* changes.
SoRDriftBounded ==
    \A p \in Listings :
        LET sor == SourcesOf(p) \cap SoRListings IN
        setting.ops = {} /\ active[p] /\ sor # {} /\ price[Latest(sor)] > 0
            => ~Differs(price[Latest(sor)], canon[p])

=============================================================================
