---------------------------- MODULE ProductViews ----------------------------
(***************************************************************************)
(* The pages that compare the catalogue across stores (routes.py): Store   *)
(* Compare with its summary, System of Record with its fuzzy pairs, and    *)
(* Domain Comparison.  Each computes its answer anew from the products     *)
(* and their listings, in its own way, and they are read next to each      *)
(* other.  The catalogue itself changes in any way scans and merges can    *)
(* change it; every page is looked at between two changes.                 *)
(*                                                                         *)
(* Of the texts that every page compares (title, manufacturer, model       *)
(* number, SKU) one is modelled, the others are compared like it; the      *)
(* category is a text of its own, which Store Compare alone compares.      *)
(* Listings are numbered in the order they were scraped.                   *)
(***************************************************************************)
EXTENDS Matchers, Selection, FiniteSets, SequencesExt

CONSTANTS
    Products,      \* product ids, in the order of the titles
    Offers,        \* listing ids, a later one scraped later
    StoreOf,       \* StoreOf[l]
    Columns,       \* the stores that settings.yaml enables
    Contents,      \* Contents[l]: what a scan may find: [text, category, price]
    Normal,        \* Normal[t]: the text t stripped and in lower case, None
                   \* if nothing is left of it
    Cents,         \* Cents[x]: the price x rounded to the cent
    Facts,         \* Facts[p]: what the scorer reads of a product, and its
                   \* significant title words
    Queries,       \* queries of Store Compare
    PerPage

CompareStores == Columns \cup {StoreOf[l] : l \in Offers}

ASSUME ViewsAssumption ==
    /\ Products \subseteq Nat /\ IsFiniteSet(Products)
    /\ Offers \subseteq Nat /\ IsFiniteSet(Offers)
    /\ IsFiniteSet(Columns) /\ None \notin CompareStores
    /\ \A l \in Offers : Contents[l] # {}
    /\ Normal[None] = None /\ Cents[None] = None /\ PerPage \in Nat \ {0}

VARIABLES
    onSale,    \* the active products
    offerOf,   \* offerOf[l]: the product of a listing
    offered,   \* the listings that are active
    says       \* says[l]: [text, category, price], each may be None

viewVars == <<onSale, offerOf, offered, says>>

ViewsInit ==
    /\ onSale = {}
    /\ \E p \in Products : offerOf = [l \in Offers |-> p]
    /\ offered = {}
    /\ says = [l \in Offers |-> CHOOSE c \in Contents[l] : TRUE]

\* Scans write, archive and restore listings, merges move them and retire
\* products, and their user may restore a product.
Rescan(l, c) ==
    /\ says' = [says EXCEPT ![l] = c]
    /\ offered' = offered \cup {l}
    /\ UNCHANGED <<onSale, offerOf>>
Unlist(l) == offered' = offered \ {l} /\ UNCHANGED <<onSale, offerOf, says>>
Move(l, p) == offerOf' = [offerOf EXCEPT ![l] = p] /\ UNCHANGED <<onSale, offered, says>>
Retire(p) == onSale' = onSale \ {p} /\ UNCHANGED <<offerOf, offered, says>>
Revive(p) == onSale' = onSale \cup {p} /\ UNCHANGED <<offerOf, offered, says>>

ViewsNext ==
    \/ \E l \in Offers :
          \/ \E c \in Contents[l] : Rescan(l, c)
          \/ Unlist(l)
          \/ \E p \in Products : Move(l, p)
    \/ \E p \in Products : Retire(p) \/ Revive(p)

ViewsSpec == ViewsInit /\ [][ViewsNext]_viewVars

-----------------------------------------------------------------------------
(* Listings *)

LiveAt(p, s) == {l \in offered : offerOf[l] = p /\ StoreOf[l] = s}
Carries(p, s) == LiveAt(p, s) # {}
Carriers(p) == {s \in CompareStores : Carries(p, s)}

\* The latest active listing of a product at a store.
LatestAt(p, s) == says[CHOOSE l \in LiveAt(p, s) : \A k \in LiveAt(p, s) : k <= l]

-----------------------------------------------------------------------------
(* Store Compare *)

\* A query: the pair of stores that is compared or {}, a store that must carry
\* the product or None, one that must not or None, and "differences only".
Compared(q) == IF q.pair = {} THEN Columns ELSE q.pair

Selected(q) ==
    {p \in onSale : /\ q.source # None => Carries(p, q.source)
                    /\ q.pair # {} => \E s \in q.pair : Carries(p, s)}

\* A price of 0 counts as none.
Priceless == {None, 0}

\* A text that differs between listings, in anything but case, or that some of
\* them lack.
TextDiffers(field, listings) ==
    LET values == {Normal[c[field]] : c \in listings}
    IN  Cardinality(values \ {None}) > 1 \/ (values \ {None} # {} /\ None \in values)

\* What differs between the stores of `columns' that carry p: texts, the
\* category among them, and prices that are known and differ.
StoreDiffs(p, columns) ==
    LET listings == {LatestAt(p, s) : s \in Carriers(p) \cap columns} IN
    {f \in {"text", "category"} : TextDiffers(f, listings)}
    \cup {f \in {"price"} : Cardinality({c.price : c \in listings} \ Priceless) > 1}

\* The light pass: which products the answer is about.
LightPass(q) ==
    {p \in Selected(q) : /\ q.missing # None => ~Carries(p, q.missing)
                         /\ q.diffs => StoreDiffs(p, Compared(q)) # {}}

Filtered(q) == q.diffs \/ q.missing # None

\* Products in their order: the i-th has i - 1 before it.
InOrder(S) ==
    [i \in 1..Cardinality(S) |->
        CHOOSE p \in S : Cardinality({other \in S : other < p}) = i - 1]

Matched(q) == IF Filtered(q) THEN LightPass(q) ELSE Selected(q)
Answer(q) == InOrder(Matched(q))
Total(q) == Len(Answer(q))
LastPage(q) == IF Total(q) = 0 THEN 1 ELSE (Total(q) + PerPage - 1) \div PerPage

OnPage(q, n) ==
    SubSeq(Answer(q), (n - 1) * PerPage + 1, IF n * PerPage < Total(q) THEN n * PerPage ELSE Total(q))

\* Mutant of PageOf: the full pass compares all stores.
PageOfAll(q, n) == Only(OnPage(q, n), {p \in Products : q.diffs => StoreDiffs(p, Columns) # {}})

\* One page; the full pass looks for differences once more.
PageOf(q, n) ==
    Only(OnPage(q, n), {p \in Products : q.diffs => StoreDiffs(p, Compared(q)) # {}})

\* The summary counts products that some store carries.
Catalogued == {p \in onSale : Carriers(p) # {}}
Present(s) == Cardinality({p \in onSale : Carries(p, s)})

\* Mutant of SummaryMissing: retired products are in the catalogue.
SummaryMissingRetired(s) == Cardinality({p \in Products : Carriers(p) # {}}) - Present(s)

SummaryMissing(s) == Cardinality(Catalogued) - Present(s)

-----------------------------------------------------------------------------
(* System of Record *)

\* _norm: prices are compared to the cent, and nothing said is a value.
Normed(f, value) == IF f = "price" THEN Cents[value] ELSE Normal[value]

\* What two stores that both carry p say differently; categories are not looked at.
SoRDiffs(p, s, t) ==
    {f \in {"text", "price"} : Normed(f, LatestAt(p, s)[f]) # Normed(f, LatestAt(p, t)[f])}
SaysElse(p, s, t) == SoRDiffs(p, s, t) # {}

SoRMissing(s, t)   == {p \in onSale : Carries(p, s) /\ ~Carries(p, t)}
SoRExtra(s, t)     == {p \in onSale : Carries(p, t) /\ ~Carries(p, s)}
SoRDiffering(s, t) == {p \in onSale : Carries(p, s) /\ Carries(p, t) /\ SaysElse(p, s, t)}
SoRMatching(s, t)  == {p \in onSale : Carries(p, s) /\ Carries(p, t) /\ ~SaysElse(p, s, t)}

\* system_of_record_fuzzy: candidates share words of the title, two of them
\* when there are three or more; the best one that reaches the threshold.
Candidates(p, s, t) ==
    {c \in SoRExtra(s, t) :
        LET common == Cardinality(Facts[p].words \cap Facts[c].words) IN
        common >= IF Cardinality(Facts[p].words) >= 3 THEN 2 ELSE 1}
Acceptable(p, s, t, threshold) ==
    {c \in Candidates(p, s, t) : Confidence(Facts[p], Facts[c]) >= threshold}
FuzzyPairs(s, t, threshold) ==
    {pair \in SoRMissing(s, t) \X SoRExtra(s, t) :
        /\ pair[2] \in Acceptable(pair[1], s, t, threshold)
        /\ \A d \in Acceptable(pair[1], s, t, threshold) :
              Confidence(Facts[pair[1]], Facts[d]) <= Confidence(Facts[pair[1]], Facts[pair[2]])}

-----------------------------------------------------------------------------
(* Domain Comparison *)

\* Products that two stores carry, whose texts or prices, as they are
\* written, are known and differ: a price of 0 is one, a category is not looked at.
DomainDiffs(p) ==
    {f \in {"text", "price"} : Cardinality({LatestAt(p, s)[f] : s \in Carriers(p)} \ {None}) > 1}
DomainComparison == {p \in onSale : Cardinality(Carriers(p)) >= 2 /\ DomainDiffs(p) # {}}

-----------------------------------------------------------------------------
(* Properties *)

ViewsTypeOK ==
    /\ onSale \subseteq Products /\ offered \subseteq Offers
    /\ offerOf \in [Offers -> Products]
    /\ \A l \in Offers : says[l] \in Contents[l]

\* What is missing and extra at the system of record is what Store Compare
\* lists as missing.
MissingAgrees(s, t) ==
    LET without(x) == [pair |-> {s, t}, source |-> None, missing |-> x, diffs |-> FALSE] IN
    /\ SoRMissing(s, t) = LightPass(without(t))
    /\ SoRExtra(s, t) = LightPass(without(s))

\* What Store Compare shows as different and what differs from the system of
\* record are the same products but for these: one that the two stores put in
\* different categories, or price differently by less than a cent, and that are
\* alike otherwise, only Store Compare shows; one that differs in nothing but that
\* one store has no price for it, or the price 0, only System of Record shows.
\* Where System of Record finds a field different that both stores fill in,
\* Domain Comparison shows it too.
DifferingAgrees(s, t) ==
    LET compared == LightPass([pair |-> {s, t}, source |-> None, missing |-> None, diffs |-> TRUE])
        both == {p \in onSale : Carries(p, s) /\ Carries(p, t)}
        recategorised(p) ==
            Normal[LatestAt(p, s).category] # Normal[LatestAt(p, t).category]
        priced(p) == {LatestAt(p, s).price, LatestAt(p, t).price} \cap Priceless = {}
        repriced(p) == LatestAt(p, s).price # LatestAt(p, t).price
    IN  /\ compared \ SoRDiffering(s, t) =
              {p \in both : ~SaysElse(p, s, t) /\ (recategorised(p) \/ (priced(p) /\ repriced(p)))}
        /\ SoRDiffering(s, t) \ compared =
              {p \in both : SoRDiffs(p, s, t) = {"price"} /\ ~priced(p) /\ ~recategorised(p)}
        /\ \A p \in both : \A f \in SoRDiffs(p, s, t) :
              None \notin {LatestAt(p, s)[f], LatestAt(p, t)[f]} =>
                 p \in DomainComparison /\ f \in DomainDiffs(p)

\* The list behind a number of the summary has as many products as the summary
\* counts, and those that no store carries any more, which it leaves out.
SummaryDrillsDown(s) ==
    Total([pair |-> {}, source |-> None, missing |-> s, diffs |-> FALSE])
        = SummaryMissing(s) + Cardinality(onSale \ Catalogued)

\* At the page's threshold no two products are proposed as one that have
\* different makers, models or SKUs, nor one that both stores carry.
ProposedAreAlike(s, t) ==
    \A p, c \in Products : <<p, c>> \in FuzzyPairs(s, t, 60) =>
        /\ p # c
        /\ \A f \in {"model", "sku"} :
              Facts[p][f] = Facts[c][f] \/ None \in {Facts[p][f], Facts[c][f]}
        /\ {p, c} \cap {z \in Products : {s, t} \subseteq Carriers(z)} = {}

\* routes.py:470,579,1719,1942,1991: the pages, written apart, say the same of
\* any two stores: what is missing, what differs but for category and the price
\* that one page takes for a price and the other does not, what may be the same
\* after all, and how many there are.
PagesAgree ==
    /\ \A s, t \in CompareStores : s # t =>
          MissingAgrees(s, t) /\ DifferingAgrees(s, t) /\ ProposedAreAlike(s, t)
    /\ \A s \in Columns : SummaryDrillsDown(s)

\* routes.py:423,540: going through the pages shows every product of the
\* answer once, and as many as the total says, although the page is filtered
\* again after it has been cut.
PagesCoverOnce ==
    \A q \in Queries :
        FlattenSeq([n \in 1..LastPage(q) |-> PageOf(q, n)]) = Answer(q)

=============================================================================
