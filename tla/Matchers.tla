------------------------------ MODULE Matchers ------------------------------
(***************************************************************************)
(* How alike two products are (dedup/matchers.py).  A product is a record  *)
(* of what the scorer reads, with texts already normalised and None for    *)
(* what is missing; the fuzzy comparison of texts is rapidfuzz's, and a    *)
(* parameter.  Scores are whole per cents.                                 *)
(***************************************************************************)
EXTENDS Integers

CONSTANTS
    None,
    Alike    \* Alike[<<x, y>>]: the fuzzy ratio of two texts, 0..100

ASSUME MatchersAssumption ==
    \A xy \in DOMAIN Alike : Alike[xy] \in 0..100 /\ Alike[<<xy[2], xy[1]>>] = Alike[xy]

Both(x, y) == x # None /\ y # None

\* price_match: full within 2 %, falling to nothing at 6 % of the higher price.
PriceMatch(x, y) ==
    IF ~Both(x, y) \/ x <= 0 \/ y <= 0 THEN 0
    ELSE LET top == IF x > y THEN x ELSE y
             gap == IF x > y THEN x - y ELSE y - x
         IN  IF 100 * gap <= 2 * top THEN 100
             ELSE IF 100 * gap <= 6 * top /\ 100 * top > 20 * (100 * gap - 2 * top)
                  THEN 100 - (20 * (100 * gap - 2 * top)) \div top
                  ELSE 0

SameMatch(x, y) == IF Both(x, y) /\ x = y THEN 100 ELSE 0       \* models, SKUs
TextMatch(x, y) == IF Both(x, y) THEN Alike[<<x, y>>] ELSE 0    \* makers, titles

\* Mutant of Disqualified: a SKU decides only where there is no model.
DisqualifiedModelFirst(a, b) ==
    \/ Both(a.maker, b.maker) /\ Alike[<<a.maker, b.maker>>] < 80
    \/ Both(a.model, b.model) /\ a.model # b.model
    \/ ~Both(a.model, b.model) /\ Both(a.sku, b.sku) /\ a.sku # b.sku

\* The makers, the models or the SKUs are both known and differ.
Disqualified(a, b) ==
    \/ Both(a.maker, b.maker) /\ Alike[<<a.maker, b.maker>>] < 80
    \/ Both(a.model, b.model) /\ a.model # b.model
    \/ Both(a.sku, b.sku) /\ a.sku # b.sku

\* compute_confidence, without descriptions: the weights add up to 120.
Confidence(a, b) ==
    LET price == PriceMatch(a.price, b.price)
        model == SameMatch(a.model, b.model)
        sum   == 40 * price + 35 * model + 15 * TextMatch(a.maker, b.maker)
                   + 20 * TextMatch(a.title, b.title)
        score == IF sum \div 120 > 100 THEN 100 ELSE sum \div 120
    IN  IF Disqualified(a, b) THEN 5
        ELSE IF model = 100 /\ price >= 95 /\ score < 85 THEN 85
        ELSE score
=============================================================================
