----------------------------- MODULE MCCatalog -----------------------------
(* Small instances of Catalog: de is the system of record, alpha and beta    *)
(* are other stores.  Every listing carries the same key.                    *)
EXTENDS Catalog, TLC

CONSTANTS s1, s2, a1, a2, b1, sku, de, alpha, beta, t1, t2

Sites == [l \in Listings |-> CASE l \in {s1, s2} -> de
                               [] l \in {a1, a2} -> alpha
                               [] l = b1 -> beta]
SameKey == [l \in Listings |-> sku]

OneStore == <<alpha>>
TwoStores == <<alpha, beta>>

\* Two listings of one store, with one key, may change places.
AlphaListings == Permutations({a1, a2})
=============================================================================
