--------------------------- MODULE ListingGroups ---------------------------
(***************************************************************************)
(* What the catalogue promises about store listings, with products left    *)
(* out.  A listing is scraped at some time; from then on it belongs to     *)
(* exactly one group, the listings that the catalogue shows as one shared  *)
(* product.  Merging joins groups.  A group is never split, and no listing *)
(* ever leaves the catalogue.                                              *)
(***************************************************************************)
CONSTANT Listings

VARIABLE groups          \* a partition of the listings scraped so far

Scraped == UNION groups

Init == groups = {}

\* A store listing seen for the first time becomes a group of its own.
Scrape(l) ==
    /\ l \notin Scraped
    /\ groups' = groups \cup {{l}}

\* Two groups turn out to be the same product.
Join(g, h) ==
    /\ g # h
    /\ groups' = (groups \ {g, h}) \cup {g \cup h}

Next ==
    \/ \E l \in Listings : Scrape(l)
    \/ \E g, h \in groups : Join(g, h)

Spec == Init /\ [][Next]_groups
=============================================================================
