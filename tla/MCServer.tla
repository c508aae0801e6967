------------------------------ MODULE MCServer ------------------------------
(* Small instances of the parts of Server.                                   *)
EXTENDS Server

CONSTANTS
    r1, r2,                  \* requests
    a1, a2,                  \* Shopify shops, and sites
    b1, b2,                  \* broadcasts
    home, c1, c2, c3, p1, p2, p3, map1, map2, map3,     \* URLs
    A, B, C,                 \* stores that are compared
    l1, l2, m1,              \* listings, m1 not of the system of record
    x, y                     \* webhooks

\* Credentials: a secret, and a static token of another shop.  A wrong secret
\* comes up while they are set.
TheEntered == {[shop |-> a1, how |-> "secret", good |-> TRUE],
               [shop |-> a2, how |-> "static", good |-> TRUE]}

\* settings.yaml lists a destination; another site is added and removed.
Listing1 == [domain |-> a1, dest |-> TRUE, set |-> FALSE]
TheYaml == <<Listing1>>
TheWants == {[op |-> "add", domain |-> a2, on |-> TRUE],
             [op |-> "remove", domain |-> a2, on |-> FALSE],
             [op |-> "credentials", domain |-> a1, on |-> TRUE],
             [op |-> "destination", domain |-> a2, on |-> TRUE]}

\* Names and schedules of jobs.
TheAsked == {[name |-> "a", kind |-> "repeating"], [name |-> "b", kind |-> "once"],
             [name |-> "b", kind |-> "unreadable"]}

\* A site: an index of two sitemaps, of which the second is also tried alone;
\* a home page that is continued on a product's page, that one on a category's,
\* with one page more than are visited.
TheLinks == [u \in Urls |->
    CASE u = home -> <<c1, p1>>
      [] u = c1 -> <<p1, p2, home>>
      [] u = p2 -> <<p3, home>>
      [] u = c2 -> <<p3, c3>>
      [] u = map1 -> <<map2, map3>>
      [] u = map2 -> <<p3, p3>>
      [] u = map3 -> <<p1, p3>>
      [] OTHER -> <<>>]
TheNext == [u \in Urls |-> CASE u = home -> p2 [] u = p2 -> c2 [] OTHER -> NoUrl]
TheMaps == <<map1, map2>>

\* Two stores in settings.yaml, one that listings are left of.  Texts that
\* differ in their case only, texts that differ, a blank one and none; prices
\* (in tenths of a cent) that differ by less than a cent, by more, 0 and none.
TheStores == <<A, B, A, C>>
TheNormal == [t \in {"x", "X", "y", " ", None} |->
                CASE t = "X" -> "x" [] t = " " -> None [] OTHER -> t]
TheCents == [z \in {0, 1000, 1001, 2000, None} |-> IF z = 1001 THEN 1000 ELSE z]
Row(t, c, p) == [text |-> t, category |-> c, price |-> p]
TheContents == <<{Row("x", "x", 1000), Row(None, "x", 0)}, {Row("X", "x", 1001), Row("y", "y", None)},
                 {Row("y", "y", 2000), Row(" ", "x", None)}, {Row("X", None, 0), Row("X", "y", 1000)}>>
Fact(sku, words) == [maker |-> "maker", model |-> "m", sku |-> sku, price |-> 100,
                     title |-> "title", words |-> words]
TheFacts == <<Fact("s1", {"a", "b", "c"}), Fact("s2", {"a", "b"})>>
TheAlike == [xy \in {"maker", "title"} \X {"maker", "title"} |->
               IF xy[1] = xy[2] THEN 100 ELSE 0]
Query(pair, source, missing, diffs) ==
    [pair |-> pair, source |-> source, missing |-> missing, diffs |-> diffs]
TheQueries == {Query({}, None, None, FALSE), Query({}, A, None, TRUE),
               Query({A, C}, None, None, TRUE), Query({A, B}, None, B, FALSE),
               Query({B}, None, A, TRUE)}

\* Prices: only the system of record changes what it shows, with two listings
\* or with one beside another store's; or anything happens to these two.
ThePriceSettings == {
    [listings |-> {l1, l2}, prices |-> {100, 101, 150}, ops |-> {}],
    [listings |-> {l1, m1}, prices |-> {100, 101, 150}, ops |-> {}],
    [listings |-> {l1, m1}, prices |-> {100, 150},
     ops |-> {"edit", "archive", "secondary", "race"}]}

\* Webhooks: Shopify refuses calls; answers get lost and the server ends as well,
\* for requests that come one by one and for such as overlap.
TheSurroundings == {{"refuse"}, {"refuse", "lostreply", "crash"},
                    {"lostreply", "crash", "overlap"}}
=============================================================================
