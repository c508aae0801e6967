------------------------------- MODULE Crawl -------------------------------
(***************************************************************************)
(* The crawl of a site that is no Shopify store (base_scraper.py and the   *)
(* slow path of SourceScraper.run_site): a browser fetches pages, one at a *)
(* time, first the sitemaps, then category pages to discover product       *)
(* pages, then every product page.  The scraper guesses from the way       *)
(* fetches fail whether its browser context has gone bad, and rebuilds it; *)
(* it retries, gives up a page, and pauses when it gives up too many.      *)
(***************************************************************************)
EXTENDS Naturals, Sequences, FiniteSets, SequencesExt, Selection

CONSTANTS
    Urls, Base,    \* normalised URLs, the site's own among them
    ProductUrls,   \* _is_product_url
    CategoryUrls,  \* _is_category_url, and not product URLs
    Links,         \* Links[u]: the URLs of the site's domain on the page u
    NextOf,        \* NextOf[u]: the page's "next" link, or NoUrl
    NoUrl,
    Sitemaps,      \* the URLs of the sitemaps, in the order they are tried
    SubSitemaps,   \* URLs that end in ".xml": an index lists them as sitemaps
    EnoughUrls,    \* 10: the crawl is left out when the sitemap has as many
    MaxPages,      \* max_pages
    MaxRetries,    \* max_retries
    FastFails,     \* fast_fail_threshold
    Breaker,       \* circuit_breaker_threshold
    MaxBreaks      \* bound: how often the context or the browser breaks

ASSUME CrawlAssumption ==
    /\ IsFiniteSet(Urls) /\ Base \in Urls /\ NoUrl \notin Urls
    /\ ProductUrls \cup CategoryUrls \subseteq Urls /\ ProductUrls \cap CategoryUrls = {}
    /\ Links \in [Urls -> Seq(Urls)] /\ NextOf \in [Urls -> Urls \cup {NoUrl}]
    /\ Sitemaps \in Seq(Urls) /\ SubSitemaps \subseteq Urls
    /\ {MaxPages, FastFails, Breaker} \subseteq Nat \ {0}
    /\ {EnoughUrls, MaxRetries, MaxBreaks} \subseteq Nat

VARIABLES
    scraper,   \* the browser and the scraper's counters
    crawl,     \* the phase, the sitemaps and the sub-sitemaps left, and the page
               \* being fetched, if it is a sub-sitemap, its number of retries
    toVisit, visited,
    found,     \* product_urls
    todo,      \* the product URLs that are still to be scraped
    tally,     \* stats
    breaks,    \* how often something has broken
    missed,    \* history: the pages that were given up
    lost       \* history: the pages given up since the browser died (up to 3)

crawlVars == <<scraper, crawl, toVisit, visited, found, todo, tally, breaks, missed, lost>>

CrawlInit ==
    /\ scraper = [up |-> TRUE, context |-> "good", rebuilds |-> 0, fast |-> 0,
                  proved |-> FALSE, failures |-> 0]
    /\ crawl = [at |-> "check", sitemaps |-> Sitemaps, subs |-> <<>>,
                page |-> NoUrl, sub |-> FALSE, retry |-> 0]
    /\ toVisit = <<Base>>
    /\ visited = {} /\ found = {} /\ todo = {} /\ missed = {}
    /\ tally = [scraped |-> 0, skipped |-> 0, errors |-> 0]
    /\ breaks = 0 /\ lost = 0

-----------------------------------------------------------------------------
(* The scraper's repairs *)

\* _reset_browser: a new browser, whatever was wrong.
ResetBrowser(b) ==
    [b EXCEPT !.up = TRUE, !.context = "good", !.rebuilds = 0, !.proved = FALSE]

\* _reset_context: a context that has loaded no page since it was made is taken
\* for blocked by the site, and kept.  A second rebuild without a page
\* between them would restart the browser.
ResetContext(b) ==
    LET c == [b EXCEPT !.fast = 0] IN
    IF ~b.proved THEN c
    ELSE IF b.rebuilds + 1 >= 2 THEN ResetBrowser(c)
    ELSE [c EXCEPT !.rebuilds = @ + 1, !.proved = FALSE,
                   !.context = IF b.up THEN "good" ELSE "closed"]

\* The rebuild itself raises when there is no browser to make a context in.
ResetRaises(b) == b.proved /\ b.rebuilds + 1 < 2 /\ ~b.up

\* _fetch_page after a failure: fast ones are counted, and every error that
\* names the context asks for a rebuild too.
CountFast(b, fast) ==
    IF ~fast THEN [b EXCEPT !.fast = 0]
    ELSE IF b.fast + 1 >= FastFails THEN ResetContext(b)
    ELSE [b EXCEPT !.fast = @ + 1]
Repaired(b, fast, named) ==
    IF named THEN ResetContext(CountFast(b, fast)) ELSE CountFast(b, fast)
RepairRaises(b, fast, named) ==
    \/ fast /\ b.fast + 1 >= FastFails /\ ResetRaises(b)
    \/ named /\ ResetRaises(CountFast(b, fast))

Proved(b) == [b EXCEPT !.failures = 0, !.rebuilds = 0, !.fast = 0, !.proved = TRUE]

\* The circuit breaker, at every attempt: a pause, and the count starts over.
Paused(b) == IF b.failures >= Breaker THEN [b EXCEPT !.failures = 0] ELSE b

-----------------------------------------------------------------------------
(* Fetching a page *)

Busy == crawl.page # NoUrl
Free == [crawl EXCEPT !.page = NoUrl, !.sub = FALSE, !.retry = 0]
Working(b) == b.up /\ b.context = "good"
Count(kind) == tally' = [tally EXCEPT ![kind] = @ + 1]

\* The page is loaded; what is done with it depends on the phase.
Load ==
    /\ Busy
    /\ Working(scraper)
    /\ scraper' = Proved(Paused(scraper))
    /\ UNCHANGED <<visited, todo, breaks, missed, lost>>

\* An attempt fails, quickly or not, with an error that names the context or
\* not; without a context it fails at once with "browser has been closed".
Fails(fast, named) ==
    /\ Busy
    /\ ~scraper.up \/ scraper.context = "closed" => fast /\ named

\* It is tried again, or given up: the caller goes on with the next page, and
\* a product without a title counts as skipped.
Retry(fast, named) ==
    /\ Fails(fast, named)
    /\ ~RepairRaises(Paused(scraper), fast, named)
    /\ crawl.retry < MaxRetries
    /\ scraper' = Repaired(Paused(scraper), fast, named)
    /\ crawl' = [crawl EXCEPT !.retry = @ + 1]
    /\ UNCHANGED <<toVisit, visited, found, todo, tally, breaks, missed, lost>>

Lose ==
    /\ missed' = missed \cup {crawl.page}
    /\ lost' = IF scraper.up THEN 0 ELSE IF lost < 3 THEN lost + 1 ELSE lost
    /\ UNCHANGED <<toVisit, visited, found, todo, breaks>>

\* Mutant of GiveUp: a product page that is not loaded is not counted.
GiveUpUncounted(fast, named) ==
    /\ Fails(fast, named)
    /\ ~RepairRaises(Paused(scraper), fast, named)
    /\ crawl.retry = MaxRetries
    /\ scraper' = [Repaired(Paused(scraper), fast, named) EXCEPT !.failures = @ + 1]
    /\ crawl' = Free
    /\ Lose
    /\ UNCHANGED tally

GiveUp(fast, named) ==
    /\ Fails(fast, named)
    /\ ~RepairRaises(Paused(scraper), fast, named)
    /\ crawl.retry = MaxRetries
    /\ scraper' = [Repaired(Paused(scraper), fast, named) EXCEPT !.failures = @ + 1]
    /\ crawl' = Free
    /\ Lose
    /\ IF crawl.at = "extract" THEN Count("skipped") ELSE UNCHANGED tally

\* The repair raises out of _fetch_page: an error of this page when products
\* are scraped, the end of the site's scan before that.
RepairFails(fast, named) ==
    /\ Fails(fast, named)
    /\ RepairRaises(Paused(scraper), fast, named)
    /\ scraper' = Repaired(Paused(scraper), fast, named)
    /\ crawl' = [Free EXCEPT !.at = IF @ = "extract" THEN @ ELSE "failed"]
    /\ Lose
    /\ IF crawl.at = "extract" THEN Count("errors") ELSE UNCHANGED tally

-----------------------------------------------------------------------------
(* discover_product_urls *)

\* _context_health_check: its repair never does anything to a new scraper.
HealthCheck ==
    /\ crawl.at = "check"
    /\ crawl' = [crawl EXCEPT !.at = "sitemap"]
    /\ scraper' = IF Working(scraper) THEN scraper ELSE ResetContext(scraper)
    /\ UNCHANGED <<toVisit, visited, found, todo, tally, breaks, missed, lost>>

\* _try_sitemap: the next sitemap of an index, or, as long as no product was
\* found, the next sitemap of the site.
OpenSitemap ==
    /\ crawl.at = "sitemap" /\ ~Busy
    /\ \/ /\ crawl.subs # <<>>
          /\ crawl' = [crawl EXCEPT !.page = Head(crawl.subs), !.subs = Tail(@), !.sub = TRUE]
       \/ /\ crawl.subs = <<>> /\ found = {} /\ crawl.sitemaps # <<>>
          /\ crawl' = [crawl EXCEPT !.page = Head(crawl.sitemaps), !.sitemaps = Tail(@)]
    /\ UNCHANGED <<scraper, toVisit, visited, found, todo, tally, breaks, missed, lost>>

\* Its products are found.  A sitemap that a sitemap of an index lists is
\* looked at as a product.
SitemapLoaded ==
    LET listed == Links[crawl.page]
        subs == IF crawl.sub THEN <<>> ELSE Only(listed, SubSitemaps)
    IN
    /\ crawl.at = "sitemap"
    /\ Load
    /\ found' = found \cup ((ToSet(listed) \cap ProductUrls) \ ToSet(subs))
    /\ crawl' = [Free EXCEPT !.subs = @ \o subs]
    /\ UNCHANGED <<toVisit, tally>>

\* The products that are found are listed, in no particular order.
Listing == [crawl EXCEPT !.at = "extract"]

LeaveSitemaps ==
    /\ crawl.at = "sitemap" /\ ~Busy
    /\ crawl.subs = <<>> /\ (found # {} \/ crawl.sitemaps = <<>>)
    /\ IF Cardinality(found) >= EnoughUrls
       THEN crawl' = Listing /\ todo' = found
       ELSE crawl' = [crawl EXCEPT !.at = "crawl"] /\ UNCHANGED todo
    /\ UNCHANGED <<scraper, toVisit, visited, found, tally, breaks, missed, lost>>

\* The pages to visit that have not been visited, the next one first.
Ahead == Only(toVisit, Urls \ visited)
Exhausted == Ahead = <<>> \/ Cardinality(visited) >= MaxPages

OpenPage ==
    /\ crawl.at = "crawl" /\ ~Busy
    /\ ~Exhausted
    /\ crawl' = [crawl EXCEPT !.page = Head(Ahead)]
    /\ visited' = visited \cup {Head(Ahead)}
    /\ toVisit' = Tail(Ahead)
    /\ UNCHANGED <<scraper, found, todo, tally, breaks, missed, lost>>

\* The products a page links to; one that has been visited as a page of a list
\* is passed over.
Shown(u) == (ToSet(Links[u]) \cap ProductUrls) \ visited

\* What a page adds to the pages to visit: its category pages at the end, the
\* next page of its list in front.
Extended(u) ==
    LET categories == Only(Links[u], CategoryUrls \ visited)
        next == IF NextOf[u] \in {NoUrl} \cup visited THEN <<>> ELSE <<NextOf[u]>>
    IN  next \o toVisit \o categories

\* Mutant of PageLoaded: the next page takes the place of the pages to visit.
PageLoadedNextOnly ==
    LET u == crawl.page IN
    /\ crawl.at = "crawl"
    /\ Load /\ crawl' = Free
    /\ found' = found \cup Shown(u)
    /\ toVisit' = IF NextOf[u] \in {NoUrl} \cup visited THEN Extended(u) ELSE <<NextOf[u]>> \o toVisit
    /\ UNCHANGED tally

PageLoaded ==
    /\ crawl.at = "crawl"
    /\ Load /\ crawl' = Free
    /\ found' = found \cup Shown(crawl.page)
    /\ toVisit' = Extended(crawl.page)
    /\ UNCHANGED tally

\* The page is loaded and its links cannot be read: nobody catches that.
PageUnreadable ==
    /\ crawl.at = "crawl" /\ Busy
    /\ Working(scraper)
    /\ scraper' = Proved(Paused(scraper))
    /\ crawl' = [Free EXCEPT !.at = "failed"]
    /\ UNCHANGED <<toVisit, visited, found, todo, tally, breaks, missed, lost>>

LeaveCrawl ==
    /\ crawl.at = "crawl" /\ ~Busy
    /\ Exhausted
    /\ crawl' = Listing
    /\ todo' = found
    /\ UNCHANGED <<scraper, toVisit, visited, found, tally, breaks, missed, lost>>

-----------------------------------------------------------------------------
(* run_site: the products *)

OpenProduct ==
    /\ crawl.at = "extract" /\ ~Busy
    /\ \E u \in todo : crawl' = [crawl EXCEPT !.page = u] /\ todo' = todo \ {u}
    /\ UNCHANGED <<scraper, toVisit, visited, found, tally, breaks, missed, lost>>

\* The product is saved, is none, or cannot be read or saved.
ProductLoaded(kind) ==
    /\ crawl.at = "extract"
    /\ Load /\ crawl' = Free
    /\ Count(kind)
    /\ UNCHANGED <<toVisit, found>>

\* Every product has been seen to, or the scan is cancelled before the next.
FinishSite ==
    /\ crawl.at = "extract" /\ ~Busy
    /\ crawl' = [crawl EXCEPT !.at = IF todo = {} THEN "done" ELSE "cancelled"]
    /\ UNCHANGED <<scraper, toVisit, visited, found, todo, tally, breaks, missed, lost>>

\* The network or the site spoils the context, or the browser process dies.
Breakage ==
    /\ crawl.at \notin {"done", "failed", "cancelled"}
    /\ breaks < MaxBreaks
    /\ breaks' = breaks + 1
    /\ \/ scraper.context = "good" /\ scraper' = [scraper EXCEPT !.context = "bad"]
       \/ scraper.up /\ scraper' = [scraper EXCEPT !.up = FALSE]
    /\ UNCHANGED <<crawl, toVisit, visited, found, todo, tally, missed, lost>>

CrawlNext ==
    \/ HealthCheck
    \/ OpenSitemap \/ SitemapLoaded \/ LeaveSitemaps
    \/ OpenPage \/ PageLoaded \/ PageUnreadable \/ LeaveCrawl
    \/ OpenProduct \/ FinishSite
    \/ \E kind \in {"scraped", "skipped", "errors"} : ProductLoaded(kind)
    \/ \E fast, named \in BOOLEAN :
          Retry(fast, named) \/ GiveUp(fast, named) \/ RepairFails(fast, named)
    \/ Breakage

CrawlSpec == CrawlInit /\ [][CrawlNext]_crawlVars

-----------------------------------------------------------------------------
(* Properties *)

CrawlTypeOK ==
    /\ scraper \in [up : BOOLEAN, context : {"good", "bad", "closed"}, rebuilds : 0..1,
                    fast : 0..(FastFails - 1), proved : BOOLEAN, failures : 0..Breaker]
    /\ crawl \in [at : {"check", "sitemap", "crawl", "extract", "done", "cancelled", "failed"},
                  sitemaps : Seq(Urls), subs : Seq(Urls),
                  page : Urls \cup {NoUrl}, sub : BOOLEAN, retry : 0..MaxRetries]
    /\ toVisit \in Seq(Urls)
    /\ visited \subseteq Urls /\ missed \subseteq Urls
    /\ found \subseteq ProductUrls /\ todo \subseteq found
    /\ tally \in [{"scraped", "skipped", "errors"} -> 0..Cardinality(ProductUrls)]
    /\ breaks \in 0..MaxBreaks /\ lost \in 0..3

\* base_scraper.py:768: a crawl that ends below the page limit has seen the
\* whole site: every page it loaded has had its category pages and its next
\* page visited and its products found (or visited as such a page), whatever
\* failed meanwhile.
WholeSiteSeen ==
    crawl.at \in {"extract", "done"} /\ visited # {} /\ Cardinality(visited) < MaxPages =>
        /\ Base \in visited
        /\ \A u \in visited \ missed :
              /\ ToSet(Links[u]) \cap CategoryUrls \subseteq visited
              /\ NextOf[u] \in visited \cup {NoUrl}
              /\ ToSet(Links[u]) \cap ProductUrls \subseteq found \cup visited

\* source_scraper.py:303-327: every product page that was found and opened is
\* counted once, through retries, repairs and pages that do not load.
EveryUrlCounted ==
    Cardinality(found) = Cardinality(todo) + tally.scraped + tally.skipped + tally.errors
                         + (IF Busy THEN 1 ELSE 0)
    \/ crawl.at \notin {"extract", "done", "cancelled"}

\* base_scraper.py:262 "Full Playwright + Chromium restart when the browser
\* process is unrecoverable", at :287 after two rebuilds: a browser that has
\* died does not cost three pages.
DeadBrowserRestarted == lost < 3
=============================================================================
