--------------------------- MODULE MCSourceScan ----------------------------
(* Small instances of SourceScan: the store's catalogue fills two pages.     *)
EXTENDS SourceScan

CONSTANTS x, y, z

ThreeListings == <<x, y, z>>

Surroundings == {
    {"429", "cancel", "restart"},
    {"429", "http", "invalid", "admin", "cancel", "shift"},
    {"cancel", "midway", "crawl", "admin", "restart"},
    {"overlap", "restart"}}
Unreliable == {{"http"}}
=============================================================================
