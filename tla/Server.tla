------------------------------- MODULE Server -------------------------------
(***************************************************************************)
(* The parts of the server (app.py starts them in one process) that share  *)
(* no state with each other: the scheduler, the token cache, the settings, *)
(* the WebSocket manager, the crawl of one site, the pages that compare    *)
(* stores, canonical prices, and the webhooks of a store.                  *)
(*                                                                         *)
(* A step of the server is a step of one of its parts, and no part reads   *)
(* what another one writes.  So a property of one part holds in every      *)
(* shuffle of their steps if it holds while the other parts stand still;   *)
(* `focus', chosen at the beginning, is the part that moves.               *)
(***************************************************************************)
EXTENDS Scheduler, TokenCache, Settings, Broadcast, Crawl, ProductViews,
        CanonicalPrice, Webhooks

CONSTANT Parts    \* the parts that are looked at

AllParts == {"scheduler", "tokens", "settings", "broadcast", "crawl", "views",
             "prices", "webhooks"}
ASSUME ServerAssumption == Parts \subseteq AllParts

VARIABLE focus

serverVars == <<focus, schedVars, tokenVars, settingVars, bcVars, crawlVars, viewVars,
                priceVars, hookVars>>

\* A part that stands still starts in one of its initial states.
Still(part, choice) == focus # part => choice

ServerInit ==
    /\ focus \in Parts
    /\ SchedInit /\ TokenInit /\ SettingsInit /\ BcInit /\ CrawlInit
    /\ ViewsInit /\ Still("views", offerOf = [l \in Offers |-> CHOOSE p \in Products : TRUE])
    /\ PriceInit /\ Still("prices", setting = CHOOSE x \in PriceSettings : TRUE)
    /\ HooksInit /\ Still("webhooks", wanted = {} /\ around = CHOOSE x \in Surroundings : TRUE)

Rest(part, stutter) == focus # part => stutter

ServerNext ==
    /\ UNCHANGED focus
    /\ \/ focus = "scheduler" /\ SchedNext
       \/ focus = "tokens" /\ TokenNext
       \/ focus = "settings" /\ SettingsNext
       \/ focus = "broadcast" /\ BcNext
       \/ focus = "crawl" /\ CrawlNext
       \/ focus = "views" /\ ViewsNext
       \/ focus = "prices" /\ PriceNext
       \/ focus = "webhooks" /\ HooksNext
    /\ Rest("scheduler", UNCHANGED schedVars)
    /\ Rest("tokens", UNCHANGED tokenVars)
    /\ Rest("settings", UNCHANGED settingVars)
    /\ Rest("broadcast", UNCHANGED bcVars)
    /\ Rest("crawl", UNCHANGED crawlVars)
    /\ Rest("views", UNCHANGED viewVars)
    /\ Rest("prices", UNCHANGED priceVars)
    /\ Rest("webhooks", UNCHANGED hookVars)

ServerSpec == ServerInit /\ [][ServerNext]_serverVars

\* The event loop fires what is due; no request is obliged to come.
ServerFairSpec == ServerSpec /\ \A j \in Jobs :
    WF_serverVars(ServerNext /\ Fire(j)) /\ WF_serverVars(ServerNext /\ FireManual(j))

-----------------------------------------------------------------------------
(* Properties *)

\* Every part holds what its variables are meant to hold.
ServerTypeOK ==
    /\ focus \in Parts
    /\ SchedTypeOK /\ TokenTypeOK /\ SettingsTypeOK /\ BcTypeOK
    /\ CrawlTypeOK /\ ViewsTypeOK /\ PriceTypeOK /\ HooksTypeOK
=============================================================================
