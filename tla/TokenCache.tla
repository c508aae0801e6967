----------------------------- MODULE TokenCache -----------------------------
(***************************************************************************)
(* Admin API tokens (routes.py, _get_site_credentials and the cache it     *)
(* keeps; shopify/client.py, fetch_access_token and its retries).  A       *)
(* request reads a site's credentials, takes the static token or a cached  *)
(* one, or exchanges the client id and secret for a new one.  The exchange *)
(* is awaited: other requests, and edits of the credentials, happen        *)
(* meanwhile.                                                              *)
(*                                                                         *)
(* Credentials are a shop, how one gets in ("static", "secret", "none" for *)
(* incomplete ones), and whether that shop accepts them.  They are saved   *)
(* field by field in a thread: what is read meanwhile is a mixture.  Time  *)
(* is counted in steps of the longest an answer of Shopify takes to be     *)
(* read.  Saving the credentials of one site twice at a time is left out.  *)
(***************************************************************************)
EXTENDS Naturals

CONSTANTS
    Sites,           \* source sites
    Shops,           \* Shopify shops a store URL can name
    Entered,         \* the credentials that are entered
    TokenReqs,       \* requests that need credentials
    Life,            \* 86399 s: how long a token lives
    Margin,          \* 300 s: tokens with less to live are exchanged anew
    Retries,         \* _CONNECT_RETRIES
    MaxTime          \* bound: the clock's last value

ASSUME TokenCacheAssumption ==
    /\ Margin \in Nat \ {0} /\ Life \in Nat /\ Life > Margin
    /\ Retries \in Nat \ {0} /\ MaxTime \in Nat
    /\ Shops # {}

Credentials == [shop : Shops, how : {"static", "secret", "none"}, good : BOOLEAN]
ASSUME EnteredAssumption == Entered \subseteq Credentials
Unset == [shop |-> CHOOSE a \in Shops : TRUE, how |-> "none", good |-> FALSE]

Token == [of : Credentials, issued : 0..MaxTime]
NoToken == [of |-> Unset, issued |-> 0]
NoEntry == [token |-> NoToken, until |-> 0]
Asleep == [at |-> "idle"]
Whole == [state |-> "whole"]
Halves == [old : Credentials, new : Credentials]

VARIABLES
    now,
    creds,      \* creds[s]: the site's credentials in the settings
    half,       \* half[s]: those before and those that a thread is setting
                \* field by field, or Whole
    cache,      \* _shopify_token_cache
    treq,       \* treq[r]: where a request is
    edited      \* history: the sites whose credentials were changed while a
                \* token for them was cached or under way, or read while they
                \* were being set

tokenVars == <<now, creds, half, cache, treq, edited>>

Usable(s) == cache[s].until > now + Margin
Fetching(s) == \E r \in TokenReqs : treq[r].at \in {"fetch", "issued"} /\ treq[r].site = s

TokenInit ==
    /\ now = 0
    /\ creds = [s \in Sites |-> Unset]
    /\ half = [s \in Sites |-> Whole]
    /\ cache = [s \in Sites |-> NoEntry]
    /\ treq = [r \in TokenReqs |-> Asleep]
    /\ edited = {}

\* The settings say c of the site s; nothing is done about the cache.
Becomes(s, c) ==
    /\ creds' = [creds EXCEPT ![s] = c]
    /\ edited' = IF c # creds[s] /\ (Usable(s) \/ Fetching(s)) THEN edited \cup {s} ELSE edited
    /\ UNCHANGED <<now, cache, treq>>

\* save_source_site_credentials ...
SaveCredentials(s, c) ==
    /\ half[s] = Whole
    /\ half' = [half EXCEPT ![s] = [old |-> creds[s], new |-> c]]
    /\ UNCHANGED <<now, creds, cache, treq, edited>>

\* ... sets the URL, the id, the secret and the static token one after the
\* other: one gets in as before, as afterwards or not at all, and a shop does
\* not accept what is neither the one nor the other.
Between(old, new) ==
    {old, new} \cup [shop : {old.shop, new.shop}, how : {old.how, new.how, "none"}, good : {FALSE}]

SetField(s) ==
    /\ half[s] # Whole
    /\ \E c \in Between(half[s].old, half[s].new) : Becomes(s, c)
    /\ UNCHANGED half

CredentialsSaved(s) ==
    /\ half[s] # Whole
    /\ Becomes(s, half[s].new)
    /\ half' = [half EXCEPT ![s] = Whole]

\* Credentials that are read while they are set.
ReadBy(s) == IF half[s] = Whole THEN edited ELSE edited \cup {s}

Has(s, token) == [at |-> "has", site |-> s, creds |-> creds[s], token |-> token, when |-> now]

\* A static token wins and is never cached.
TakeStatic(r, s) ==
    /\ treq[r] = Asleep
    /\ creds[s].how = "static"
    /\ treq' = [treq EXCEPT ![r] = Has(s, [of |-> creds[s], issued |-> now])]
    /\ edited' = ReadBy(s)
    /\ UNCHANGED <<now, creds, half, cache>>

\* Mutant of TakeCached: a token is used to its last moment.
TakeCachedLate(r, s) ==
    /\ treq[r] = Asleep
    /\ creds[s].how = "secret"
    /\ cache[s].until > now
    /\ treq' = [treq EXCEPT ![r] = Has(s, cache[s].token)]
    /\ edited' = ReadBy(s)
    /\ UNCHANGED <<now, creds, half, cache>>

\* The cached token, whatever credentials it was issued for.
TakeCached(r, s) ==
    /\ treq[r] = Asleep
    /\ creds[s].how = "secret"
    /\ Usable(s)
    /\ treq' = [treq EXCEPT ![r] = Has(s, cache[s].token)]
    /\ edited' = ReadBy(s)
    /\ UNCHANGED <<now, creds, half, cache>>

Exchange(r, s) ==
    /\ treq[r] = Asleep
    /\ creds[s].how = "secret"
    /\ ~Usable(s)
    /\ treq' = [treq EXCEPT ![r] = [at |-> "fetch", site |-> s, creds |-> creds[s], tries |-> 1]]
    /\ edited' = ReadBy(s)
    /\ UNCHANGED <<now, creds, half, cache>>

\* _with_connect_retry: a connection that fails is tried again, a few times.
ConnectFails(r) ==
    /\ treq[r].at = "fetch"
    /\ LET tries == treq[r].tries IN
       treq' = IF tries < Retries THEN [treq EXCEPT ![r].tries = tries + 1]
                                  ELSE [treq EXCEPT ![r] = Asleep]
    /\ UNCHANGED <<now, creds, half, cache, edited>>

\* The shop gets the request and issues a token, or refuses.
Issue(r) ==
    /\ treq[r].at = "fetch"
    /\ treq' = [treq EXCEPT ![r] =
                 IF @.creds.good
                 THEN [at |-> "issued", site |-> @.site, creds |-> @.creds,
                       token |-> [of |-> @.creds, issued |-> now]]
                 ELSE Asleep]
    /\ UNCHANGED <<now, creds, half, cache, edited>>

\* The answer is read, and its token cached from now on.
TokenRead(r) ==
    LET q == treq[r] IN
    /\ q.at = "issued"
    /\ cache' = [cache EXCEPT ![q.site] = [token |-> q.token, until |-> now + Life]]
    /\ treq' = [treq EXCEPT ![r] = [at |-> "has", site |-> q.site, creds |-> q.creds,
                                    token |-> q.token, when |-> now]]
    /\ UNCHANGED <<now, creds, half, edited>>

\* The request goes on with it, and makes its calls to the shop.
Proceed(r) ==
    /\ treq[r].at = "has"
    /\ treq' = [treq EXCEPT ![r] = Asleep]
    /\ UNCHANGED <<now, creds, half, cache, edited>>

\* Time passes; an answer is read within one step of being sent.
Tick ==
    /\ now < MaxTime
    /\ \A r \in TokenReqs : treq[r].at = "issued" => treq[r].token.issued = now
    /\ now' = now + 1
    /\ UNCHANGED <<creds, half, cache, treq, edited>>

\* A new process: the settings are on disk, as they were before a saving that
\* is not over; the cache is not.
ForgetTokens ==
    /\ creds' = [s \in Sites |-> IF half[s] = Whole THEN creds[s] ELSE half[s].old]
    /\ half' = [s \in Sites |-> Whole]
    /\ cache' = [s \in Sites |-> NoEntry]
    /\ treq' = [r \in TokenReqs |-> Asleep]
    /\ edited' = {}
    /\ UNCHANGED now

TokenNext ==
    \/ \E s \in Sites :
          \/ \E c \in Entered : SaveCredentials(s, c)
          \/ SetField(s) \/ CredentialsSaved(s)
    \/ \E r \in TokenReqs :
          \/ \E s \in Sites : TakeStatic(r, s) \/ TakeCached(r, s) \/ Exchange(r, s)
          \/ ConnectFails(r) \/ Issue(r) \/ TokenRead(r)
          \/ Proceed(r)
    \/ Tick
    \/ ForgetTokens

TokenSpec == TokenInit /\ [][TokenNext]_tokenVars

-----------------------------------------------------------------------------
(* Properties *)

TokenTypeOK ==
    /\ now \in 0..MaxTime
    /\ creds \in [Sites -> Credentials]
    /\ half \in [Sites -> Halves \cup {Whole}]
    /\ cache \in [Sites -> [token : Token, until : Nat]]
    /\ treq \in [TokenReqs -> {Asleep}
         \cup [at : {"fetch"}, site : Sites, creds : Credentials, tries : 1..Retries]
         \cup [at : {"issued"}, site : Sites, creds : Credentials, token : Token]
         \cup [at : {"has"}, site : Sites, creds : Credentials, token : Token, when : 0..MaxTime]]
    /\ edited \subseteq Sites

\* Does Shopify still honour a token?
Alive(token, t) == token.of.how = "static" \/ t < token.issued + Life

\* routes.py:2540-2552: a request is given a token that Shopify still honours,
\* although the cache counts from the moment the answer was read and not from
\* the moment the token was issued, and one that was issued for the very
\* credentials it is given with, unless those were changed while a token of the
\* site was cached or under way since the process started, or some request has
\* read them while they were being changed.
TokenServes ==
    \A r \in TokenReqs : treq[r].at = "has" =>
        /\ Alive(treq[r].token, treq[r].when)
        /\ treq[r].site \notin edited => treq[r].token.of = treq[r].creds
=============================================================================
