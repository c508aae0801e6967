------------------------------ MODULE Webhooks ------------------------------
(***************************************************************************)
(* Webhooks of one store around a bulk import (routes.py): save-and-       *)
(* disable writes down every webhook that is installed in Shopify and      *)
(* deletes it there, restore creates the ones written down again.          *)
(*                                                                         *)
(* Both requests make one call to Shopify after another and commit the     *)
(* database only at their end.  Save-and-disable has flushed its rows by   *)
(* then and so holds SQLite's write lock; restore writes at its commit.    *)
(* A request that the server does not survive loses what it has not        *)
(* committed, what it did in Shopify stays done.                           *)
(*                                                                         *)
(* `around', chosen at the beginning and constant from then on, says what  *)
(* can happen: "refuse" Shopify answers a call with an error; "lostreply"  *)
(* a call is carried out but its answer is lost, and the client calls      *)
(* again; "crash" the server ends; "overlap" requests are made while       *)
(* others are under way, from another browser tab (the page itself does    *)
(* not).                                                                   *)
(***************************************************************************)
EXTENDS Integers, FiniteSets

CONSTANTS
    Hooks,       \* webhook definitions: topic and address
    MaxIds,      \* bound: webhook ids Shopify hands out
    Handlers,    \* requests under way at a time
    NoHook, Nobody,
    Surroundings \* what can happen, the cases considered

ASSUME WebhooksAssumption ==
    /\ IsFiniteSet(Hooks)
    /\ MaxIds \in Nat
    /\ NoHook \notin Hooks
    /\ Nobody \notin Handlers

Ids == 1..MaxIds

VARIABLES
    installed, \* installed[i]: the webhook with id i in Shopify, or NoHook
    nextId,    \* the id Shopify gives next
    saved,     \* saved[r]: saved webhooks, a row is named by its first id
    writer,    \* the request that holds the write lock, or Nobody
    h,         \* h[q]: local state of request q
    wanted,    \* history: webhooks there at first, less those the user
               \* deleted one by one without a saved row
    around     \* what can happen

hookVars == <<installed, nextId, saved, writer, h, wanted, around>>

NoRow == [hook |-> NoHook, id |-> 0, active |-> FALSE]
NoRows == [r \in Ids |-> NoRow]
NoRequest == [pc |-> "idle", todo |-> {}, pend |-> NoRows]

Exists(table, r) == table[r] # NoRow

\* Row ids of the row for Shopify's id i: none or one.
RowsOf(table, i) == {r \in Ids : Exists(table, r) /\ table[r].id = i}

Installed == {i \in Ids : installed[i] # NoHook}

HooksInit ==
    \E there \in [Hooks -> BOOLEAN], first \in [Hooks -> Ids] :
        /\ \A x, y \in Hooks : x # y => first[x] # first[y]
        /\ \A x \in Hooks : first[x] <= Cardinality(Hooks)
        /\ installed = [i \in Ids |->
                          IF \E x \in Hooks : there[x] /\ first[x] = i
                          THEN CHOOSE x \in Hooks : there[x] /\ first[x] = i
                          ELSE NoHook]
        /\ nextId = Cardinality(Hooks) + 1
        /\ saved = NoRows
        /\ writer = Nobody
        /\ h = [q \in Handlers |-> NoRequest]
        /\ wanted = {x \in Hooks : there[x]}
        /\ around \in Surroundings

Alone == "overlap" \in around \/ \A q \in Handlers : h[q].pc = "idle"

\* Request q goes on with what it has yet to do and its uncommitted rows.
GoesOn(q, todo, pend) ==
    h' = [h EXCEPT ![q] = [pc |-> h[q].pc, todo |-> todo, pend |-> pend]]

-----------------------------------------------------------------------------
(* save_and_disable_webhooks *)

\* The upsert of one installed webhook into the table.
Upserted(table) ==
    [r \in Ids |->
        IF \E i \in Installed : table[r].id = i /\ Exists(table, r)
        THEN [hook |-> installed[table[r].id], id |-> table[r].id, active |-> TRUE]
        ELSE IF r \in Installed /\ RowsOf(table, r) = {}
             THEN [hook |-> installed[r], id |-> r, active |-> TRUE]
             ELSE table[r]]

\* The installed webhooks are listed, upserted and flushed.
SaveList(q) ==
    /\ h[q].pc = "idle" /\ Alone
    /\ writer = Nobody
    /\ writer' = IF Installed = {} THEN Nobody ELSE q
    /\ h' = [h EXCEPT ![q] = [pc |-> "save", todo |-> Installed, pend |-> Upserted(saved)]]
    /\ UNCHANGED <<installed, nextId, saved, wanted, around>>

\* Mutant of Disabled: the deletion is not noted.
StillEnabled(table, i) == table

Disabled(table, i) ==
    [r \in Ids |-> IF r \in RowsOf(table, i)
                   THEN [hook |-> table[r].hook, id |-> i, active |-> FALSE]
                   ELSE table[r]]

\* DELETE succeeds: the row is marked.
SaveDelete(q, i) ==
    /\ h[q].pc = "save"
    /\ i \in h[q].todo
    /\ installed[i] # NoHook
    /\ installed' = [installed EXCEPT ![i] = NoHook]
    /\ GoesOn(q, h[q].todo \ {i}, Disabled(h[q].pend, i))
    /\ UNCHANGED <<nextId, saved, writer, wanted, around>>

\* Mutant of SaveDeleteError: the row is marked before the call.
SaveDeleteErrorMarked(q, i) ==
    /\ h[q].pc = "save"
    /\ i \in h[q].todo
    /\ \/ installed[i] = NoHook /\ UNCHANGED installed
       \/ "refuse" \in around /\ UNCHANGED installed
       \/ "lostreply" \in around /\ installed' = [installed EXCEPT ![i] = NoHook]
    /\ GoesOn(q, h[q].todo \ {i}, Disabled(h[q].pend, i))
    /\ UNCHANGED <<nextId, saved, writer, wanted, around>>

\* DELETE ends in an error: it was refused, the webhook was gone already, or
\* it was carried out, the answer was lost and the retry met a 404.
SaveDeleteError(q, i) ==
    /\ h[q].pc = "save"
    /\ i \in h[q].todo
    /\ \/ installed[i] = NoHook /\ UNCHANGED installed
       \/ "refuse" \in around /\ UNCHANGED installed
       \/ "lostreply" \in around /\ installed' = [installed EXCEPT ![i] = NoHook]
    /\ GoesOn(q, h[q].todo \ {i}, h[q].pend)
    /\ UNCHANGED <<nextId, saved, writer, wanted, around>>

SaveCommit(q) ==
    /\ h[q].pc = "save"
    /\ h[q].todo = {}
    /\ saved' = IF writer = q THEN h[q].pend ELSE saved
    /\ writer' = IF writer = q THEN Nobody ELSE writer
    /\ h' = [h EXCEPT ![q] = NoRequest]
    /\ UNCHANGED <<installed, nextId, wanted, around>>

-----------------------------------------------------------------------------
(* restore_webhooks *)

\* The rows that are not active in Shopify; there is something to restore.
RestoreRead(q) ==
    LET disabled == {r \in Ids : Exists(saved, r) /\ ~saved[r].active} IN
    /\ h[q].pc = "idle" /\ Alone
    /\ disabled # {}
    /\ h' = [h EXCEPT ![q] = [pc |-> "restore", todo |-> disabled, pend |-> NoRows]]
    /\ UNCHANGED <<installed, nextId, saved, writer, wanted, around>>

\* POST succeeds: the row gets the new id, in the session only.
RestoreCreate(q, r) ==
    /\ h[q].pc = "restore"
    /\ r \in h[q].todo
    /\ nextId \in Ids
    /\ installed' = [installed EXCEPT ![nextId] = saved[r].hook]
    /\ nextId' = nextId + 1
    /\ GoesOn(q, h[q].todo \ {r}, [h[q].pend EXCEPT ![r] =
                 [hook |-> saved[r].hook, id |-> nextId, active |-> TRUE]])
    /\ UNCHANGED <<saved, writer, wanted, around>>

\* POST is carried out, its answer is lost, and it is sent again.
RestoreCreateTwice(q, r) ==
    /\ "lostreply" \in around
    /\ h[q].pc = "restore"
    /\ r \in h[q].todo
    /\ nextId + 1 \in Ids
    /\ installed' = [installed EXCEPT ![nextId] = saved[r].hook, ![nextId + 1] = saved[r].hook]
    /\ nextId' = nextId + 2
    /\ GoesOn(q, h[q].todo \ {r}, [h[q].pend EXCEPT ![r] =
                 [hook |-> saved[r].hook, id |-> nextId + 1, active |-> TRUE]])
    /\ UNCHANGED <<saved, writer, wanted, around>>

RestoreError(q, r) ==
    /\ "refuse" \in around
    /\ h[q].pc = "restore"
    /\ r \in h[q].todo
    /\ GoesOn(q, h[q].todo \ {r}, h[q].pend)
    /\ UNCHANGED <<installed, nextId, saved, writer, wanted, around>>

RestoreCommit(q) ==
    /\ h[q].pc = "restore"
    /\ h[q].todo = {}
    /\ writer = Nobody
    /\ saved' = [r \in Ids |-> IF Exists(h[q].pend, r) THEN h[q].pend[r] ELSE saved[r]]
    /\ h' = [h EXCEPT ![q] = NoRequest]
    /\ UNCHANGED <<installed, nextId, writer, wanted, around>>

\* "database is locked": the commit waits on the event loop for a lock that
\* only another task of the same loop can give back, and times out.
RestoreLockedOut(q) ==
    /\ h[q].pc = "restore"
    /\ h[q].todo = {}
    /\ writer # Nobody
    /\ h' = [h EXCEPT ![q] = NoRequest]
    /\ UNCHANGED <<installed, nextId, saved, writer, wanted, around>>

-----------------------------------------------------------------------------
(* delete_single_webhook: one call, then the row, if there is one.  The row is *)
(* not marked when another request has got the write lock by then, when the    *)
(* call's answer was lost, or when the server ends in between.                 *)

DeleteSingle(i) ==
    /\ installed[i] # NoHook
    /\ Alone
    /\ installed' = [installed EXCEPT ![i] = NoHook]
    /\ \/ writer = Nobody /\ saved' = Disabled(saved, i)
       \/ {"overlap", "lostreply", "crash"} \cap around # {} /\ UNCHANGED saved
    /\ wanted' = IF RowsOf(saved, i) = {} THEN wanted \ {installed[i]} ELSE wanted
    /\ UNCHANGED <<nextId, writer, h, around>>

\* The server ends: open transactions are rolled back.
HooksCrash ==
    /\ "crash" \in around
    /\ writer' = Nobody
    /\ h' = [q \in Handlers |-> NoRequest]
    /\ UNCHANGED <<installed, nextId, saved, wanted, around>>

HookRequest(q) ==
    \/ SaveList(q) \/ SaveCommit(q)
    \/ \E i \in Ids : SaveDelete(q, i) \/ SaveDeleteError(q, i)
    \/ RestoreRead(q) \/ RestoreCommit(q) \/ RestoreLockedOut(q)
    \/ \E r \in Ids : RestoreCreate(q, r) \/ RestoreCreateTwice(q, r) \/ RestoreError(q, r)

HooksNext ==
    \/ \E q \in Handlers : HookRequest(q)
    \/ \E i \in Ids : DeleteSingle(i)
    \/ HooksCrash

HooksSpec == HooksInit /\ [][HooksNext]_hookVars

-----------------------------------------------------------------------------
(* Properties *)

SavedRows == [hook : Hooks, id : Ids, active : BOOLEAN] \cup {NoRow}

\* Shopify, the table and the requests hold what they are meant to.
HooksTypeOK ==
    /\ installed \in [Ids -> Hooks \cup {NoHook}]
    /\ nextId \in 1..(MaxIds + 1)
    /\ saved \in [Ids -> SavedRows]
    /\ writer \in Handlers \cup {Nobody}
    /\ h \in [Handlers -> [pc : {"idle", "save", "restore"}, todo : SUBSET Ids,
                           pend : [Ids -> SavedRows]]]
    /\ wanted \subseteq Hooks
    /\ around \in Surroundings

LiveHooks == {installed[i] : i \in Installed}
Restorable(table) == {table[r].hook : r \in {s \in Ids : Exists(table, s) /\ ~table[s].active}}
Pending == UNION {Restorable(h[q].pend) : q \in Handlers}

Kept == wanted \subseteq LiveHooks \cup Restorable(saved) \cup Pending

\* Shopify's errors are all that can go wrong.
Answered == around \subseteq {"refuse"}

\* app.js:2410: a webhook the user has not given up is installed, or restore will
\* create it again, or the request that has deleted it is about to note that,
\* whichever calls Shopify refuses in whatever sequence of requests.
NoWebhookLost == Answered => Kept

\* A row says that its webhook is disabled only once that is gone from Shopify.
DisabledIsGone ==
    \A r \in Ids : Exists(saved, r) /\ ~saved[r].active => installed[saved[r].id] = NoHook

\* Rows whose webhook a restore has created again and not committed yet.
Recreated == {r \in Ids : \E q \in Handlers : h[q].pc = "restore" /\ Exists(h[q].pend, r)}

\* What a restore would create now is not installed, under whatever id.
RestorableIsGone ==
    \A r \in Ids \ Recreated : Exists(saved, r) /\ ~saved[r].active => saved[r].hook \notin LiveHooks

InstalledOnce == \A i, j \in Installed : installed[i] = installed[j] => i = j

\* routes.py:2951: restore creates no webhook a second time.  Nothing that it
\* would create is installed already and no definition is installed twice,
\* however often webhooks are saved, restored and deleted, as long as Shopify's
\* refusals are all that goes wrong.  Of lost answers, overlaps and crashes only
\* this is said: a webhook that is still installed is not marked as disabled.
\* (When a restore has created a webhook under a new id and cannot commit, the
\* row is as before, and the next restore creates the webhook again.)
NoDuplicate ==
    /\ DisabledIsGone
    /\ Answered => RestorableIsGone /\ InstalledOnce
=============================================================================
