-------------------------- MODULE Webhooks_proofs --------------------------
(***************************************************************************)
(* Proofs about Webhooks: for any webhooks, ids and number of requests.    *)
(* First what holds whatever goes wrong: the webhook of an inactive row is *)
(* gone, at least under the id of the row (DisabledGone).  Then what holds *)
(* as long as Shopify's refusals are all that goes wrong: no webhook is    *)
(* lost, and none that is installed is created again.                      *)
(***************************************************************************)
EXTENDS Webhooks, FiniteSetTheorems, TLAPS

Rows == [hook : Hooks \cup {NoHook}, id : Nat, active : BOOLEAN]
Tables == [Ids -> Rows]
Reqs == [pc : {"idle", "save", "restore"}, todo : SUBSET Ids, pend : Tables]

\* The rows of a table are about ids that were handed out; where a row is
\* inactive nothing is installed.
Sane(inst, next, table) ==
    \A r \in Ids : Exists(table, r) =>
        /\ table[r].id \in Ids /\ table[r].id < next
        /\ ~table[r].active => inst[table[r].id] = NoHook

\* Ids are handed out once: what has not been handed out is not installed.
HandedOut(inst, next) == \A i \in Ids : inst[i] # NoHook => i < next

AInv ==
    /\ installed \in [Ids -> Hooks \cup {NoHook}]
    /\ nextId \in Nat \ {0}
    /\ saved \in Tables
    /\ h \in [Handlers -> Reqs]
    /\ HandedOut(installed, nextId)
    /\ Sane(installed, nextId, saved)
    /\ \A q \in Handlers : Sane(installed, nextId, h[q].pend)

-----------------------------------------------------------------------------
(* Tables *)

LEMMA NothingTyped ==
    /\ NoRow \in Rows /\ NoRows \in Tables /\ NoRequest \in Reqs
    /\ \A r \in Ids : ~Exists(NoRows, r)
    /\ NoRequest.pc = "idle" /\ NoRequest.pend = NoRows /\ NoRequest.todo = {}
BY DEF NoRow, NoRows, NoRequest, Rows, Tables, Reqs, Exists

LEMMA RowFields ==
    ASSUME NEW x \in Rows
    PROVE  /\ x.hook \in Hooks \cup {NoHook} /\ x.id \in Nat /\ x.active \in BOOLEAN
           /\ [hook |-> x.hook, id |-> x.id, active |-> FALSE] \in Rows
BY DEF Rows

\* Writing down what is installed.
LEMMA UpsertedSane ==
    ASSUME AInv, NEW table \in Tables, Sane(installed, nextId, table)
    PROVE  Upserted(table) \in Tables /\ Sane(installed, nextId, Upserted(table))
<1>1. ASSUME NEW r \in Ids
      PROVE  \/ /\ table[r].id \in Installed
                /\ Upserted(table)[r] = [hook |-> installed[table[r].id], id |-> table[r].id,
                                         active |-> TRUE]
             \/ /\ r \in Installed
                /\ Upserted(table)[r] = [hook |-> installed[r], id |-> r, active |-> TRUE]
             \/ /\ Upserted(table)[r] = table[r]
  BY DEF Upserted
<1>2. \A i \in Installed : /\ i \in Ids /\ i \in Nat /\ i < nextId
                           /\ installed[i] \in Hooks \cup {NoHook}
  BY DEF AInv, Installed, HandedOut, Ids
<1>3. ASSUME NEW i \in Installed
      PROVE  [hook |-> installed[i], id |-> i, active |-> TRUE] \in Rows
  BY <1>2 DEF Rows
<1>4. ASSUME NEW r \in Ids
      PROVE  \/ /\ Upserted(table)[r] \in Rows /\ Upserted(table)[r].active
                /\ Upserted(table)[r].id \in Installed
             \/ Upserted(table)[r] = table[r]
  <2>1. ASSUME NEW i \in Installed,
               Upserted(table)[r] = [hook |-> installed[i], id |-> i, active |-> TRUE]
        PROVE  /\ Upserted(table)[r] \in Rows /\ Upserted(table)[r].active
               /\ Upserted(table)[r].id \in Installed
    BY <1>3, <2>1
  <2> QED BY <1>1, <2>1
<1>5. Upserted(table) \in Tables
  <2>1. \A r \in Ids : Upserted(table)[r] \in Rows
    BY <1>4 DEF Tables
  <2>2. Upserted(table) = [r \in Ids |-> Upserted(table)[r]]
    BY DEF Upserted
  <2> QED BY <2>1, <2>2 DEF Tables
<1>6. Sane(installed, nextId, Upserted(table))
  BY <1>2, <1>4 DEF Sane, Exists
<1> QED BY <1>5, <1>6

\* Noting a deletion.
LEMMA DisabledRows ==
    ASSUME NEW table \in Tables, NEW i
    PROVE  /\ Disabled(table, i) \in Tables
           /\ \A r \in Ids :
                /\ Exists(table, r) /\ table[r].id = i =>
                     Disabled(table, i)[r] = [hook |-> table[r].hook, id |-> i, active |-> FALSE]
                /\ ~Exists(table, r) \/ table[r].id # i => Disabled(table, i)[r] = table[r]
<1>1. \A r \in Ids : table[r] \in Rows
  BY DEF Tables
<1>2. ASSUME NEW r \in Ids, Exists(table, r), table[r].id = i
      PROVE  [hook |-> table[r].hook, id |-> i, active |-> FALSE] \in Rows
  BY <1>1, <1>2, RowFields
<1>3. ASSUME NEW r \in Ids, Exists(table, r), table[r].id = i
      PROVE  Disabled(table, i)[r] = [hook |-> table[r].hook, id |-> i, active |-> FALSE]
  BY <1>3 DEF Disabled, RowsOf
<1>4. ASSUME NEW r \in Ids, ~Exists(table, r) \/ table[r].id # i
      PROVE  Disabled(table, i)[r] = table[r]
  BY <1>4 DEF Disabled, RowsOf
<1>5. Disabled(table, i) \in Tables
  <2>1. \A r \in Ids : Disabled(table, i)[r] \in Rows
    BY <1>1, <1>2, <1>3, <1>4
  <2>2. Disabled(table, i) = [r \in Ids |-> Disabled(table, i)[r]]
    BY DEF Disabled
  <2> QED BY <2>1, <2>2 DEF Tables
<1> QED BY <1>3, <1>4, <1>5

\* A table stays sane when webhooks disappear or new ids are handed out.
LEMMA StaysSane ==
    ASSUME NEW table \in Tables, NEW inst, NEW next \in Nat, NEW inst2, NEW next2 \in Nat,
           Sane(inst, next, table), next <= next2,
           \A i \in Ids : i < next => inst2[i] \in {inst[i], NoHook}
    PROVE  Sane(inst2, next2, table)
<1> SUFFICES ASSUME NEW r \in Ids, Exists(table, r)
             PROVE  /\ table[r].id \in Ids /\ table[r].id < next2
                    /\ ~table[r].active => inst2[table[r].id] = NoHook
    BY DEF Sane
<1>1. table[r].id \in Ids /\ table[r].id < next /\ table[r].id \in Nat
  BY DEF Sane, Ids
<1> QED BY <1>1 DEF Sane

\* The same when the deletion of i is noted.
LEMMA DisabledSane ==
    ASSUME NEW table \in Tables, NEW i \in Ids, NEW inst, NEW inst2, NEW next,
           Sane(inst, next, table),
           \A j \in Ids : inst2[j] = IF j = i THEN NoHook ELSE inst[j]
    PROVE  Disabled(table, i) \in Tables /\ Sane(inst2, next, Disabled(table, i))
<1>1. Disabled(table, i) \in Tables
  BY DisabledRows
<1>2. ASSUME NEW r \in Ids, Exists(Disabled(table, i), r)
      PROVE  /\ Disabled(table, i)[r].id \in Ids /\ Disabled(table, i)[r].id < next
             /\ ~Disabled(table, i)[r].active => inst2[Disabled(table, i)[r].id] = NoHook
  <2>1. CASE Exists(table, r) /\ table[r].id = i
    <3>1. Disabled(table, i)[r] = [hook |-> table[r].hook, id |-> i, active |-> FALSE]
      BY <2>1, DisabledRows
    <3>2. i < next
      BY <2>1 DEF Sane
    <3> QED BY <3>1, <3>2
  <2>2. CASE ~(Exists(table, r) /\ table[r].id = i)
    <3>1. Disabled(table, i)[r] = table[r]
      BY <2>2, DisabledRows
    <3> QED BY <1>2, <3>1 DEF Sane, Exists
  <2> QED BY <2>1, <2>2
<1> QED BY <1>1, <1>2 DEF Sane

-----------------------------------------------------------------------------
(* Steps keep AInv *)

\* Request q goes to state w; webhooks may disappear, new ids be handed out.
LEMMA RequestMoves ==
    ASSUME AInv, NEW q \in Handlers, NEW w \in Reqs, h' = [h EXCEPT ![q] = w],
           Sane(installed', nextId', w.pend),
           installed' \in [Ids -> Hooks \cup {NoHook}], HandedOut(installed', nextId'),
           nextId' \in Nat, nextId <= nextId',
           \A i \in Ids : i < nextId => installed'[i] \in {installed[i], NoHook},
           saved' \in Tables, saved' = saved \/ Sane(installed', nextId', saved')
    PROVE  AInv'
<1>1. h' \in [Handlers -> Reqs] /\ h'[q] = w /\ \A x \in Handlers \ {q} : h'[x] = h[x]
  BY DEF AInv
<1>2. \A x \in Handlers : h[x].pend \in Tables
  BY DEF AInv, Reqs
<1>3. ASSUME NEW table \in Tables, Sane(installed, nextId, table)
      PROVE  Sane(installed', nextId', table)
  BY <1>3, StaysSane DEF AInv
<1>4. \A x \in Handlers : Sane(installed', nextId', h'[x].pend)
  BY <1>1, <1>2, <1>3 DEF AInv
<1>5. Sane(installed', nextId', saved')
  BY <1>3 DEF AInv
<1> QED BY <1>1, <1>4, <1>5 DEF AInv

\* The webhook with id i disappears.
LEMMA Deleting ==
    ASSUME AInv, NEW i \in Ids, installed' = [installed EXCEPT ![i] = NoHook], nextId' = nextId
    PROVE  /\ installed' \in [Ids -> Hooks \cup {NoHook}]
           /\ \A j \in Ids : installed'[j] = IF j = i THEN NoHook ELSE installed[j]
           /\ HandedOut(installed', nextId')
BY DEF AInv, HandedOut

\* The parts of a request.
LEMMA RequestFields ==
    ASSUME AInv, NEW q \in Handlers
    PROVE  /\ h[q] \in Reqs /\ h[q].pend \in Tables /\ h[q].todo \in SUBSET Ids
           /\ \A todo \in SUBSET Ids, pend \in Tables :
                 [pc |-> h[q].pc, todo |-> todo, pend |-> pend] \in Reqs
<1>1. h[q] \in Reqs
  BY DEF AInv
<1> QED BY <1>1 DEF Reqs

LEMMA SaveListA ==
    ASSUME AInv, NEW q \in Handlers, SaveList(q)
    PROVE  AInv'
<1>1. PICK w : w = [pc |-> "save", todo |-> Installed, pend |-> Upserted(saved)]
  OBVIOUS
<1>2. Upserted(saved) \in Tables /\ Sane(installed, nextId, Upserted(saved))
  BY UpsertedSane DEF AInv
<1>3. w \in Reqs /\ w.pend = Upserted(saved)
  BY <1>1, <1>2 DEF Reqs, Installed
<1>4. h' = [h EXCEPT ![q] = w] /\ installed' = installed /\ nextId' = nextId /\ saved' = saved
  BY <1>1 DEF SaveList
<1> QED BY <1>2, <1>3, <1>4, RequestMoves DEF AInv

LEMMA SaveDeleteA ==
    ASSUME AInv, NEW q \in Handlers, NEW i \in Ids, SaveDelete(q, i)
    PROVE  AInv'
<1>1. PICK w : w = [pc |-> h[q].pc, todo |-> h[q].todo \ {i}, pend |-> Disabled(h[q].pend, i)]
  OBVIOUS
<1>2. /\ installed' = [installed EXCEPT ![i] = NoHook] /\ nextId' = nextId /\ saved' = saved
      /\ h' = [h EXCEPT ![q] = w]
  BY <1>1 DEF SaveDelete, GoesOn
<1>3. /\ installed' \in [Ids -> Hooks \cup {NoHook}]
      /\ \A j \in Ids : installed'[j] = IF j = i THEN NoHook ELSE installed[j]
      /\ HandedOut(installed', nextId')
  BY <1>2, Deleting
<1>4. h[q].pend \in Tables /\ Sane(installed, nextId, h[q].pend)
  BY RequestFields DEF AInv
<1>5. Disabled(h[q].pend, i) \in Tables /\ Sane(installed', nextId', Disabled(h[q].pend, i))
  BY <1>2, <1>3, <1>4, DisabledSane
<1>6. w \in Reqs /\ w.pend = Disabled(h[q].pend, i)
  BY <1>1, <1>5, RequestFields
<1>7. nextId' \in Nat /\ nextId <= nextId' /\ saved' \in Tables
  BY <1>2 DEF AInv
<1> QED BY <1>2, <1>3, <1>5, <1>6, <1>7, RequestMoves

LEMMA SaveDeleteErrorA ==
    ASSUME AInv, NEW q \in Handlers, NEW i \in Ids, SaveDeleteError(q, i)
    PROVE  AInv'
<1>1. PICK w : w = [pc |-> h[q].pc, todo |-> h[q].todo \ {i}, pend |-> h[q].pend]
  OBVIOUS
<1>2. nextId' = nextId /\ saved' = saved /\ h' = [h EXCEPT ![q] = w]
  BY <1>1 DEF SaveDeleteError, GoesOn
<1>3. /\ installed' \in [Ids -> Hooks \cup {NoHook}]
      /\ \A j \in Ids : installed'[j] \in {installed[j], NoHook}
      /\ HandedOut(installed', nextId')
  <2>1. CASE installed' = installed
    BY <1>2, <2>1 DEF AInv
  <2>2. CASE installed' = [installed EXCEPT ![i] = NoHook]
    BY <1>2, <2>2, Deleting
  <2> QED BY <2>1, <2>2 DEF SaveDeleteError
<1>4. h[q].pend \in Tables /\ Sane(installed, nextId, h[q].pend)
  BY RequestFields DEF AInv
<1>5. w \in Reqs /\ w.pend = h[q].pend
  BY <1>1, <1>4, RequestFields
<1>6. Sane(installed', nextId', w.pend)
  BY <1>2, <1>3, <1>4, <1>5, StaysSane DEF AInv
<1>7. nextId' \in Nat /\ nextId <= nextId' /\ saved' \in Tables
  BY <1>2 DEF AInv
<1> QED BY <1>2, <1>3, <1>5, <1>6, <1>7, RequestMoves

\* A request ends, or is about to begin, with no rows of its own; what it
\* commits is sane.
LEMMA CommitA ==
    ASSUME AInv, NEW q \in Handlers,
           SaveCommit(q) \/ RestoreRead(q) \/ RestoreCommit(q) \/ RestoreLockedOut(q)
    PROVE  AInv'
<1>1. installed' = installed /\ nextId' = nextId
  BY DEF SaveCommit, RestoreRead, RestoreCommit, RestoreLockedOut
<1>2. PICK w \in Reqs : h' = [h EXCEPT ![q] = w] /\ w.pend = NoRows
  <2>1. CASE RestoreRead(q)
    <3>1. PICK todo \in SUBSET Ids :
            h' = [h EXCEPT ![q] = [pc |-> "restore", todo |-> todo, pend |-> NoRows]]
      BY <2>1 DEF RestoreRead
    <3>2. [pc |-> "restore", todo |-> todo, pend |-> NoRows] \in Reqs
      BY NothingTyped DEF Reqs
    <3> QED BY <3>1, <3>2
  <2>2. CASE SaveCommit(q) \/ RestoreCommit(q) \/ RestoreLockedOut(q)
    BY <2>2, NothingTyped DEF SaveCommit, RestoreCommit, RestoreLockedOut
  <2> QED BY <2>1, <2>2
<1>3. Sane(installed, nextId, NoRows)
  BY NothingTyped DEF Sane
<1>4. saved' \in Tables /\ Sane(installed, nextId, saved')
  <2>1. CASE saved' = saved
    BY <2>1 DEF AInv
  <2>2. CASE saved' = h[q].pend
    BY <2>2, RequestFields DEF AInv
  <2>3. CASE saved' = [r \in Ids |-> IF Exists(h[q].pend, r) THEN h[q].pend[r] ELSE saved[r]]
    <3>1. h[q].pend \in Tables
      BY RequestFields
    <3>2. saved' \in Tables
      BY <2>3, <3>1 DEF AInv, Tables
    <3>3. Sane(installed, nextId, saved')
      BY <2>3 DEF AInv, Sane, Exists
    <3> QED BY <3>2, <3>3
  <2> QED BY <2>1, <2>2, <2>3 DEF SaveCommit, RestoreRead, RestoreCommit, RestoreLockedOut
<1> QED BY <1>1, <1>2, <1>3, <1>4, RequestMoves DEF AInv

\* New ids: one, or two when an answer was lost.
LEMMA RestoreCreateA ==
    ASSUME AInv, NEW q \in Handlers, NEW r \in Ids, RestoreCreate(q, r) \/ RestoreCreateTwice(q, r)
    PROVE  AInv'
<1>1. PICK id \in {nextId, nextId + 1} :
        /\ id \in Ids /\ nextId \in Ids /\ nextId' = id + 1
        /\ installed' \in {[installed EXCEPT ![nextId] = saved[r].hook],
                           [installed EXCEPT ![nextId] = saved[r].hook, ![id] = saved[r].hook]}
        /\ saved' = saved
        /\ GoesOn(q, h[q].todo \ {r}, [h[q].pend EXCEPT ![r] =
                     [hook |-> saved[r].hook, id |-> id, active |-> TRUE]])
  <2>1. CASE RestoreCreate(q, r)
    <3>1. nextId \in Ids
      BY <2>1 DEF RestoreCreate
    <3> QED BY <2>1, <3>1 DEF RestoreCreate
  <2>2. CASE RestoreCreateTwice(q, r)
    <3>1. nextId + 1 \in Ids /\ nextId + 2 = (nextId + 1) + 1 /\ nextId \in Nat
      BY <2>2 DEF RestoreCreateTwice, AInv
    <3>2. nextId \in Ids
      BY <2>2, <3>1, WebhooksAssumption DEF AInv, Ids
    <3> QED BY <2>2, <3>1, <3>2 DEF RestoreCreateTwice
  <2> QED BY <2>1, <2>2
<1>2. nextId \in Nat /\ nextId' \in Nat /\ nextId <= nextId' /\ id < nextId' /\ id \in Nat
      /\ nextId < nextId'
  BY <1>1 DEF AInv
<1>3. saved[r].hook \in Hooks \cup {NoHook}
  BY RowFields DEF AInv, Tables
<1>4. /\ installed' \in [Ids -> Hooks \cup {NoHook}]
      /\ \A j \in Ids : j < nextId => installed'[j] = installed[j]
      /\ \A j \in Ids : j # nextId /\ j # id => installed'[j] = installed[j]
  BY <1>1, <1>2, <1>3 DEF AInv
<1>5. HandedOut(installed', nextId')
  <2> SUFFICES ASSUME NEW j \in Ids, installed'[j] # NoHook PROVE j < nextId'
      BY DEF HandedOut
  <2>1. CASE j = nextId \/ j = id
    BY <1>2, <2>1
  <2>2. CASE j # nextId /\ j # id
    <3>1. j < nextId /\ j \in Nat
      BY <1>4, <2>2 DEF AInv, HandedOut, Ids
    <3> QED BY <1>2, <3>1
  <2> QED BY <2>1, <2>2
<1>6. PICK x : x = [hook |-> saved[r].hook, id |-> id, active |-> TRUE]
  OBVIOUS
<1>7. x \in Rows /\ x.id = id /\ x.active
  BY <1>2, <1>3, <1>6 DEF Rows
<1>8. h[q].pend \in Tables /\ Sane(installed', nextId', h[q].pend)
  <2>1. h[q].pend \in Tables /\ Sane(installed, nextId, h[q].pend)
    BY RequestFields DEF AInv
  <2> QED BY <1>2, <1>4, <2>1, StaysSane
<1>9. PICK pend : pend = [h[q].pend EXCEPT ![r] = x]
  OBVIOUS
<1>10. pend \in Tables /\ pend[r] = x /\ \A s \in Ids \ {r} : pend[s] = h[q].pend[s]
  BY <1>7, <1>8, <1>9 DEF Tables
<1>11. Sane(installed', nextId', pend)
  BY <1>1, <1>2, <1>7, <1>8, <1>10 DEF Sane, Exists
<1>12. PICK w : w = [pc |-> h[q].pc, todo |-> h[q].todo \ {r}, pend |-> pend]
  OBVIOUS
<1>13. w \in Reqs /\ w.pend = pend
  BY <1>10, <1>12, RequestFields
<1>14. h' = [h EXCEPT ![q] = w]
  BY <1>1, <1>6, <1>9, <1>12 DEF GoesOn
<1> QED BY <1>1, <1>2, <1>4, <1>5, <1>11, <1>13, <1>14, RequestMoves DEF AInv

LEMMA RestoreErrorA ==
    ASSUME AInv, NEW q \in Handlers, NEW r \in Ids, RestoreError(q, r)
    PROVE  AInv'
<1>1. PICK w : w = [pc |-> h[q].pc, todo |-> h[q].todo \ {r}, pend |-> h[q].pend]
  OBVIOUS
<1>2. w \in Reqs /\ w.pend = h[q].pend
  BY <1>1, RequestFields
<1>3. /\ h' = [h EXCEPT ![q] = w]
      /\ installed' = installed /\ nextId' = nextId /\ saved' = saved
  BY <1>1 DEF RestoreError, GoesOn
<1> QED BY <1>2, <1>3, RequestMoves DEF AInv

LEMMA DeleteSingleA ==
    ASSUME AInv, NEW i \in Ids, DeleteSingle(i)
    PROVE  AInv'
<1>1. installed' = [installed EXCEPT ![i] = NoHook] /\ nextId' = nextId /\ h' = h
  BY DEF DeleteSingle
<1>2. /\ installed' \in [Ids -> Hooks \cup {NoHook}]
      /\ \A j \in Ids : installed'[j] = IF j = i THEN NoHook ELSE installed[j]
      /\ HandedOut(installed', nextId')
  BY <1>1, Deleting
<1>3. ASSUME NEW table \in Tables, Sane(installed, nextId, table)
      PROVE  Sane(installed', nextId', table)
  <2>1. nextId \in Nat /\ nextId' \in Nat /\ nextId <= nextId'
    BY <1>1 DEF AInv
  <2> QED BY <1>2, <1>3, <2>1, StaysSane
<1>4. saved' \in Tables /\ Sane(installed', nextId', saved')
  <2>1. CASE saved' = saved
    BY <1>3, <2>1 DEF AInv
  <2>2. CASE saved' = Disabled(saved, i)
    BY <1>1, <1>2, <2>2, DisabledSane DEF AInv
  <2> QED BY <2>1, <2>2 DEF DeleteSingle
<1>5. \A q \in Handlers : Sane(installed', nextId', h'[q].pend)
  BY <1>1, <1>3, RequestFields DEF AInv
<1> QED BY <1>1, <1>2, <1>4, <1>5 DEF AInv

LEMMA HooksCrashA ==
    ASSUME AInv, HooksCrash
    PROVE  AInv'
<1>1. /\ h' = [q \in Handlers |-> NoRequest]
      /\ installed' = installed /\ nextId' = nextId /\ saved' = saved
  BY DEF HooksCrash
<1>2. Sane(installed, nextId, NoRows)
  BY NothingTyped DEF Sane
<1> QED BY <1>1, <1>2, NothingTyped DEF AInv

\* At first a webhook has the id that was given to it.
LEMMA InitA ==
    ASSUME HooksInit
    PROVE  AInv
<1>1. PICK there \in [Hooks -> BOOLEAN], first \in [Hooks -> Ids] :
        /\ \A x \in Hooks : first[x] <= Cardinality(Hooks)
        /\ installed = [i \in Ids |->
                          IF \E x \in Hooks : there[x] /\ first[x] = i
                          THEN CHOOSE x \in Hooks : there[x] /\ first[x] = i
                          ELSE NoHook]
  BY DEF HooksInit
<1>2. /\ nextId = Cardinality(Hooks) + 1 /\ saved = NoRows
      /\ h = [q \in Handlers |-> NoRequest]
  BY DEF HooksInit
<1>3. Cardinality(Hooks) \in Nat
  BY WebhooksAssumption, FS_CardinalityType
<1>4. \A i \in Ids : installed[i] # NoHook =>
        installed[i] \in Hooks /\ there[installed[i]] /\ first[installed[i]] = i
  BY <1>1
<1>5. installed \in [Ids -> Hooks \cup {NoHook}]
  BY <1>1, <1>4
<1>6. HandedOut(installed, nextId)
  <2> SUFFICES ASSUME NEW i \in Ids, installed[i] # NoHook PROVE i < nextId
      BY DEF HandedOut
  <2>1. i <= Cardinality(Hooks) /\ i \in Nat
    BY <1>1, <1>4 DEF Ids
  <2> QED BY <1>2, <1>3, <2>1
<1>7. \A n : Sane(installed, n, NoRows)
  BY NothingTyped DEF Sane
<1> QED BY <1>2, <1>3, <1>5, <1>6, <1>7, NothingTyped DEF AInv

LEMMA NextA ==
    ASSUME AInv, [HooksNext]_hookVars
    PROVE  AInv'
<1>1. ASSUME NEW q \in Handlers, HookRequest(q) PROVE AInv'
  BY <1>1, SaveListA, SaveDeleteA, SaveDeleteErrorA, CommitA, RestoreCreateA, RestoreErrorA
     DEF HookRequest
<1>2. ASSUME NEW i \in Ids, DeleteSingle(i) PROVE AInv'
  BY <1>2, DeleteSingleA
<1>3. CASE HooksCrash
  BY <1>3, HooksCrashA
<1>4. CASE UNCHANGED hookVars
  BY <1>4 DEF hookVars, AInv
<1> QED BY <1>1, <1>2, <1>3, <1>4 DEF HooksNext

LEMMA AlwaysA == HooksSpec => []AInv
<1>1. HooksInit => AInv
  BY InitA
<1>2. AInv /\ [HooksNext]_hookVars => AInv'
  BY NextA
<1> QED BY <1>1, <1>2, PTL DEF HooksSpec

\* Whatever is lost, repeated, overlapping or cut short, a row says that its
\* webhook is disabled only once that is gone.
LEMMA DisabledGone == HooksSpec => []DisabledIsGone
<1>1. AInv => DisabledIsGone
  BY DEF AInv, Sane, DisabledIsGone
<1> QED BY <1>1, AlwaysA, PTL

-----------------------------------------------------------------------------
(* As long as refusals are all that goes wrong: tables and what is installed *)

\* What holds of the webhooks inst, ids up to next being handed out, and a table
\* that says all that is known: a row is about a webhook that is installed just
\* when it is active; no two rows, and no two webhooks, are the same; a row whose
\* key is installed is about that very webhook.
Apart(inst, next, table) ==
    /\ \A r \in Ids : Exists(table, r) =>
          /\ r < next
          /\ table[r].active => inst[table[r].id] = table[r].hook
          /\ ~table[r].active => \A i \in Ids : inst[i] # table[r].hook
          /\ table[r].hook # NoHook
          /\ inst[r] # NoHook => table[r].id = r
    /\ \A r, s \in Ids : Exists(table, r) /\ Exists(table, s) /\ table[r].hook = table[s].hook
          => r = s
    /\ \A i, j \in Ids : inst[i] = inst[j] /\ inst[i] # NoHook => i = j

\* What the user wants is installed or can be restored.
Safe(inst, table, want) ==
    \A x \in want :
        \/ \E i \in Ids : inst[i] = x
        \/ \E r \in Ids : Exists(table, r) /\ ~table[r].active /\ table[r].hook = x

Good(inst, next, table, want) ==
    Sane(inst, next, table) /\ Apart(inst, next, table) /\ Safe(inst, table, want)

\* Rows that were written down stay, a new row is about an installed webhook
\* that had none.
LEMMA UpsertedRows ==
    ASSUME AInv, Apart(installed, nextId, saved), NEW r \in Ids
    PROVE  \/ /\ Exists(saved, r) /\ Exists(Upserted(saved), r)
              /\ Upserted(saved)[r].hook = saved[r].hook
              /\ Upserted(saved)[r].id = saved[r].id
              /\ Upserted(saved)[r].active = saved[r].active
           \/ /\ ~Exists(saved, r) /\ installed[r] # NoHook /\ RowsOf(saved, r) = {}
              /\ Upserted(saved)[r] = [hook |-> installed[r], id |-> r, active |-> TRUE]
              /\ Exists(Upserted(saved), r)
           \/ ~Exists(saved, r) /\ ~Exists(Upserted(saved), r)
<1>1. r \in Nat \ {0} /\ NoRow.id = 0 /\ NoRow.active = FALSE
  BY DEF Ids, NoRow
<1>2. Exists(saved, r) => /\ saved[r].id \in Ids /\ saved[r].active \in BOOLEAN
                          /\ saved[r].active => installed[saved[r].id] = saved[r].hook
                          /\ ~saved[r].active => installed[saved[r].id] = NoHook
                          /\ r \in Installed => saved[r].id = r
                          /\ saved[r].hook # NoHook
  BY RowFields DEF AInv, Tables, Sane, Apart, Installed
<1>3. CASE Exists(saved, r) /\ saved[r].id \in Installed
  <2>1. Upserted(saved)[r] = [hook |-> installed[saved[r].id], id |-> saved[r].id, active |-> TRUE]
    BY <1>3 DEF Upserted
  <2>2. saved[r].active = TRUE /\ installed[saved[r].id] = saved[r].hook
    BY <1>2, <1>3 DEF Installed
  <2>3. Exists(Upserted(saved), r)
    BY <1>1, <2>1 DEF Exists
  <2>4. /\ Upserted(saved)[r].hook = installed[saved[r].id]
        /\ Upserted(saved)[r].id = saved[r].id
    BY <2>1
  <2>5. Upserted(saved)[r].active = TRUE
    BY <2>1
  <2> QED BY <1>3, <2>2, <2>3, <2>4, <2>5, Zenon
<1>4. CASE Exists(saved, r) /\ saved[r].id \notin Installed
  <2>1. r \notin Installed
    BY <1>2, <1>4
  <2>2. Upserted(saved)[r] = saved[r]
    BY <1>4, <2>1 DEF Upserted
  <2> QED BY <1>4, <2>2 DEF Exists
<1>5. CASE ~Exists(saved, r) /\ r \in Installed /\ RowsOf(saved, r) = {}
  <2>1. Upserted(saved)[r] = [hook |-> installed[r], id |-> r, active |-> TRUE]
    BY <1>5 DEF Upserted
  <2>2. Exists(Upserted(saved), r)
    BY <1>1, <2>1 DEF Exists
  <2> QED BY <1>5, <2>1, <2>2 DEF Installed
<1>6. CASE ~Exists(saved, r) /\ ~(r \in Installed /\ RowsOf(saved, r) = {})
  <2>1. Upserted(saved)[r] = saved[r]
    BY <1>6 DEF Upserted
  <2> QED BY <1>6, <2>1 DEF Exists
<1> QED BY <1>3, <1>4, <1>5, <1>6

\* Writing down all that is installed.
LEMMA UpsertedGood ==
    ASSUME AInv, NEW want, Good(installed, nextId, saved, want)
    PROVE  /\ Good(installed, nextId, Upserted(saved), want)
           /\ \A i \in Installed : \E r \in Ids :
                 Exists(Upserted(saved), r) /\ Upserted(saved)[r].id = i
<1>1. PICK U : U = Upserted(saved)
  OBVIOUS
<1>2. \A r \in Ids :
        \/ /\ Exists(saved, r) /\ Exists(U, r) /\ U[r].hook = saved[r].hook
           /\ U[r].id = saved[r].id /\ U[r].active = saved[r].active
        \/ /\ ~Exists(saved, r) /\ installed[r] # NoHook /\ RowsOf(saved, r) = {}
           /\ U[r].hook = installed[r] /\ U[r].id = r /\ U[r].active
           /\ Exists(U, r)
        \/ ~Exists(saved, r) /\ ~Exists(U, r)
  <2>1. \A r \in Ids : /\ [hook |-> installed[r], id |-> r, active |-> TRUE].hook = installed[r]
                       /\ [hook |-> installed[r], id |-> r, active |-> TRUE].id = r
                       /\ [hook |-> installed[r], id |-> r, active |-> TRUE].active
    OBVIOUS
  <2> QED BY <1>1, <2>1, UpsertedRows DEF Good
<1>3. ASSUME NEW s \in Ids, Exists(saved, s), NEW r \in Ids, RowsOf(saved, r) = {}
      PROVE  saved[s].hook # installed[r] \/ installed[r] = NoHook
  <2>1. saved[s].id # r /\ saved[s].id \in Ids
    BY <1>3 DEF RowsOf, Good, Sane
  <2>2. CASE saved[s].active
    BY <1>3, <2>1, <2>2 DEF Good, Apart
  <2>3. CASE ~saved[s].active
    BY <1>3, <2>3 DEF Good, Apart
  <2> QED BY <2>2, <2>3
<1>4. Sane(installed, nextId, U)
  BY <1>1, UpsertedSane DEF AInv
<1>5. ASSUME NEW r \in Ids, Exists(U, r)
      PROVE  /\ r < nextId
             /\ U[r].active => installed[U[r].id] = U[r].hook
             /\ ~U[r].active => \A i \in Ids : installed[i] # U[r].hook
             /\ U[r].hook # NoHook
             /\ installed[r] # NoHook => U[r].id = r
  <2>1. CASE Exists(saved, r)
    BY <1>2, <2>1 DEF Good, Apart
  <2>2. CASE ~Exists(saved, r)
    <3>1. installed[r] # NoHook /\ U[r].hook = installed[r] /\ U[r].id = r /\ U[r].active
      BY <1>2, <1>5, <2>2
    <3> QED BY <3>1 DEF AInv, HandedOut
  <2> QED BY <2>1, <2>2
<1>6. ASSUME NEW r \in Ids, NEW s \in Ids, Exists(U, r), Exists(U, s), U[r].hook = U[s].hook
      PROVE  r = s
  <2>1. CASE Exists(saved, r) /\ Exists(saved, s)
    BY <1>2, <1>6, <2>1 DEF Good, Apart
  <2>2. CASE ~Exists(saved, r) /\ ~Exists(saved, s)
    BY <1>2, <1>6, <2>2 DEF Good, Apart
  <2>3. CASE Exists(saved, r) /\ ~Exists(saved, s)
    BY <1>2, <1>3, <1>6, <2>3
  <2>4. CASE ~Exists(saved, r) /\ Exists(saved, s)
    BY <1>2, <1>3, <1>6, <2>4
  <2> QED BY <2>1, <2>2, <2>3, <2>4
<1>7. Apart(installed, nextId, U)
  BY <1>5, <1>6 DEF Apart, Good
<1>8. Safe(installed, U, want)
  BY <1>2 DEF Good, Safe
<1>9. ASSUME NEW i \in Installed PROVE \E r \in Ids : Exists(U, r) /\ U[r].id = i
  <2>1. CASE RowsOf(saved, i) # {}
    BY <1>2, <2>1 DEF RowsOf
  <2>2. CASE RowsOf(saved, i) = {}
    <3>1. i \in Ids /\ installed[i] # NoHook
      BY DEF Installed
    <3>2. ~Exists(saved, i)
      BY <2>2, <3>1 DEF RowsOf, Good, Apart
    <3>3. U[i] = [hook |-> installed[i], id |-> i, active |-> TRUE]
      BY <1>1, <2>2, <3>1, <3>2 DEF Upserted, Installed
    <3>4. Exists(U, i)
      BY <3>1, <3>3 DEF Exists, NoRow
    <3> QED BY <3>1, <3>3, <3>4
  <2> QED BY <2>1, <2>2
<1> QED BY <1>1, <1>4, <1>7, <1>8, <1>9 DEF Good

\* A webhook is deleted and its row marked, or it has none and is not wanted
\* any more.
LEMMA DeletedGood ==
    ASSUME NEW inst, NEW next, NEW table \in Tables, NEW want, NEW want2,
           Good(inst, next, table, want),
           NEW i \in Ids, inst[i] # NoHook,
           NEW inst2, \A j \in Ids : inst2[j] = IF j = i THEN NoHook ELSE inst[j],
           \/ RowsOf(table, i) # {} /\ want2 = want
           \/ RowsOf(table, i) = {} /\ want2 = want \ {inst[i]}
    PROVE  Good(inst2, next, Disabled(table, i), want2)
<1>1. PICK D : D = Disabled(table, i)
  OBVIOUS
<1>2. \A r \in Ids :
        /\ Exists(D, r) <=> Exists(table, r)
        /\ Exists(table, r) => /\ D[r].hook = table[r].hook /\ D[r].id = table[r].id
                               /\ table[r].id = i => ~D[r].active
                               /\ table[r].id # i => D[r].active = table[r].active
  <2> TAKE r \in Ids
  <2>1. CASE Exists(table, r) /\ table[r].id = i
    <3>1. D[r] = [hook |-> table[r].hook, id |-> i, active |-> FALSE]
      BY <1>1, <2>1, DisabledRows
    <3>2. D[r].id # 0
      BY <3>1 DEF Ids
    <3>3. Exists(D, r)
      BY <3>2 DEF Exists, NoRow
    <3> QED BY <2>1, <3>1, <3>3
  <2>2. CASE ~(Exists(table, r) /\ table[r].id = i)
    <3>1. D[r] = table[r]
      BY <1>1, <2>2 DEF Disabled, RowsOf
    <3> QED BY <2>2, <3>1 DEF Exists
  <2> QED BY <2>1, <2>2
<1>3. \A r \in Ids : Exists(table, r) /\ table[r].id = i =>
        table[r].active /\ table[r].hook = inst[i]
  BY DEF Good, Sane, Apart
<1>4. Sane(inst2, next, D)
  BY <1>1, DisabledSane DEF Good
<1>5. ASSUME NEW r \in Ids, Exists(D, r)
      PROVE  /\ r < next
             /\ D[r].active => inst2[D[r].id] = D[r].hook
             /\ ~D[r].active => \A j \in Ids : inst2[j] # D[r].hook
             /\ D[r].hook # NoHook
             /\ inst2[r] # NoHook => D[r].id = r
  <2>1. /\ Exists(table, r) /\ D[r].hook = table[r].hook /\ D[r].id = table[r].id
        /\ r < next /\ table[r].hook # NoHook /\ table[r].id \in Ids
        /\ inst[r] # NoHook => table[r].id = r
    BY <1>2, <1>5 DEF Good, Apart, Sane
  <2>2. D[r].active => inst2[D[r].id] = D[r].hook
    BY <1>2, <2>1 DEF Good, Apart
  <2>3. ~D[r].active => \A j \in Ids : inst2[j] # D[r].hook
    <3>1. CASE table[r].id = i
      BY <1>3, <2>1, <3>1 DEF Good, Apart
    <3>2. CASE table[r].id # i
      BY <1>2, <2>1, <3>2 DEF Good, Apart
    <3> QED BY <3>1, <3>2
  <2> QED BY <2>1, <2>2, <2>3
<1>6. Apart(inst2, next, D)
  <2>1. \A r, s \in Ids : Exists(D, r) /\ Exists(D, s) /\ D[r].hook = D[s].hook => r = s
    BY <1>2 DEF Good, Apart
  <2>2. \A j, k \in Ids : inst2[j] = inst2[k] /\ inst2[j] # NoHook => j = k
    BY DEF Good, Apart
  <2> QED BY <1>5, <2>1, <2>2 DEF Apart
<1>7. Safe(inst2, D, want2)
  <2> SUFFICES ASSUME NEW x \in want2
               PROVE  \/ \E j \in Ids : inst2[j] = x
                      \/ \E r \in Ids : Exists(D, r) /\ ~D[r].active /\ D[r].hook = x
      BY DEF Safe
  <2>1. x \in want
    OBVIOUS
  <2>2. CASE x = inst[i]
    <3>1. PICK r \in Ids : Exists(table, r) /\ table[r].id = i
      BY <2>2 DEF RowsOf
    <3> QED BY <1>2, <1>3, <2>2, <3>1
  <2>3. CASE x # inst[i]
    <3>1. \/ \E j \in Ids : inst[j] = x
          \/ \E r \in Ids : Exists(table, r) /\ ~table[r].active /\ table[r].hook = x
      BY <2>1 DEF Good, Safe
    <3>2. ASSUME NEW j \in Ids, inst[j] = x PROVE \E k \in Ids : inst2[k] = x
      BY <2>3, <3>2
    <3>3. ASSUME NEW r \in Ids, Exists(table, r) /\ ~table[r].active /\ table[r].hook = x
          PROVE  Exists(D, r) /\ ~D[r].active /\ D[r].hook = x
      BY <1>2, <1>3, <3>3
    <3> QED BY <3>1, <3>2, <3>3
  <2> QED BY <2>2, <2>3
<1> QED BY <1>1, <1>4, <1>6, <1>7 DEF Good

\* An inactive row's webhook is created again, under a new id.
LEMMA RecreatedGood ==
    ASSUME NEW inst, NEW next \in Ids, NEW table, NEW want,
           Good(inst, next, table, want), HandedOut(inst, next),
           NEW r \in Ids, Exists(table, r), ~table[r].active,
           NEW inst2,
           \A j \in Ids : inst2[j] = IF j = next THEN table[r].hook ELSE inst[j],
           NEW table2, Exists(table2, r),
           table2[r].hook = table[r].hook, table2[r].id = next, table2[r].active,
           \A s \in Ids \ {r} : table2[s] = table[s]
    PROVE  Good(inst2, next + 1, table2, want)
<1>1. next \in Nat /\ inst[next] = NoHook /\ \A s \in Ids : s \in Nat
  BY DEF HandedOut, Ids
<1>2. \A s \in Ids \ {r} : Exists(table2, s) <=> Exists(table, s)
  BY DEF Exists
<1>3. \A s \in Ids : Exists(table, s) =>
        s < next /\ s # next /\ table[s].id \in Ids /\ table[s].id < next /\ table[s].id # next
  BY <1>1 DEF Good, Sane, Apart
<1>4. inst[r] = NoHook
  BY DEF Good, Sane, Apart
<1>5. ASSUME NEW s \in Ids, Exists(table2, s)
      PROVE  /\ s < next + 1
             /\ table2[s].id \in Ids /\ table2[s].id < next + 1
             /\ table2[s].active => inst2[table2[s].id] = table2[s].hook
             /\ ~table2[s].active =>
                  inst2[table2[s].id] = NoHook /\ \A i \in Ids : inst2[i] # table2[s].hook
             /\ table2[s].hook # NoHook
             /\ inst2[s] # NoHook => table2[s].id = s
  <2>1. CASE s = r
    <3>1. r < next + 1 /\ next < next + 1 /\ r # next /\ table[r].hook # NoHook
      BY <1>1, <1>3 DEF Good, Apart
    <3> QED BY <1>4, <2>1, <3>1
  <2>2. CASE s # r
    <3>1. Exists(table, s) /\ table2[s] = table[s]
      BY <1>2, <1>5, <2>2
    <3>2. s < next + 1 /\ table[s].id < next + 1
      <4>1. s \in Nat /\ table[s].id \in Nat /\ s < next /\ table[s].id < next
        BY <1>1, <1>3, <3>1
      <4> QED BY <1>1, <4>1
    <3>3. table[s].hook # table[r].hook
      BY <2>2, <3>1 DEF Good, Apart
    <3> QED BY <1>3, <3>1, <3>2, <3>3 DEF Good, Sane, Apart
  <2> QED BY <2>1, <2>2
<1>6. \A s, u \in Ids : Exists(table2, s) /\ Exists(table2, u) /\ table2[s].hook = table2[u].hook
        => s = u
  <2>1. \A s \in Ids : Exists(table2, s) => Exists(table, s) /\ table2[s].hook = table[s].hook
    BY <1>2
  <2> QED BY <2>1 DEF Good, Apart
<1>7. \A i, j \in Ids : inst2[i] = inst2[j] /\ inst2[i] # NoHook => i = j
  BY DEF Good, Apart
<1>8. Safe(inst2, table2, want)
  <2> SUFFICES ASSUME NEW x \in want
               PROVE  \/ \E j \in Ids : inst2[j] = x
                      \/ \E s \in Ids : Exists(table2, s) /\ ~table2[s].active /\ table2[s].hook = x
      BY DEF Safe
  <2>1. CASE \E j \in Ids : inst[j] = x
    <3>1. PICK j \in Ids : inst[j] = x
      BY <2>1
    <3>2. CASE j # next
      BY <3>1, <3>2
    <3>3. CASE j = next
      <4>1. x = NoHook /\ inst2[r] = NoHook
        BY <1>1, <1>3, <1>4, <3>1, <3>3
      <4> QED BY <4>1
    <3> QED BY <3>2, <3>3
  <2>2. CASE \E s \in Ids : Exists(table, s) /\ ~table[s].active /\ table[s].hook = x
    <3>1. PICK s \in Ids : Exists(table, s) /\ ~table[s].active /\ table[s].hook = x
      BY <2>2
    <3>2. CASE s = r
      BY <3>1, <3>2
    <3>3. CASE s # r
      <4>1. Exists(table2, s) /\ table2[s] = table[s]
        BY <1>2, <3>1, <3>3, Zenon
      <4> QED BY <3>1, <4>1
    <3> QED BY <3>2, <3>3
  <2> QED BY <2>1, <2>2 DEF Good, Safe
<1> QED BY <1>5, <1>6, <1>7, <1>8 DEF Good, Sane, Apart

-----------------------------------------------------------------------------
(* As long as refusals are all that goes wrong: requests *)

\* What the table will say when a restore has committed.
Merged(pend, table) == [r \in Ids |-> IF Exists(pend, r) THEN pend[r] ELSE table[r]]

\* One request at a time.  What is known is in the table, or in the rows that
\* a request is going to commit.
BInv ==
    /\ \A p, q \in Handlers : h[p].pc # "idle" /\ h[q].pc # "idle" => p = q
    /\ (\A q \in Handlers : h[q].pc = "idle") =>
          writer = Nobody /\ Good(installed, nextId, saved, wanted)
    /\ \A q \in Handlers : h[q].pc = "save" =>
          /\ Good(installed, nextId, h[q].pend, wanted)
          /\ \/ writer = q
             \/ writer = Nobody /\ h[q].pend = saved /\ h[q].todo = {}
          /\ \A i \in h[q].todo : RowsOf(h[q].pend, i) # {}
    /\ \A q \in Handlers : h[q].pc = "restore" =>
          /\ Good(installed, nextId, Merged(h[q].pend, saved), wanted)
          /\ writer = Nobody
          /\ \A r \in h[q].todo :
                Exists(saved, r) /\ ~saved[r].active /\ ~Exists(h[q].pend, r)

\* Request q goes to state w while the others are idle.
LEMMA AloneB ==
    ASSUME AInv, NEW q \in Handlers, NEW w \in Reqs, h' = [h EXCEPT ![q] = w],
           \A p \in Handlers \ {q} : h[p].pc = "idle",
           w.pc = "idle" => writer' = Nobody /\ Good(installed', nextId', saved', wanted'),
           w.pc = "save" =>
              /\ Good(installed', nextId', w.pend, wanted')
              /\ \/ writer' = q
                 \/ writer' = Nobody /\ w.pend = saved' /\ w.todo = {}
              /\ \A i \in w.todo : RowsOf(w.pend, i) # {},
           w.pc = "restore" =>
              /\ Good(installed', nextId', Merged(w.pend, saved'), wanted')
              /\ writer' = Nobody
              /\ \A r \in w.todo : Exists(saved', r) /\ ~saved'[r].active /\ ~Exists(w.pend, r)
    PROVE  BInv'
<1>1. h'[q] = w /\ \A p \in Handlers \ {q} : h'[p].pc = "idle"
  BY DEF AInv
<1>2. \A p, x \in Handlers : h'[p].pc # "idle" /\ h'[x].pc # "idle" => p = x
  BY <1>1
<1>3. (\A p \in Handlers : h'[p].pc = "idle") =>
         writer' = Nobody /\ Good(installed', nextId', saved', wanted')
  BY <1>1
<1>4. ASSUME NEW p \in Handlers, h'[p].pc = "save"
      PROVE  /\ Good(installed', nextId', h'[p].pend, wanted')
             /\ \/ writer' = p
                \/ writer' = Nobody /\ h'[p].pend = saved' /\ h'[p].todo = {}
             /\ \A i \in h'[p].todo : RowsOf(h'[p].pend, i) # {}
  <2>1. p = q
    BY <1>1, <1>4
  <2> QED BY <1>1, <1>4, <2>1
<1>5. ASSUME NEW p \in Handlers, h'[p].pc = "restore"
      PROVE  /\ Good(installed', nextId', Merged(h'[p].pend, saved'), wanted')
             /\ writer' = Nobody
             /\ \A r \in h'[p].todo :
                   Exists(saved', r) /\ ~saved'[r].active /\ ~Exists(h'[p].pend, r)
  <2>1. p = q
    BY <1>1, <1>5
  <2> QED BY <1>1, <1>5, <2>1
<1> QED BY <1>2, <1>3, <1>4, <1>5 DEF BInv, Good, Sane, Apart, Safe, Merged, Exists, RowsOf

\* A request that is not idle is the only one.
LEMMA OnlyOne ==
    ASSUME BInv, NEW q \in Handlers, h[q].pc # "idle"
    PROVE  \A p \in Handlers \ {q} : h[p].pc = "idle"
BY DEF BInv

LEMMA SaveListB ==
    ASSUME AInv, BInv, Answered, NEW q \in Handlers, SaveList(q)
    PROVE  BInv'
<1>1. PICK w : w = [pc |-> "save", todo |-> Installed, pend |-> Upserted(saved)]
  OBVIOUS
<1>2. /\ h' = [h EXCEPT ![q] = w] /\ installed' = installed /\ nextId' = nextId
      /\ saved' = saved /\ wanted' = wanted
      /\ writer' = IF Installed = {} THEN Nobody ELSE q
      /\ \A p \in Handlers : h[p].pc = "idle"
  BY <1>1 DEF SaveList, Alone, Answered
<1>3. Good(installed, nextId, saved, wanted)
  BY <1>2 DEF BInv
<1>4. /\ Good(installed, nextId, Upserted(saved), wanted)
      /\ \A i \in Installed : RowsOf(Upserted(saved), i) # {}
  BY <1>3, UpsertedGood DEF RowsOf
<1>5. Upserted(saved) \in Tables
  BY UpsertedSane DEF AInv
<1>6. w \in Reqs /\ w.pc = "save" /\ w.todo = Installed /\ w.pend = Upserted(saved)
  BY <1>1, <1>5 DEF Reqs, Installed
<1>7. Installed = {} => Upserted(saved) = saved
  BY DEF Upserted, AInv, Tables
<1> QED BY <1>2, <1>4, <1>6, <1>7, AloneB

LEMMA SaveDeleteB ==
    ASSUME AInv, BInv, NEW q \in Handlers, NEW i \in Ids, SaveDelete(q, i)
    PROVE  BInv'
<1>1. PICK pend : pend = h[q].pend
  OBVIOUS
<1>2. PICK w : w = [pc |-> "save", todo |-> h[q].todo \ {i}, pend |-> Disabled(pend, i)]
  OBVIOUS
<1>3. /\ h[q].pc = "save" /\ i \in h[q].todo /\ installed[i] # NoHook
      /\ h' = [h EXCEPT ![q] = w] /\ installed' = [installed EXCEPT ![i] = NoHook]
      /\ nextId' = nextId /\ saved' = saved /\ wanted' = wanted /\ writer' = writer
  BY <1>1, <1>2 DEF SaveDelete, GoesOn
<1>4. /\ Good(installed, nextId, pend, wanted) /\ writer = q
      /\ \A j \in h[q].todo : RowsOf(pend, j) # {}
      /\ pend \in Tables
  BY <1>1, <1>3, RequestFields DEF BInv
<1>5. \A j \in Ids : installed'[j] = IF j = i THEN NoHook ELSE installed[j]
  BY <1>3, Deleting
<1>6. Good(installed', nextId', Disabled(pend, i), wanted')
  BY <1>3, <1>4, <1>5, DeletedGood
<1>7. \A j \in h[q].todo \ {i} : RowsOf(Disabled(pend, i), j) # {}
  <2> SUFFICES ASSUME NEW j \in h[q].todo \ {i} PROVE RowsOf(Disabled(pend, i), j) # {}
      OBVIOUS
  <2>1. PICK r \in Ids : Exists(pend, r) /\ pend[r].id = j
    BY <1>4 DEF RowsOf
  <2>2. Disabled(pend, i)[r] = pend[r]
    BY <1>4, <2>1, DisabledRows
  <2> QED BY <2>1, <2>2 DEF RowsOf, Exists
<1>8. w \in Reqs /\ w.pc = "save" /\ w.todo = h[q].todo \ {i} /\ w.pend = Disabled(pend, i)
  BY <1>2, <1>4, DisabledRows, RequestFields DEF Reqs
<1>9. \A p \in Handlers \ {q} : h[p].pc = "idle"
  BY <1>3, OnlyOne
<1>10. writer' = q /\ Good(installed', nextId', w.pend, wanted')
       /\ \A j \in w.todo : RowsOf(w.pend, j) # {}
  BY <1>3, <1>4, <1>6, <1>7, <1>8
<1>11. w.pc # "idle" /\ w.pc # "restore"
  BY <1>8
<1> QED BY <1>3, <1>8, <1>9, <1>10, <1>11, AloneB

\* Shopify refuses: nothing has changed but what is left to do.
LEMMA RefusedB ==
    ASSUME AInv, BInv, Answered, NEW q \in Handlers, NEW i \in Ids,
           SaveDeleteError(q, i) \/ RestoreError(q, i)
    PROVE  BInv'
<1>1. PICK w : w = [pc |-> h[q].pc, todo |-> h[q].todo \ {i}, pend |-> h[q].pend]
  OBVIOUS
<1>2. /\ h[q].pc \in {"save", "restore"} /\ h' = [h EXCEPT ![q] = w]
      /\ installed' = installed /\ nextId' = nextId /\ saved' = saved /\ wanted' = wanted
      /\ writer' = writer
  BY <1>1 DEF SaveDeleteError, RestoreError, GoesOn, Answered
<1>3. w \in Reqs /\ w.pc = h[q].pc /\ w.todo = h[q].todo \ {i} /\ w.pend = h[q].pend
  BY <1>1, RequestFields
<1>4. \A p \in Handlers \ {q} : h[p].pc = "idle"
  BY <1>2, OnlyOne
<1>5. w.pc = "save" =>
        /\ Good(installed, nextId, w.pend, wanted)
        /\ \/ writer = q
           \/ writer = Nobody /\ w.pend = saved /\ w.todo = {}
        /\ \A j \in w.todo : RowsOf(w.pend, j) # {}
  BY <1>3 DEF BInv
<1>6. w.pc = "restore" =>
        /\ Good(installed, nextId, Merged(w.pend, saved), wanted)
        /\ writer = Nobody
        /\ \A r \in w.todo : Exists(saved, r) /\ ~saved[r].active /\ ~Exists(w.pend, r)
  BY <1>3 DEF BInv
<1>7. w.pc = "save" =>
        /\ Good(installed', nextId', w.pend, wanted')
        /\ \/ writer' = q
           \/ writer' = Nobody /\ w.pend = saved' /\ w.todo = {}
        /\ \A j \in w.todo : RowsOf(w.pend, j) # {}
  BY <1>2, <1>5
<1>8. w.pc = "restore" =>
        /\ Good(installed', nextId', Merged(w.pend, saved'), wanted')
        /\ writer' = Nobody
        /\ \A r \in w.todo : Exists(saved', r) /\ ~saved'[r].active /\ ~Exists(w.pend, r)
  BY <1>2, <1>6
<1>9. w.pc # "idle"
  BY <1>2, <1>3
<1> QED BY <1>2, <1>3, <1>4, <1>7, <1>8, <1>9, AloneB

\* A request ends: what it knew is what the table says.
LEMMA CommitB ==
    ASSUME AInv, BInv, NEW q \in Handlers,
           SaveCommit(q) \/ RestoreCommit(q) \/ RestoreLockedOut(q)
    PROVE  BInv'
<1>1. /\ h[q].pc # "idle" /\ h' = [h EXCEPT ![q] = NoRequest]
      /\ installed' = installed /\ nextId' = nextId /\ wanted' = wanted
  BY DEF SaveCommit, RestoreCommit, RestoreLockedOut
<1>2. writer' = Nobody /\ Good(installed, nextId, saved', wanted)
  <2>1. CASE SaveCommit(q)
    BY <2>1, WebhooksAssumption DEF SaveCommit, BInv
  <2>2. CASE RestoreCommit(q)
    BY <2>2 DEF RestoreCommit, BInv, Merged
  <2>3. CASE RestoreLockedOut(q)
    BY <2>3 DEF RestoreLockedOut, BInv
  <2> QED BY <2>1, <2>2, <2>3
<1>3. \A p \in Handlers \ {q} : h[p].pc = "idle"
  BY <1>1, OnlyOne
<1> QED BY <1>1, <1>2, <1>3, NothingTyped, AloneB

LEMMA RestoreReadB ==
    ASSUME AInv, BInv, Answered, NEW q \in Handlers, RestoreRead(q)
    PROVE  BInv'
<1>1. PICK todo : todo = {r \in Ids : Exists(saved, r) /\ ~saved[r].active}
  OBVIOUS
<1>2. PICK w : w = [pc |-> "restore", todo |-> todo, pend |-> NoRows]
  OBVIOUS
<1>3. /\ h' = [h EXCEPT ![q] = w] /\ installed' = installed /\ nextId' = nextId
      /\ saved' = saved /\ wanted' = wanted /\ writer' = writer
      /\ \A p \in Handlers : h[p].pc = "idle"
  BY <1>1, <1>2 DEF RestoreRead, Alone, Answered
<1>4. w \in Reqs /\ w.pc = "restore" /\ w.todo = todo /\ w.pend = NoRows
  BY <1>1, <1>2, NothingTyped DEF Reqs
<1>5. Merged(NoRows, saved) = saved
  BY NothingTyped DEF Merged, AInv, Tables
<1>6. writer = Nobody /\ Good(installed, nextId, saved, wanted)
  BY <1>3 DEF BInv
<1>7. \A r \in todo : Exists(saved, r) /\ ~saved[r].active /\ ~Exists(NoRows, r)
  BY <1>1, NothingTyped
<1> QED BY <1>3, <1>4, <1>5, <1>6, <1>7, AloneB

LEMMA RestoreCreateB ==
    ASSUME AInv, BInv, NEW q \in Handlers, NEW r \in Ids, RestoreCreate(q, r)
    PROVE  BInv'
<1>1. PICK pend, x : /\ x = [hook |-> saved[r].hook, id |-> nextId, active |-> TRUE]
                     /\ pend = [h[q].pend EXCEPT ![r] = x]
  OBVIOUS
<1>2. PICK w : w = [pc |-> "restore", todo |-> h[q].todo \ {r}, pend |-> pend]
  OBVIOUS
<1>3. /\ h[q].pc = "restore" /\ r \in h[q].todo /\ nextId \in Ids
      /\ h' = [h EXCEPT ![q] = w] /\ installed' = [installed EXCEPT ![nextId] = saved[r].hook]
      /\ nextId' = nextId + 1 /\ saved' = saved /\ wanted' = wanted /\ writer' = writer
  BY <1>1, <1>2 DEF RestoreCreate, GoesOn
<1>4. /\ Good(installed, nextId, Merged(h[q].pend, saved), wanted) /\ writer = Nobody
      /\ Exists(saved, r) /\ ~saved[r].active /\ ~Exists(h[q].pend, r)
      /\ \A s \in h[q].todo : Exists(saved, s) /\ ~saved[s].active /\ ~Exists(h[q].pend, s)
  BY <1>3 DEF BInv
<1>5. x \in Rows /\ x.hook = saved[r].hook /\ x.id = nextId /\ x.active
  <2>1. saved[r].hook \in Hooks \cup {NoHook}
    BY RowFields DEF AInv, Tables
  <2> QED BY <1>1, <1>3, <2>1 DEF Rows, Ids
<1>6. x # NoRow
  BY <1>3, <1>5 DEF NoRow, Ids
<1>7. pend \in Tables /\ pend[r] = x /\ \A s \in Ids \ {r} : pend[s] = h[q].pend[s]
  BY <1>1, <1>5, RequestFields DEF Tables
<1>8. PICK T, T2 : T = Merged(h[q].pend, saved) /\ T2 = Merged(pend, saved)
  OBVIOUS
<1>9. /\ T[r] = saved[r] /\ Exists(T, r) /\ T2[r] = x /\ Exists(T2, r)
      /\ \A s \in Ids \ {r} : T2[s] = T[s]
  BY <1>4, <1>6, <1>7, <1>8 DEF Merged, Exists
<1>10. \A j \in Ids : installed'[j] = IF j = nextId THEN T[r].hook ELSE installed[j]
  BY <1>3, <1>9 DEF AInv
<1>11. Good(installed', nextId + 1, T2, wanted)
  <2>1. HandedOut(installed, nextId)
    BY DEF AInv
  <2>2. Good(installed, nextId, T, wanted)
    BY <1>4, <1>8
  <2>3. /\ Exists(T, r) /\ Exists(T2, r) /\ ~T[r].active
        /\ T2[r].hook = T[r].hook /\ T2[r].id = nextId /\ T2[r].active
        /\ \A s \in Ids \ {r} : T2[s] = T[s]
    BY <1>4, <1>5, <1>9
  <2>4. PICK next \in Ids : next = nextId
    BY <1>3
  <2>5. PICK inst, inst2 : inst = installed /\ inst2 = installed'
    OBVIOUS
  <2>6. /\ Good(inst, next, T, wanted) /\ HandedOut(inst, next)
        /\ \A j \in Ids : inst2[j] = IF j = next THEN T[r].hook ELSE inst[j]
        /\ T2[r].id = next
    BY <1>10, <2>1, <2>2, <2>3, <2>4, <2>5
  <2>7. Good(inst2, next + 1, T2, wanted)
    BY ONLY r \in Ids, <2>3, <2>6, RecreatedGood
  <2> QED BY <2>4, <2>5, <2>7
<1>12. w \in Reqs /\ w.pc = "restore" /\ w.todo = h[q].todo \ {r} /\ w.pend = pend
  BY <1>2, <1>7, RequestFields DEF Reqs
<1>13. \A s \in w.todo : Exists(saved, s) /\ ~saved[s].active /\ ~Exists(pend, s)
  BY <1>4, <1>7, <1>12, RequestFields DEF Exists
<1>14. \A p \in Handlers \ {q} : h[p].pc = "idle"
  BY <1>3, OnlyOne
<1> QED BY <1>3, <1>4, <1>8, <1>11, <1>12, <1>13, <1>14, AloneB

LEMMA DeleteSingleB ==
    ASSUME AInv, BInv, Answered, NEW i \in Ids, DeleteSingle(i)
    PROVE  BInv'
<1>1. /\ installed[i] # NoHook /\ installed' = [installed EXCEPT ![i] = NoHook]
      /\ nextId' = nextId /\ h' = h /\ writer' = writer /\ saved' = Disabled(saved, i)
      /\ wanted' = IF RowsOf(saved, i) = {} THEN wanted \ {installed[i]} ELSE wanted
      /\ \A q \in Handlers : h[q].pc = "idle"
  BY DEF DeleteSingle, Alone, Answered
<1>2. writer = Nobody /\ Good(installed, nextId, saved, wanted)
  BY <1>1 DEF BInv
<1>3. \A j \in Ids : installed'[j] = IF j = i THEN NoHook ELSE installed[j]
  BY <1>1, Deleting
<1>4. Good(installed', nextId', saved', wanted')
  BY <1>1, <1>2, <1>3, DeletedGood DEF AInv
<1> QED BY <1>1, <1>2, <1>4 DEF BInv

-----------------------------------------------------------------------------
(* As long as refusals are all that goes wrong: behaviours *)

\* At first nothing is written down, and all that is wanted is installed.
LEMMA InitB ==
    ASSUME HooksInit
    PROVE  BInv
<1>1. PICK there \in [Hooks -> BOOLEAN], first \in [Hooks -> Ids] :
        /\ \A x, y \in Hooks : x # y => first[x] # first[y]
        /\ installed = [i \in Ids |->
                          IF \E x \in Hooks : there[x] /\ first[x] = i
                          THEN CHOOSE x \in Hooks : there[x] /\ first[x] = i
                          ELSE NoHook]
        /\ wanted = {x \in Hooks : there[x]}
  BY DEF HooksInit
<1>2. saved = NoRows /\ writer = Nobody /\ h = [q \in Handlers |-> NoRequest]
  BY DEF HooksInit
<1>3. \A i \in Ids : installed[i] # NoHook =>
        installed[i] \in Hooks /\ first[installed[i]] = i
  BY <1>1
<1>4. ASSUME NEW x \in wanted PROVE \E i \in Ids : installed[i] = x
  <2>1. x \in Hooks /\ there[x] /\ first[x] \in Ids
    BY <1>1
  <2>2. \A y \in Hooks : there[y] /\ first[y] = first[x] => y = x
    BY <1>1, <2>1
  <2>3. installed[first[x]] = CHOOSE y \in Hooks : there[y] /\ first[y] = first[x]
    BY <1>1, <2>1
  <2> QED BY <2>1, <2>2, <2>3
<1>5. \A i, j \in Ids : installed[i] = installed[j] /\ installed[i] # NoHook => i = j
  BY <1>3
<1>6. Good(installed, nextId, saved, wanted)
  BY <1>2, <1>4, <1>5, NothingTyped DEF Good, Sane, Apart, Safe
<1> QED BY <1>2, <1>6, NothingTyped DEF BInv

LEMMA NextB ==
    ASSUME AInv, BInv, Answered, [HooksNext]_hookVars
    PROVE  BInv'
<1>1. ASSUME NEW q \in Handlers, HookRequest(q) PROVE BInv'
  <2>1. \A r \in Ids : ~RestoreCreateTwice(q, r)
    BY DEF RestoreCreateTwice, Answered
  <2> QED BY <1>1, <2>1, SaveListB, SaveDeleteB, RefusedB, CommitB, RestoreReadB, RestoreCreateB
          DEF HookRequest
<1>2. ASSUME NEW i \in Ids, DeleteSingle(i) PROVE BInv'
  BY <1>2, DeleteSingleB
<1>3. ~HooksCrash
  BY Zenon DEF HooksCrash, Answered
<1>4. CASE UNCHANGED hookVars
  BY <1>4 DEF hookVars, BInv, Good, Sane, Apart, Safe, Merged, Exists, RowsOf
<1> QED BY <1>1, <1>2, <1>3, <1>4 DEF HooksNext

\* What can go wrong is settled at the beginning.
LEMMA SameSurroundings ==
    ASSUME [HooksNext]_hookVars
    PROVE  around' = around
BY DEF HooksNext, HookRequest, SaveList, SaveCommit, SaveDelete, SaveDeleteError, RestoreRead,
       RestoreCommit, RestoreLockedOut, RestoreCreate, RestoreCreateTwice, RestoreError,
       DeleteSingle, HooksCrash, hookVars

LEMMA AlwaysB == HooksSpec => [](Answered => BInv)
<1>1. HooksInit => (Answered => BInv)
  BY InitB
<1>2. AInv /\ (Answered => BInv) /\ [HooksNext]_hookVars => (Answered => BInv)'
  BY NextB, SameSurroundings DEF Answered
<1> QED BY <1>1, <1>2, AlwaysA, PTL DEF HooksSpec

LEMMA WantedAreHooks == HooksSpec => [](wanted \subseteq Hooks)
<1>1. HooksInit => wanted \subseteq Hooks
  BY DEF HooksInit
<1>2. wanted \subseteq Hooks /\ [HooksNext]_hookVars => (wanted \subseteq Hooks)'
  BY DEF HooksNext, HookRequest, SaveList, SaveCommit, SaveDelete, SaveDeleteError, RestoreRead,
         RestoreCommit, RestoreLockedOut, RestoreCreate, RestoreCreateTwice, RestoreError,
         DeleteSingle, HooksCrash, hookVars
<1> QED BY <1>1, <1>2, PTL DEF HooksSpec

\* app.js:2410: whichever calls Shopify refuses, in whatever sequence of saves,
\* restores and deletions, a webhook the user has not given up is installed, or
\* can be restored, or its deletion is about to be noted.
THEOREM WebhooksKept == HooksSpec => []NoWebhookLost
<1>1. ASSUME AInv, BInv, wanted \subseteq Hooks PROVE Kept
  <2> SUFFICES ASSUME NEW x \in wanted
               PROVE  x \in LiveHooks \cup Restorable(saved) \cup Pending
      BY DEF Kept
  <2>1. ASSUME NEW table, Safe(installed, table, wanted)
        PROVE  x \in LiveHooks \cup Restorable(table)
    <3>1. CASE \E i \in Ids : installed[i] = x
      BY <1>1, <3>1, WebhooksAssumption DEF LiveHooks, Installed
    <3>2. CASE \E r \in Ids : Exists(table, r) /\ ~table[r].active /\ table[r].hook = x
      BY <3>2 DEF Restorable
    <3> QED BY <2>1, <3>1, <3>2 DEF Safe
  <2>2. CASE \A q \in Handlers : h[q].pc = "idle"
    BY <1>1, <2>1, <2>2 DEF BInv, Good
  <2>3. ASSUME NEW q \in Handlers, h[q].pc = "save" PROVE x \in LiveHooks \cup Pending
    <3>1. x \in LiveHooks \cup Restorable(h[q].pend)
      BY <1>1, <2>1, <2>3 DEF BInv, Good
    <3> QED BY <3>1 DEF Pending
  <2>4. ASSUME NEW q \in Handlers, h[q].pc = "restore"
        PROVE  x \in LiveHooks \cup Restorable(saved) \cup Pending
    <3>1. x \in LiveHooks \cup Restorable(Merged(h[q].pend, saved))
      BY <1>1, <2>1, <2>4 DEF BInv, Good
    <3>2. Restorable(Merged(h[q].pend, saved)) \subseteq Restorable(h[q].pend) \cup Restorable(saved)
      BY DEF Restorable, Merged, Exists
    <3> QED BY <3>1, <3>2 DEF Pending
  <2>5. \A q \in Handlers : h[q].pc \in {"idle", "save", "restore"}
    BY <1>1 DEF AInv, Reqs
  <2> QED BY <2>2, <2>3, <2>4, <2>5
<1> QED BY <1>1, AlwaysA, AlwaysB, WantedAreHooks, PTL DEF NoWebhookLost

\* While a save is under way, the rows it is going to commit agree with the
\* table on what has been disabled before.
CInv ==
    \A q \in Handlers : h[q].pc = "save" =>
        \A r \in Ids : Exists(saved, r) /\ ~saved[r].active =>
            /\ Exists(h[q].pend, r) /\ ~h[q].pend[r].active
            /\ h[q].pend[r].hook = saved[r].hook

LEMMA SaveListC ==
    ASSUME AInv, BInv, CInv, Answered, NEW q \in Handlers, SaveList(q)
    PROVE  CInv'
<1>1. /\ h' = [h EXCEPT ![q] = [pc |-> "save", todo |-> Installed, pend |-> Upserted(saved)]]
      /\ saved' = saved /\ \A p \in Handlers : h[p].pc = "idle"
  BY DEF SaveList, Alone, Answered
<1>2. ASSUME NEW r \in Ids, Exists(saved, r), ~saved[r].active
      PROVE  Upserted(saved)[r] = saved[r]
  <2>1. saved[r].id \in Ids /\ installed[saved[r].id] = NoHook
    BY <1>2 DEF AInv, Sane
  <2>2. installed[r] # NoHook => saved[r].id = r
    BY <1>1, <1>2 DEF BInv, Good, Apart
  <2>3. saved[r].id \notin Installed /\ r \notin Installed
    BY <2>1, <2>2 DEF Installed
  <2> QED BY <2>3 DEF Upserted
<1>3. h'[q].pend = Upserted(saved) /\ \A p \in Handlers \ {q} : h'[p].pc = "idle"
  BY <1>1 DEF AInv
<1> QED BY <1>1, <1>2, <1>3 DEF CInv, Exists

LEMMA SaveGoesOnC ==
    ASSUME AInv, CInv, NEW q \in Handlers, h[q].pc = "save", NEW i \in Ids, NEW todo,
           \/ GoesOn(q, todo, Disabled(h[q].pend, i))
           \/ GoesOn(q, todo, h[q].pend),
           UNCHANGED saved
    PROVE  CInv'
<1>1. h[q].pend \in Tables
  BY DEF AInv, Reqs
<1>2. ASSUME NEW r \in Ids, Exists(h[q].pend, r), ~h[q].pend[r].active
      PROVE  /\ Exists(Disabled(h[q].pend, i), r) /\ ~Disabled(h[q].pend, i)[r].active
             /\ Disabled(h[q].pend, i)[r].hook = h[q].pend[r].hook
  <2>1. CASE h[q].pend[r].id = i
    <3>1. Disabled(h[q].pend, i)[r] = [hook |-> h[q].pend[r].hook, id |-> i, active |-> FALSE]
      BY <1>1, <1>2, <2>1, DisabledRows
    <3>2. i # 0
      BY DEF Ids
    <3> QED BY <3>1, <3>2 DEF Exists, NoRow
  <2>2. CASE h[q].pend[r].id # i
    BY <1>1, <1>2, <2>2, DisabledRows DEF Exists
  <2> QED BY <2>1, <2>2
<1>3. \A p \in Handlers : h'[p] = IF p = q THEN [pc |-> h[q].pc, todo |-> todo, pend |-> h'[q].pend] ELSE h[p]
  BY DEF GoesOn, AInv
<1>4. h'[q].pend \in {h[q].pend, Disabled(h[q].pend, i)}
  BY DEF GoesOn, AInv
<1>5. ASSUME NEW r \in Ids, Exists(saved, r), ~saved[r].active
      PROVE  /\ Exists(h'[q].pend, r) /\ ~h'[q].pend[r].active
             /\ h'[q].pend[r].hook = saved[r].hook
  <2>1. /\ Exists(h[q].pend, r) /\ ~h[q].pend[r].active
        /\ h[q].pend[r].hook = saved[r].hook
    BY <1>5 DEF CInv
  <2> QED BY <1>2, <1>4, <2>1
<1> QED BY <1>3, <1>5 DEF CInv, Exists

\* While a restore is under way, no save is.
LEMMA NoSaveC ==
    ASSUME AInv, BInv, NEW q \in Handlers, NEW w, h' = [h EXCEPT ![q] = w], w.pc # "save",
           h[q].pc # "idle" \/ \A p \in Handlers : h[p].pc = "idle"
    PROVE  CInv'
<1>1. \A p \in Handlers \ {q} : h[p].pc = "idle"
  BY OnlyOne
<1>2. \A p \in Handlers : h'[p].pc # "save"
  BY <1>1 DEF AInv
<1> QED BY <1>2 DEF CInv

LEMMA NextC ==
    ASSUME AInv, BInv, CInv, Answered, [HooksNext]_hookVars
    PROVE  CInv'
<1>1. ASSUME NEW q \in Handlers, HookRequest(q) PROVE CInv'
  <2>1. CASE SaveList(q)
    BY <2>1, SaveListC
  <2>2. ASSUME NEW i \in Ids, SaveDelete(q, i) \/ SaveDeleteError(q, i) PROVE CInv'
    BY <2>2, SaveGoesOnC DEF SaveDelete, SaveDeleteError
  <2>3. ASSUME NEW r \in Ids,
               RestoreCreate(q, r) \/ RestoreCreateTwice(q, r) \/ RestoreError(q, r)
        PROVE  CInv'
    <3>1. PICK w : h' = [h EXCEPT ![q] = w] /\ w.pc = h[q].pc /\ h[q].pc = "restore"
      BY <2>3 DEF RestoreCreate, RestoreCreateTwice, RestoreError, GoesOn
    <3> QED BY <3>1, NoSaveC
  <2>4. CASE SaveCommit(q) \/ RestoreCommit(q) \/ RestoreLockedOut(q)
    <3>1. h' = [h EXCEPT ![q] = NoRequest] /\ h[q].pc # "idle"
      BY <2>4 DEF SaveCommit, RestoreCommit, RestoreLockedOut
    <3> QED BY <3>1, NoSaveC, NothingTyped
  <2>5. CASE RestoreRead(q)
    <3>1. PICK w : /\ h' = [h EXCEPT ![q] = w] /\ w.pc = "restore"
                   /\ \A p \in Handlers : h[p].pc = "idle"
      BY <2>5 DEF RestoreRead, Alone, Answered
    <3> QED BY <3>1, NoSaveC
  <2> QED BY <1>1, <2>1, <2>2, <2>3, <2>4, <2>5 DEF HookRequest
<1>2. ASSUME NEW i \in Ids, DeleteSingle(i) PROVE CInv'
  <2>1. h' = h /\ \A q \in Handlers : h[q].pc = "idle"
    BY <1>2 DEF DeleteSingle, Alone, Answered
  <2> QED BY <2>1 DEF CInv
<1>3. CASE HooksCrash
  BY <1>3 DEF HooksCrash, Answered
<1>4. CASE UNCHANGED hookVars
  BY <1>4 DEF hookVars, CInv, Exists
<1> QED BY <1>1, <1>2, <1>3, <1>4 DEF HooksNext

LEMMA AlwaysC == HooksSpec => [](Answered => CInv)
<1>1. HooksInit => CInv
  BY NothingTyped DEF HooksInit, CInv
<1>2. /\ AInv /\ (Answered => BInv) /\ (Answered => CInv) /\ [HooksNext]_hookVars
      => (Answered => CInv)'
  BY NextC, SameSurroundings DEF Answered
<1> QED BY <1>1, <1>2, AlwaysA, AlwaysB, PTL DEF HooksSpec

\* routes.py:2951: as long as Shopify's refusals are all that goes wrong, what a
\* restore would create is not installed under any id, but for what a restore
\* under way has created itself.
THEOREM RestorableGone == HooksSpec => [](Answered => RestorableIsGone)
<1>1. ASSUME AInv, BInv, CInv PROVE RestorableIsGone
  <2> SUFFICES ASSUME NEW r \in Ids \ Recreated, Exists(saved, r), ~saved[r].active
               PROVE  saved[r].hook \notin LiveHooks
    BY DEF RestorableIsGone
  <2>1. ASSUME NEW table, Good(installed, nextId, table, wanted),
               Exists(table, r), ~table[r].active, table[r].hook = saved[r].hook
        PROVE  saved[r].hook \notin LiveHooks
    BY <2>1 DEF Good, Apart, LiveHooks, Installed
  <2>2. CASE \A q \in Handlers : h[q].pc = "idle"
    BY <1>1, <2>1, <2>2 DEF BInv
  <2>3. ASSUME NEW q \in Handlers, h[q].pc = "save" PROVE saved[r].hook \notin LiveHooks
    <3>1. /\ Exists(h[q].pend, r) /\ ~h[q].pend[r].active
          /\ h[q].pend[r].hook = saved[r].hook
      BY <1>1, <2>3 DEF CInv
    <3>2. Good(installed, nextId, h[q].pend, wanted)
      BY <1>1, <2>3 DEF BInv
    <3> QED BY <2>1, <3>1, <3>2
  <2>4. ASSUME NEW q \in Handlers, h[q].pc = "restore" PROVE saved[r].hook \notin LiveHooks
    <3>1. ~Exists(h[q].pend, r)
      BY <2>4 DEF Recreated
    <3>2. Merged(h[q].pend, saved)[r] = saved[r]
      BY <3>1 DEF Merged
    <3>3. Good(installed, nextId, Merged(h[q].pend, saved), wanted)
      BY <1>1, <2>4 DEF BInv
    <3>4. PICK table : table = Merged(h[q].pend, saved)
      OBVIOUS
    <3>5. Exists(table, r) /\ ~table[r].active /\ table[r].hook = saved[r].hook
      BY <3>2, <3>4 DEF Exists
    <3> QED BY <2>1, <3>3, <3>4, <3>5
  <2>5. \A q \in Handlers : h[q].pc \in {"idle", "save", "restore"}
    BY <1>1 DEF AInv, Reqs
  <2> QED BY <2>2, <2>3, <2>4, <2>5
<1> QED BY <1>1, AlwaysA, AlwaysB, AlwaysC, PTL

\* routes.py:2951: restore creates no webhook a second time.  As long as Shopify's
\* refusals are all that goes wrong, nothing it would create is installed and
\* nothing is installed twice; whatever goes wrong, only what is gone is marked
\* as disabled.
THEOREM NoSecondWebhook == HooksSpec => []NoDuplicate
<1>1. ASSUME AInv, BInv PROVE InstalledOnce
  <2>1. ASSUME NEW next, NEW table, Good(installed, next, table, wanted)
        PROVE  InstalledOnce
    BY <2>1 DEF Good, Apart, Installed, InstalledOnce
  <2>2. \/ Good(installed, nextId, saved, wanted)
        \/ \E q \in Handlers : Good(installed, nextId, h[q].pend, wanted)
        \/ \E q \in Handlers : Good(installed, nextId, Merged(h[q].pend, saved), wanted)
    <3>1. \A q \in Handlers : h[q].pc \in {"idle", "save", "restore"}
      BY <1>1 DEF AInv, Reqs
    <3> QED BY <1>1, <3>1 DEF BInv
  <2> QED BY <2>1, <2>2
<1> QED BY <1>1, RestorableGone, DisabledGone, AlwaysA, AlwaysB, PTL DEF NoDuplicate

-----------------------------------------------------------------------------
(* Types *)

SavedTables == [Ids -> SavedRows]
HookRequests == [pc : {"idle", "save", "restore"}, todo : SUBSET Ids, pend : SavedTables]

\* No row of table is missing in other.
Keeps(table, other) == \A r \in Ids : Exists(table, r) => Exists(other, r)

\* What is restored are saved rows; what the writer is going to commit keeps them.
HInv ==
    /\ HooksTypeOK
    /\ \A q \in Handlers : h[q].pc = "restore" => \A r \in h[q].todo : Exists(saved, r)
    /\ writer # Nobody => h[writer].pc = "save" /\ Keeps(saved, h[writer].pend)

\* A row is about a webhook and an id.
LEMMA RowsAre ==
    /\ NoRow \in SavedRows /\ NoRows \in SavedTables
    /\ \A x \in SavedRows : x # NoRow => x.hook \in Hooks /\ x.id \in Ids /\ x.active \in BOOLEAN
    /\ \A k \in Hooks, i \in Ids, b \in BOOLEAN :
         /\ [hook |-> k, id |-> i, active |-> b] \in SavedRows
         /\ [hook |-> k, id |-> i, active |-> b] # NoRow
    /\ NoRequest \in HookRequests /\ NoRequest.pc = "idle"
<1>1. NoRow \in SavedRows
  BY DEF SavedRows
<1>2. NoRows \in SavedTables
  BY <1>1 DEF NoRows, SavedTables
<1>3. \A k \in Hooks, i \in Ids, b \in BOOLEAN :
         /\ [hook |-> k, id |-> i, active |-> b] \in SavedRows
         /\ [hook |-> k, id |-> i, active |-> b] # NoRow
  BY WebhooksAssumption DEF SavedRows, NoRow
<1>4. NoRequest \in HookRequests /\ NoRequest.pc = "idle"
  BY <1>2 DEF NoRequest, HookRequests
<1>5. \A x \in SavedRows : x # NoRow => x.hook \in Hooks /\ x.id \in Ids /\ x.active \in BOOLEAN
  BY DEF SavedRows
<1> QED BY <1>1, <1>2, <1>3, <1>4, <1>5

\* Listing the webhooks at Shopify leaves every row, changed or not.
LEMMA UpsertedKeeps ==
    ASSUME installed \in [Ids -> Hooks \cup {NoHook}], NEW table \in SavedTables
    PROVE  Upserted(table) \in SavedTables /\ Keeps(table, Upserted(table))
<1>1. ASSUME NEW r \in Ids
      PROVE  /\ Upserted(table)[r] \in SavedRows
             /\ Exists(table, r) => Exists(Upserted(table), r)
  <2>1. CASE \E i \in Installed : table[r].id = i /\ Exists(table, r)
    <3>1. Upserted(table)[r] = [hook |-> installed[table[r].id], id |-> table[r].id, active |-> TRUE]
      BY <2>1 DEF Upserted
    <3>2. table[r].id \in Ids /\ installed[table[r].id] \in Hooks
      BY <2>1 DEF Installed
    <3> QED BY <3>1, <3>2, RowsAre DEF Exists
  <2>2. CASE ~(\E i \in Installed : table[r].id = i /\ Exists(table, r))
             /\ r \in Installed /\ RowsOf(table, r) = {}
    <3>1. Upserted(table)[r] = [hook |-> installed[r], id |-> r, active |-> TRUE]
      BY <2>2 DEF Upserted
    <3>2. installed[r] \in Hooks
      BY <2>2 DEF Installed
    <3> QED BY <3>1, <3>2, RowsAre DEF Exists
  <2>3. CASE ~(\E i \in Installed : table[r].id = i /\ Exists(table, r))
             /\ ~(r \in Installed /\ RowsOf(table, r) = {})
    <3>1. Upserted(table)[r] = table[r]
      BY <2>3 DEF Upserted
    <3> QED BY <3>1 DEF Exists, SavedTables
  <2> QED BY <2>1, <2>2, <2>3
<1>2. Upserted(table) = [r \in Ids |-> Upserted(table)[r]]
  BY DEF Upserted
<1> QED BY <1>1, <1>2 DEF SavedTables, Keeps

\* Marking a webhook's rows leaves every row.
LEMMA DisabledKeeps ==
    ASSUME NEW table \in SavedTables, NEW i \in Ids
    PROVE  Disabled(table, i) \in SavedTables /\ Keeps(table, Disabled(table, i))
<1>1. ASSUME NEW r \in Ids
      PROVE  /\ Disabled(table, i)[r] \in SavedRows
             /\ Exists(table, r) => Exists(Disabled(table, i), r)
  <2>1. CASE r \in RowsOf(table, i)
    <3>1. Disabled(table, i)[r] = [hook |-> table[r].hook, id |-> i, active |-> FALSE]
      BY <2>1 DEF Disabled
    <3>2. table[r] \in SavedRows /\ table[r] # NoRow
      BY <2>1 DEF RowsOf, Exists, SavedTables
    <3> QED BY <3>1, <3>2, RowsAre DEF Exists
  <2>2. CASE r \notin RowsOf(table, i)
    <3>1. Disabled(table, i)[r] = table[r]
      BY <2>2 DEF Disabled
    <3> QED BY <3>1 DEF Exists, SavedTables
  <2> QED BY <2>1, <2>2
<1>2. Disabled(table, i) = [r \in Ids |-> Disabled(table, i)[r]]
  BY DEF Disabled
<1> QED BY <1>1, <1>2 DEF SavedTables, Keeps

\* Request q goes on as w.
LEMMA HandlerMoves ==
    ASSUME HInv, NEW q \in Handlers, NEW w \in HookRequests, h' = [h EXCEPT ![q] = w],
           installed' \in [Ids -> Hooks \cup {NoHook}], nextId' \in 1..(MaxIds + 1),
           saved' \in SavedTables, Keeps(saved, saved'), UNCHANGED <<wanted, around>>,
           w.pc = "restore" => \A r \in w.todo : Exists(saved', r),
           \/ writer' = Nobody
           \/ writer' = q /\ w.pc = "save" /\ Keeps(saved', w.pend)
           \/ writer' = writer /\ writer # q /\ saved' = saved
    PROVE  HInv'
<1>1. h \in [Handlers -> HookRequests]
  BY DEF HInv, HooksTypeOK, HookRequests, SavedTables
<1>2. h' \in [Handlers -> HookRequests] /\ h'[q] = w /\ \A p \in Handlers \ {q} : h'[p] = h[p]
  BY <1>1
<1>3. writer' \in Handlers \cup {Nobody}
  BY DEF HInv, HooksTypeOK
<1>4. HooksTypeOK'
  BY <1>2, <1>3 DEF HInv, HooksTypeOK, HookRequests, SavedTables
<1>5. ASSUME NEW p \in Handlers, h'[p].pc = "restore", NEW r \in h'[p].todo
      PROVE  Exists(saved', r)
  <2>1. CASE p = q
    BY <1>2, <1>5, <2>1
  <2>2. CASE p # q
    <3>1. Exists(saved, r) /\ r \in Ids
      BY <1>1, <1>2, <1>5, <2>2 DEF HInv, HookRequests
    <3> QED BY <3>1 DEF Keeps
  <2> QED BY <2>1, <2>2
<1>6. writer' # Nobody => h'[writer'].pc = "save" /\ Keeps(saved', h'[writer'].pend)
  <2>1. CASE writer' = q
    BY <1>2, <2>1 DEF HInv
  <2>2. CASE writer' = writer /\ writer # q /\ saved' = saved /\ writer # Nobody
    <3>1. writer \in Handlers
      BY <2>2 DEF HInv, HooksTypeOK
    <3> QED BY <1>2, <2>2, <3>1 DEF HInv
  <2> QED BY <2>1, <2>2
<1> QED BY <1>4, <1>5, <1>6 DEF HInv

\* A request's parts have their types.
LEMMA HandlerFields ==
    ASSUME HInv, NEW q \in Handlers
    PROVE  /\ h[q] \in HookRequests /\ h[q].pend \in SavedTables /\ h[q].todo \in SUBSET Ids
           /\ \A todo \in SUBSET Ids, pend \in SavedTables :
                 [pc |-> h[q].pc, todo |-> todo, pend |-> pend] \in HookRequests
           /\ saved \in SavedTables /\ \A table \in SavedTables : Keeps(table, table)
<1>1. h[q] \in HookRequests
  BY DEF HInv, HooksTypeOK, HookRequests, SavedTables
<1> QED BY <1>1 DEF HookRequests, HInv, HooksTypeOK, SavedTables, Keeps

\* What is going to be committed has every saved row.
LEMMA SaveListH ==
    ASSUME HInv, NEW q \in Handlers, SaveList(q)
    PROVE  HInv'
<1>1. PICK w : w = [pc |-> "save", todo |-> Installed, pend |-> Upserted(saved)]
  OBVIOUS
<1>2. saved \in SavedTables /\ installed \in [Ids -> Hooks \cup {NoHook}]
  BY DEF HInv, HooksTypeOK, SavedTables
<1>3. Upserted(saved) \in SavedTables /\ Keeps(saved, Upserted(saved))
  BY <1>2, UpsertedKeeps
<1>4. w \in HookRequests /\ w.pend = Upserted(saved) /\ w.pc = "save"
  BY <1>1, <1>3 DEF HookRequests, Installed
<1>5. /\ h' = [h EXCEPT ![q] = w] /\ UNCHANGED <<installed, nextId, saved, wanted, around>>
      /\ writer' \in {Nobody, q}
  BY <1>1 DEF SaveList
<1>6. Keeps(saved, saved') /\ nextId' \in 1..(MaxIds + 1)
  BY <1>5 DEF Keeps, HInv, HooksTypeOK
<1>7. Keeps(saved', w.pend)
  BY <1>3, <1>4, <1>5
<1> QED BY <1>2, <1>4, <1>5, <1>6, <1>7, HandlerMoves

\* The request goes on to delete, having noted the last deletion or not.
LEMMA SaveDeleteH ==
    ASSUME HInv, NEW q \in Handlers, NEW i \in Ids, SaveDelete(q, i) \/ SaveDeleteError(q, i)
    PROVE  HInv'
<1>1. PICK pend : /\ pend \in {h[q].pend, Disabled(h[q].pend, i)}
                  /\ GoesOn(q, h[q].todo \ {i}, pend)
  BY DEF SaveDelete, SaveDeleteError
<1>2. PICK w : w = [pc |-> h[q].pc, todo |-> h[q].todo \ {i}, pend |-> pend]
  OBVIOUS
<1>3. /\ h' = [h EXCEPT ![q] = w] /\ h[q].pc = "save"
      /\ UNCHANGED <<nextId, saved, writer, wanted, around>>
      /\ installed' = installed \/ installed' = [installed EXCEPT ![i] = NoHook]
  BY <1>1, <1>2 DEF GoesOn, SaveDelete, SaveDeleteError
<1>4. pend \in SavedTables /\ Keeps(h[q].pend, pend)
  BY <1>1, HandlerFields, DisabledKeeps
<1>5. w \in HookRequests /\ w.pc = "save" /\ w.pend = pend
  BY <1>2, <1>3, <1>4, HandlerFields
<1>6. /\ installed' \in [Ids -> Hooks \cup {NoHook}] /\ nextId' \in 1..(MaxIds + 1)
      /\ saved' \in SavedTables
  BY <1>3 DEF HInv, HooksTypeOK, SavedTables
<1>7. Keeps(saved, saved')
  BY <1>3 DEF Keeps
<1>8. writer = q => Keeps(saved', w.pend)
  BY <1>3, <1>4, <1>5, WebhooksAssumption DEF HInv, Keeps
<1> QED BY <1>3, <1>5, <1>6, <1>7, <1>8, HandlerMoves

\* A commit keeps the rows of the table.
LEMMA SaveCommitH ==
    ASSUME HInv, NEW q \in Handlers, SaveCommit(q)
    PROVE  HInv'
<1>1. /\ h' = [h EXCEPT ![q] = NoRequest] /\ UNCHANGED <<installed, nextId, wanted, around>>
      /\ saved' = IF writer = q THEN h[q].pend ELSE saved
      /\ writer' = IF writer = q THEN Nobody ELSE writer
  BY DEF SaveCommit
<1>2. saved' \in SavedTables /\ Keeps(saved, saved')
  BY <1>1, HandlerFields, WebhooksAssumption DEF HInv
<1>3. installed' \in [Ids -> Hooks \cup {NoHook}] /\ nextId' \in 1..(MaxIds + 1)
  BY <1>1 DEF HInv, HooksTypeOK
<1> QED BY <1>1, <1>2, <1>3, RowsAre, HandlerMoves

\* A request that restores does not hold the write lock.
LEMMA NotWriting ==
    ASSUME HInv, NEW q \in Handlers, h[q].pc # "save"
    PROVE  writer # q
BY WebhooksAssumption DEF HInv

\* The rows that are going to be restored are in the table.
LEMMA RestoreReadH ==
    ASSUME HInv, NEW q \in Handlers, RestoreRead(q)
    PROVE  HInv'
<1>1. PICK rows : rows = {r \in Ids : Exists(saved, r) /\ ~saved[r].active}
  OBVIOUS
<1>2. PICK w : w = [pc |-> "restore", todo |-> rows, pend |-> NoRows]
  OBVIOUS
<1>3. /\ h' = [h EXCEPT ![q] = w] /\ h[q].pc = "idle"
      /\ UNCHANGED <<installed, nextId, saved, writer, wanted, around>>
  BY <1>1, <1>2 DEF RestoreRead
<1>4. w \in HookRequests /\ w.todo = rows /\ w.pc = "restore"
  BY <1>1, <1>2, RowsAre DEF HookRequests
<1>5. \A r \in w.todo : Exists(saved', r)
  BY <1>1, <1>3, <1>4 DEF Exists
<1>6. /\ installed' \in [Ids -> Hooks \cup {NoHook}] /\ nextId' \in 1..(MaxIds + 1)
      /\ saved' \in SavedTables /\ Keeps(saved, saved')
  BY <1>3 DEF HInv, HooksTypeOK, SavedTables, Keeps
<1>7. writer # q
  BY <1>3, NotWriting
<1> QED BY <1>3, <1>4, <1>5, <1>6, <1>7, HandlerMoves

\* A row was restored, once or twice, or not.
LEMMA RestoreH ==
    ASSUME HInv, NEW q \in Handlers, NEW r \in Ids,
           RestoreCreate(q, r) \/ RestoreCreateTwice(q, r) \/ RestoreError(q, r)
    PROVE  HInv'
<1>1. h[q].pc = "restore" /\ r \in h[q].todo /\ UNCHANGED <<saved, writer, wanted, around>>
  BY DEF RestoreCreate, RestoreCreateTwice, RestoreError
<1>2. saved[r] \in SavedRows /\ saved[r] # NoRow
  BY <1>1, HandlerFields DEF HInv, Exists, SavedTables
<1>3. PICK k : k = saved[r].hook
  OBVIOUS
<1>4. k \in Hooks
  BY <1>2, <1>3, RowsAre
<1>5. /\ nextId \in Nat /\ MaxIds \in Nat /\ installed \in [Ids -> Hooks \cup {NoHook}]
      /\ nextId \in 1..(MaxIds + 1)
  BY WebhooksAssumption DEF HInv, HooksTypeOK
<1>6. /\ installed' \in [Ids -> Hooks \cup {NoHook}] /\ nextId' \in 1..(MaxIds + 1)
      /\ \E pend \in SavedTables : GoesOn(q, h[q].todo \ {r}, pend)
  <2>1. CASE RestoreCreate(q, r)
    <3>1. PICK row : row = [hook |-> k, id |-> nextId, active |-> TRUE]
      OBVIOUS
    <3>2. nextId \in Ids /\ row \in SavedRows
      BY <1>4, <2>1, <3>1, RowsAre DEF RestoreCreate
    <3>3. [h[q].pend EXCEPT ![r] = row] \in SavedTables
      BY <3>2, HandlerFields DEF SavedTables
    <3>4. /\ installed' = [installed EXCEPT ![nextId] = k] /\ nextId' = nextId + 1
          /\ GoesOn(q, h[q].todo \ {r}, [h[q].pend EXCEPT ![r] = row])
      BY <1>3, <2>1, <3>1 DEF RestoreCreate
    <3> QED BY <1>4, <1>5, <3>2, <3>3, <3>4 DEF Ids
  <2>2. CASE RestoreCreateTwice(q, r)
    <3>1. PICK row : row = [hook |-> k, id |-> nextId + 1, active |-> TRUE]
      OBVIOUS
    <3>2. nextId + 1 \in Ids /\ row \in SavedRows
      BY <1>4, <2>2, <3>1, RowsAre DEF RestoreCreateTwice
    <3>3. [h[q].pend EXCEPT ![r] = row] \in SavedTables
      BY <3>2, HandlerFields DEF SavedTables
    <3>4. /\ installed' = [installed EXCEPT ![nextId] = k, ![nextId + 1] = k]
          /\ nextId' = nextId + 2
          /\ GoesOn(q, h[q].todo \ {r}, [h[q].pend EXCEPT ![r] = row])
      BY <1>3, <2>2, <3>1 DEF RestoreCreateTwice
    <3> QED BY <1>4, <1>5, <3>2, <3>3, <3>4 DEF Ids
  <2>3. CASE RestoreError(q, r)
    BY <1>5, <2>3, HandlerFields DEF RestoreError
  <2> QED BY <2>1, <2>2, <2>3
<1>7. PICK pend \in SavedTables : GoesOn(q, h[q].todo \ {r}, pend)
  BY <1>6
<1>8. PICK w : w = [pc |-> h[q].pc, todo |-> h[q].todo \ {r}, pend |-> pend]
  OBVIOUS
<1>9. w \in HookRequests /\ w.pc = "restore" /\ w.todo = h[q].todo \ {r}
  BY <1>1, <1>7, <1>8, HandlerFields
<1>10. h' = [h EXCEPT ![q] = w]
  BY <1>7, <1>8 DEF GoesOn
<1>11. \A s \in w.todo : Exists(saved', s)
  BY <1>1, <1>9 DEF HInv, Exists
<1>12. saved' \in SavedTables /\ Keeps(saved, saved') /\ writer # q
  BY <1>1, HandlerFields, NotWriting DEF Keeps
<1> QED BY <1>1, <1>6, <1>9, <1>10, <1>11, <1>12, HandlerMoves

\* A restore ends, and its rows are committed over those of the table.
LEMMA RestoreEndsH ==
    ASSUME HInv, NEW q \in Handlers, RestoreCommit(q) \/ RestoreLockedOut(q)
    PROVE  HInv'
<1>1. /\ h' = [h EXCEPT ![q] = NoRequest] /\ h[q].pc = "restore"
      /\ UNCHANGED <<installed, nextId, writer, wanted, around>>
  BY DEF RestoreCommit, RestoreLockedOut
<1>2. writer # q
  BY <1>1, NotWriting
<1>3. installed' \in [Ids -> Hooks \cup {NoHook}] /\ nextId' \in 1..(MaxIds + 1)
  BY <1>1 DEF HInv, HooksTypeOK
<1>4. CASE RestoreCommit(q)
  <2>1. saved' = [r \in Ids |-> IF Exists(h[q].pend, r) THEN h[q].pend[r] ELSE saved[r]]
        /\ writer = Nobody
    BY <1>4 DEF RestoreCommit
  <2>2. saved' \in SavedTables /\ Keeps(saved, saved')
    <3>1. h[q].pend \in SavedTables /\ saved \in SavedTables
      BY HandlerFields
    <3> QED BY <2>1, <3>1 DEF SavedTables, Keeps, Exists
  <2> QED BY <1>1, <1>3, <2>1, <2>2, RowsAre, HandlerMoves
<1>5. CASE RestoreLockedOut(q)
  <2>1. saved' = saved
    BY <1>5 DEF RestoreLockedOut
  <2>2. saved' \in SavedTables /\ Keeps(saved, saved')
    BY <2>1, HandlerFields
  <2> QED BY <1>1, <1>2, <1>3, <2>1, <2>2, RowsAre, HandlerMoves
<1> QED BY <1>4, <1>5

\* One webhook is deleted, and its row marked, or the server ends.
LEMMA SingleH ==
    ASSUME HInv, (\E i \in Ids : DeleteSingle(i)) \/ HooksCrash
    PROVE  HInv'
<1>1. saved \in SavedTables /\ h \in [Handlers -> HookRequests]
  BY DEF HInv, HooksTypeOK, HookRequests, SavedTables
<1>2. ASSUME NEW i \in Ids, DeleteSingle(i) PROVE HInv'
  <2>1. /\ installed' = [installed EXCEPT ![i] = NoHook] /\ UNCHANGED <<nextId, writer, h, around>>
        /\ saved' = saved \/ (writer = Nobody /\ saved' = Disabled(saved, i))
        /\ wanted' \subseteq wanted
    BY <1>2 DEF DeleteSingle
  <2>2. saved' \in SavedTables /\ Keeps(saved, saved')
    BY <1>1, <2>1, DisabledKeeps DEF Keeps
  <2>3. HooksTypeOK'
    BY <2>1, <2>2 DEF HInv, HooksTypeOK, SavedTables
  <2>4. \A q \in Handlers : h'[q].pc = "restore" => \A r \in h'[q].todo : Exists(saved', r)
    BY <1>1, <2>1, <2>2 DEF HInv, HookRequests, Keeps
  <2> QED BY <2>1, <2>3, <2>4 DEF HInv
<1>3. CASE HooksCrash
  <2>1. /\ UNCHANGED <<installed, nextId, saved, wanted, around>> /\ writer' = Nobody
        /\ h' = [q \in Handlers |-> NoRequest]
    BY <1>3 DEF HooksCrash
  <2>2. h' \in [Handlers -> HookRequests] /\ \A q \in Handlers : h'[q].pc = "idle"
    BY <2>1, RowsAre
  <2> QED BY <2>1, <2>2 DEF HInv, HooksTypeOK, HookRequests, SavedTables
<1> QED BY <1>2, <1>3

\* As many ids as webhooks have been handed out at first.
LEMMA InitH ==
    ASSUME HooksInit
    PROVE  HInv
<1>1. PICK there \in [Hooks -> BOOLEAN], first \in [Hooks -> Ids] :
        /\ \A x, y \in Hooks : x # y => first[x] # first[y]
        /\ wanted = {x \in Hooks : there[x]}
  BY DEF HooksInit
<1>2. /\ nextId = Cardinality(Hooks) + 1 /\ saved = NoRows /\ writer = Nobody
      /\ h = [q \in Handlers |-> NoRequest] /\ around \in Surroundings
  BY DEF HooksInit
<1>3. Cardinality(Hooks) \in Nat /\ Cardinality(Hooks) <= MaxIds /\ MaxIds \in Nat
  <2>1. first \in Injection(Hooks, Ids)
    BY <1>1 DEF Injection, IsInjective
  <2>2. IsFiniteSet(Ids) /\ Cardinality(Ids) = MaxIds
    <3>1. 1 \in Int /\ MaxIds \in Int /\ MaxIds \in Nat
      BY WebhooksAssumption
    <3>2. IsFiniteSet(1..MaxIds) /\ Cardinality(1..MaxIds) = IF 1 > MaxIds THEN 0 ELSE MaxIds - 1 + 1
      BY <3>1, FS_Interval
    <3> QED BY <3>1, <3>2 DEF Ids
  <2>3. Cardinality(Hooks) <= Cardinality(Ids)
    BY <2>1, <2>2, FS_Injection
  <2> QED BY <2>2, <2>3, WebhooksAssumption, FS_CardinalityType
<1>4. nextId \in 1..(MaxIds + 1)
  BY <1>2, <1>3
<1>5. installed \in [Ids -> Hooks \cup {NoHook}]
  BY InitA DEF AInv
<1>6. HooksTypeOK
  <2>1. h \in [Handlers -> HookRequests] /\ saved \in SavedTables
    BY <1>2, RowsAre
  <2> QED BY <1>1, <1>2, <1>4, <1>5, <2>1 DEF HooksTypeOK, HookRequests, SavedTables
<1>7. \A q \in Handlers : h[q].pc = "idle"
  BY <1>2, RowsAre
<1> QED BY <1>2, <1>6, <1>7 DEF HInv

\* Every step keeps the types.
LEMMA NextH ==
    ASSUME HInv, [HooksNext]_hookVars
    PROVE  HInv'
<1>1. ASSUME NEW q \in Handlers, HookRequest(q) PROVE HInv'
  BY <1>1, SaveListH, SaveDeleteH, SaveCommitH, RestoreReadH, RestoreH, RestoreEndsH
     DEF HookRequest
<1>2. CASE (\E i \in Ids : DeleteSingle(i)) \/ HooksCrash
  BY <1>2, SingleH
<1>3. CASE UNCHANGED hookVars
  BY <1>3 DEF hookVars, HInv, HooksTypeOK, Keeps, Exists
<1> QED BY <1>1, <1>2, <1>3 DEF HooksNext

\* routes.py:2829-3016: Shopify, the table and the requests keep their types, for
\* any webhooks, ids and requests, whatever goes wrong.
THEOREM HooksTypeCorrect == HooksSpec => []HooksTypeOK
<1>1. HInv => HooksTypeOK
  BY DEF HInv
<1> QED BY <1>1, InitH, NextH, PTL DEF HooksSpec
=============================================================================
