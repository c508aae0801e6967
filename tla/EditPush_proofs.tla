-------------------------- MODULE EditPush_proofs --------------------------
(***************************************************************************)
(* Proofs about EditPush: for any pages, stores, labels, variants and      *)
(* number of pushes, with failing calls and stores, others' writes and     *)
(* restarts, a push accounts for every change once, drops no edit that it  *)
(* has not made, and leaves what its edits are not about alone.            *)
(***************************************************************************)
EXTENDS EditPush, FiniteSetTheorems, TLAPS

Worth == Values \cup (SUBSET Labels) \cup {Gone}
ChangeSet == {ch \in [cell : Cells, old : Worth, new : Worth] :
    ch.new \in Offered(ch.cell) /\ (ch.cell[2] \in Lists => ch.old \subseteq Labels)}
ResultSet == [cell : Cells, status : {"ok", "error", "skipped"}]

ExecRecs ==
    [running : BOOLEAN, finished : BOOLEAN, done : Nat, total : Nat, ok : Nat, errors : Nat,
     skipped : Nat, results : SUBSET ResultSet, asked : SUBSET ChangeSet]
JobRecs ==
    [at : {"idle", "stores", "connect", "next", "get", "put", "collections"},
     todo : SUBSET ChangeSet, store : Stores \cup {None}, out : SUBSET ResultSet,
     saw : Product \cup {None}, txn : ChangeSet \cup {None},
     add : SUBSET Labels, remove : SUBSET Labels, due : SUBSET Labels]

Typed ==
    /\ scope \in Scopes
    /\ live \in [Stores -> Product] /\ scanned \in [Stores -> Product]
    /\ edits \in [Pages -> [Cells -> Worth \cup {None}]]
    /\ \A p \in Pages, c \in Cells : edits[p][c] \in Offered(c) \cup {None}
    /\ poll \subseteq Pages /\ meddled \subseteq Pages
    /\ exec \in ExecRecs /\ job \in JobRecs
    /\ writes \in 0..MaxWrites /\ pushes \in 0..MaxPushes

\* The job is where its locals are of use.
Placed(j) ==
    /\ j.at = "idle" => j.todo = {}
    /\ j.at \in {"idle", "stores", "connect"} => j.out = {}
    /\ j.at \notin {"idle", "stores"} => j.store \in Stores
    /\ j.at \in {"get", "put", "collections"} => j.txn \in ChangeSet \ j.todo
    /\ j.at = "get" => j.txn.cell[2] \in {"tags", "price"}
    /\ j.at = "put" => /\ j.txn.cell[2] \in {"title", "tags", "price"}
                       /\ j.txn.cell[2] # "title" => j.saw \in Product
    /\ j.at = "collections" => /\ j.txn.cell[2] = "collections"
                               /\ j.add \subseteq Adds(j.txn) /\ j.remove \subseteq Removes(j.txn)

\* What is not decided yet.
Left(j) == j.todo \cup (IF j.at \in {"get", "put", "collections"} THEN {j.txn} ELSE {})

With(R, status) == {x \in R : x.status = status}

\* The accounts of a push: every change that was asked for is left or has one
\* result, and the counters count results.
Accounts(e, left, out, raises) ==
    LET R == e.results \cup out IN
    /\ IsFiniteSet(e.asked) /\ IsFiniteSet(R)
    /\ \A a, b \in e.asked : a.cell = b.cell => a = b
    /\ left \subseteq {ch \in e.asked : Pushable(ch)}
    /\ \A x \in R : \E ch \in e.asked \ left : x.cell = ch.cell
    /\ \A ch \in e.asked \ left : \E x \in R : x.cell = ch.cell
    /\ \A x, y \in R : x.cell = y.cell => x = y
    /\ e.skipped + e.total = Cardinality(e.asked)
    /\ e.ok = Cardinality(With(R, "ok"))
    /\ e.ok + e.errors = e.done
    /\ e.done + Cardinality(left) <= e.total
    /\ ~raises => e.done + Cardinality(left) = e.total /\ e.errors = Cardinality(With(R, "error"))

\* An "ok" is reported of what has been applied.
Honest == \A x \in exec.results \cup job.out : x.status = "ok" =>
             \E ch \in exec.asked : ch.cell = x.cell /\ Applied(ch) \in applied

\* A page that waits for its own push has the edits that were asked for.
Waits == \A p \in poll \ meddled : exec = NotExecuting \/ exec.asked = Changes(p)

EInv ==
    /\ Typed /\ Placed(job)
    /\ exec.running <=> job.at # "idle"
    /\ exec.running => ~exec.finished
    /\ Accounts(exec, Left(job), job.out, "raise" \in Env)
    /\ Honest /\ Waits

-----------------------------------------------------------------------------
(* Accounts *)

\* What is staged in a page is one change for a cell.
LEMMA ChangesTyped ==
    ASSUME Typed, NEW p \in Pages
    PROVE  /\ Changes(p) \subseteq ChangeSet /\ IsFiniteSet(Changes(p))
           /\ \A a, b \in Changes(p) : a.cell = b.cell => a = b
<1> DEFINE S == {c \in Cells : edits[p][c] # None}
           change(c) == [cell |-> c, old |-> Cell(scanned[c[1]], c), new |-> edits[p][c]]
<1>1. Changes(p) = {change(c) : c \in S}
  BY DEF Changes
<1>2. ASSUME NEW c \in Cells PROVE Cell(scanned[c[1]], c) \in Worth
  <2>1. scanned[c[1]] \in Product
    BY DEF Typed, Cells
  <2>2. CASE c \in Stores \X {"price"} \X Variants
    <3>1. c[1] \in Stores /\ c[2] = "price" /\ c[3] \in Variants
      BY <2>2
    <3>2. scanned[c[1]].price[c[3]] \in Values \cup {Gone}
      BY <2>1, <3>1 DEF Product
    <3>3. Cell(scanned[c[1]], c) = scanned[c[1]].price[c[3]]
      BY <3>1, Zenon DEF Cell
    <3> QED BY <3>2, <3>3 DEF Worth
  <2>3. CASE c \in Stores \X (Lists \cup {"title", "category"}) \X {None}
    BY <2>1, <2>3 DEF Cell, Product, Worth, Lists
  <2> QED BY <2>2, <2>3 DEF Cells
<1>3. Changes(p) \subseteq ChangeSet
  <2>1. ASSUME NEW c \in S PROVE change(c) \in ChangeSet
    <3>1. edits[p][c] \in Worth /\ edits[p][c] \in Offered(c)
      BY DEF Typed, Offered, Worth, Lists
    <3>2. ASSUME c[2] \in Lists PROVE Cell(scanned[c[1]], c) \subseteq Labels
      <4>1. scanned[c[1]] \in Product
        BY DEF Typed, Cells
      <4> QED BY <3>2, <4>1 DEF Cell, Product, Lists
    <3> QED BY <1>2, <3>1, <3>2 DEF ChangeSet
  <2> QED BY <1>1, <2>1
<1>4. IsFiniteSet(S)
  BY EditPushAssumption, FS_Subset
<1>5. IsFiniteSet(Changes(p))
  <2> DEFINE f == [c \in S |-> change(c)]
  <2>1. f \in Surjection(S, Changes(p))
    BY <1>1 DEF Surjection
  <2> QED BY <1>4, <2>1, FS_Surjection
<1>6. \A a, b \in Changes(p) : a.cell = b.cell => a = b
  BY <1>1
<1> QED BY <1>3, <1>5, <1>6

LEMMA DisjointSum ==
    ASSUME NEW S, NEW T, IsFiniteSet(S), IsFiniteSet(T), S \cap T = {}
    PROVE  IsFiniteSet(S \cup T) /\ Cardinality(S \cup T) = Cardinality(S) + Cardinality(T)
<1>1. Cardinality(S \cup T) = Cardinality(S) + Cardinality(T) - 0 /\ IsFiniteSet(S \cup T)
  BY FS_Union, FS_EmptySet
<1>2. Cardinality(S) \in Nat /\ Cardinality(T) \in Nat
  BY FS_CardinalityType
<1> QED BY <1>1, <1>2

ResultsOf(F, status) == {Result(ch.cell, status) : ch \in F}

\* As many results as changes, if each has one of its own.
LEMMA ResultsCounted ==
    ASSUME NEW F, IsFiniteSet(F), \A a, b \in F : a.cell = b.cell => a = b, NEW status,
           NEW R, R = ResultsOf(F, status)
    PROVE  /\ IsFiniteSet(R) /\ Cardinality(R) = Cardinality(F)
           /\ \A x, y \in R : x.cell = y.cell => x = y
           /\ \A x \in R : x.status = status /\ \E ch \in F : x.cell = ch.cell
           /\ \A ch \in F : \E x \in R : x.cell = ch.cell
<1> DEFINE f == [ch \in F |-> Result(ch.cell, status)]
<1>1. f \in Bijection(F, R)
  <2>1. f \in Surjection(F, R)
    BY DEF Surjection, ResultsOf
  <2>2. f \in Injection(F, R)
    <3>1. f \in [F -> R]
      BY DEF ResultsOf
    <3>2. ASSUME NEW a \in F, NEW b \in F, f[a] = f[b] PROVE a = b
      <4>1. Result(a.cell, status) = Result(b.cell, status)
        BY <3>2
      <4>2. a.cell = b.cell
        BY <4>1 DEF Result
      <4> QED BY <4>2
    <3> HIDE DEF f
    <3> QED BY <3>1, <3>2 DEF Injection, IsInjective
  <2> QED BY <2>1, <2>2 DEF Bijection
<1>2. ExistsBijection(F, R)
  BY <1>1 DEF ExistsBijection
<1>3. ASSUME NEW x \in R, NEW y \in R, x.cell = y.cell PROVE x = y /\ x.status = status
  <2>1. PICK a \in F, b \in F : x = Result(a.cell, status) /\ y = Result(b.cell, status)
    BY DEF ResultsOf
  <2> QED BY <1>3, <2>1 DEF Result
<1>4. \A x \in R : x.status = status /\ \E ch \in F : x.cell = ch.cell
  BY DEF Result, ResultsOf
<1>5. ASSUME NEW ch \in F PROVE \E x \in R : x.cell = ch.cell
  <2>1. Result(ch.cell, status) \in R /\ Result(ch.cell, status).cell = ch.cell
    BY DEF Result, ResultsOf
  <2> QED BY <2>1
<1> QED BY <1>2, <1>3, <1>4, <1>5, FS_Bijection

\* A push begins: what cannot be pushed is skipped, the rest is left.
LEMMA AccountsBegin ==
    ASSUME NEW asked, IsFiniteSet(asked), \A a, b \in asked : a.cell = b.cell => a = b,
           NEW push, push = {ch \in asked : Pushable(ch)},
           NEW e, e.asked = asked, e.results = {Result(ch.cell, "skipped") : ch \in asked \ push},
           e.done = 0, e.ok = 0, e.errors = 0, e.total = Cardinality(push),
           e.skipped = Cardinality(e.results), NEW raises
    PROVE  Accounts(e, push, {}, raises)
<1>1. IsFiniteSet(asked \ push) /\ IsFiniteSet(push)
  BY FS_Subset
<1>2. /\ IsFiniteSet(e.results) /\ e.skipped = Cardinality(asked \ push)
      /\ \A x, y \in e.results : x.cell = y.cell => x = y
      /\ \A x \in e.results : x.status = "skipped" /\ \E ch \in asked \ push : x.cell = ch.cell
      /\ \A ch \in asked \ push : \E x \in e.results : x.cell = ch.cell
  <2>1. PICK F : F = asked \ push
    OBVIOUS
  <2>2. \A a, b \in F : a.cell = b.cell => a = b
    BY <2>1
  <2>3. PICK R : R = ResultsOf(F, "skipped")
    OBVIOUS
  <2>4. /\ IsFiniteSet(R) /\ Cardinality(R) = Cardinality(F)
        /\ \A x, y \in R : x.cell = y.cell => x = y
        /\ \A x \in R : x.status = "skipped" /\ \E ch \in F : x.cell = ch.cell
        /\ \A ch \in F : \E x \in R : x.cell = ch.cell
    <3>1. IsFiniteSet(F)
      BY <1>1, <2>1
    <3> QED BY <2>2, <2>3, <3>1, ResultsCounted
  <2>5. R = e.results
    BY <2>1, <2>3 DEF ResultsOf
  <2> QED BY <2>1, <2>4, <2>5
<1>3. Cardinality(asked) = Cardinality(asked \ push) + Cardinality(push)
  <2>1. asked = (asked \ push) \cup push /\ (asked \ push) \cap push = {}
    OBVIOUS
  <2> QED BY <1>1, <2>1, DisjointSum
<1>4. Cardinality(push) \in Nat /\ Cardinality(asked \ push) \in Nat
  BY <1>1, FS_CardinalityType
<1>5. With(e.results \cup {}, "ok") = {} /\ With(e.results \cup {}, "error") = {}
  BY <1>2 DEF With
<1>9. e.skipped + e.total = Cardinality(e.asked)
  BY <1>2, <1>3, <1>4
<1>10. Cardinality({}) = 0
  BY FS_EmptySet
<1>11. e.results \cup {} = e.results
  OBVIOUS
<1>12. Cardinality(With(e.results, "ok")) = 0 /\ Cardinality(With(e.results, "error")) = 0
  BY <1>5, <1>10, <1>11
<1>13. push \subseteq {ch \in e.asked : Pushable(ch)}
  OBVIOUS
<1>14. e.ok = 0 /\ e.ok + e.errors = e.done /\ e.done + Cardinality(push) = e.total /\ e.total <= e.total
  BY <1>4
<1> QED BY <1>2, <1>9, <1>11, <1>12, <1>13, <1>14 DEF Accounts

\* A change that was left gets its result.
LEMMA AccountsEnd ==
    ASSUME NEW e \in ExecRecs, NEW left, NEW out, NEW raises, Accounts(e, left, out, raises),
           NEW ch \in left, NEW status \in {"ok", "error"}, NEW e2,
           e2.asked = e.asked, e2.results = e.results, e2.total = e.total, e2.skipped = e.skipped,
           e2.done = e.done + 1,
           e2.ok = IF status = "ok" THEN e.ok + 1 ELSE e.ok,
           e2.errors = IF status = "error" THEN e.errors + 1 ELSE e.errors
    PROVE  Accounts(e2, left \ {ch}, out \cup {Result(ch.cell, status)}, raises)
<1> DEFINE R == e.results \cup out
           x == Result(ch.cell, status)
           R2 == e2.results \cup (out \cup {x})
<1>1. R2 = R \cup {x} /\ x.cell = ch.cell /\ x.status = status
  BY DEF Result
<1>2. /\ IsFiniteSet(e.asked) /\ IsFiniteSet(R)
      /\ \A a, b \in e.asked : a.cell = b.cell => a = b
      /\ left \subseteq {c \in e.asked : Pushable(c)}
      /\ \A y \in R : \E c \in e.asked \ left : y.cell = c.cell
      /\ \A c \in e.asked \ left : \E y \in R : y.cell = c.cell
      /\ \A y, z \in R : y.cell = z.cell => y = z
      /\ e.skipped + e.total = Cardinality(e.asked)
      /\ e.ok = Cardinality(With(R, "ok"))
      /\ e.ok + e.errors = e.done
      /\ e.done + Cardinality(left) <= e.total
      /\ ~raises => e.done + Cardinality(left) = e.total /\ e.errors = Cardinality(With(R, "error"))
  BY DEF Accounts
<1> HIDE DEF R, x, R2
<1>3. ch \in e.asked /\ \A y \in R : y.cell # ch.cell
  BY <1>2
<1>4. \A y \in R2 : \E c \in e2.asked \ (left \ {ch}) : y.cell = c.cell
  BY <1>1, <1>2, <1>3
<1>5. \A c \in e2.asked \ (left \ {ch}) : \E y \in R2 : y.cell = c.cell
  BY <1>1, <1>2
<1>6. \A y, z \in R2 : y.cell = z.cell => y = z
  BY <1>1, <1>2, <1>3
<1>7. IsFiniteSet(R2) /\ x \notin R
  BY <1>1, <1>2, <1>3, FS_AddElement
<1>8. \A s : /\ IsFiniteSet(With(R, s)) /\ x \notin With(R, s)
             /\ With(R2, s) = IF s = status THEN With(R, s) \cup {x} ELSE With(R, s)
  <2>1. ASSUME NEW s PROVE IsFiniteSet(With(R, s))
    <3>1. With(R, s) \subseteq R
      BY DEF With
    <3> QED BY <1>2, <3>1, FS_Subset
  <2> QED BY <1>1, <1>7, <2>1 DEF With
<1>9. \A s : Cardinality(With(R2, s)) =
               IF s = status THEN Cardinality(With(R, s)) + 1 ELSE Cardinality(With(R, s))
  BY <1>8, FS_AddElement
<1>10. IsFiniteSet(left) /\ Cardinality(left) \in Nat /\ Cardinality(left \ {ch}) = Cardinality(left) - 1
  <2>1. left \subseteq e.asked
    BY <1>2
  <2> QED BY <1>2, <2>1, FS_Subset, FS_CardinalityType, FS_RemoveElement
<1>11. e.done \in Nat /\ e.ok \in Nat /\ e.errors \in Nat /\ e.total \in Nat
  BY DEF ExecRecs
<1>12. e2.ok = Cardinality(With(R2, "ok")) /\ e2.ok + e2.errors = e2.done
  BY <1>2, <1>9, <1>11
<1>13. e2.done + Cardinality(left \ {ch}) = e.done + Cardinality(left)
  BY <1>10, <1>11
<1>14. ~raises => e2.errors = Cardinality(With(R2, "error"))
  BY <1>2, <1>9
<1>15. left \ {ch} \subseteq {c \in e2.asked : Pushable(c)}
  BY <1>2
<1> QED BY <1>2, <1>4, <1>5, <1>6, <1>7, <1>12, <1>13, <1>14, <1>15 DEF Accounts, R2, x

\* A store fails as a whole: its changes become errors, counted or, if the
\* executor raised, not.
LEMMA AccountsFail ==
    ASSUME NEW e \in ExecRecs, NEW left, NEW raises, Accounts(e, left, {}, raises),
           NEW F \in SUBSET left, NEW failed, failed = {Result(ch.cell, "error") : ch \in F},
           NEW e2, e2.asked = e.asked, e2.results = e.results \cup failed, e2.ok = e.ok,
           e2.total = e.total, e2.skipped = e.skipped,
           \/ e2.done = e.done + Cardinality(failed) /\ e2.errors = e.errors + Cardinality(failed)
           \/ raises /\ e2.done = e.done /\ e2.errors = e.errors
    PROVE  Accounts(e2, left \ F, {}, raises)
<1> DEFINE R == e.results \cup {}
           R2 == e2.results \cup {}
<1>1. R2 = R \cup failed
  OBVIOUS
<1>2. /\ IsFiniteSet(e.asked) /\ IsFiniteSet(R)
      /\ \A a, b \in e.asked : a.cell = b.cell => a = b
      /\ left \subseteq {c \in e.asked : Pushable(c)}
      /\ \A y \in R : \E c \in e.asked \ left : y.cell = c.cell
      /\ \A c \in e.asked \ left : \E y \in R : y.cell = c.cell
      /\ \A y, z \in R : y.cell = z.cell => y = z
      /\ e.skipped + e.total = Cardinality(e.asked)
      /\ e.ok = Cardinality(With(R, "ok"))
      /\ e.ok + e.errors = e.done
      /\ e.done + Cardinality(left) <= e.total
      /\ ~raises => e.done + Cardinality(left) = e.total /\ e.errors = Cardinality(With(R, "error"))
  BY DEF Accounts
<1> HIDE DEF R, R2
<1>3. F \subseteq e.asked /\ IsFiniteSet(left) /\ IsFiniteSet(F)
  <2>1. left \subseteq e.asked /\ F \subseteq left
    BY <1>2
  <2> QED BY <1>2, <2>1, FS_Subset
<1>4. /\ IsFiniteSet(failed) /\ Cardinality(failed) = Cardinality(F)
      /\ \A y, z \in failed : y.cell = z.cell => y = z
      /\ \A x \in failed : x.status = "error" /\ \E ch \in F : x.cell = ch.cell
      /\ \A ch \in F : \E x \in failed : x.cell = ch.cell
  <2>1. \A a, b \in F : a.cell = b.cell => a = b
    BY <1>2, <1>3
  <2>2. PICK R0 : R0 = ResultsOf(F, "error")
    OBVIOUS
  <2>3. /\ IsFiniteSet(R0) /\ Cardinality(R0) = Cardinality(F)
        /\ \A y, z \in R0 : y.cell = z.cell => y = z
        /\ \A x \in R0 : x.status = "error" /\ \E ch \in F : x.cell = ch.cell
        /\ \A ch \in F : \E x \in R0 : x.cell = ch.cell
    <3>1. IsFiniteSet(F)
      BY <1>3
    <3> QED BY <2>1, <2>2, <3>1, ResultsCounted
  <2>4. R0 = failed
    BY <2>2 DEF ResultsOf
  <2> QED BY <2>3, <2>4
<1>5. \A x \in failed, y \in R : x.cell # y.cell
  BY <1>2, <1>3, <1>4
<1>6. R \cap failed = {} /\ IsFiniteSet(R2)
  BY <1>1, <1>2, <1>4, <1>5, FS_Union
<1>7. \A y \in R2 : \E c \in e2.asked \ (left \ F) : y.cell = c.cell
  BY <1>1, <1>2, <1>3, <1>4
<1>8. \A c \in e2.asked \ (left \ F) : \E y \in R2 : y.cell = c.cell
  <2>1. ASSUME NEW c \in F PROVE \E y \in R2 : y.cell = c.cell
    BY <1>1, <1>4
  <2>2. ASSUME NEW c \in e.asked \ left PROVE \E y \in R2 : y.cell = c.cell
    BY <1>1, <1>2
  <2> QED BY <2>1, <2>2
<1>9. \A y, z \in R2 : y.cell = z.cell => y = z
  BY <1>1, <1>2, <1>4, <1>5
<1>10. With(R2, "ok") = With(R, "ok") /\ With(R2, "error") = With(R, "error") \cup failed
  BY <1>1, <1>4 DEF With
<1>11. Cardinality(With(R2, "error")) = Cardinality(With(R, "error")) + Cardinality(F)
  <2>1. IsFiniteSet(With(R, "error")) /\ With(R, "error") \cap failed = {}
    <3>1. With(R, "error") \subseteq R
      BY DEF With
    <3> QED BY <1>2, <1>6, <3>1, FS_Subset
  <2>2. IsFiniteSet(failed) /\ Cardinality(failed) = Cardinality(F)
    BY <1>4
  <2>3. PICK E : E = With(R, "error")
    OBVIOUS
  <2>4. Cardinality(E \cup failed) = Cardinality(E) + Cardinality(failed)
    BY <2>1, <2>2, <2>3, DisjointSum
  <2> QED BY <1>10, <2>2, <2>3, <2>4
<1>12. Cardinality(left) = Cardinality(left \ F) + Cardinality(F)
  <2>1. left = (left \ F) \cup F /\ (left \ F) \cap F = {} /\ left \ F \subseteq left
    OBVIOUS
  <2> QED BY <1>3, <2>1, FS_Subset, DisjointSum
<1>13. Cardinality(left \ F) \in Nat /\ Cardinality(F) \in Nat
  <2>1. left \ F \subseteq left
    OBVIOUS
  <2> QED BY <1>3, <2>1, FS_Subset, FS_CardinalityType
<1>14. e.done \in Nat /\ e.ok \in Nat /\ e.errors \in Nat /\ e.total \in Nat
  BY DEF ExecRecs
<1>15. /\ e2.ok + e2.errors = e2.done /\ e2.done + Cardinality(left \ F) <= e2.total
       /\ ~raises => /\ e2.done + Cardinality(left \ F) = e2.total
                     /\ e2.errors = Cardinality(With(R, "error")) + Cardinality(F)
  <2>1. Cardinality(failed) = Cardinality(F)
    BY <1>4
  <2>2. /\ e.ok + e.errors = e.done /\ e.done + Cardinality(left) <= e.total
        /\ ~raises => e.done + Cardinality(left) = e.total /\ e.errors = Cardinality(With(R, "error"))
    BY <1>2
  <2>3. CASE e2.done = e.done + Cardinality(F) /\ e2.errors = e.errors + Cardinality(F)
    BY <1>12, <1>13, <1>14, <2>2, <2>3
  <2>4. CASE raises /\ e2.done = e.done /\ e2.errors = e.errors
    BY <1>12, <1>13, <1>14, <2>2, <2>4
  <2> QED BY <2>1, <2>3, <2>4
<1>16. ~raises => e2.done + Cardinality(left \ F) = e2.total /\ e2.errors = Cardinality(With(R2, "error"))
  BY <1>11, <1>15
<1>17. left \ F \subseteq {c \in e2.asked : Pushable(c)}
  BY <1>2
<1> QED BY <1>2, <1>6, <1>7, <1>8, <1>9, <1>10, <1>15, <1>16, <1>17 DEF Accounts, R2

-----------------------------------------------------------------------------
(* The pages *)

LEMMA IdleTyped ==
    /\ Idle \in JobRecs /\ Placed(Idle) /\ Left(Idle) = {} /\ Idle.at = "idle" /\ Idle.out = {}
    /\ NotExecuting \in ExecRecs /\ ~NotExecuting.running /\ ~NotExecuting.finished
    /\ NotExecuting.results = {} /\ NotExecuting.asked = {}
    /\ \A raises : Accounts(NotExecuting, {}, {}, raises)
<1>1. /\ Idle \in JobRecs /\ Placed(Idle) /\ Left(Idle) = {} /\ Idle.at = "idle" /\ Idle.out = {}
      /\ Idle.todo = {}
  BY DEF Idle, JobRecs, Placed, Left
<1>2. /\ NotExecuting \in ExecRecs /\ ~NotExecuting.running /\ ~NotExecuting.finished
      /\ NotExecuting.results = {} /\ NotExecuting.asked = {}
  BY DEF NotExecuting, ExecRecs
<1>3. \A raises : Accounts(NotExecuting, {}, {}, raises)
  <2>1. IsFiniteSet({}) /\ Cardinality({}) = 0
    BY FS_EmptySet
  <2>2. With({}, "ok") = {} /\ With({}, "error") = {}
    BY DEF With
  <2>3. {} \cup {} = {}
    OBVIOUS
  <2>4. /\ NotExecuting.done = 0 /\ NotExecuting.ok = 0 /\ NotExecuting.errors = 0
        /\ NotExecuting.total = 0 /\ NotExecuting.skipped = 0
    BY DEF NotExecuting
  <2> QED BY <1>2, <2>1, <2>2, <2>3, <2>4 DEF Accounts
<1> QED BY <1>1, <1>2, <1>3

LEMMA InitEInv ==
    ASSUME Init
    PROVE  EInv
<1>1. live \in [Stores -> Product] /\ scanned = live
  <2>1. PICK l \in Labels, v \in Values :
          live = [s \in Stores |-> [tags |-> {l}, collections |-> {l}, title |-> v, category |-> v,
                                    price |-> [x \in Variants |-> v]]]
    BY DEF Init
  <2>2. [tags |-> {l}, collections |-> {l}, title |-> v, category |-> v,
         price |-> [x \in Variants |-> v]] \in Product
    BY DEF Product
  <2> QED BY <2>1, <2>2 DEF Init
<1>2. edits \in [Pages -> [Cells -> Worth \cup {None}]] /\ \A p \in Pages, c \in Cells : edits[p][c] = None
  BY DEF Init
<1>3. exec = NotExecuting /\ job = Idle /\ poll = {} /\ meddled = {} /\ writes = 0 /\ pushes = 0
      /\ scope \in Scopes
  BY DEF Init
<1>4. Typed
  BY <1>1, <1>2, <1>3, IdleTyped, EditPushAssumption DEF Typed
<1> QED BY <1>3, <1>4, IdleTyped DEF EInv, Honest, Waits

\* A step that leaves the push and the scan alone.
LEMMA PushRests ==
    ASSUME EInv, Typed', UNCHANGED <<scope, exec, job, applied>>, Waits'
    PROVE  EInv'
<1>1. Placed(job)' /\ Left(job)' = Left(job)
  BY DEF EInv, Placed, Left
<1>2. Honest' = Honest
  BY DEF Honest
<1>3. ("raise" \in Env)' = ("raise" \in Env)
  BY DEF Env
<1>4. Accounts(exec, Left(job), job.out, "raise" \in Env)'
  BY <1>1, <1>3 DEF EInv, Accounts
<1> QED BY <1>1, <1>2, <1>4 DEF EInv

LEMMA StageKeeps ==
    ASSUME EInv, NEW p \in scope.pages, NEW c \in scope.cells, NEW v \in Offered(c), Stage(p, c, v)
    PROVE  EInv'
<1>1. p \in Pages /\ c \in Cells
  BY EditPushAssumption DEF EInv, Typed
<1>2. v \in Worth
  BY DEF Offered, Worth
<1>3. PICK w \in {v, None} : edits' = [edits EXCEPT ![p][c] = w]
  BY DEF Stage
<1>4. /\ edits' \in [Pages -> [Cells -> Worth \cup {None}]]
      /\ \A q \in Pages, d \in Cells : edits'[q][d] \in Offered(d) \cup {None}
      /\ \A q \in Pages \ {p} : edits'[q] = edits[q]
  <2>1. edits \in [Pages -> [Cells -> Worth \cup {None}]]
    BY DEF EInv, Typed
  <2>2. /\ edits' \in [Pages -> [Cells -> Worth \cup {None}]]
        /\ \A q \in Pages \ {p} : edits'[q] = edits[q]
        /\ \A d \in Cells : edits'[p][d] = IF d = c THEN w ELSE edits[p][d]
    BY <1>1, <1>2, <1>3, <2>1
  <2>3. ASSUME NEW q \in Pages, NEW d \in Cells PROVE edits'[q][d] \in Offered(d) \cup {None}
    <3>1. edits[q][d] \in Offered(d) \cup {None}
      BY DEF EInv, Typed
    <3> QED BY <2>2, <3>1
  <2> QED BY <2>2, <2>3
<1>5. Typed'
  BY <1>1, <1>4 DEF Stage, EInv, Typed
<1>6. Waits'
  <2>1. \A q \in poll' \ meddled' : q \in poll \ meddled /\ q \in Pages \ {p}
    BY DEF Stage, EInv, Typed
  <2>2. \A q \in Pages \ {p} : Changes(q)' = Changes(q)
    BY <1>4 DEF Stage, Changes
  <2>3. exec' = exec
    BY DEF Stage
  <2> QED BY <2>1, <2>2, <2>3 DEF EInv, Waits
<1> QED BY <1>5, <1>6, PushRests DEF Stage

LEMMA PollKeeps ==
    ASSUME EInv, NEW p \in scope.pages, Poll(p)
    PROVE  EInv'
<1>1. p \in Pages
  BY DEF Poll, EInv, Typed
<1>2. PICK e : e = [c \in Cells |-> IF Result(c, "ok") \in exec.results THEN None ELSE edits[p][c]]
  OBVIOUS
<1>3. edits' = [edits EXCEPT ![p] = e]
  BY <1>2 DEF Poll
<1>4. e \in [Cells -> Worth \cup {None}] /\ \A c \in Cells : e[c] \in Offered(c) \cup {None}
  BY <1>1, <1>2 DEF EInv, Typed
<1>5. /\ edits' \in [Pages -> [Cells -> Worth \cup {None}]]
      /\ \A q \in Pages \ {p} : edits'[q] = edits[q]
      /\ edits'[p] = e
  BY <1>1, <1>3, <1>4 DEF EInv, Typed
<1>6. Typed'
  <2>1. \A q \in Pages, c \in Cells : edits'[q][c] \in Offered(c) \cup {None}
    BY <1>4, <1>5 DEF EInv, Typed
  <2> QED BY <1>5, <2>1 DEF Poll, EInv, Typed
<1>7. Waits'
  <2>1. \A q \in poll' \ meddled' : q \in poll \ meddled /\ q \in Pages \ {p}
    BY DEF Poll, EInv, Typed
  <2>2. \A q \in Pages \ {p} : Changes(q)' = Changes(q)
    BY <1>5 DEF Poll, Changes
  <2>3. exec' = exec
    BY DEF Poll
  <2> QED BY <2>1, <2>2, <2>3 DEF EInv, Waits
<1> QED BY <1>6, <1>7, PushRests DEF Poll

\* A push begins.
LEMMA ExecuteKeeps ==
    ASSUME EInv, NEW p \in scope.pages, Execute(p)
    PROVE  EInv'
<1>1. p \in Pages
  BY EditPushAssumption DEF EInv, Typed
<1>2. PICK asked : asked = Changes(p)
  OBVIOUS
<1>3. /\ asked \subseteq ChangeSet /\ IsFiniteSet(asked)
      /\ \A a, b \in asked : a.cell = b.cell => a = b
  BY <1>1, <1>2, ChangesTyped DEF EInv
<1>4. PICK push : push = {ch \in asked : Pushable(ch)}
  OBVIOUS
<1>5. PICK skipped : skipped = {Result(ch.cell, "skipped") : ch \in asked \ push}
  OBVIOUS
<1>6. IsFiniteSet(push) /\ Cardinality(push) \in Nat
  BY <1>3, <1>4, FS_Subset, FS_CardinalityType
<1>7. PICK e : e = [NotExecuting EXCEPT !.running = TRUE, !.total = Cardinality(push),
                      !.skipped = Cardinality(skipped), !.results = skipped, !.asked = asked]
  OBVIOUS
<1>8. PICK j : j = [Idle EXCEPT !.at = "stores", !.todo = push]
  OBVIOUS
<1>9. exec' = e /\ job' = j
  BY <1>2, <1>4, <1>5, <1>7, <1>8 DEF Execute
<1>10. /\ e.asked = asked /\ e.results = skipped /\ e.done = 0 /\ e.ok = 0 /\ e.errors = 0
       /\ e.total = Cardinality(push) /\ e.skipped = Cardinality(skipped)
       /\ e.running /\ ~e.finished
  BY <1>7 DEF NotExecuting
<1>11. \A raises : Accounts(e, push, {}, raises)
  BY <1>3, <1>4, <1>5, <1>10, AccountsBegin
<1>12. skipped \subseteq ResultSet /\ \A x \in skipped : x.status = "skipped"
  BY <1>3, <1>5 DEF Result, ResultSet, ChangeSet
<1>13. Cardinality(skipped) \in Nat
  <2>1. IsFiniteSet(e.results \cup {})
    BY <1>11 DEF Accounts
  <2>2. e.results \cup {} = skipped
    BY <1>10
  <2> QED BY <2>1, <2>2, FS_CardinalityType
<1>14. e \in ExecRecs
  BY <1>3, <1>6, <1>7, <1>12, <1>13 DEF NotExecuting, ExecRecs
<1>15. j \in JobRecs /\ Placed(j) /\ Left(j) = push /\ j.out = {} /\ j.at = "stores"
  BY <1>3, <1>4, <1>8 DEF Idle, JobRecs, Placed, Left
<1>16. Typed'
  <2>1. pushes' \in 0..MaxPushes
    BY EditPushAssumption DEF Execute, EInv, Typed
  <2> QED BY <1>1, <1>9, <1>14, <1>15, <2>1 DEF Execute, EInv, Typed
<1>17. Waits'
  <2>1. \A q \in poll' \ meddled' : q = p
    BY DEF Execute
  <2>2. Changes(p)' = Changes(p)
    BY DEF Execute, Changes
  <2> QED BY <1>2, <1>9, <1>10, <2>1, <2>2 DEF Waits
<1>18. Honest'
  BY <1>9, <1>10, <1>12, <1>15 DEF Honest
<1>19. Accounts(exec, Left(job), job.out, "raise" \in Env)'
  BY <1>9, <1>11, <1>15
<1> QED BY <1>9, <1>10, <1>15, <1>16, <1>17, <1>18, <1>19 DEF EInv

\* Nothing can be pushed: all is skipped.
LEMMA NothingToPushKeeps ==
    ASSUME EInv, NEW p \in scope.pages, NothingToPush(p)
    PROVE  EInv'
<1>1. p \in Pages
  BY EditPushAssumption DEF EInv, Typed
<1>2. PICK asked : asked = Changes(p)
  OBVIOUS
<1>3. /\ asked \subseteq ChangeSet /\ IsFiniteSet(asked)
      /\ \A a, b \in asked : a.cell = b.cell => a = b
  BY <1>1, <1>2, ChangesTyped DEF EInv
<1>4. PICK push : push = {ch \in asked : Pushable(ch)}
  OBVIOUS
<1>5. PICK skipped : skipped = {Result(ch.cell, "skipped") : ch \in asked \ push}
  OBVIOUS
<1>6. push = {} /\ asked \ push = asked
  BY <1>2, <1>4 DEF NothingToPush
<1>7. PICK e : e = [NotExecuting EXCEPT !.finished = TRUE, !.skipped = Cardinality(asked),
                      !.results = skipped, !.asked = asked]
  OBVIOUS
<1>8. exec' = e
  BY <1>2, <1>5, <1>6, <1>7 DEF NothingToPush
<1>9. IsFiniteSet(skipped) /\ Cardinality(skipped) = Cardinality(asked)
  <2>1. PICK R0 : R0 = ResultsOf(asked, "skipped")
    OBVIOUS
  <2>2. IsFiniteSet(R0) /\ Cardinality(R0) = Cardinality(asked)
    BY <1>3, <2>1, ResultsCounted
  <2>3. R0 = skipped
    BY <1>5, <1>6, <2>1 DEF ResultsOf
  <2> QED BY <2>2, <2>3
<1>10. /\ e.asked = asked /\ e.results = skipped /\ e.done = 0 /\ e.ok = 0 /\ e.errors = 0
       /\ e.total = Cardinality(push) /\ e.skipped = Cardinality(skipped)
       /\ ~e.running /\ e.finished
  BY <1>6, <1>7, <1>9, FS_EmptySet DEF NotExecuting
<1>11. \A raises : Accounts(e, push, {}, raises)
  BY <1>3, <1>4, <1>5, <1>10, AccountsBegin
<1>12. skipped \subseteq ResultSet /\ \A x \in skipped : x.status = "skipped"
  BY <1>3, <1>5 DEF Result, ResultSet, ChangeSet
<1>13. e \in ExecRecs
  <2>1. Cardinality(asked) \in Nat
    BY <1>3, FS_CardinalityType
  <2> QED BY <1>3, <1>7, <1>12, <2>1 DEF NotExecuting, ExecRecs
<1>14. job' = job /\ job.at = "idle" /\ Placed(job) /\ Left(job) = {} /\ job.out = {}
  BY DEF NothingToPush, EInv, Placed, Left
<1>15. Typed'
  <2>1. pushes' \in 0..MaxPushes
    BY EditPushAssumption DEF NothingToPush, EInv, Typed
  <2> QED BY <1>8, <1>13, <1>14, <2>1 DEF NothingToPush, EInv, Typed
<1>16. Waits'
  BY DEF NothingToPush, Waits
<1>17. Honest'
  BY <1>8, <1>10, <1>12, <1>14 DEF Honest
<1>18. Accounts(exec, Left(job), job.out, "raise" \in Env)' /\ Placed(job)'
  BY <1>6, <1>8, <1>11, <1>14
<1> QED BY <1>8, <1>10, <1>14, <1>15, <1>16, <1>17, <1>18 DEF EInv

-----------------------------------------------------------------------------
(* The job *)

\* The job goes on to j, with the accounts e.
LEMMA JobSteps ==
    ASSUME EInv, NEW e \in ExecRecs, NEW j \in JobRecs, exec' = e, job' = j,
           exec.running, e.asked = exec.asked,
           Placed(j), e.running <=> j.at # "idle", e.running => ~e.finished,
           Accounts(e, Left(j), j.out, "raise" \in Env),
           live' \in [Stores -> Product], applied \subseteq applied', Running,
           \A x \in (e.results \cup j.out) \ (exec.results \cup job.out) : x.status = "ok" =>
               \E ch \in exec.asked : ch.cell = x.cell /\ Applied(ch) \in applied'
    PROVE  EInv'
<1>1. Typed'
  BY DEF Running, EInv, Typed
<1>2. Honest'
  BY DEF EInv, Honest
<1>3. Waits'
  <2>1. exec # NotExecuting
    BY IdleTyped
  <2>2. \A q \in Pages : Changes(q)' = Changes(q)
    BY DEF Running, Changes
  <2> QED BY <2>1, <2>2 DEF Running, EInv, Typed, Waits
<1>4. ("raise" \in Env)' = ("raise" \in Env)
  BY DEF Running, Env
<1>5. Accounts(exec, Left(job), job.out, "raise" \in Env)'
  BY <1>4
<1> QED BY <1>1, <1>2, <1>3, <1>5 DEF EInv

\* ... which are unchanged.
LEMMA JobMovesOn ==
    ASSUME EInv, NEW j \in JobRecs, job' = j, exec' = exec, job.at # "idle", j.at # "idle",
           Placed(j), Left(j) = Left(job), j.out = job.out,
           live' \in [Stores -> Product], applied' = applied, Running
    PROVE  EInv'
<1>1. exec \in ExecRecs /\ exec.running /\ ~exec.finished
  BY DEF EInv, Typed
<1>2. Accounts(exec, Left(j), j.out, "raise" \in Env)
  BY DEF EInv
<1> QED BY <1>1, <1>2, JobSteps

\* Where the job is when it is not idle.
LEMMA OfJob ==
    ASSUME EInv
    PROVE  /\ job \in JobRecs /\ Placed(job) /\ exec \in ExecRecs
           /\ live \in [Stores -> Product]
           /\ job.at # "idle" => exec.running /\ ~exec.finished
BY DEF EInv, Typed

LEMMA NextStoreKeeps ==
    ASSUME EInv, NEW s \in Stores, NextStore(s)
    PROVE  EInv'
<1>1. PICK j : j = [job EXCEPT !.at = "connect", !.store = s]
  OBVIOUS
<1>2. j \in JobRecs /\ Placed(j) /\ Left(j) = Left(job) /\ j.out = job.out /\ j.at = "connect"
  BY <1>1, OfJob DEF NextStore, JobRecs, Placed, Left
<1> QED BY <1>1, <1>2, OfJob, JobMovesOn DEF NextStore, Reading

LEMMA ConnectedKeeps ==
    ASSUME EInv, Connected
    PROVE  EInv'
<1>1. PICK j : j = [job EXCEPT !.at = "next"]
  OBVIOUS
<1>2. j \in JobRecs /\ Placed(j) /\ Left(j) = Left(job) /\ j.out = job.out /\ j.at = "next"
  BY <1>1, OfJob DEF Connected, JobRecs, Placed, Left
<1> QED BY <1>1, <1>2, OfJob, JobMovesOn DEF Connected, Reading

LEMMA GetKeeps ==
    ASSUME EInv, Get
    PROVE  EInv'
<1>1. PICK j : j = [job EXCEPT !.at = "put", !.saw = live[job.store]]
  OBVIOUS
<1>2. live[job.store] \in Product
  BY OfJob DEF Get, Placed
<1>3. j \in JobRecs /\ Placed(j) /\ Left(j) = Left(job) /\ j.out = job.out /\ j.at = "put"
  BY <1>1, <1>2, OfJob DEF Get, JobRecs, Placed, Left
<1> QED BY <1>1, <1>3, OfJob, JobMovesOn DEF Get, Reading

LEMMA NextTxnKeeps ==
    ASSUME EInv, NEW ch \in job.todo, NextTxn(ch)
    PROVE  EInv'
<1>1. PICK at : at = CASE ch.cell[2] = "collections" -> "collections"
                       [] ch.cell[2] = "title" -> "put"
                       [] OTHER -> "get"
  OBVIOUS
<1>2. PICK add, remove : /\ add = IF ch.cell[2] = "collections" THEN Adds(ch) ELSE {}
                         /\ remove = IF ch.cell[2] = "collections" THEN Removes(ch) ELSE {}
  OBVIOUS
<1>3. PICK j : j = [job EXCEPT !.txn = ch, !.todo = @ \ {ch}, !.at = at, !.add = add, !.remove = remove]
  OBVIOUS
<1>4. job' = j
  BY <1>1, <1>2, <1>3 DEF NextTxn
<1>5. ch \in ChangeSet /\ ch.cell \in Cells /\ job.at = "next"
  BY OfJob DEF NextTxn, JobRecs, ChangeSet
<1>6. ch.cell[2] \in {"tags", "collections", "title", "price"}
  <2>1. Pushable(ch)
    BY OfJob DEF EInv, Accounts, Left
  <2>2. ch.cell[2] # "category"
    BY <2>1 DEF Pushable
  <2> QED BY <1>5, <2>2 DEF Cells, Lists
<1>7. at \in {"collections", "put", "get"} /\ (at = "collections" <=> ch.cell[2] = "collections")
  BY <1>1, <1>6
<1>8. /\ add \subseteq Labels /\ remove \subseteq Labels
      /\ at = "collections" => add = Adds(ch) /\ remove = Removes(ch)
  <2>1. CASE ch.cell[2] = "collections"
    <3>1. ch.new \subseteq Labels /\ ch.old \subseteq Labels
      BY <1>5, <2>1 DEF ChangeSet, Offered, Lists
    <3> QED BY <1>2, <2>1, <3>1 DEF Adds, Removes
  <2>2. CASE ch.cell[2] # "collections"
    BY <1>2, <1>7, <2>2
  <2> QED BY <2>1, <2>2
<1>9. j \in JobRecs
  BY <1>3, <1>5, <1>7, <1>8, OfJob DEF JobRecs
<1>10. /\ j.at = at /\ j.txn = ch /\ j.todo = job.todo \ {ch} /\ j.out = job.out /\ j.store = job.store
       /\ j.add = add /\ j.remove = remove
  BY <1>3, OfJob DEF JobRecs
<1>11. Placed(j)
  BY <1>1, <1>5, <1>6, <1>7, <1>8, <1>10, OfJob DEF Placed
<1>12. Left(j) = Left(job)
  BY <1>5, <1>7, <1>10 DEF Left
<1> QED BY <1>4, <1>5, <1>7, <1>9, <1>10, <1>11, <1>12, OfJob, JobMovesOn DEF NextTxn, Reading

\* A transaction ends with its result.
LEMMA TxnEndsKeeps ==
    ASSUME EInv, job.at \in {"get", "put", "collections"}, NEW status \in {"ok", "error"},
           TxnEnds(status), live' \in [Stores -> Product], Running,
           applied' = IF status = "ok" THEN applied \cup {Applied(job.txn)} ELSE applied
    PROVE  EInv'
<1>1. PICK t : t = job.txn
  OBVIOUS
<1>2. t \in ChangeSet \ job.todo /\ t \in Left(job) /\ Left(job) \ {t} = job.todo
  BY <1>1, OfJob DEF Placed, Left
<1>3. PICK out : out = job.out \cup {Result(t.cell, status)}
  OBVIOUS
<1>4. PICK j : j = [job EXCEPT !.at = "next", !.txn = None, !.saw = None, !.add = {}, !.remove = {},
                              !.due = {}, !.out = out]
  OBVIOUS
<1>5. job' = j
  BY <1>1, <1>3, <1>4 DEF TxnEnds
<1>6. Result(t.cell, status) \in ResultSet
  BY <1>2 DEF Result, ResultSet, ChangeSet
<1>7. j \in JobRecs
  BY <1>3, <1>4, <1>6, OfJob DEF JobRecs
<1>8. j.at = "next" /\ j.out = out /\ j.todo = job.todo /\ j.store = job.store
  BY <1>4, OfJob DEF JobRecs
<1>9. Placed(j) /\ Left(j) = Left(job) \ {t}
  BY <1>2, <1>8, OfJob DEF Placed, Left
<1>10. PICK oks, errors : /\ oks = IF status = "ok" THEN exec.ok + 1 ELSE exec.ok
                          /\ errors = IF status = "error" THEN exec.errors + 1 ELSE exec.errors
  OBVIOUS
<1>11. PICK e : e = [exec EXCEPT !.done = @ + 1, !.ok = oks, !.errors = errors]
  OBVIOUS
<1>12. exec' = e
  BY <1>10, <1>11, OfJob DEF TxnEnds, ExecRecs
<1>13. /\ e \in ExecRecs /\ e.asked = exec.asked /\ e.results = exec.results /\ e.total = exec.total
       /\ e.skipped = exec.skipped /\ e.running = exec.running /\ e.finished = exec.finished
       /\ e.done = exec.done + 1 /\ e.ok = oks /\ e.errors = errors
  <2>1. oks \in Nat /\ errors \in Nat /\ exec.done + 1 \in Nat
    BY <1>10, OfJob DEF ExecRecs
  <2> QED BY <1>11, <2>1, OfJob DEF ExecRecs
<1>14. Accounts(exec, Left(job), job.out, "raise" \in Env)
  BY DEF EInv
<1>15. Accounts(e, Left(j), j.out, "raise" \in Env)
  <2>1. PICK left, raises : left = Left(job) /\ raises = ("raise" \in Env)
    OBVIOUS
  <2>2. Accounts(exec, left, job.out, raises) /\ t \in left /\ exec \in ExecRecs
    BY <1>2, <1>14, <2>1, OfJob
  <2>3. Accounts(e, left \ {t}, job.out \cup {Result(t.cell, status)}, raises)
    BY <1>10, <1>13, <2>2, AccountsEnd
  <2> QED BY <1>3, <1>8, <1>9, <2>1, <2>3
<1>16. ASSUME NEW x \in (e.results \cup j.out) \ (exec.results \cup job.out), x.status = "ok"
       PROVE  \E ch \in exec.asked : ch.cell = x.cell /\ Applied(ch) \in applied'
  <2>1. x = Result(t.cell, status)
    BY <1>3, <1>8, <1>13
  <2>2. status = "ok" /\ x.cell = t.cell
    BY <1>16, <2>1 DEF Result
  <2>3. t \in exec.asked
    BY <1>2, <1>14 DEF Accounts
  <2> QED BY <1>1, <2>2, <2>3
<1> QED BY <1>5, <1>7, <1>8, <1>9, <1>12, <1>13, <1>15, <1>16, OfJob, JobSteps

LEMMA CallFailsKeeps ==
    ASSUME EInv, CallFails
    PROVE  EInv'
BY OfJob, TxnEndsKeeps DEF CallFails, Reading

LEMMA PutRefusedKeeps ==
    ASSUME EInv, PutRefused
    PROVE  EInv'
BY OfJob, TxnEndsKeeps DEF PutRefused, Reading

\* What a PUT makes of a product: a product with the field of the transaction
\* changed.
LEMMA PutWrites ==
    ASSUME EInv, Put
    PROVE  /\ job.store \in Stores /\ job.txn \in ChangeSet
           /\ job.txn.cell[2] \in {"title", "tags", "price"}
           /\ \E q \in Product :
                 /\ live' = [live EXCEPT ![job.store] = q]
                 /\ \A g \in {"tags", "collections", "title", "category", "price"} \ {job.txn.cell[2]} :
                       q[g] = live[job.store][g]
                 /\ job.txn.cell[2] = "tags" =>
                       q.tags = (job.saw.tags \cup Adds(job.txn)) \ Removes(job.txn)
                 /\ job.txn.cell[2] = "price" => \A x \in Variants \ {job.txn.cell[3]} :
                       q.price[x] = job.saw.price[x]
<1>1. PICK ch, s, p, saw : ch = job.txn /\ s = job.store /\ p = live[s] /\ saw = job.saw
  OBVIOUS
<1>2. /\ s \in Stores /\ ch \in ChangeSet /\ ch.cell \in Cells /\ p \in Product
      /\ ch.cell[2] \in {"title", "tags", "price"}
      /\ ch.cell[2] # "title" => saw \in Product
  BY <1>1, OfJob DEF Put, Placed, ChangeSet
<1>3. CASE ch.cell[2] = "title"
  <2>1. PICK q : q = [p EXCEPT !.title = ch.new]
    OBVIOUS
  <2>2. ch.new \in Values
    BY <1>2, <1>3 DEF ChangeSet, Offered, Lists
  <2>3. q \in Product /\ q.tags = p.tags /\ q.collections = p.collections /\ q.category = p.category
        /\ q.price = p.price
    BY <1>2, <2>1, <2>2 DEF Product
  <2>4. live' = [live EXCEPT ![s] = q]
    BY <1>1, <1>3, <2>1 DEF Put
  <2> QED BY <1>1, <1>2, <1>3, <2>3, <2>4
<1>4. CASE ch.cell[2] = "tags"
  <2>1. PICK tags : tags = (saw.tags \cup Adds(ch)) \ Removes(ch)
    OBVIOUS
  <2>2. PICK q : q = [p EXCEPT !.tags = tags]
    OBVIOUS
  <2>3. ch.new \subseteq Labels
    BY <1>2, <1>4 DEF ChangeSet, Offered, Lists
  <2>4. tags \subseteq Labels
    BY <1>2, <1>4, <2>1, <2>3 DEF Product, Adds, Removes
  <2>5. q \in Product /\ q.tags = tags /\ q.collections = p.collections /\ q.category = p.category
        /\ q.price = p.price /\ q.title = p.title
    BY <1>2, <2>2, <2>4 DEF Product
  <2>6. live' = [live EXCEPT ![s] = q]
    BY <1>1, <1>4, <2>1, <2>2 DEF Put
  <2> QED BY <1>1, <1>2, <1>4, <2>1, <2>5, <2>6
<1>5. CASE ch.cell[2] = "price"
  <2>1. PICK x : x = ch.cell[3]
    OBVIOUS
  <2>2. PICK price : price = IF saw.price[x] = Gone THEN saw.price ELSE [saw.price EXCEPT ![x] = ch.new]
    OBVIOUS
  <2>3. PICK q : q = [p EXCEPT !.price = price]
    OBVIOUS
  <2>4. ch.new \in Values
    BY <1>2, <1>5 DEF ChangeSet, Offered, Lists
  <2>5. saw.price \in [Variants -> Values \cup {Gone}]
    BY <1>2, <1>5 DEF Product
  <2>6. /\ price \in [Variants -> Values \cup {Gone}]
        /\ \A y \in Variants \ {x} : price[y] = saw.price[y]
    BY <2>2, <2>4, <2>5
  <2>7. q \in Product /\ q.tags = p.tags /\ q.collections = p.collections /\ q.category = p.category
        /\ q.price = price /\ q.title = p.title
    BY <1>2, <2>3, <2>6 DEF Product
  <2>8. live' = [live EXCEPT ![s] = q]
    BY <1>1, <1>5, <2>1, <2>2, <2>3 DEF Put
  <2>9. \A g \in {"tags", "collections", "title", "category", "price"} \ {"price"} : q[g] = p[g]
    BY <2>7
  <2>10. \A y \in Variants \ {ch.cell[3]} : q.price[y] = saw.price[y]
    BY <2>1, <2>6, <2>7
  <2>11. live' = [live EXCEPT ![job.store] = q]
    BY <1>1, <2>8
  <2>12. \A g \in {"tags", "collections", "title", "category", "price"} \ {job.txn.cell[2]} :
            q[g] = live[job.store][g]
    BY <1>1, <1>5, <2>9
  <2>13. job.txn.cell[2] # "tags"
    BY <1>1, <1>5
  <2>14. \A y \in Variants \ {job.txn.cell[3]} : q.price[y] = job.saw.price[y]
    BY <1>1, <2>10
  <2>15. /\ job.store \in Stores /\ job.txn \in ChangeSet
         /\ job.txn.cell[2] \in {"title", "tags", "price"}
    BY <1>1, <1>2
  <2> QED BY <2>7, <2>11, <2>12, <2>13, <2>14, <2>15, Zenon
<1> QED BY <1>2, <1>3, <1>4, <1>5

LEMMA PutKeeps ==
    ASSUME EInv, Put
    PROVE  EInv'
<1>1. live' \in [Stores -> Product]
  BY PutWrites, OfJob
<1> QED BY <1>1, TxnEndsKeeps DEF Put

\* A membership is looked up, ...
LEMMA LookUpKeeps ==
    ASSUME EInv, NEW l \in Labels, LookUpMembership(l)
    PROVE  EInv'
<1>1. job.at = "collections"
  BY DEF LookUpMembership
<1>2. PICK add, remove, due :
         /\ add \subseteq job.add /\ remove \subseteq job.remove /\ due \subseteq Labels
         /\ job' = [job EXCEPT !.add = add, !.remove = remove, !.due = due]
  <2>1. \/ job' = [job EXCEPT !.add = job.add, !.remove = job.remove, !.due = {l}]
        \/ job' = [job EXCEPT !.add = job.add \ {l}, !.remove = job.remove \ {l}, !.due = job.due]
    BY OfJob DEF LookUpMembership, JobRecs
  <2>2. job.due \subseteq Labels
    BY OfJob DEF JobRecs
  <2> QED BY <2>1, <2>2
<1>3. PICK j : j = [job EXCEPT !.add = add, !.remove = remove, !.due = due]
  OBVIOUS
<1>4. j \in JobRecs
  BY <1>2, <1>3, OfJob DEF JobRecs
<1>5. /\ j.at = job.at /\ j.txn = job.txn /\ j.todo = job.todo /\ j.out = job.out
      /\ j.store = job.store /\ j.add = add /\ j.remove = remove
  BY <1>3, OfJob DEF JobRecs
<1>6. Placed(j) /\ Left(j) = Left(job)
  BY <1>1, <1>2, <1>5, OfJob DEF Placed, Left
<1> QED BY <1>1, <1>2, <1>3, <1>4, <1>5, <1>6, OfJob, JobMovesOn DEF LookUpMembership, Reading

LEMMA MembershipRefusedKeeps ==
    ASSUME EInv, NEW l \in Labels, MembershipRefused(l)
    PROVE  EInv'
BY OfJob, TxnEndsKeeps DEF MembershipRefused, Reading

\* ... and memberships are added and removed one by one, ...
LEMMA MembershipKeeps ==
    ASSUME EInv, NEW l \in Labels, AddMembership(l) \/ RemoveMembership(l)
    PROVE  EInv'
<1>1. job.at = "collections" /\ job.store \in Stores
  BY OfJob DEF AddMembership, RemoveMembership, Placed
<1>2. PICK s, cs : /\ s = job.store
                   /\ cs = IF AddMembership(l) THEN live[s].collections \cup {l}
                           ELSE live[s].collections \ {l}
  OBVIOUS
<1>3. PICK q : q = [live[s] EXCEPT !.collections = cs]
  OBVIOUS
<1>4. live[s] \in Product
  BY <1>1, <1>2, OfJob
<1>5. q \in Product
  BY <1>2, <1>3, <1>4 DEF Product
<1>6. live' = [live EXCEPT ![s] = q]
  BY <1>2, <1>3 DEF AddMembership, RemoveMembership
<1>7. PICK add, remove : /\ add \subseteq job.add /\ remove \subseteq job.remove
                         /\ job' = [job EXCEPT !.add = add, !.remove = remove, !.due = {}]
  <2>1. CASE AddMembership(l)
    <3>1. job' = [job EXCEPT !.add = job.add \ {l}, !.remove = job.remove, !.due = {}]
      BY <2>1, OfJob DEF AddMembership, JobRecs
    <3> QED BY <3>1
  <2>2. CASE RemoveMembership(l)
    <3>1. job' = [job EXCEPT !.add = job.add, !.remove = job.remove \ {l}, !.due = {}]
      BY <2>2, OfJob DEF RemoveMembership, JobRecs
    <3> QED BY <3>1
  <2> QED BY <2>1, <2>2
<1>8. PICK j : j = [job EXCEPT !.add = add, !.remove = remove, !.due = {}]
  OBVIOUS
<1>9. j \in JobRecs
  BY <1>7, <1>8, OfJob DEF JobRecs
<1>10. /\ j.at = job.at /\ j.txn = job.txn /\ j.todo = job.todo /\ j.out = job.out
       /\ j.store = job.store /\ j.add = add /\ j.remove = remove
  BY <1>8, OfJob DEF JobRecs
<1>11. Placed(j) /\ Left(j) = Left(job)
  BY <1>1, <1>7, <1>10, OfJob DEF Placed, Left
<1>12. live' \in [Stores -> Product]
  BY <1>5, <1>6, OfJob
<1> QED BY <1>1, <1>7, <1>8, <1>9, <1>10, <1>11, <1>12, JobMovesOn DEF AddMembership, RemoveMembership

LEMMA MembershipsDoneKeeps ==
    ASSUME EInv, MembershipsDone
    PROVE  EInv'
BY OfJob, TxnEndsKeeps DEF MembershipsDone

\* A store fails as a whole.
LEMMA StoreFailsKeeps ==
    ASSUME EInv, NoCredentials \/ ExecutorRaises
    PROVE  EInv'
<1>1. job.at = "connect" /\ Reading
  BY DEF NoCredentials, ExecutorRaises
<1>2. PICK F : F = Of(job.store)
  OBVIOUS
<1>3. PICK failed : failed = {Result(ch.cell, "error") : ch \in F}
  OBVIOUS
<1>4. F \subseteq job.todo /\ Left(job) = job.todo /\ job.out = {} /\ job.todo \subseteq ChangeSet
  BY <1>1, <1>2, OfJob DEF Of, Placed, Left, JobRecs
<1>5. PICK j : j = [job EXCEPT !.at = "stores", !.store = None, !.todo = @ \ F]
  OBVIOUS
<1>6. job' = j
  BY <1>2, <1>5 DEF NoCredentials, ExecutorRaises
<1>7. j \in JobRecs /\ j.at = "stores" /\ j.todo = job.todo \ F /\ j.out = {}
  BY <1>4, <1>5, OfJob DEF JobRecs
<1>8. Placed(j) /\ Left(j) = Left(job) \ F
  BY <1>4, <1>7 DEF Placed, Left
<1>9. Accounts(exec, Left(job), {}, "raise" \in Env)
  BY <1>4 DEF EInv
<1>10. failed \subseteq ResultSet /\ \A x \in failed : x.status = "error"
  BY <1>3, <1>4 DEF Result, ResultSet, ChangeSet
<1>11. Cardinality(failed) \in Nat
  <2>1. F \subseteq exec.asked /\ IsFiniteSet(exec.asked) /\ \A a, b \in exec.asked : a.cell = b.cell => a = b
    BY <1>4, <1>9 DEF Accounts
  <2>2. IsFiniteSet(F) /\ \A a, b \in F : a.cell = b.cell => a = b
    BY <2>1, FS_Subset
  <2>3. PICK R0 : R0 = ResultsOf(F, "error")
    OBVIOUS
  <2>4. IsFiniteSet(R0)
    BY <2>2, <2>3, ResultsCounted
  <2>5. R0 = failed
    BY <1>3, <2>3 DEF ResultsOf
  <2> QED BY <2>4, <2>5, FS_CardinalityType
<1>12. PICK n, m : /\ n \in Nat /\ m \in Nat
                   /\ \/ n = exec.done + Cardinality(failed) /\ m = exec.errors + Cardinality(failed)
                      \/ "raise" \in Env /\ n = exec.done /\ m = exec.errors
                   /\ exec' = [exec EXCEPT !.results = @ \cup failed, !.done = n, !.errors = m]
  <2>1. exec.done \in Nat /\ exec.errors \in Nat
    BY OfJob DEF ExecRecs
  <2>2. CASE NoCredentials
    <3>1. exec' = [exec EXCEPT !.results = @ \cup failed, !.done = exec.done + Cardinality(failed),
                     !.errors = exec.errors + Cardinality(failed)]
      BY <1>2, <1>3, <2>2, OfJob DEF NoCredentials, ExecRecs
    <3>2. PICK d, f : d = exec.done + Cardinality(failed) /\ f = exec.errors + Cardinality(failed)
      OBVIOUS
    <3>3. d \in Nat /\ f \in Nat
      BY <1>11, <2>1, <3>2
    <3>4. exec' = [exec EXCEPT !.results = @ \cup failed, !.done = d, !.errors = f]
      BY <3>1, <3>2
    <3> QED BY <3>2, <3>3, <3>4
  <2>3. CASE ExecutorRaises
    <3>1. exec' = [exec EXCEPT !.results = @ \cup failed, !.done = exec.done, !.errors = exec.errors]
      BY <1>2, <1>3, <2>3, OfJob DEF ExecutorRaises, ExecRecs
    <3> QED BY <2>1, <2>3, <3>1 DEF ExecutorRaises
  <2> QED BY <2>2, <2>3
<1>13. PICK e : e = [exec EXCEPT !.results = @ \cup failed, !.done = n, !.errors = m]
  OBVIOUS
<1>14. /\ e \in ExecRecs /\ e.asked = exec.asked /\ e.results = exec.results \cup failed
       /\ e.total = exec.total /\ e.skipped = exec.skipped /\ e.running = exec.running
       /\ e.finished = exec.finished /\ e.done = n /\ e.ok = exec.ok /\ e.errors = m
  BY <1>10, <1>12, <1>13, OfJob DEF ExecRecs
<1>15. Accounts(e, Left(j), j.out, "raise" \in Env)
  <2>1. PICK left, raises : left = Left(job) /\ raises = ("raise" \in Env)
    OBVIOUS
  <2>2. Accounts(exec, left, {}, raises) /\ F \in SUBSET left /\ exec \in ExecRecs
    BY <1>4, <1>9, <2>1, OfJob
  <2>3. \/ e.done = exec.done + Cardinality(failed) /\ e.errors = exec.errors + Cardinality(failed)
        \/ raises /\ e.done = exec.done /\ e.errors = exec.errors
    BY <1>12, <1>14, <2>1
  <2>4. Accounts(e, left \ F, {}, raises)
    BY <1>3, <1>14, <2>2, <2>3, AccountsFail
  <2> QED BY <1>7, <1>8, <2>1, <2>4
<1>16. \A x \in (e.results \cup j.out) \ (exec.results \cup job.out) : x.status # "ok"
  BY <1>7, <1>10, <1>14
<1> QED BY <1>1, <1>6, <1>7, <1>8, <1>12, <1>13, <1>14, <1>15, <1>16, OfJob, JobSteps DEF Reading

\* The results of a store join the others.
LEMMA StoreDoneKeeps ==
    ASSUME EInv, StoreDone
    PROVE  EInv'
<1>1. PICK j : j = [job EXCEPT !.at = "stores", !.store = None, !.out = {}]
  OBVIOUS
<1>2. j \in JobRecs /\ j.at = "stores" /\ j.todo = job.todo /\ j.out = {} /\ job.at = "next"
  BY <1>1, OfJob DEF StoreDone, JobRecs
<1>3. Placed(j) /\ Left(j) = Left(job)
  BY <1>2 DEF Placed, Left
<1>4. PICK e : e = [exec EXCEPT !.results = @ \cup job.out]
  OBVIOUS
<1>5. /\ e \in ExecRecs /\ e.asked = exec.asked /\ e.results = exec.results \cup job.out
      /\ e.total = exec.total /\ e.skipped = exec.skipped /\ e.running = exec.running
      /\ e.finished = exec.finished /\ e.done = exec.done /\ e.ok = exec.ok /\ e.errors = exec.errors
  BY <1>4, OfJob DEF ExecRecs, JobRecs
<1>6. Accounts(exec, Left(j), job.out, "raise" \in Env)
  BY <1>3 DEF EInv
<1>7. e.results \cup j.out = exec.results \cup job.out
  BY <1>2, <1>5
<1>8. Accounts(e, Left(j), j.out, "raise" \in Env)
  BY <1>5, <1>6, <1>7 DEF Accounts
<1> QED BY <1>1, <1>2, <1>3, <1>4, <1>5, <1>7, <1>8, OfJob, JobSteps DEF StoreDone, Reading

\* All stores have been seen to.
LEMMA JobEndsKeeps ==
    ASSUME EInv, JobEnds
    PROVE  EInv'
<1>1. Left(job) = {} /\ job.out = {}
  BY OfJob DEF JobEnds, Placed, Left
<1>2. PICK e : e = [exec EXCEPT !.running = FALSE, !.finished = TRUE]
  OBVIOUS
<1>3. /\ e \in ExecRecs /\ e.asked = exec.asked /\ e.results = exec.results
      /\ e.total = exec.total /\ e.skipped = exec.skipped /\ ~e.running
      /\ e.done = exec.done /\ e.ok = exec.ok /\ e.errors = exec.errors
  BY <1>2, OfJob DEF ExecRecs
<1>4. Accounts(exec, {}, {}, "raise" \in Env)
  BY <1>1 DEF EInv
<1>5. Accounts(e, {}, {}, "raise" \in Env)
  BY <1>3, <1>4 DEF Accounts
<1>6. exec' = e /\ job' = Idle
  BY <1>2 DEF JobEnds
<1>7. \A x \in (e.results \cup Idle.out) \ (exec.results \cup job.out) : x.status # "ok"
  BY <1>3, IdleTyped
<1> QED BY <1>3, <1>5, <1>6, <1>7, OfJob, IdleTyped, JobSteps DEF JobEnds, Reading

LEMMA JobKeeps ==
    ASSUME EInv, Job
    PROVE  EInv'
BY NextStoreKeeps, StoreFailsKeeps, ConnectedKeeps, NextTxnKeeps, GetKeeps, CallFailsKeeps, PutKeeps,
   PutRefusedKeeps, LookUpKeeps, MembershipRefusedKeeps, MembershipKeeps, MembershipsDoneKeeps, StoreDoneKeeps, JobEndsKeeps DEF Job

-----------------------------------------------------------------------------
(* Others *)

LEMMA RivalKeeps ==
    ASSUME EInv, NEW s \in Stores, Rival(s)
    PROVE  EInv'
<1>1. live[s] \in Product
  BY OfJob
<1>2. PICK q \in Product : live' = [live EXCEPT ![s] = q]
  <2>1. ASSUME NEW f \in Lists, NEW T \in SUBSET Labels, live' = [live EXCEPT ![s][f] = T]
        PROVE  \E q \in Product : live' = [live EXCEPT ![s] = q]
    <3>1. PICK q : q = [live[s] EXCEPT ![f] = T]
      OBVIOUS
    <3>2. live' = [live EXCEPT ![s] = q]
      BY <2>1, <3>1
    <3>3. q \in Product
      BY <1>1, <3>1 DEF Product, Lists
    <3> QED BY <3>2, <3>3
  <2>2. ASSUME NEW x \in Variants, NEW v \in Values \cup {Gone}, live' = [live EXCEPT ![s].price[x] = v]
        PROVE  \E q \in Product : live' = [live EXCEPT ![s] = q]
    <3>1. PICK price : price = [live[s].price EXCEPT ![x] = v]
      OBVIOUS
    <3>2. PICK q : q = [live[s] EXCEPT !.price = price]
      OBVIOUS
    <3>3. live' = [live EXCEPT ![s] = q]
      BY <2>2, <3>1, <3>2
    <3>4. price \in [Variants -> Values \cup {Gone}]
      BY <1>1, <3>1 DEF Product
    <3>5. q \in Product
      BY <1>1, <3>2, <3>4 DEF Product
    <3> QED BY <3>3, <3>5
  <2> QED BY <2>1, <2>2 DEF Rival
<1>3. Typed'
  <2>1. live' \in [Stores -> Product]
    BY <1>2, OfJob
  <2>2. writes' \in 0..MaxWrites
    BY EditPushAssumption DEF Rival, EInv, Typed
  <2> QED BY <2>1, <2>2 DEF Rival, EInv, Typed
<1>4. Waits'
  <2>1. \A p \in Pages : Changes(p)' = Changes(p)
    BY DEF Rival, Changes
  <2> QED BY <2>1 DEF Rival, EInv, Typed, Waits
<1> QED BY <1>3, <1>4, PushRests DEF Rival

LEMMA RestartKeeps ==
    ASSUME EInv, Restart
    PROVE  EInv'
<1>1. exec' = NotExecuting /\ job' = Idle /\ UNCHANGED <<scope, live, scanned, edits, poll, writes, pushes, meddled>>
  BY DEF Restart
<1>2. Typed'
  BY <1>1, IdleTyped DEF EInv, Typed
<1>3. Honest'
  BY <1>1, IdleTyped DEF Honest
<1>4. Waits'
  BY <1>1 DEF Waits
<1>5. Accounts(exec, Left(job), job.out, "raise" \in Env)'
  BY <1>1, IdleTyped
<1> QED BY <1>1, <1>2, <1>3, <1>4, <1>5, IdleTyped DEF EInv

LEMMA StutterKeeps ==
    ASSUME EInv, UNCHANGED vars
    PROVE  EInv'
<1>1. Typed'
  BY DEF vars, EInv, Typed
<1>2. Waits'
  <2>1. \A p \in Pages : Changes(p)' = Changes(p)
    BY DEF vars, Changes
  <2> QED BY <2>1 DEF vars, EInv, Typed, Waits
<1> QED BY <1>1, <1>2, PushRests DEF vars

LEMMA EInvAlways == Spec => []EInv
<1>1. Init => EInv
  BY InitEInv
<1>2. EInv /\ [Next]_vars => EInv'
  <2> SUFFICES ASSUME EInv, [Next]_vars PROVE EInv'
    OBVIOUS
  <2>1. ASSUME NEW p \in scope.pages, NEW c \in scope.cells, NEW v \in Offered(c), Stage(p, c, v)
        PROVE  EInv'
    BY <2>1, StageKeeps
  <2>2. ASSUME NEW p \in scope.pages, Execute(p) \/ NothingToPush(p) \/ Poll(p) PROVE EInv'
    BY <2>2, ExecuteKeeps, NothingToPushKeeps, PollKeeps
  <2>3. CASE Job
    BY <2>3, JobKeeps
  <2>4. ASSUME NEW s \in Stores, Rival(s) PROVE EInv'
    BY <2>4, RivalKeeps
  <2>5. CASE Restart
    BY <2>5, RestartKeeps
  <2>6. CASE UNCHANGED vars
    BY <2>6, StutterKeeps
  <2> QED BY <2>1, <2>2, <2>3, <2>4, <2>5, <2>6 DEF Next
<1> QED BY <1>1, <1>2, PTL DEF Spec

-----------------------------------------------------------------------------
(* Theorems *)

\* What EInv says is what the page is told: PushInv.
LEMMA EInvImpliesPushInv ==
    ASSUME EInv
    PROVE  PushInv
<1>1. /\ exec \in ExecRecs /\ job \in JobRecs /\ Placed(job)
      /\ Accounts(exec, Left(job), job.out, "raise" \in Env)
  BY OfJob DEF EInv
<1>2. Cardinality(Left(job)) \in Nat
  <2>1. Left(job) \subseteq exec.asked /\ IsFiniteSet(exec.asked)
    BY <1>1 DEF Accounts
  <2> QED BY <2>1, FS_Subset, FS_CardinalityType
<1>3. /\ exec.done \in Nat /\ exec.ok \in Nat /\ exec.errors \in Nat /\ exec.total \in Nat
  BY <1>1 DEF ExecRecs
<1>4. {exec.done, exec.ok, exec.errors} \subseteq 0..exec.total
  <2>1. exec.ok + exec.errors = exec.done /\ exec.done + Cardinality(Left(job)) <= exec.total
    BY <1>1 DEF Accounts
  <2> QED BY <1>2, <1>3, <2>1
<1>5. TypeOK
  <2>1. job.at \in {"idle", "stores", "connect", "next", "get", "put", "collections"}
    BY <1>1 DEF JobRecs
  <2>2. job.at \notin {"idle", "stores"} => job.store \in Stores
    BY <1>1 DEF Placed
  <2> QED BY <1>4, <2>1, <2>2 DEF EInv, Typed, TypeOK
<1>6. ASSUME exec.finished
      PROVE  /\ \A ch \in exec.asked : Cardinality({x \in exec.results : x.cell = ch.cell}) = 1
             /\ exec.skipped + exec.total = Cardinality(exec.asked)
             /\ exec.ok = Cardinality({x \in exec.results : x.status = "ok"})
             /\ "raise" \notin Env => /\ exec.done = exec.total
                                      /\ exec.errors = Cardinality({x \in exec.results : x.status = "error"})
  <2>1. job.at = "idle"
    BY <1>6 DEF EInv
  <2>2. Left(job) = {} /\ job.out = {}
    BY <1>1, <2>1 DEF Placed, Left
  <2>3. exec.results \cup job.out = exec.results /\ exec.asked \ Left(job) = exec.asked
    BY <2>2
  <2>4. /\ \A ch \in exec.asked : \E x \in exec.results : x.cell = ch.cell
        /\ \A x, y \in exec.results : x.cell = y.cell => x = y
        /\ exec.skipped + exec.total = Cardinality(exec.asked)
        /\ exec.ok = Cardinality(With(exec.results, "ok"))
        /\ "raise" \notin Env => /\ exec.done + Cardinality(Left(job)) = exec.total
                                 /\ exec.errors = Cardinality(With(exec.results, "error"))
    BY <1>1, <2>3 DEF Accounts
  <2>5. ASSUME NEW ch \in exec.asked
        PROVE  Cardinality({x \in exec.results : x.cell = ch.cell}) = 1
    <3>1. PICK x \in exec.results : x.cell = ch.cell
      BY <2>4
    <3>2. {y \in exec.results : y.cell = ch.cell} = {x}
      BY <2>4, <3>1
    <3> QED BY <3>2, FS_Singleton
  <2>6. Cardinality(Left(job)) = 0
    BY <2>2, FS_EmptySet
  <2> QED BY <1>3, <2>4, <2>5, <2>6 DEF With
<1> QED BY <1>5, <1>6 DEF PushInv, EveryChangeAccounted

\* However calls and stores fail, others write and the server restarts, the
\* page is told of every change of its push exactly once, and the counts agree
\* with what it is told (routes.py, edit_products_execute).
THEOREM PushIsSound == Spec => []PushInv
<1>1. EInv => PushInv
  BY EInvImpliesPushInv
<1> QED BY <1>1, EInvAlways, PTL

\* The page drops an edit only if its push has made it (app.js,
\* _editApplyResults), as long as it has not edited on and no other page has
\* pushed meanwhile.
THEOREM EditsAreKept == Spec => NoEditLost
<1>1. ASSUME EInv, NEW p \in Pages, NEW c \in Cells, edits[p][c] # None, edits'[p][c] = None,
             p \notin meddled, Poll(p)
      PROVE  [cell |-> c, to |-> edits[p][c]] \in applied
  <2>1. p \in poll \ meddled /\ exec.finished
    BY <1>1 DEF Poll
  <2>2. exec.asked = Changes(p)
    BY <1>1, <2>1, IdleTyped DEF EInv, Waits
  <2>3. Result(c, "ok") \in exec.results
    <3>1. PICK e : e = [d \in Cells |-> IF Result(d, "ok") \in exec.results THEN None ELSE edits[p][d]]
      OBVIOUS
    <3>2. edits' = [edits EXCEPT ![p] = e]
      BY <1>1, <3>1 DEF Poll
    <3>3. edits'[p] = e
      BY <1>1, <3>2 DEF EInv, Typed
    <3> QED BY <1>1, <3>1, <3>3
  <2>4. PICK ch \in exec.asked : ch.cell = c /\ Applied(ch) \in applied
    BY <1>1, <2>3 DEF EInv, Honest, Result
  <2>5. ch.new = edits[p][c]
    BY <2>2, <2>4 DEF Changes
  <2> QED BY <2>4, <2>5 DEF Applied
<1>2. EInv /\ [Next]_vars =>
        [\A p \in Pages, c \in Cells :
          edits[p][c] # None /\ edits'[p][c] = None /\ p \notin meddled /\ Poll(p) =>
              [cell |-> c, to |-> edits[p][c]] \in applied]_vars
  BY <1>1
<1> QED BY <1>2, EInvAlways, PTL DEF Spec, NoEditLost

LEMMA ProductFields ==
    ASSUME NEW p \in Product
    PROVE  DOMAIN p = {"tags", "collections", "title", "category", "price"}
BY DEF Product

\* What PushLeavesTheRest says of the store s.
LeavesTheRest(s) ==
    LET f == job.txn.cell[2] IN
    /\ \A g \in (DOMAIN live[s]) \ {f} : live'[s][g] = live[s][g]
    /\ f \in Lists /\ (f = "collections" \/ job.saw = live[s]) =>
          \A l \in Labels \ (Adds(job.txn) \cup Removes(job.txn)) :
              (l \in live'[s][f]) = (l \in live[s][f])
    /\ f = "price" /\ job.saw = live[s] =>
          \A x \in Variants \ {job.txn.cell[3]} : live'[s].price[x] = live[s].price[x]

LEMMA PutLeavesTheRest ==
    ASSUME EInv, Put, NEW s \in Stores, live'[s] # live[s]
    PROVE  LeavesTheRest(s)
<1>1. live \in [Stores -> Product]
  BY OfJob
<1>2. PICK q \in Product :
        /\ live' = [live EXCEPT ![job.store] = q]
        /\ \A g \in {"tags", "collections", "title", "category", "price"} \ {job.txn.cell[2]} :
              q[g] = live[job.store][g]
        /\ job.txn.cell[2] = "tags" =>
              q.tags = (job.saw.tags \cup Adds(job.txn)) \ Removes(job.txn)
        /\ job.txn.cell[2] = "price" => \A x \in Variants \ {job.txn.cell[3]} :
              q.price[x] = job.saw.price[x]
  BY PutWrites
<1>3. job.store = s /\ live'[s] = q
  BY <1>1, <1>2, PutWrites
<1>4. \A g \in (DOMAIN live[s]) \ {job.txn.cell[2]} : q[g] = live[s][g]
  <2>1. live[s] \in Product
    BY <1>1
  <2>2. DOMAIN live[s] = {"tags", "collections", "title", "category", "price"}
    BY <2>1, ProductFields
  <2> QED BY <1>2, <1>3, <2>2
<1>5. ASSUME job.txn.cell[2] \in Lists, job.txn.cell[2] = "collections" \/ job.saw = live[s],
             NEW l \in Labels \ (Adds(job.txn) \cup Removes(job.txn))
      PROVE  (l \in q[job.txn.cell[2]]) = (l \in live[s][job.txn.cell[2]])
  <2>1. job.txn.cell[2] = "tags" /\ job.saw = live[s]
    BY <1>5, PutWrites DEF Lists
  <2>2. q.tags = (live[s].tags \cup Adds(job.txn)) \ Removes(job.txn)
    BY <1>2, <2>1
  <2>3. (l \in q.tags) <=> (l \in live[s].tags)
    BY <1>5, <2>2
  <2> QED BY <2>1, <2>3
<1>6. ASSUME job.txn.cell[2] = "price", job.saw = live[s], NEW x \in Variants \ {job.txn.cell[3]}
      PROVE  q.price[x] = live[s].price[x]
  BY <1>2, <1>6
<1> QED BY <1>3, <1>4, <1>5, <1>6 DEF LeavesTheRest

LEMMA MembershipLeavesTheRest ==
    ASSUME EInv, NEW l \in Labels, AddMembership(l) \/ RemoveMembership(l),
           NEW s \in Stores, live'[s] # live[s]
    PROVE  LeavesTheRest(s)
<1>1. live \in [Stores -> Product] /\ live[s] \in Product
  BY OfJob
<1>2. /\ job.store \in Stores /\ job.txn.cell[2] = "collections"
      /\ job.add \subseteq Adds(job.txn) /\ job.remove \subseteq Removes(job.txn)
  BY OfJob DEF AddMembership, RemoveMembership, Placed
<1>3. PICK t, cs : /\ t = job.store
                   /\ cs = IF AddMembership(l) THEN live[t].collections \cup {l}
                           ELSE live[t].collections \ {l}
  OBVIOUS
<1>4. PICK q : q = [live[t] EXCEPT !.collections = cs]
  OBVIOUS
<1>5. live' = [live EXCEPT ![t] = q]
  BY <1>3, <1>4 DEF AddMembership, RemoveMembership
<1>6. t = s /\ live'[s] = q
  BY <1>1, <1>2, <1>3, <1>5
<1>7. /\ \A g \in {"tags", "collections", "title", "category", "price"} \ {"collections"} :
            q[g] = live[s][g]
      /\ q.collections = cs
  BY <1>1, <1>4, <1>6 DEF Product
<1>8. \A g \in (DOMAIN live[s]) \ {"collections"} : q[g] = live[s][g]
  <2>1. DOMAIN live[s] = {"tags", "collections", "title", "category", "price"}
    BY <1>1, ProductFields
  <2> QED BY <1>7, <2>1
<1>9. l \in Adds(job.txn) \cup Removes(job.txn)
  BY <1>2 DEF AddMembership, RemoveMembership
<1>10. \A m \in Labels \ (Adds(job.txn) \cup Removes(job.txn)) :
         (m \in q.collections) <=> (m \in live[s].collections)
  BY <1>3, <1>6, <1>7, <1>9
<1> QED BY <1>2, <1>6, <1>8, <1>10 DEF LeavesTheRest

\* A push writes into a product what its transaction asks for, and leaves the
\* rest as it was when nobody else has written since the GET (executor.py).
THEOREM PushWritesItsOwn == Spec => PushLeavesTheRest
<1>1. ASSUME EInv, Next, NEW s \in Stores, live'[s] # live[s], job' # job
      PROVE  LeavesTheRest(s)
  <2>1. ASSUME NEW p \in scope.pages, NEW c \in scope.cells, NEW v \in Offered(c), Stage(p, c, v)
        PROVE  FALSE
    BY <1>1, <2>1 DEF Stage
  <2>2. ASSUME NEW p \in scope.pages, Execute(p) \/ NothingToPush(p) \/ Poll(p) PROVE FALSE
    BY <1>1, <2>2 DEF Execute, NothingToPush, Poll
  <2>3. CASE Job
    <3>1. CASE Put
      BY <1>1, <3>1, PutLeavesTheRest
    <3>2. ASSUME NEW l \in Labels, AddMembership(l) \/ RemoveMembership(l) PROVE LeavesTheRest(s)
      BY <1>1, <3>2, MembershipLeavesTheRest, Zenon
    <3>3. ASSUME \/ \E t \in Stores : NextStore(t)
                 \/ NoCredentials \/ ExecutorRaises \/ Connected
                 \/ \E ch \in job.todo : NextTxn(ch)
                 \/ \E l \in Labels : LookUpMembership(l) \/ MembershipRefused(l)
                 \/ Get \/ CallFails \/ PutRefused \/ MembershipsDone \/ StoreDone \/ JobEnds
          PROVE  live' = live
      BY <3>3 DEF NextStore, NoCredentials, ExecutorRaises, Connected, NextTxn, Get, CallFails, PutRefused,
                  LookUpMembership, MembershipRefused, MembershipsDone, StoreDone, JobEnds, Reading
    <3> QED BY <1>1, <2>3, <3>1, <3>2, <3>3 DEF Job
  <2>4. ASSUME NEW t \in Stores, Rival(t) PROVE FALSE
    BY <1>1, <2>4 DEF Rival
  <2>5. CASE Restart
    BY <1>1, <2>5 DEF Restart
  <2> QED BY <1>1, <2>1, <2>2, <2>3, <2>4, <2>5 DEF Next
<1>2. EInv /\ [Next]_vars =>
        [\A s \in Stores : live'[s] # live[s] /\ job' # job => LeavesTheRest(s)]_vars
  BY <1>1
<1> QED BY <1>2, EInvAlways, PTL DEF Spec, PushLeavesTheRest, LeavesTheRest
=============================================================================
