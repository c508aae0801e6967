---------------------------- MODULE Server_proofs ----------------------------
(***************************************************************************)
(* Proofs about the server and its parts.  Each part is proved about alone *)
(* first, for any choice of its constants: the scheduler's registry, the   *)
(* token cache, the canonical prices, the broadcasts, the crawl of a site, *)
(* the settings, and the pages that compare stores; the webhooks have a    *)
(* module of their own.  The last section shows that every behaviour of    *)
(* Server is a behaviour of each of its eight parts, so that what is       *)
(* proved of them holds in the server.                                     *)
(***************************************************************************)
EXTENDS Server, Webhooks_proofs, FiniteSetTheorems, SequenceTheorems,
        WellFoundedInduction, TLAPS

-----------------------------------------------------------------------------
(* Selecting from a list *)

More(s, T, f, n) ==
    IF n = 0 THEN <<>> ELSE IF s[n] \in T THEN Append(f[n - 1], s[n]) ELSE f[n - 1]
IsSift(s, T, f, m) == f = [n \in 0..m |-> More(s, T, f, n)]

\* Of some numbers one is the least.
LEMMA LeastOf ==
    ASSUME NEW B \in SUBSET Nat, B # {}
    PROVE  \E m \in B : \A k \in B : m <= k
<1>1. PICK m \in B : \A k \in B : ~(<<k, m>> \in OpToRel(<, Nat))
  <2>1. IsWellFoundedOn(OpToRel(<, Nat), Nat)
    BY NatLessThanWellFounded
  <2> QED BY <2>1, WFMin
<1>2. \A k \in B : k < m => <<k, m>> \in OpToRel(<, Nat)
  BY DEF OpToRel
<1>3. \A k \in B : ~(k < m)
  BY <1>1, <1>2
<1>4. m \in Nat
  OBVIOUS
<1> QED BY <1>3, <1>4

\* There is a function that Sift describes: the least length without one would
\* have one.
LEMMA SiftExists ==
    ASSUME NEW S, NEW s \in Seq(S), NEW T, NEW m \in 0..Len(s)
    PROVE  \E f : IsSift(s, T, f, m)
<1> DEFINE Bad == {k \in 0..Len(s) : ~\E f : IsSift(s, T, f, k)}
<1> SUFFICES ASSUME Bad # {} PROVE FALSE
  OBVIOUS
<1>1. PICK k \in Bad : \A j \in Bad : k <= j
  <2>1. Bad \in SUBSET Nat
    OBVIOUS
  <2> HIDE DEF Bad
  <2> QED BY <2>1, LeastOf
<1>2. k \in 0..Len(s) /\ ~\E f : IsSift(s, T, f, k)
  OBVIOUS
<1>3. CASE k = 0
  <2>1. PICK f : f = [n \in 0..0 |-> <<>>]
    OBVIOUS
  <2>2. IsSift(s, T, f, 0)
    BY <2>1 DEF IsSift, More
  <2> QED BY <1>2, <1>3, <2>2
<1>4. CASE k # 0
  <2>1. k - 1 \in 0..Len(s) /\ k - 1 \notin Bad
    BY <1>1, <1>2, <1>4
  <2>2. PICK f : IsSift(s, T, f, k - 1)
    BY <2>1
  <2>3. PICK x : x = More(s, T, f, k)
    OBVIOUS
  <2>4. PICK g : g = [n \in 0..k |-> IF n = k THEN x ELSE f[n]]
    OBVIOUS
  <2>5. ASSUME NEW n \in 0..k PROVE g[n] = More(s, T, g, n)
    <3>1. CASE n = k
      <4>1. g[k] = x /\ g[k-1] = f[k-1]
        BY <1>2, <1>4, <2>4
      <4> QED BY <1>4, <2>3, <3>1, <4>1 DEF More
    <3>2. CASE n # k
      <4>1. g[n] = f[n] /\ n \in 0..(k-1)
        BY <1>2, <1>4, <2>4, <3>2
      <4>2. f[n] = More(s, T, f, n)
        BY <2>2, <4>1 DEF IsSift
      <4>3. n # 0 => g[n-1] = f[n-1]
        BY <1>2, <1>4, <2>4, <4>1
      <4> QED BY <4>1, <4>2, <4>3 DEF More
    <3> QED BY <3>1, <3>2
  <2>6. IsSift(s, T, g, k)
    <3>1. g = [n \in 0..k |-> g[n]]
      BY <2>4
    <3>2. g = [n \in 0..k |-> More(s, T, g, n)]
      BY <2>5, <3>1, Zenon
    <3> QED BY <3>2 DEF IsSift
  <2> QED BY <1>2, <2>6
<1> QED BY <1>3, <1>4

\* Sift unfolds as it is written.
LEMMA SiftIs ==
    ASSUME NEW S, NEW s \in Seq(S), NEW T
    PROVE  IsSift(s, T, Sift(s, T), Len(s))
<1>1. PICK f : IsSift(s, T, f, Len(s))
  <2>1. Len(s) \in 0..Len(s)
    OBVIOUS
  <2> QED BY <2>1, SiftExists, Zenon
<1> QED BY <1>1, Zenon DEF Sift, IsSift, More

Distinct(s) == \A i, j \in DOMAIN s : s[i] = s[j] => i = j

\* What the elements of s up to the m-th that are in T make.
Sieved(s, T, q, m) ==
    /\ \A i \in 1..m : s[i] \in T => \E k \in DOMAIN q : q[k] = s[i]
    /\ \A k \in DOMAIN q : q[k] \in T /\ \E i \in 1..m : q[k] = s[i]
    /\ (\A i \in 1..m : s[i] \in T) => Len(q) = m /\ \A i \in 1..m : q[i] = s[i]
    /\ Distinct(s) => Distinct(q)

\* One more element is looked at.
LEMMA SieveStep ==
    ASSUME NEW S, NEW s \in Seq(S), NEW T, NEW m \in 1..Len(s), NEW p \in Seq(S), NEW q,
           Sieved(s, T, p, m - 1), q = IF s[m] \in T THEN Append(p, s[m]) ELSE p
    PROVE  q \in Seq(S) /\ Sieved(s, T, q, m)
<1>1. CASE s[m] \in T
  <2>1. /\ q \in Seq(S) /\ Len(q) = Len(p) + 1 /\ q[Len(p) + 1] = s[m]
        /\ \A k \in 1..Len(p) : q[k] = p[k]
    BY <1>1
  <2>2. DOMAIN q = 1..(Len(p) + 1) /\ DOMAIN p = 1..Len(p) /\ Len(p) \in Nat
    BY <2>1
  <2>3. ASSUME NEW i \in 1..m, s[i] \in T PROVE \E k \in DOMAIN q : q[k] = s[i]
    <3>1. CASE i = m
      BY <2>1, <2>2, <3>1
    <3>2. CASE i # m
      <4>1. PICK k \in DOMAIN p : p[k] = s[i]
        BY <2>3, <3>2 DEF Sieved
      <4> QED BY <2>1, <2>2, <4>1
    <3> QED BY <3>1, <3>2
  <2>4. ASSUME NEW k \in DOMAIN q PROVE q[k] \in T /\ \E i \in 1..m : q[k] = s[i]
    <3>1. CASE k = Len(p) + 1
      BY <1>1, <2>1, <3>1
    <3>2. CASE k # Len(p) + 1
      <4>1. k \in DOMAIN p /\ q[k] = p[k]
        BY <2>1, <2>2, <3>2
      <4>2. p[k] \in T /\ \E i \in 1..(m - 1) : p[k] = s[i]
        BY <4>1 DEF Sieved
      <4> QED BY <4>1, <4>2
    <3> QED BY <3>1, <3>2
  <2>5. ASSUME \A i \in 1..m : s[i] \in T PROVE Len(q) = m /\ \A i \in 1..m : q[i] = s[i]
    <3>1. Len(p) = m - 1 /\ \A i \in 1..(m - 1) : p[i] = s[i]
      BY <2>5 DEF Sieved
    <3> QED BY <2>1, <3>1
  <2>6. ASSUME Distinct(s) PROVE Distinct(q)
    <3>1. \A k \in 1..Len(p) : q[k] # q[Len(p) + 1]
      <4>1. ASSUME NEW k \in 1..Len(p) PROVE p[k] # s[m]
        <5>1. PICK i \in 1..(m - 1) : p[k] = s[i]
          BY <2>2 DEF Sieved
        <5>2. i \in DOMAIN s /\ m \in DOMAIN s /\ i # m
          OBVIOUS
        <5> QED BY <2>6, <5>1, <5>2 DEF Distinct
      <4> QED BY <2>1, <4>1
    <3>2. Distinct(p)
      BY <2>6 DEF Sieved
    <3>3. \A i, j \in 1..Len(p) : q[i] = q[j] => i = j
      BY <2>1, <2>2, <3>2 DEF Distinct
    <3>4. ASSUME NEW i \in DOMAIN q, NEW j \in DOMAIN q, q[i] = q[j] PROVE i = j
      <4>1. i \in 1..Len(p) \/ i = Len(p) + 1
        BY <2>2
      <4>2. j \in 1..Len(p) \/ j = Len(p) + 1
        BY <2>2
      <4> QED BY <3>1, <3>3, <3>4, <4>1, <4>2
    <3> QED BY <3>4 DEF Distinct
  <2> QED BY <2>1, <2>3, <2>4, <2>5, <2>6 DEF Sieved
<1>2. CASE s[m] \notin T
  <2>1. q = p
    BY <1>2
  <2>2. ASSUME NEW i \in 1..m, s[i] \in T PROVE \E k \in DOMAIN q : q[k] = s[i]
    <3>1. i \in 1..(m - 1)
      BY <1>2, <2>2
    <3> QED BY <2>1, <2>2, <3>1 DEF Sieved
  <2>3. ASSUME NEW k \in DOMAIN q PROVE q[k] \in T /\ \E i \in 1..m : q[k] = s[i]
    BY <2>1 DEF Sieved
  <2>4. ~\A i \in 1..m : s[i] \in T
    BY <1>2
  <2>5. Distinct(s) => Distinct(q)
    BY <2>1 DEF Sieved
  <2> QED BY <2>1, <2>2, <2>3, <2>4, <2>5 DEF Sieved
<1> QED BY <1>1, <1>2

\* Sift, at any length, has kept what is in T.
LEMMA SiftSieves ==
    ASSUME NEW S, NEW s \in Seq(S), NEW T, NEW m \in 0..Len(s)
    PROVE  Sift(s, T)[m] \in Seq(S) /\ Sieved(s, T, Sift(s, T)[m], m)
<1> DEFINE f == Sift(s, T)
           Sound(k) == f[k] \in Seq(S) /\ Sieved(s, T, f[k], k)
           Bad == {k \in 0..Len(s) : ~Sound(k)}
<1>0. \A n \in 0..Len(s) : f[n] = More(s, T, f, n)
  BY SiftIs DEF IsSift
<1> HIDE DEF f
<1> SUFFICES ASSUME Bad # {} PROVE FALSE
  BY DEF f
<1>1. PICK k \in Bad : \A j \in Bad : k <= j
  <2>1. Bad \in SUBSET Nat
    OBVIOUS
  <2> HIDE DEF Bad
  <2> QED BY <2>1, LeastOf
<1>2. k \in 0..Len(s) /\ ~Sound(k)
  OBVIOUS
<1>3. CASE k = 0
  <2>1. f[0] = <<>>
    BY <1>0, <1>2, <1>3 DEF More
  <2>2. Sieved(s, T, <<>>, 0) /\ <<>> \in Seq(S)
    BY DEF Sieved, Distinct
  <2> QED BY <1>2, <1>3, <2>1, <2>2
<1>4. CASE k # 0
  <2>1. k - 1 \in 0..Len(s) /\ k - 1 \notin Bad /\ k \in 1..Len(s)
    BY <1>1, <1>2, <1>4
  <2>2. Sound(k - 1)
    BY <2>1
  <2>3. f[k] = IF s[k] \in T THEN Append(f[k - 1], s[k]) ELSE f[k - 1]
    BY <1>0, <1>2, <1>4 DEF More
  <2>4. Sound(k)
    <3>1. PICK p, q : p = f[k - 1] /\ q = f[k]
      OBVIOUS
    <3>2. p \in Seq(S) /\ Sieved(s, T, p, k - 1) /\ q = IF s[k] \in T THEN Append(p, s[k]) ELSE p
      BY <2>2, <2>3, <3>1
    <3>3. q \in Seq(S) /\ Sieved(s, T, q, k)
      BY <2>1, <3>2, SieveStep
    <3> QED BY <3>1, <3>3
  <2> QED BY <1>2, <2>4
<1> QED BY <1>3, <1>4

\* What Only leaves: the elements in T, and all of s if they all are.
LEMMA OnlyIs ==
    ASSUME NEW S, NEW s \in Seq(S), NEW T
    PROVE  /\ Only(s, T) \in Seq(S)
           /\ ToSet(Only(s, T)) = ToSet(s) \cap T
           /\ ToSet(s) \subseteq T => Only(s, T) = s
           /\ Distinct(s) => Distinct(Only(s, T))
<1>1. PICK q : q = Only(s, T)
  OBVIOUS
<1>2. q \in Seq(S) /\ Sieved(s, T, q, Len(s))
  <2>1. Len(s) \in 0..Len(s)
    OBVIOUS
  <2>2. Sift(s, T)[Len(s)] \in Seq(S) /\ Sieved(s, T, Sift(s, T)[Len(s)], Len(s))
    BY <2>1, SiftSieves
  <2> QED BY <1>1, <2>2 DEF Only
<1>3. ToSet(q) = ToSet(s) \cap T
  <2>1. ASSUME NEW k \in DOMAIN q PROVE q[k] \in ToSet(s) \cap T
    BY <1>2, <2>1 DEF Sieved, ToSet
  <2>2. ASSUME NEW i \in DOMAIN s, s[i] \in T PROVE s[i] \in ToSet(q)
    <3>1. i \in 1..Len(s)
      OBVIOUS
    <3>2. PICK k \in DOMAIN q : q[k] = s[i]
      BY <1>2, <2>2, <3>1 DEF Sieved
    <3> QED BY <3>2 DEF ToSet
  <2> QED BY <2>1, <2>2 DEF ToSet
<1>4. ASSUME ToSet(s) \subseteq T PROVE q = s
  <2>1. \A i \in 1..Len(s) : s[i] \in T
    BY <1>4 DEF ToSet
  <2>2. Len(q) = Len(s) /\ \A i \in 1..Len(s) : q[i] = s[i]
    BY <1>2, <2>1 DEF Sieved
  <2> QED BY <1>2, <2>2
<1>5. Distinct(s) => Distinct(q)
  BY <1>2 DEF Sieved
<1> QED BY <1>1, <1>2, <1>3, <1>4, <1>5

\* There are n numbers from 1 to n.
LEMMA UpTo ==
    ASSUME NEW n \in Nat
    PROVE  IsFiniteSet(1..n) /\ Cardinality(1..n) = n
<1>1. 1 \in Int /\ n \in Int
  OBVIOUS
<1>2. IsFiniteSet(1..n) /\ Cardinality(1..n) = IF 1 > n THEN 0 ELSE n - 1 + 1
  BY <1>1, FS_Interval
<1> QED BY <1>2

\* A sequence without repetitions is not longer than there are elements.
LEMMA DistinctShort ==
    ASSUME NEW S, NEW s \in Seq(S), NEW m \in Nat, ToSet(s) \subseteq 1..m, Distinct(s)
    PROVE  Len(s) <= m
<1>1. Len(s) \in Nat /\ DOMAIN s = 1..Len(s)
  OBVIOUS
<1>2. s \in [1..Len(s) -> 1..m]
  BY <1>1 DEF ToSet
<1>3. s \in Injection(1..Len(s), 1..m)
  BY <1>1, <1>2 DEF Injection, IsInjective, Distinct
<1>4. /\ IsFiniteSet(1..Len(s)) /\ Cardinality(1..Len(s)) = Len(s)
      /\ IsFiniteSet(1..m) /\ Cardinality(1..m) = m
  BY <1>1, UpTo
<1>5. Cardinality(1..Len(s)) <= Cardinality(1..m)
  BY <1>3, <1>4, FS_Injection
<1> QED BY <1>4, <1>5

-----------------------------------------------------------------------------
(* The scheduler *)

\* What holds of a job that no request is about.
Match(j) ==
    /\ j \in reg => jobs[j].active
    /\ jobs[j].active /\ jobs[j].kind = "repeating" => j \in reg

\* What holds of a job while the one request q about it is under way.
Ready(j, q) ==
    /\ q.at = "register" => jobs[j].active
    /\ q.at = "entry" => Match(j) /\ q.saw = jobs[j].active
    /\ q.at = "row" => j \notin reg
    /\ q.at = "commit" =>
         /\ q.saw = jobs[j].active
         /\ q.to => (jobs[j].kind = "repeating" => j \in reg)
         /\ ~q.to => j \notin reg

\* A request is about a job that has a row.
RequestsHaveRows ==
    \A r \in JobReqs : jreq[r].at \notin {"idle", "insert"} => jobs[jreq[r].job] # NoJob

\* A job that is not in raced has one request at most, and is ready for its
\* next step.
Calm(j) ==
    /\ \A r, s \in About(j) : r = s
    /\ About(j) = {} => Match(j)
    /\ \A r \in About(j) : Ready(j, jreq[r])

SchedIInv == SchedTypeOK /\ RequestsHaveRows /\ \A j \in Jobs \ raced : Calm(j)

-----------------------------------------------------------------------------
(* The shape of rows and requests *)

\* A request is idle, inserts a row, or is about a job.
LEMMA SchedRequestShapes ==
    ASSUME SchedTypeOK, NEW r \in JobReqs
    PROVE  \/ jreq[r] = IdleReq /\ jreq[r].at = "idle"
           \/ jreq[r].at = "insert" /\ jreq[r].row \in Asked
           \/ jreq[r].at \in {"register", "row"} /\ jreq[r].job \in Jobs
           \/ /\ jreq[r] \in [at : {"entry", "commit"}, job : Jobs, to : BOOLEAN, saw : BOOLEAN]
              /\ jreq[r].at \in {"entry", "commit"} /\ jreq[r].job \in Jobs
              /\ jreq[r].to \in BOOLEAN /\ jreq[r].saw \in BOOLEAN
BY DEF SchedTypeOK, IdleReq

\* A row has a kind that has been asked for, and is no row that is missing.
LEMMA RowShapes ==
    ASSUME SchedTypeOK, NEW j \in Jobs
    PROVE  /\ jobs[j].active \in BOOLEAN
           /\ jobs[j] # NoJob =>
                /\ jobs[j] \in [name : {a.name : a \in Asked}, kind : {a.kind : a \in Asked},
                               active : BOOLEAN, runs : {"never", "some"}]
                /\ jobs[j].kind # "none"
           /\ ~NoJob.active
<1>1. jobs[j] # NoJob =>
        jobs[j] \in [name : {a.name : a \in Asked}, kind : {a.kind : a \in Asked},
                    active : BOOLEAN, runs : {"never", "some"}]
  BY DEF SchedTypeOK
<1>2. NoJob.active = FALSE
  BY DEF NoJob
<1>3. ASSUME jobs[j] # NoJob PROVE jobs[j].kind # "none"
  <2>1. PICK a \in Asked : jobs[j].kind = a.kind
    BY <1>1, <1>3
  <2> QED BY <2>1, SchedulerAssumption
<1> QED BY <1>1, <1>2, <1>3

\* A step that changes neither the row nor the entry of a job nor a request
\* about it leaves the job calm.
LEMMA Untouched ==
    ASSUME NEW k, Calm(k), jobs'[k] = jobs[k], k \in reg' <=> k \in reg,
           About(k)' = About(k), \A r \in About(k) : jreq'[r] = jreq[r]
    PROVE  Calm(k)'
<1>1. Match(k)' <=> Match(k)
  BY DEF Match
<1>2. \A r \in About(k) : Ready(k, jreq[r])'
  BY <1>1 DEF Calm, Ready
<1> QED BY <1>1, <1>2 DEF Calm

\* A step of a request that is not about k, before or after it, does not
\* disturb k.
LEMMA OtherJobs ==
    ASSUME NEW r \in JobReqs, \A s \in JobReqs \ {r} : jreq'[s] = jreq[s],
           NEW k, r \notin About(k), r \notin About(k)',
           Calm(k), jobs'[k] = jobs[k], k \in reg' <=> k \in reg
    PROVE  Calm(k)'
<1>1. About(k)' = About(k) /\ \A s \in About(k) : jreq'[s] = jreq[s]
  BY DEF About
<1> QED BY <1>1, Untouched

-----------------------------------------------------------------------------
(* Type correctness *)

\* Steps of requests keep the types.
LEMMA RequestTypes ==
    ASSUME SchedTypeOK, RequestsHaveRows, NEW r \in JobReqs,
           \/ \E a \in Asked : CreateCheck(r, a)
           \/ CreateInsert(r)
           \/ CreateRegister(r)
           \/ \E j \in Jobs : DeleteEntry(r, j) \/ \E on \in BOOLEAN : ToggleRead(r, j, on)
           \/ ToggleEntry(r)
           \/ DeleteRead(r)
           \/ CommitActive(r)
           \/ CommitFails(r)
    PROVE  SchedTypeOK'
<1>1. ASSUME NEW a \in Asked, CreateCheck(r, a) PROVE SchedTypeOK'
  BY <1>1 DEF CreateCheck, SchedTypeOK
<1>2. CASE CreateInsert(r)
  <2>1. jreq[r].row \in Asked
    BY <1>2, SchedRequestShapes DEF CreateInsert
  <2>2. ASSUME NEW j \in Jobs,
               jobs' = [jobs EXCEPT ![j] =
                 [name |-> jreq[r].row.name, kind |-> jreq[r].row.kind,
                  active |-> TRUE, runs |-> "never"]],
               jreq' = [jreq EXCEPT ![r] = [at |-> "register", job |-> j]]
        PROVE  SchedTypeOK'
    BY <1>2, <2>1, <2>2 DEF CreateInsert, SchedTypeOK
  <2>3. ASSUME JobAnswered(r), UNCHANGED jobs PROVE SchedTypeOK'
    BY <1>2, <2>3 DEF CreateInsert, SchedTypeOK, JobAnswered
  <2> QED BY <1>2, <2>2, <2>3 DEF CreateInsert
<1>3. CASE CreateRegister(r)
  <2>1. jreq[r].job \in Jobs
    BY <1>3, SchedRequestShapes DEF CreateRegister
  <2> QED BY <1>3, <2>1 DEF CreateRegister, JobAnswered, Registered, SchedTypeOK
<1>4. ASSUME NEW j \in Jobs, DeleteEntry(r, j) PROVE SchedTypeOK'
  BY <1>4 DEF DeleteEntry, JobRequest, SchedTypeOK
<1>5. ASSUME NEW j \in Jobs, NEW on \in BOOLEAN, ToggleRead(r, j, on) PROVE SchedTypeOK'
  <2>1. [at |-> "entry", job |-> j, to |-> on, saw |-> jobs[j].active]
          \in [at : {"entry", "commit"}, job : Jobs, to : BOOLEAN, saw : BOOLEAN]
    BY <1>5, RowShapes
  <2> QED BY <1>5, <2>1 DEF ToggleRead, JobRequest, SchedTypeOK
<1>6. CASE ToggleEntry(r)
  <2>1. /\ jreq[r] \in [at : {"entry", "commit"}, job : Jobs, to : BOOLEAN, saw : BOOLEAN]
        /\ jreq[r].job \in Jobs
    BY <1>6, SchedRequestShapes DEF ToggleEntry
  <2>2. [jreq[r] EXCEPT !.at = "commit"]
          \in [at : {"entry", "commit"}, job : Jobs, to : BOOLEAN, saw : BOOLEAN]
    BY <2>1
  <2>3. jreq' = [jreq EXCEPT ![r] = [jreq[r] EXCEPT !.at = "commit"]]
    BY <1>6 DEF ToggleEntry
  <2>4. reg' \subseteq Jobs
    BY <1>6, <2>1 DEF ToggleEntry, Registered, SchedTypeOK
  <2> QED BY <1>6, <2>2, <2>3, <2>4 DEF ToggleEntry, SchedTypeOK
<1>7. CASE DeleteRead(r)
  <2>1. jreq[r].job \in Jobs
    BY <1>7, SchedRequestShapes DEF DeleteRead
  <2>2. [at |-> "commit", job |-> jreq[r].job, to |-> FALSE, saw |-> jobs[jreq[r].job].active]
          \in [at : {"entry", "commit"}, job : Jobs, to : BOOLEAN, saw : BOOLEAN]
    BY <2>1, RowShapes
  <2> QED BY <1>7, <2>2 DEF DeleteRead, SchedTypeOK
<1>8. CASE CommitActive(r)
  <2>1. jreq[r].job \in Jobs /\ jreq[r].to \in BOOLEAN
    BY <1>8, SchedRequestShapes DEF CommitActive
  <2>2. CASE jobs' = jobs
    BY <1>8, <2>2 DEF CommitActive, JobAnswered, SchedTypeOK
  <2>3. CASE jobs' = [jobs EXCEPT ![jreq[r].job].active = jreq[r].to] /\ jobs[jreq[r].job] # NoJob
    <3>1. [jobs[jreq[r].job] EXCEPT !.active = jreq[r].to]
             \in [name : {a.name : a \in Asked}, kind : {a.kind : a \in Asked},
                 active : BOOLEAN, runs : {"never", "some"}]
      BY <2>1, <2>3, RowShapes
    <3> QED BY <1>8, <2>1, <2>3, <3>1 DEF CommitActive, JobAnswered, SchedTypeOK
  <2>4. jobs[jreq[r].job] # NoJob
    BY <1>8 DEF CommitActive, RequestsHaveRows
  <2> QED BY <1>8, <2>2, <2>3, <2>4 DEF CommitActive
<1>9. CASE CommitFails(r)
  <2>1. jreq[r].job \in Jobs
    BY <1>9, SchedRequestShapes DEF CommitFails
  <2> QED BY <1>9, <2>1 DEF CommitFails, JobAnswered, SchedTypeOK
<1> QED BY <1>1, <1>2, <1>3, <1>4, <1>5, <1>6, <1>7, <1>8, <1>9

-----------------------------------------------------------------------------
(* Requests keep the invariant *)

\* Looking for a name concerns no job.
LEMMA CheckInv ==
    ASSUME SchedIInv, NEW r \in JobReqs, NEW a \in Asked, CreateCheck(r, a)
    PROVE  RequestsHaveRows' /\ \A k \in Jobs \ raced' : Calm(k)'
<1>1. /\ jreq' = [jreq EXCEPT ![r] = [at |-> "insert", row |-> a]]
      /\ jreq[r].at = "idle" /\ jobs' = jobs /\ reg' = reg /\ raced' = raced
  BY DEF CreateCheck, IdleReq
<1>2. jreq'[r].at = "insert" /\ \A s \in JobReqs \ {r} : jreq'[s] = jreq[s]
  BY <1>1 DEF SchedIInv, SchedTypeOK
<1>3. RequestsHaveRows'
  BY <1>1, <1>2 DEF SchedIInv, RequestsHaveRows
<1>4. ASSUME NEW k \in Jobs \ raced' PROVE Calm(k)'
  <2>1. r \notin About(k) /\ r \notin About(k)'
    BY <1>1, <1>2 DEF About
  <2> QED BY <1>1, <1>2, <1>4, <2>1, OtherJobs DEF SchedIInv
<1> QED BY <1>3, <1>4

\* Inserting a row: nothing was registered for the new id, and no request was
\* about it, because it had no row.
LEMMA InsertInv ==
    ASSUME SchedIInv, NEW r \in JobReqs, CreateInsert(r)
    PROVE  RequestsHaveRows' /\ \A k \in Jobs \ raced' : Calm(k)'
<1>1. CASE JobAnswered(r) /\ UNCHANGED jobs
  <2>1. jreq'[r].at = "idle" /\ \A s \in JobReqs \ {r} : jreq'[s] = jreq[s]
    BY <1>1 DEF JobAnswered, SchedIInv, SchedTypeOK, IdleReq
  <2>2. ASSUME NEW k \in Jobs \ raced' PROVE Calm(k)'
    <3>1. r \notin About(k) /\ r \notin About(k)'
      BY <2>1 DEF About, CreateInsert
    <3> QED BY <1>1, <2>1, <2>2, <3>1, OtherJobs DEF SchedIInv, CreateInsert
  <2>3. RequestsHaveRows'
    BY <1>1, <2>1 DEF SchedIInv, RequestsHaveRows
  <2> QED BY <2>2, <2>3
<1>2. ASSUME NEW j \in Jobs \ JobRows,
             jobs' = [jobs EXCEPT ![j] =
                 [name |-> jreq[r].row.name, kind |-> jreq[r].row.kind,
                  active |-> TRUE, runs |-> "never"]],
             jreq' = [jreq EXCEPT ![r] = [at |-> "register", job |-> j]]
      PROVE  RequestsHaveRows' /\ \A k \in Jobs \ raced' : Calm(k)'
  <2>1. /\ jreq'[r] = [at |-> "register", job |-> j]
        /\ \A s \in JobReqs \ {r} : jreq'[s] = jreq[s]
        /\ jobs[j] = NoJob /\ jobs'[j].active
        /\ \A k \in Jobs \ {j} : jobs'[k] = jobs[k]
    BY <1>2 DEF SchedIInv, SchedTypeOK, JobRows
  <2>2. jobs'[j] # NoJob
    BY <2>1 DEF NoJob
  <2>3. RequestsHaveRows'
    <3> SUFFICES ASSUME NEW s \in JobReqs, jreq'[s].at \notin {"idle", "insert"}
                 PROVE  jobs'[jreq'[s].job] # NoJob
        BY DEF RequestsHaveRows
    <3>1. CASE s = r
        BY <2>1, <2>2, <3>1
    <3>2. CASE s # r
        <4>1. jreq'[s] = jreq[s] /\ jobs[jreq[s].job] # NoJob
          BY <2>1, <3>2 DEF SchedIInv, RequestsHaveRows
        <4>2. jreq[s].job \in Jobs
          BY <4>1, SchedRequestShapes DEF SchedIInv
        <4> QED BY <2>1, <2>2, <4>1, <4>2
    <3> QED BY <3>1, <3>2
  <2>4. ASSUME NEW k \in Jobs \ raced' PROVE Calm(k)'
    <3>1. CASE k # j
        <4>1. r \notin About(k) /\ r \notin About(k)'
          BY <2>1, <3>1 DEF About, CreateInsert
        <4>2. reg' = reg /\ Calm(k) /\ jobs'[k] = jobs[k]
          BY <2>1, <2>4, <3>1 DEF SchedIInv, CreateInsert
        <4> QED BY <2>1, <4>1, <4>2, OtherJobs
    <3>2. CASE k = j
        <4>1. About(j)' = {r}
          <5>1. About(j) = {}
            BY <2>1 DEF About, SchedIInv, RequestsHaveRows
          <5> QED BY <2>1, <5>1 DEF About
        <4>2. Ready(j, jreq[r])'
          BY <2>1 DEF Ready
        <4> QED BY <3>2, <4>1, <4>2 DEF Calm
    <3> QED BY <3>1, <3>2
  <2> QED BY <2>3, <2>4
<1> QED BY <1>1, <1>2 DEF CreateInsert

\* The steps of a request r that is about j already: other jobs stay calm, and
\* j does when its new state is ready or answered.
LEMMA StepAbout ==
    ASSUME SchedIInv, NEW r \in JobReqs, NEW j \in Jobs,
           jreq[r].at \notin {"idle", "insert"}, jreq[r].job = j,
           \A s \in JobReqs \ {r} : jreq'[s] = jreq[s],
           jreq'[r].at # "insert", jreq'[r].at # "idle" => jreq'[r].job = j,
           \A k \in Jobs \ {j} : jobs'[k] = jobs[k] /\ (k \in reg' <=> k \in reg),
           jobs'[j] # NoJob,
           raced \subseteq raced',
           j \notin raced' =>
             /\ jreq'[r].at = "idle" => Match(j)'
             /\ jreq'[r].at # "idle" => Ready(j, jreq[r])'
    PROVE  RequestsHaveRows' /\ \A k \in Jobs \ raced' : Calm(k)'
<1>1. RequestsHaveRows'
  <2> SUFFICES ASSUME NEW s \in JobReqs, jreq'[s].at \notin {"idle", "insert"}
               PROVE  jobs'[jreq'[s].job] # NoJob
      BY DEF RequestsHaveRows
  <2>1. CASE s = r
      BY <2>1
  <2>2. CASE s # r
      <3>1. jreq'[s] = jreq[s] /\ jobs[jreq[s].job] # NoJob
        BY <2>2 DEF SchedIInv, RequestsHaveRows
      <3>2. jreq[s].job \in Jobs
        BY <3>1, SchedRequestShapes DEF SchedIInv
      <3> QED BY <3>1, <3>2
  <2> QED BY <2>1, <2>2
<1>2. ASSUME NEW k \in Jobs \ raced' PROVE Calm(k)'
  <2>1. CASE k # j
      <3>1. r \notin About(k) /\ r \notin About(k)'
        BY <2>1 DEF About
      <3> QED BY <1>2, <2>1, <3>1, OtherJobs DEF SchedIInv
  <2>2. CASE k = j
      <3>1. About(j) = {r}
        BY <1>2, <2>2 DEF About, SchedIInv, Calm
      <3>2. About(j)' = IF jreq'[r].at = "idle" THEN {} ELSE {r}
        <4>1. \A s \in JobReqs \ {r} : s \notin About(j)'
          BY <3>1 DEF About
        <4>2. r \in About(j)' <=> jreq'[r].at # "idle"
          BY DEF About
        <4>3. About(j)' \subseteq JobReqs
          BY DEF About
        <4> QED BY <4>1, <4>2, <4>3
      <3> QED BY <1>2, <2>2, <3>2 DEF Calm
  <2> QED BY <2>1, <2>2
<1> QED BY <1>1, <1>2

\* What is known of the job of the only request about it.
LEMMA ReadyNow ==
    ASSUME SchedIInv, NEW r \in JobReqs, NEW j \in Jobs \ raced,
           jreq[r].at \notin {"idle", "insert"}, jreq[r].job = j
    PROVE  Ready(j, jreq[r])
<1>1. r \in About(j)
  BY DEF About
<1> QED BY <1>1 DEF SchedIInv, Calm

LEMMA RegisterInv ==
    ASSUME SchedIInv, NEW r \in JobReqs, CreateRegister(r)
    PROVE  RequestsHaveRows' /\ \A k \in Jobs \ raced' : Calm(k)'
<1>0. PICK j \in Jobs : j = jreq[r].job
  BY SchedRequestShapes DEF CreateRegister, SchedIInv
<1>1. /\ jreq[r].at = "register" /\ jreq[r].job = j /\ jobs[j] # NoJob
      /\ jobs' = jobs /\ raced' = raced /\ reg' = Registered(j)
  BY <1>0, SchedRequestShapes DEF CreateRegister, SchedIInv, RequestsHaveRows
<1>2. jreq'[r].at = "idle" /\ \A s \in JobReqs \ {r} : jreq'[s] = jreq[s]
  BY DEF CreateRegister, JobAnswered, SchedIInv, SchedTypeOK, IdleReq
<1>3. \A k \in Jobs \ {j} : k \in reg' <=> k \in reg
  BY <1>1 DEF Registered
<1>4. ASSUME j \notin raced PROVE Match(j)'
  <2>1. jobs[j].active
    BY <1>1, <1>4, ReadyNow DEF Ready
  <2> QED BY <1>1, <2>1 DEF Match, Registered, Buildable
<1> QED BY <1>1, <1>2, <1>3, <1>4, StepAbout

LEMMA EntryInv ==
    ASSUME SchedIInv, NEW r \in JobReqs, ToggleEntry(r)
    PROVE  RequestsHaveRows' /\ \A k \in Jobs \ raced' : Calm(k)'
<1>0. PICK j \in Jobs : j = jreq[r].job
  BY SchedRequestShapes DEF ToggleEntry, SchedIInv
<1>1. /\ jreq[r].at = "entry" /\ jreq[r].job = j /\ jobs[j] # NoJob
      /\ jobs' = jobs /\ raced' = raced
      /\ reg' = IF jreq[r].to THEN Registered(j) ELSE reg \ {j}
  BY <1>0, SchedRequestShapes DEF ToggleEntry, SchedIInv, RequestsHaveRows
<1>2. jreq[r] \in [at : {"entry", "commit"}, job : Jobs, to : BOOLEAN, saw : BOOLEAN]
  BY <1>1, SchedRequestShapes DEF SchedIInv
<1>3. /\ jreq'[r].at = "commit" /\ jreq'[r].job = j
      /\ jreq'[r].to = jreq[r].to /\ jreq'[r].saw = jreq[r].saw
      /\ \A s \in JobReqs \ {r} : jreq'[s] = jreq[s]
  BY <1>0, <1>2 DEF ToggleEntry, SchedIInv, SchedTypeOK
<1>4. \A k \in Jobs \ {j} : k \in reg' <=> k \in reg
  BY <1>1 DEF Registered
<1>5. ASSUME j \notin raced PROVE Ready(j, jreq[r])'
  <2>1. jreq[r].saw = jobs[j].active
    BY <1>1, <1>5, ReadyNow DEF Ready
  <2> QED BY <1>1, <1>3, <2>1 DEF Ready, Registered, Buildable
<1> QED BY <1>1, <1>3, <1>4, <1>5, StepAbout

LEMMA DeleteReadInv ==
    ASSUME SchedIInv, NEW r \in JobReqs, DeleteRead(r)
    PROVE  RequestsHaveRows' /\ \A k \in Jobs \ raced' : Calm(k)'
<1>0. PICK j \in Jobs : j = jreq[r].job
  BY SchedRequestShapes DEF DeleteRead, SchedIInv
<1>1. /\ jreq[r].at = "row" /\ jreq[r].job = j /\ jobs[j] # NoJob
      /\ jobs' = jobs /\ raced' = raced /\ reg' = reg
  BY <1>0, SchedRequestShapes DEF DeleteRead, SchedIInv, RequestsHaveRows
<1>2. /\ jreq'[r] = [at |-> "commit", job |-> j, to |-> FALSE, saw |-> jobs[j].active]
      /\ \A s \in JobReqs \ {r} : jreq'[s] = jreq[s]
  BY <1>0 DEF DeleteRead, SchedIInv, SchedTypeOK
<1>3. ASSUME j \notin raced PROVE Ready(j, jreq[r])'
  <2>1. j \notin reg
    BY <1>1, <1>3, ReadyNow DEF Ready
  <2> QED BY <1>1, <1>2, <2>1 DEF Ready
<1> QED BY <1>1, <1>2, <1>3, StepAbout

LEMMA CommitInv ==
    ASSUME SchedIInv, NEW r \in JobReqs, CommitActive(r)
    PROVE  RequestsHaveRows' /\ \A k \in Jobs \ raced' : Calm(k)'
<1>0. PICK j \in Jobs : j = jreq[r].job
  BY SchedRequestShapes DEF CommitActive, SchedIInv
<1>1. /\ jreq[r].at = "commit" /\ jreq[r].job = j /\ jobs[j] # NoJob
      /\ jreq[r].to \in BOOLEAN /\ jreq[r].saw \in BOOLEAN
      /\ raced' = raced /\ reg' = reg
      /\ jobs' = IF jreq[r].to # jreq[r].saw
                 THEN [jobs EXCEPT ![j].active = jreq[r].to] ELSE jobs
  BY <1>0, SchedRequestShapes DEF CommitActive, SchedIInv, RequestsHaveRows
<1>2. jreq'[r].at = "idle" /\ \A s \in JobReqs \ {r} : jreq'[s] = jreq[s]
  BY DEF CommitActive, JobAnswered, SchedIInv, SchedTypeOK, IdleReq
<1>3. /\ jobs[j] \in [name : {a.name : a \in Asked}, kind : {a.kind : a \in Asked},
                      active : BOOLEAN, runs : {"never", "some"}]
      /\ jobs[j].kind # "none" /\ NoJob.kind = "none"
  BY <1>1, RowShapes DEF SchedIInv, NoJob
<1>4. \A k \in Jobs \ {j} : jobs'[k] = jobs[k]
  BY <1>1 DEF SchedIInv, SchedTypeOK
<1>5. /\ jobs'[j].kind = jobs[j].kind
      /\ jobs'[j].active = IF jreq[r].to # jreq[r].saw THEN jreq[r].to ELSE jobs[j].active
  BY <1>1, <1>3 DEF SchedIInv, SchedTypeOK
<1>6. jobs'[j] # NoJob
  BY <1>3, <1>5
<1>7. ASSUME j \notin raced PROVE Match(j)'
  <2>1. Ready(j, jreq[r])
    BY <1>1, <1>7, ReadyNow
  <2>2. jobs'[j].active = jreq[r].to
    BY <1>1, <1>5, <2>1 DEF Ready
  <2> QED BY <1>1, <1>5, <2>1, <2>2 DEF Ready, Match
<1> QED BY <1>1, <1>2, <1>4, <1>6, <1>7, StepAbout

\* A job whose commit fails is not looked at any more.
LEMMA CommitFailsInv ==
    ASSUME SchedIInv, NEW r \in JobReqs, CommitFails(r)
    PROVE  RequestsHaveRows' /\ \A k \in Jobs \ raced' : Calm(k)'
<1>0. PICK j \in Jobs : j = jreq[r].job
  BY SchedRequestShapes DEF CommitFails, SchedIInv
<1>1. /\ jreq[r].at = "commit" /\ jreq[r].job = j /\ jobs[j] # NoJob
      /\ jobs' = jobs /\ raced' = raced \cup {j} /\ reg' = reg
  BY <1>0, SchedRequestShapes DEF CommitFails, SchedIInv, RequestsHaveRows
<1>2. jreq'[r].at = "idle" /\ \A s \in JobReqs \ {r} : jreq'[s] = jreq[s]
  BY DEF CommitFails, JobAnswered, SchedIInv, SchedTypeOK, IdleReq
<1> QED BY <1>1, <1>2, StepAbout

\* A request about j begins: the first one finds the job as it must be, and any
\* further one puts it into raced.
LEMMA BeginAbout ==
    ASSUME SchedIInv, NEW r \in JobReqs, NEW j \in Jobs, NEW q,
           JobRequest(r, j, q), jobs[j] # NoJob, jobs' = jobs,
           q.at \notin {"idle", "insert"}, q.job = j,
           \A k \in Jobs \ {j} : k \in reg' <=> k \in reg,
           Match(j) => Ready(j, q)'
    PROVE  RequestsHaveRows' /\ \A k \in Jobs \ raced' : Calm(k)'
<1>1. /\ jreq[r].at = "idle" /\ jreq'[r] = q
      /\ \A s \in JobReqs \ {r} : jreq'[s] = jreq[s]
      /\ raced \subseteq raced'
  BY DEF JobRequest, IdleReq, SchedIInv, SchedTypeOK
<1>2. RequestsHaveRows'
  <2> SUFFICES ASSUME NEW s \in JobReqs, jreq'[s].at \notin {"idle", "insert"}
               PROVE  jobs'[jreq'[s].job] # NoJob
      BY DEF RequestsHaveRows
  <2>1. CASE s = r
      BY <1>1, <2>1
  <2>2. CASE s # r
      BY <1>1, <2>2 DEF SchedIInv, RequestsHaveRows
  <2> QED BY <2>1, <2>2
<1>3. ASSUME NEW k \in Jobs \ raced' PROVE Calm(k)'
  <2>1. CASE k # j
      <3>1. r \notin About(k) /\ r \notin About(k)'
        BY <1>1, <2>1 DEF About
      <3> QED BY <1>1, <1>3, <2>1, <3>1, OtherJobs DEF SchedIInv
  <2>2. CASE k = j
      <3>1. About(j) = {} /\ j \notin raced
        BY <1>1, <1>3, <2>2 DEF JobRequest
      <3>2. Match(j)
        BY <3>1 DEF SchedIInv, Calm
      <3>3. About(j)' = {r}
        BY <1>1, <3>1 DEF About
      <3>4. Ready(j, jreq[r])'
        BY <1>1, <3>2 DEF Ready
      <3> QED BY <2>2, <3>3, <3>4 DEF Calm
  <2> QED BY <2>1, <2>2
<1> QED BY <1>2, <1>3

LEMMA ToggleReadInv ==
    ASSUME SchedIInv, NEW r \in JobReqs, NEW j \in Jobs, NEW on \in BOOLEAN, ToggleRead(r, j, on)
    PROVE  RequestsHaveRows' /\ \A k \in Jobs \ raced' : Calm(k)'
<1>1. PICK q : q = [at |-> "entry", job |-> j, to |-> on, saw |-> jobs[j].active]
  OBVIOUS
<1>2. JobRequest(r, j, q) /\ jobs[j] # NoJob /\ jobs' = jobs /\ reg' = reg
  BY <1>1 DEF ToggleRead, JobRows
<1>3. Match(j) => Ready(j, q)'
  BY <1>1, <1>2 DEF Match, Ready
<1> QED BY <1>1, <1>2, <1>3, BeginAbout

LEMMA DeleteEntryInv ==
    ASSUME SchedIInv, NEW r \in JobReqs, NEW j \in Jobs, DeleteEntry(r, j)
    PROVE  RequestsHaveRows' /\ \A k \in Jobs \ raced' : Calm(k)'
<1>1. PICK q : q = [at |-> "row", job |-> j]
  OBVIOUS
<1>2. JobRequest(r, j, q) /\ jobs[j] # NoJob /\ jobs' = jobs /\ reg' = reg \ {j}
  BY <1>1 DEF DeleteEntry, JobRows
<1>3. Ready(j, q)'
  BY <1>1, <1>2 DEF Ready
<1> QED BY <1>1, <1>2, <1>3, BeginAbout

-----------------------------------------------------------------------------
(* The event loop and restarts keep the invariant *)

\* A one-time entry that goes, because it fires or comes too late.
LEMMA OnceGoes ==
    ASSUME SchedIInv, NEW j \in Jobs, jobs[j].kind = "once",
           jobs' = jobs, jreq' = jreq, raced' = raced, reg' = reg \ {j}
    PROVE  RequestsHaveRows' /\ \A k \in Jobs \ raced' : Calm(k)'
<1>1. RequestsHaveRows'
  BY DEF SchedIInv, RequestsHaveRows
<1>2. ASSUME NEW k \in Jobs \ raced' PROVE Calm(k)'
  <2>1. About(k)' = About(k) /\ Calm(k)
    BY <1>2 DEF About, SchedIInv
  <2>2. Match(k) => Match(k)'
    BY DEF Match
  <2>3. \A r \in About(k) : Ready(k, jreq[r])'
    BY <2>1, <2>2 DEF Calm, Ready
  <2> QED BY <2>1, <2>2, <2>3 DEF Calm
<1> QED BY <1>1, <1>2

\* Nothing that the invariant speaks of changes.
LEMMA NothingChanges ==
    ASSUME SchedIInv, jobs' = jobs, jreq' = jreq, raced' = raced, reg' = reg
    PROVE  RequestsHaveRows' /\ \A k \in Jobs \ raced' : Calm(k)'
<1>1. ASSUME NEW k \in Jobs \ raced' PROVE Calm(k)'
  <2>1. About(k)' = About(k) /\ Calm(k)
    BY <1>1 DEF About, SchedIInv
  <2> QED BY <2>1, Untouched
<1>2. RequestsHaveRows'
  BY DEF SchedIInv, RequestsHaveRows
<1> QED BY <1>1, <1>2

\* A new process has no requests, and registers exactly the active rows.
LEMMA ReloadInv ==
    ASSUME SchedIInv, Reload
    PROVE  RequestsHaveRows' /\ \A k \in Jobs \ raced' : Calm(k)'
<1>1. \A r \in JobReqs : jreq'[r].at = "idle"
  BY DEF Reload, IdleReq
<1>2. ASSUME NEW k \in Jobs PROVE Calm(k)'
  <2>1. About(k)' = {}
    BY <1>1 DEF About
  <2>2. Match(k)'
    <3>1. k \in reg' <=> jobs[k] # NoJob /\ jobs[k].active /\ Buildable(k)
      BY DEF Reload, JobRows
    <3>2. jobs[k].active => jobs[k] # NoJob
      BY RowShapes DEF SchedIInv
    <3> QED BY <3>1, <3>2 DEF Match, Buildable, Reload
  <2> QED BY <2>1, <2>2 DEF Calm
<1>3. RequestsHaveRows'
  BY <1>1 DEF RequestsHaveRows
<1> QED BY <1>2, <1>3

-----------------------------------------------------------------------------
(* Theorems *)

\* Initially there are no jobs, no entries and no requests.
LEMMA SchedInitInv == SchedInit => SchedIInv
<1> SUFFICES ASSUME SchedInit PROVE SchedIInv
    OBVIOUS
<1>1. SchedTypeOK
  BY DEF SchedInit, SchedTypeOK
<1>2. \A r \in JobReqs : jreq[r].at = "idle"
  BY DEF SchedInit, IdleReq
<1>3. ASSUME NEW k \in Jobs PROVE Calm(k)
  <2>1. About(k) = {}
    BY <1>2 DEF About
  <2>2. Match(k)
    BY DEF Match, SchedInit, NoJob
  <2> QED BY <2>1, <2>2 DEF Calm
<1> QED BY <1>1, <1>2, <1>3 DEF SchedIInv, RequestsHaveRows

\* Every step keeps the invariant.
LEMMA SchedNextInv == SchedIInv /\ [SchedNext]_schedVars => SchedIInv'
<1> SUFFICES ASSUME SchedIInv, [SchedNext]_schedVars PROVE SchedIInv'
    OBVIOUS
<1> USE DEF SchedIInv
<1>1. ASSUME NEW r \in JobReqs, NEW a \in Asked, CreateCheck(r, a) PROVE SchedIInv'
  BY <1>1, CheckInv, RequestTypes
<1>2. ASSUME NEW r \in JobReqs, CreateInsert(r) PROVE SchedIInv'
  BY <1>2, InsertInv, RequestTypes
<1>3. ASSUME NEW r \in JobReqs, CreateRegister(r) PROVE SchedIInv'
  BY <1>3, RegisterInv, RequestTypes
<1>4. ASSUME NEW r \in JobReqs, NEW j \in Jobs, DeleteEntry(r, j) PROVE SchedIInv'
  BY <1>4, DeleteEntryInv, RequestTypes
<1>5. ASSUME NEW r \in JobReqs, NEW j \in Jobs, NEW on \in BOOLEAN, ToggleRead(r, j, on)
      PROVE  SchedIInv'
  BY <1>5, ToggleReadInv, RequestTypes
<1>6. ASSUME NEW r \in JobReqs, ToggleEntry(r) PROVE SchedIInv'
  BY <1>6, EntryInv, RequestTypes
<1>7. ASSUME NEW r \in JobReqs, DeleteRead(r) PROVE SchedIInv'
  BY <1>7, DeleteReadInv, RequestTypes
<1>8. ASSUME NEW r \in JobReqs, CommitActive(r) PROVE SchedIInv'
  BY <1>8, CommitInv, RequestTypes
<1>9. ASSUME NEW r \in JobReqs, CommitFails(r) PROVE SchedIInv'
  BY <1>9, CommitFailsInv, RequestTypes
<1>10. ASSUME NEW j \in Jobs, RunJobNow(j) PROVE SchedIInv'
  <2>1. SchedTypeOK'
    BY <1>10 DEF RunJobNow, SchedTypeOK
  <2> QED BY <1>10, <2>1, NothingChanges DEF RunJobNow
<1>11. ASSUME NEW j \in Jobs, Fire(j) \/ Misfire(j) PROVE SchedIInv'
  <2>1. SchedTypeOK'
    BY <1>11 DEF Fire, Misfire, ExecuteJob, SchedTypeOK
  <2>2. CASE jobs[j].kind = "once"
    BY <1>11, <2>1, <2>2, OnceGoes DEF Fire, Misfire, ExecuteJob
  <2>3. CASE jobs[j].kind # "once"
    BY <1>11, <2>1, <2>3, NothingChanges DEF Fire, Misfire, ExecuteJob
  <2> QED BY <2>2, <2>3
<1>12. ASSUME NEW j \in Jobs, FireManual(j) PROVE SchedIInv'
  <2>1. SchedTypeOK'
    BY <1>12 DEF FireManual, ExecuteJob, SchedTypeOK
  <2> QED BY <1>12, <2>1, NothingChanges DEF FireManual, ExecuteJob
<1>13. CASE Reload
  <2>1. SchedTypeOK'
    BY <1>13 DEF Reload, SchedTypeOK, JobRows
  <2> QED BY <1>13, <2>1, ReloadInv
<1>14. CASE UNCHANGED schedVars
  <2>1. SchedTypeOK'
    BY <1>14 DEF schedVars, SchedTypeOK
  <2> QED BY <1>14, <2>1, NothingChanges DEF schedVars
<1> QED BY <1>1, <1>2, <1>3, <1>4, <1>5, <1>6, <1>7, <1>8, <1>9, <1>10, <1>11, <1>12,
           <1>13, <1>14 DEF SchedNext

\* scheduler.py: rows, entries and requests have their types, for any jobs,
\* schedules and number of requests.
THEOREM SchedTypeCorrect == SchedSpec => []SchedTypeOK
<1>1. SchedIInv => SchedTypeOK
  BY DEF SchedIInv
<1> QED BY <1>1, SchedInitInv, SchedNextInv, PTL DEF SchedSpec

\* scheduler.py:55,227,239: for any jobs, schedules and number of requests, with
\* failing commits and restarts, an entry stands for an active row, and an
\* active row that repeats has its entry, whenever no request about this job is
\* under way, unless requests about it have met or its commit has failed.
THEOREM RegistrySound == SchedSpec => []RegistryFollowsTable
<1>1. SchedIInv => RegistryFollowsTable
  BY DEF SchedIInv, Calm, Match, RegistryFollowsTable
<1> QED BY <1>1, SchedInitInv, SchedNextInv, PTL DEF SchedSpec

-----------------------------------------------------------------------------
(* The token cache *)

\* The cache lets a token live at most one step longer than Shopify does: the
\* time its answer took to be read.
Timely == \A s \in Sites : cache[s].until <= cache[s].token.issued + Life + 1

\* A token that is under way was issued a step ago at most, for the credentials
\* of its request.
JustIssued ==
    \A r \in TokenReqs : treq[r].at = "issued" =>
        /\ now <= treq[r].token.issued + 1
        /\ treq[r].token.of = treq[r].creds

\* Where no credentials were edited meanwhile, a usable token and those under
\* way are for the credentials of now.
UpToDate ==
    \A s \in Sites \ edited :
        /\ Usable(s) => cache[s].token.of = creds[s]
        /\ \A r \in TokenReqs :
              treq[r].at \in {"fetch", "issued"} /\ treq[r].site = s => treq[r].creds = creds[s]

TokenIInv == TokenTypeOK /\ Timely /\ JustIssued /\ UpToDate /\ TokenServes

-----------------------------------------------------------------------------
(* Shapes *)

\* A request is asleep, exchanging, about to read a token, or has one.
LEMMA TokenRequestShapes ==
    ASSUME TokenTypeOK, NEW r \in TokenReqs
    PROVE  \/ treq[r] = Asleep /\ treq[r].at = "idle"
           \/ /\ treq[r].at = "fetch"
              /\ treq[r] \in [at : {"fetch"}, site : Sites, creds : Credentials,
                              tries : 1..Retries]
           \/ /\ treq[r].at = "issued"
              /\ treq[r] \in [at : {"issued"}, site : Sites, creds : Credentials, token : Token]
           \/ /\ treq[r].at = "has"
              /\ treq[r] \in [at : {"has"}, site : Sites, creds : Credentials, token : Token,
                              when : 0..MaxTime]
BY DEF TokenTypeOK, Asleep

\* What stands for nothing has the types of what is there.
LEMMA TokenNothingTyped ==
    /\ Unset \in Credentials /\ NoToken \in Token
    /\ NoEntry \in [token : Token, until : Nat]
    /\ NoEntry.until = 0 /\ NoEntry.token = NoToken /\ NoToken.issued = 0
<1>1. (CHOOSE a \in Shops : TRUE) \in Shops
  BY TokenCacheAssumption
<1>2. Unset \in Credentials
  BY <1>1 DEF Unset, Credentials
<1>3. NoToken \in Token /\ NoToken.issued = 0
  BY <1>2, TokenCacheAssumption DEF NoToken, Token
<1> QED BY <1>2, <1>3 DEF NoEntry

\* A step in which request r goes from its state to q, and nothing else changes
\* that the invariant looks at.
LEMMA TokenRequestMoves ==
    ASSUME TokenIInv, NEW r \in TokenReqs, NEW q,
           treq' = [treq EXCEPT ![r] = q],
           UNCHANGED <<now, creds, half, cache>>, edited \subseteq edited', edited' \subseteq Sites,
           \/ q = Asleep
           \/ q \in [at : {"fetch"}, site : Sites, creds : Credentials, tries : 1..Retries]
           \/ q \in [at : {"issued"}, site : Sites, creds : Credentials, token : Token]
           \/ q \in [at : {"has"}, site : Sites, creds : Credentials, token : Token,
                     when : 0..MaxTime],
           q.at = "issued" => now <= q.token.issued + 1 /\ q.token.of = q.creds,
           q.at \in {"fetch", "issued"} /\ q.site \notin edited' => q.creds = creds[q.site],
           q.at = "has" => /\ Alive(q.token, q.when)
                           /\ q.site \notin edited' => q.token.of = q.creds
    PROVE  TokenIInv'
<1>1. treq'[r] = q /\ \A u \in TokenReqs \ {r} : treq'[u] = treq[u]
  BY DEF TokenIInv, TokenTypeOK
<1>2. TokenTypeOK'
  BY DEF TokenIInv, TokenTypeOK
<1>3. Timely'
  BY DEF TokenIInv, Timely
<1>4. JustIssued'
  BY <1>1 DEF TokenIInv, JustIssued
<1>5. UpToDate'
  <2> SUFFICES ASSUME NEW s \in Sites \ edited'
               PROVE  /\ Usable(s) => cache[s].token.of = creds[s]
                      /\ \A u \in TokenReqs :
                            treq'[u].at \in {"fetch", "issued"} /\ treq'[u].site = s
                              => treq'[u].creds = creds[s]
      BY DEF UpToDate, Usable
  <2> QED BY <1>1 DEF TokenIInv, UpToDate
<1>6. TokenServes'
  <2> SUFFICES ASSUME NEW u \in TokenReqs, treq'[u].at = "has"
               PROVE  /\ Alive(treq'[u].token, treq'[u].when)
                      /\ treq'[u].site \notin edited' => treq'[u].token.of = treq'[u].creds
      BY DEF TokenServes, Alive
  <2> QED BY <1>1 DEF TokenIInv, TokenServes
<1> QED BY <1>2, <1>3, <1>4, <1>5, <1>6 DEF TokenIInv

-----------------------------------------------------------------------------
(* Requests keep the invariant *)

\* The request of site s takes a token that is alive, and of its credentials
\* where those were not edited.
LEMMA HasInv ==
    ASSUME TokenIInv, NEW r \in TokenReqs, NEW s \in Sites, NEW token \in Token,
           treq' = [treq EXCEPT ![r] = Has(s, token)],
           UNCHANGED <<now, creds, half, cache>>, edited' = ReadBy(s),
           Alive(token, now), s \notin edited => token.of = creds[s]
    PROVE  TokenIInv'
<1>1. PICK q : q = [at |-> "has", site |-> s, creds |-> creds[s], token |-> token, when |-> now]
  OBVIOUS
<1>2. q \in [at : {"has"}, site : Sites, creds : Credentials, token : Token, when : 0..MaxTime]
  BY <1>1 DEF TokenIInv, TokenTypeOK
<1>3. treq' = [treq EXCEPT ![r] = q]
  BY <1>1 DEF Has
<1>4. edited \subseteq edited' /\ edited' \subseteq Sites
  BY DEF ReadBy, TokenIInv, TokenTypeOK
<1> QED BY <1>1, <1>2, <1>3, <1>4, TokenRequestMoves

\* A static token belongs to the credentials themselves.
LEMMA StaticInv ==
    ASSUME TokenIInv, NEW r \in TokenReqs, NEW s \in Sites, TakeStatic(r, s)
    PROVE  TokenIInv'
<1>1. PICK token : token = [of |-> creds[s], issued |-> now]
  OBVIOUS
<1>2. token \in Token
  BY <1>1 DEF TokenIInv, TokenTypeOK, Token
<1>3. Alive(token, now)
  BY <1>1 DEF TakeStatic, Alive
<1> QED BY <1>1, <1>2, <1>3, HasInv DEF TakeStatic

\* What the cache calls usable has at least the margin less one step to live.
LEMMA CachedInv ==
    ASSUME TokenIInv, NEW r \in TokenReqs, NEW s \in Sites, TakeCached(r, s)
    PROVE  TokenIInv'
<1>1. PICK token : token = cache[s].token
  OBVIOUS
<1>2. /\ token \in Token /\ token.issued \in Nat /\ cache[s].until \in Nat /\ now \in Nat
      /\ Margin \in Nat /\ Margin >= 1 /\ Life \in Nat
  BY <1>1, TokenCacheAssumption DEF TokenIInv, TokenTypeOK, Token
<1>3. cache[s].until <= token.issued + Life + 1
  BY <1>1 DEF TokenIInv, Timely
<1>4. cache[s].until > now + Margin
  BY DEF TakeCached, Usable
<1>5. now < token.issued + Life
  BY <1>2, <1>3, <1>4
<1>6. Alive(token, now)
  BY <1>5 DEF Alive
<1>7. s \notin edited => token.of = creds[s]
  BY <1>1 DEF TakeCached, TokenIInv, UpToDate
<1> QED BY <1>1, <1>2, <1>6, <1>7, HasInv DEF TakeCached

LEMMA ExchangeInv ==
    ASSUME TokenIInv, NEW r \in TokenReqs, NEW s \in Sites, Exchange(r, s)
    PROVE  TokenIInv'
<1>1. PICK q : q = [at |-> "fetch", site |-> s, creds |-> creds[s], tries |-> 1]
  OBVIOUS
<1>2. q \in [at : {"fetch"}, site : Sites, creds : Credentials, tries : 1..Retries]
  BY <1>1, TokenCacheAssumption DEF TokenIInv, TokenTypeOK
<1>3. edited \subseteq edited' /\ edited' \subseteq Sites
  BY DEF Exchange, ReadBy, TokenIInv, TokenTypeOK
<1> QED BY <1>1, <1>2, <1>3, TokenRequestMoves DEF Exchange

\* A request that gives up, or goes on with its token, is asleep.
LEMMA AsleepInv ==
    ASSUME TokenIInv, NEW r \in TokenReqs, treq' = [treq EXCEPT ![r] = Asleep],
           UNCHANGED <<now, creds, half, cache, edited>>
    PROVE  TokenIInv'
<1>1. Asleep.at = "idle" /\ edited' \subseteq Sites
  BY DEF Asleep, TokenIInv, TokenTypeOK
<1> QED BY <1>1, TokenRequestMoves

LEMMA ConnectFailsInv ==
    ASSUME TokenIInv, NEW r \in TokenReqs, ConnectFails(r)
    PROVE  TokenIInv'
<1>1. treq[r] \in [at : {"fetch"}, site : Sites, creds : Credentials, tries : 1..Retries]
  BY TokenRequestShapes DEF ConnectFails, TokenIInv
<1>2. CASE ~(treq[r].tries < Retries)
  BY <1>2, AsleepInv DEF ConnectFails
<1>3. CASE treq[r].tries < Retries
  <2>1. PICK q : q = [treq[r] EXCEPT !.tries = treq[r].tries + 1]
    OBVIOUS
  <2>2. q \in [at : {"fetch"}, site : Sites, creds : Credentials, tries : 1..Retries]
    BY <1>1, <1>3, <2>1, TokenCacheAssumption
  <2>3. q.site = treq[r].site /\ q.creds = treq[r].creds /\ q.at = "fetch"
    BY <1>1, <2>1
  <2>4. q.site \notin edited => q.creds = creds[q.site]
    BY <1>1, <2>3 DEF TokenIInv, UpToDate
  <2>5. treq' = [treq EXCEPT ![r] = q]
    BY <1>3, <2>1 DEF ConnectFails
  <2>6. UNCHANGED <<now, creds, half, cache, edited>> /\ edited \subseteq Sites
    BY DEF ConnectFails, TokenIInv, TokenTypeOK
  <2> QED BY <2>2, <2>3, <2>4, <2>5, <2>6, TokenRequestMoves
<1> QED BY <1>2, <1>3

LEMMA IssueInv ==
    ASSUME TokenIInv, NEW r \in TokenReqs, Issue(r)
    PROVE  TokenIInv'
<1>1. CASE ~treq[r].creds.good
  BY <1>1, AsleepInv DEF Issue
<1>2. CASE treq[r].creds.good
  <2>1. treq[r] \in [at : {"fetch"}, site : Sites, creds : Credentials, tries : 1..Retries]
    BY TokenRequestShapes DEF Issue, TokenIInv
  <2>2. PICK q : q = [at |-> "issued", site |-> treq[r].site, creds |-> treq[r].creds,
                      token |-> [of |-> treq[r].creds, issued |-> now]]
    OBVIOUS
  <2>3. [of |-> treq[r].creds, issued |-> now] \in Token /\ now \in Nat
    BY <2>1, TokenCacheAssumption DEF Token, TokenIInv, TokenTypeOK
  <2>4. q \in [at : {"issued"}, site : Sites, creds : Credentials, token : Token]
    BY <2>1, <2>2, <2>3
  <2>5. q.at = "issued" /\ q.token.issued = now /\ q.token.of = q.creds /\ now <= q.token.issued + 1
    BY <2>2, <2>3
  <2>6. q.site \notin edited => q.creds = creds[q.site]
    BY <2>1, <2>2 DEF Issue, TokenIInv, UpToDate
  <2>7. treq' = [treq EXCEPT ![r] = q]
    BY <1>2, <2>2 DEF Issue
  <2>8. UNCHANGED <<now, creds, half, cache, edited>> /\ edited \subseteq Sites
    BY DEF Issue, TokenIInv, TokenTypeOK
  <2> QED BY <2>3, <2>4, <2>5, <2>6, <2>7, <2>8, TokenRequestMoves
<1> QED BY <1>1, <1>2

-----------------------------------------------------------------------------
(* Steps that change the cache, the credentials or the time *)

\* The token that was read goes into the cache of its site and to its request.
LEMMA TokenReadInv ==
    ASSUME TokenIInv, NEW r \in TokenReqs, TokenRead(r)
    PROVE  TokenIInv'
<1>1. /\ treq[r] \in [at : {"issued"}, site : Sites, creds : Credentials, token : Token]
      /\ treq[r].at = "issued"
  BY TokenRequestShapes DEF TokenRead, TokenIInv
<1>2. PICK s, c, token : s = treq[r].site /\ c = treq[r].creds /\ token = treq[r].token
  OBVIOUS
<1>3. s \in Sites /\ c \in Credentials /\ token \in Token /\ token.issued \in Nat
  BY <1>1, <1>2, TokenCacheAssumption DEF Token
<1>4. now \in 0..MaxTime /\ now \in Nat /\ now <= token.issued + 1 /\ token.of = c
  BY <1>1, <1>2, TokenCacheAssumption DEF TokenIInv, TokenTypeOK, JustIssued
<1>5. PICK e, q : /\ e = [token |-> token, until |-> now + Life]
                  /\ q = [at |-> "has", site |-> s, creds |-> c, token |-> token, when |-> now]
  OBVIOUS
<1>6. /\ cache' = [cache EXCEPT ![s] = e]
      /\ treq' = [treq EXCEPT ![r] = q]
      /\ now' = now /\ creds' = creds /\ half' = half /\ edited' = edited
  BY <1>2, <1>5 DEF TokenRead
<1>7. /\ cache'[s] = e /\ \A x \in Sites \ {s} : cache'[x] = cache[x]
      /\ treq'[r] = q /\ \A u \in TokenReqs \ {r} : treq'[u] = treq[u]
  BY <1>3, <1>6 DEF TokenIInv, TokenTypeOK
<1>8. s \notin edited => c = creds[s]
  BY <1>1, <1>2 DEF TokenIInv, UpToDate
<1>9. /\ q \in [at : {"has"}, site : Sites, creds : Credentials, token : Token, when : 0..MaxTime]
      /\ e \in [token : Token, until : Nat]
  BY <1>3, <1>4, <1>5, TokenCacheAssumption
<1>10. TokenTypeOK'
  BY <1>6, <1>9 DEF TokenIInv, TokenTypeOK
<1>11. Timely'
  <2>1. e.until <= e.token.issued + Life + 1
    BY <1>3, <1>4, <1>5, TokenCacheAssumption
  <2> QED BY <1>7, <2>1 DEF TokenIInv, Timely
<1>12. JustIssued'
  BY <1>5, <1>6, <1>7 DEF TokenIInv, JustIssued
<1>13. UpToDate'
  <2> SUFFICES ASSUME NEW x \in Sites \ edited
               PROVE  /\ Usable(x)' => cache'[x].token.of = creds[x]
                      /\ \A u \in TokenReqs :
                            treq'[u].at \in {"fetch", "issued"} /\ treq'[u].site = x
                              => treq'[u].creds = creds[x]
      BY <1>6 DEF UpToDate
  <2>1. Usable(x)' => cache'[x].token.of = creds[x]
    BY <1>4, <1>5, <1>6, <1>7, <1>8 DEF TokenIInv, UpToDate, Usable
  <2>2. \A u \in TokenReqs :
           treq'[u].at \in {"fetch", "issued"} /\ treq'[u].site = x => treq'[u].creds = creds[x]
    BY <1>5, <1>7 DEF TokenIInv, UpToDate
  <2> QED BY <2>1, <2>2
<1>14. TokenServes'
  <2> SUFFICES ASSUME NEW u \in TokenReqs, treq'[u].at = "has"
               PROVE  /\ Alive(treq'[u].token, treq'[u].when)
                      /\ treq'[u].site \notin edited => treq'[u].token.of = treq'[u].creds
      BY <1>6 DEF TokenServes, Alive
  <2>1. now < token.issued + Life
    BY <1>3, <1>4, TokenCacheAssumption
  <2>2. CASE u = r
    BY <1>4, <1>5, <1>7, <2>1, <2>2 DEF Alive
  <2>3. CASE u # r
    BY <1>7, <2>3 DEF TokenIInv, TokenServes
  <2> QED BY <2>2, <2>3
<1> QED BY <1>10, <1>11, <1>12, <1>13, <1>14 DEF TokenIInv

\* Where the credentials change, the site counts as edited unless it has no
\* token that somebody could still be given.
LEMMA BecomesInv ==
    ASSUME TokenIInv, NEW s \in Sites, NEW c \in Credentials, Becomes(s, c),
           half' \in [Sites -> Halves \cup {Whole}]
    PROVE  TokenIInv'
<1>1. now' = now /\ cache' = cache /\ treq' = treq /\ creds' = [creds EXCEPT ![s] = c]
  BY DEF Becomes
<1>2. edited' \subseteq Sites /\ edited \subseteq edited'
  BY DEF Becomes, TokenIInv, TokenTypeOK
<1>3. creds'[s] = c /\ \A x \in Sites \ {s} : creds'[x] = creds[x]
  BY <1>1 DEF TokenIInv, TokenTypeOK
<1>4. TokenTypeOK'
  BY <1>1, <1>2 DEF TokenIInv, TokenTypeOK
<1>5. Timely' /\ JustIssued'
  BY <1>1 DEF TokenIInv, Timely, JustIssued
<1>6. UpToDate'
  <2> SUFFICES ASSUME NEW x \in Sites \ edited'
               PROVE  /\ Usable(x) => cache[x].token.of = creds'[x]
                      /\ \A u \in TokenReqs :
                            treq[u].at \in {"fetch", "issued"} /\ treq[u].site = x
                              => treq[u].creds = creds'[x]
      BY <1>1 DEF UpToDate, Usable
  <2>1. CASE creds'[x] = creds[x]
    BY <1>2, <2>1 DEF TokenIInv, UpToDate
  <2>2. CASE creds'[x] # creds[x]
    <3>1. ~Usable(s) /\ ~Fetching(s) /\ x = s
      BY <1>3, <2>2 DEF Becomes
    <3> QED BY <3>1 DEF Fetching
  <2> QED BY <2>1, <2>2
<1>7. TokenServes'
  <2> SUFFICES ASSUME NEW u \in TokenReqs, treq[u].at = "has"
               PROVE  /\ Alive(treq[u].token, treq[u].when)
                      /\ treq[u].site \notin edited' => treq[u].token.of = treq[u].creds
      BY <1>1 DEF TokenServes, Alive
  <2> QED BY <1>2 DEF TokenIInv, TokenServes
<1> QED BY <1>4, <1>5, <1>6, <1>7 DEF TokenIInv

\* Saving, field by field, puts in credentials and mixtures of them.
LEMMA SavingInv ==
    ASSUME TokenIInv, NEW s \in Sites,
           \/ \E c \in Entered : SaveCredentials(s, c)
           \/ SetField(s) \/ CredentialsSaved(s)
    PROVE  TokenIInv'
<1>1. creds[s] \in Credentials /\ half \in [Sites -> Halves \cup {Whole}]
  BY DEF TokenIInv, TokenTypeOK
<1>2. ASSUME half[s] # Whole
      PROVE  half[s].old \in Credentials /\ half[s].new \in Credentials
             /\ \A c \in Between(half[s].old, half[s].new) : c \in Credentials
  <2>1. half[s] \in Halves
    BY <1>1, <1>2
  <2>2. PICK old, new : old = half[s].old /\ new = half[s].new
    OBVIOUS
  <2>3. old \in Credentials /\ new \in Credentials
    BY <2>1, <2>2 DEF Halves
  <2>4. \A c \in Between(old, new) : c \in Credentials
    BY <2>3 DEF Between, Credentials
  <2> QED BY <2>2, <2>3, <2>4
<1>3. ASSUME NEW c \in Entered, SaveCredentials(s, c) PROVE TokenIInv'
  <2>1. UNCHANGED <<now, creds, cache, treq, edited>>
    BY <1>3 DEF SaveCredentials
  <2>2. c \in Credentials
    BY EnteredAssumption
  <2>3. half' \in [Sites -> Halves \cup {Whole}]
    BY <1>1, <1>3, <2>2 DEF SaveCredentials, Halves
  <2> QED BY <2>1, <2>3 DEF TokenIInv, TokenTypeOK, Timely, JustIssued, UpToDate, TokenServes,
                            Usable, Alive
<1>4. CASE SetField(s)
  <2>1. half[s] # Whole /\ half' = half
    BY <1>4 DEF SetField
  <2>2. PICK c \in Between(half[s].old, half[s].new) : Becomes(s, c)
    BY <1>4 DEF SetField
  <2> QED BY <1>1, <1>2, <2>1, <2>2, BecomesInv
<1>5. CASE CredentialsSaved(s)
  <2>1. half[s] # Whole /\ Becomes(s, half[s].new) /\ half' = [half EXCEPT ![s] = Whole]
    BY <1>5 DEF CredentialsSaved
  <2> QED BY <1>1, <1>2, <2>1, BecomesInv
<1> QED BY <1>3, <1>4, <1>5

\* Time passes only when what was issued a step ago has been read.
LEMMA TickInv ==
    ASSUME TokenIInv, Tick
    PROVE  TokenIInv'
<1>1. /\ now \in Nat /\ MaxTime \in Nat /\ now < MaxTime /\ now' = now + 1
      /\ creds' = creds /\ half' = half /\ cache' = cache /\ treq' = treq /\ edited' = edited
  BY TokenCacheAssumption DEF Tick, TokenIInv, TokenTypeOK
<1>2. TokenTypeOK'
  BY <1>1 DEF TokenIInv, TokenTypeOK
<1>3. Timely'
  BY <1>1 DEF TokenIInv, Timely
<1>4. JustIssued'
  BY <1>1 DEF Tick, TokenIInv, JustIssued
<1>5. \A s \in Sites : Usable(s)' => Usable(s)
  BY <1>1, TokenCacheAssumption DEF TokenIInv, TokenTypeOK, Usable
<1>6. UpToDate'
  BY <1>1, <1>5 DEF TokenIInv, UpToDate
<1>7. TokenServes'
  BY <1>1 DEF TokenIInv, TokenServes, Alive
<1> QED BY <1>2, <1>3, <1>4, <1>6, <1>7 DEF TokenIInv

\* No tokens and nobody who asks for one: as at the start of a process.
Fresh ==
    /\ now \in 0..MaxTime
    /\ creds \in [Sites -> Credentials]
    /\ half = [s \in Sites |-> Whole]
    /\ cache = [s \in Sites |-> NoEntry]
    /\ treq = [r \in TokenReqs |-> Asleep]
    /\ edited = {}

LEMMA FreshInv == Fresh => TokenIInv
<1> SUFFICES ASSUME Fresh PROVE TokenIInv
    OBVIOUS
<1>1. Asleep.at = "idle"
  BY DEF Asleep
<1>2. TokenTypeOK
  BY TokenNothingTyped DEF Fresh, TokenTypeOK
<1>3. \A s \in Sites : cache[s].until = 0 /\ cache[s].token.issued = 0
  BY TokenNothingTyped DEF Fresh
<1>4. Timely
  <2>1. 0 <= 0 + Life + 1
    BY TokenCacheAssumption
  <2> QED BY <1>3, <2>1 DEF Timely
<1>5. JustIssued /\ TokenServes
  BY <1>1 DEF Fresh, JustIssued, TokenServes
<1>6. \A s \in Sites : ~Usable(s)
  <2>1. ~(0 > now + Margin)
    BY TokenCacheAssumption DEF Fresh
  <2> QED BY <1>3, <2>1 DEF Usable
<1>7. UpToDate
  BY <1>1, <1>6 DEF Fresh, UpToDate
<1> QED BY <1>2, <1>4, <1>5, <1>7 DEF TokenIInv

LEMMA TokenInitInv ==
    ASSUME TokenInit
    PROVE  TokenIInv
<1>1. now \in 0..MaxTime
  BY TokenCacheAssumption DEF TokenInit
<1>2. creds \in [Sites -> Credentials]
  BY TokenNothingTyped DEF TokenInit
<1> QED BY <1>1, <1>2, FreshInv DEF TokenInit, Fresh

LEMMA ForgetInv ==
    ASSUME TokenIInv, ForgetTokens
    PROVE  TokenIInv'
<1>1. creds' \in [Sites -> Credentials]
  <2>1. \A s \in Sites : half[s] # Whole => half[s].old \in Credentials
    BY DEF TokenIInv, TokenTypeOK, Halves
  <2> QED BY <2>1 DEF ForgetTokens, TokenIInv, TokenTypeOK
<1>2. Fresh'
  BY <1>1 DEF ForgetTokens, Fresh, TokenIInv, TokenTypeOK
<1> QED BY <1>2, FreshInv, PTL

-----------------------------------------------------------------------------
(* The theorems *)

\* Every step keeps the invariant.
LEMMA TokenNextInv ==
    ASSUME TokenIInv, [TokenNext]_tokenVars
    PROVE  TokenIInv'
<1>1. ASSUME NEW s \in Sites,
             \/ \E c \in Entered : SaveCredentials(s, c)
             \/ SetField(s) \/ CredentialsSaved(s)
      PROVE  TokenIInv'
  BY <1>1, SavingInv
<1>2. ASSUME NEW r \in TokenReqs, NEW s \in Sites,
             TakeStatic(r, s) \/ TakeCached(r, s) \/ Exchange(r, s)
      PROVE  TokenIInv'
  BY <1>2, StaticInv, CachedInv, ExchangeInv
<1>3. ASSUME NEW r \in TokenReqs, ConnectFails(r) \/ Issue(r) \/ TokenRead(r) PROVE TokenIInv'
  BY <1>3, ConnectFailsInv, IssueInv, TokenReadInv
<1>4. ASSUME NEW r \in TokenReqs, Proceed(r) PROVE TokenIInv'
  BY <1>4, AsleepInv DEF Proceed
<1>5. CASE Tick
  BY <1>5, TickInv
<1>6. CASE ForgetTokens
  BY <1>6, ForgetInv
<1>7. CASE UNCHANGED tokenVars
  BY <1>7 DEF tokenVars, TokenIInv, TokenTypeOK, Timely, JustIssued, UpToDate, TokenServes,
              Usable, Alive
<1> QED BY <1>1, <1>2, <1>3, <1>4, <1>5, <1>6, <1>7 DEF TokenNext

LEMMA Inductive == TokenSpec => []TokenIInv
<1>1. TokenInit => TokenIInv
  BY TokenInitInv
<1>2. TokenIInv /\ [TokenNext]_tokenVars => TokenIInv'
  BY TokenNextInv
<1> QED BY <1>1, <1>2, PTL DEF TokenSpec

\* Type correctness of the settings' credentials, the cache and the requests.
THEOREM TokenTypeCorrect == TokenSpec => []TokenTypeOK
<1>1. TokenIInv => TokenTypeOK
  BY DEF TokenIInv
<1> QED BY <1>1, Inductive, PTL

\* _get_site_credentials: whatever the sites, the credentials entered and the
\* requests that overlap, and however long tokens live as long as it is more
\* than the margin, a request is given a token that Shopify still honours, and
\* one of its own credentials where nobody changed those meanwhile or read them
\* while they were being changed.
THEOREM TokensServe == TokenSpec => []TokenServes
<1>1. TokenIInv => TokenServes
  BY DEF TokenIInv
<1> QED BY <1>1, Inductive, PTL

-----------------------------------------------------------------------------
(* Canonical prices *)

\* The columns, as far as the invariant needs their types.
ColumnsOK ==
    /\ prod \in [Listings -> Listings \cup {NoProduct}]
    /\ price \in [Listings -> Nat]
    /\ age \in [Listings -> Nat]
    /\ active \in [Listings -> BOOLEAN]
    /\ canon \in [Listings -> Nat]
    /\ known \in [Listings -> SUBSET Nat]
    /\ saving = NotSaving \/ /\ saving.listing \in Listings
                             /\ saving.product \in Listings
                             /\ saving.canon \in Nat

\* An active product still has the listing it was created for.
ActiveKeepsOwn == \A p \in Listings : active[p] => prod[p] = p

\* The price a listing shows is one it has had.
ShownIsKnown == \A l \in Scraped : price[l] \in known[l]

\* A listing that is being saved belongs to the product its session has read,
\* unless that product has been merged away since.
SavedBelongs ==
    saving # NotSaving =>
        /\ saving.listing \in Scraped
        /\ active[saving.product] => prod[saving.listing] = saving.product

PriceIInv == ColumnsOK /\ ActiveKeepsOwn /\ ShownIsKnown /\ SavedBelongs /\ CanonicalIsReal

-----------------------------------------------------------------------------
(* The listing scraped last *)

\* Of some listings one was scraped last.
LEMMA LatestIsOne ==
    ASSUME age \in [Listings -> Nat], NEW ls \in SUBSET Listings, ls # {}
    PROVE  Latest(ls) \in ls
<1>1. PICK T : T = {age[l] : l \in ls}
  OBVIOUS
<1>2. T \subseteq Nat /\ T # {}
  BY <1>1
<1>3. PICK a \in T : \A b \in T : <<b, a>> \notin OpToRel(<, Nat)
  BY <1>2, NatLessThanWellFounded, WFMin
<1>4. \A b \in T : a <= b
  <2> SUFFICES ASSUME NEW b \in T PROVE a <= b
      OBVIOUS
  <2>1. a \in Nat /\ b \in Nat
    BY <1>2
  <2>2. ~(b < a)
    BY <1>3, <2>1 DEF OpToRel
  <2> QED BY <2>1, <2>2
<1>5. PICK l \in ls : age[l] = a
  BY <1>1
<1>6. \A m \in ls : age[l] <= age[m]
  BY <1>1, <1>4, <1>5
<1> QED BY <1>5, <1>6 DEF Latest

\* A recomputed price is the price of a listing of the product, or the price
\* that the product had.
LEMMA RecomputedIsShown ==
    ASSUME ColumnsOK, NEW p \in Listings, NEW ls \in SUBSET Listings
    PROVE  \/ Recomputed(p, ls) = canon[p]
           \/ \E l \in ls : Recomputed(p, ls) = price[l]
<1>1. PICK srcs : srcs = {l \in ls : live[l] /\ price[l] > 0}
  OBVIOUS
<1>2. PICK sor : sor = srcs \cap SoRListings
  OBVIOUS
<1>3. PICK best : best = IF sor # {} THEN sor ELSE srcs
  OBVIOUS
<1>4. CASE srcs = {}
  BY <1>1, <1>4 DEF Recomputed
<1>5. CASE srcs # {}
  <2>1. best \in SUBSET Listings /\ best # {} /\ best \subseteq ls
    BY <1>1, <1>2, <1>3, <1>5
  <2>2. Latest(best) \in ls
    BY <2>1, LatestIsOne DEF ColumnsOK
  <2>3. Recomputed(p, ls) = price[Latest(best)]
    BY <1>1, <1>2, <1>3, <1>5 DEF Recomputed
  <2> QED BY <2>2, <2>3
<1> QED BY <1>4, <1>5

\* scraped_at keeps its type.
LEMMA TouchedTyped ==
    ASSUME age \in [Listings -> Nat], NEW l \in Listings
    PROVE  Touched(l) \in [Listings -> Nat]
<1>1. \A m \in Listings : age[m] \in Nat /\ age[m] + 1 \in Nat
  OBVIOUS
<1> QED BY <1>1 DEF Touched

-----------------------------------------------------------------------------
(* The steps keep the invariant *)

\* A new product has the price and the listing it was created for.
LEMMA PersistNewInv ==
    ASSUME PriceIInv, NEW l \in Listings, NEW x \in Nat, NEW archived \in BOOLEAN,
           PersistNew(l, x, archived)
    PROVE  PriceIInv'
<1>1. /\ prod' = [prod EXCEPT ![l] = l] /\ price' = [price EXCEPT ![l] = x]
      /\ age' = Touched(l) /\ active' = [active EXCEPT ![l] = TRUE]
      /\ canon' = [canon EXCEPT ![l] = x] /\ known' = [known EXCEPT ![l] = {x}]
      /\ saving' = saving /\ saving = NotSaving /\ prod[l] = NoProduct
  BY DEF PersistNew
<1>2. NoProduct \notin Listings
  BY CanonicalPriceAssumption
<1>3. ColumnsOK'
  BY <1>1, TouchedTyped DEF PriceIInv, ColumnsOK
<1>4. ActiveKeepsOwn'
  BY <1>1 DEF PriceIInv, ColumnsOK, ActiveKeepsOwn
<1>5. ShownIsKnown'
  BY <1>1 DEF PriceIInv, ColumnsOK, ShownIsKnown, Scraped
<1>6. SavedBelongs'
  BY <1>1 DEF SavedBelongs
<1>7. CanonicalIsReal'
  <2> SUFFICES ASSUME NEW p \in Listings, active'[p], canon'[p] # 0
               PROVE  \E m \in Listings : prod'[m] = p /\ canon'[p] \in known'[m]
      BY DEF CanonicalIsReal, SourcesOf
  <2>1. CASE p = l
    BY <1>1, <2>1 DEF PriceIInv, ColumnsOK
  <2>2. CASE p # l
    <3>1. active[p] /\ canon[p] # 0 /\ canon'[p] = canon[p]
      BY <1>1, <2>2 DEF PriceIInv, ColumnsOK
    <3>2. PICK m \in Listings : prod[m] = p /\ canon[p] \in known[m]
      BY <3>1 DEF PriceIInv, CanonicalIsReal, SourcesOf
    <3>3. m # l
      BY <1>1, <1>2, <3>2
    <3> QED BY <1>1, <3>1, <3>2, <3>3 DEF PriceIInv, ColumnsOK
  <2> QED BY <2>1, <2>2
<1> QED BY <1>3, <1>4, <1>5, <1>6, <1>7 DEF PriceIInv

\* A step that leaves products and their prices alone and only adds to what was
\* asked.
LEMMA PricesRest ==
    ASSUME PriceIInv, UNCHANGED <<prod, price, age, active, canon, known>>,
           saving' = saving
             \/ saving' = NotSaving
             \/ \E l \in Scraped : saving' = [listing |-> l, product |-> prod[l],
                                              canon |-> canon[prod[l]]]
    PROVE  PriceIInv'
<1>1. ColumnsOK' /\ SavedBelongs'
  <2>1. CASE saving' = saving
    BY <2>1 DEF PriceIInv, ColumnsOK, SavedBelongs, Scraped
  <2>2. CASE saving' = NotSaving
    BY <2>2 DEF PriceIInv, ColumnsOK, SavedBelongs
  <2>3. ASSUME NEW l \in Scraped,
               saving' = [listing |-> l, product |-> prod[l], canon |-> canon[prod[l]]]
        PROVE  ColumnsOK' /\ SavedBelongs'
    <3>1. l \in Listings /\ prod[l] \in Listings
      BY <2>3 DEF Scraped, PriceIInv, ColumnsOK
    <3>2. canon[prod[l]] \in Nat
      BY <3>1 DEF PriceIInv, ColumnsOK
    <3>3. ColumnsOK'
      BY <2>3, <3>1, <3>2 DEF PriceIInv, ColumnsOK
    <3>4. SavedBelongs'
      BY <2>3, <3>1 DEF SavedBelongs, Scraped
    <3> QED BY <3>3, <3>4
  <2> QED BY <2>1, <2>2, <2>3
<1>2. ActiveKeepsOwn' /\ ShownIsKnown' /\ CanonicalIsReal'
  BY DEF PriceIInv, ActiveKeepsOwn, ShownIsKnown, CanonicalIsReal, Scraped, SourcesOf
<1> QED BY <1>1, <1>2 DEF PriceIInv

\* The listing's new price, which its product takes over or not.
LEMMA PersistChangedInv ==
    ASSUME PriceIInv, NEW x \in Nat, NEW archived \in BOOLEAN, PersistChanged(x, archived)
    PROVE  PriceIInv'
<1>1. PICK l, s : l = saving.listing /\ s = saving.product
  OBVIOUS
<1>2. /\ saving # NotSaving /\ saving' = NotSaving /\ prod' = prod /\ active' = active
      /\ price' = [price EXCEPT ![l] = x] /\ age' = Touched(l)
      /\ known' = [known EXCEPT ![l] = known[l] \cup {x}]
  BY <1>1 DEF PersistChanged
<1>3. canon' = canon \/ canon' = [canon EXCEPT ![s] = x]
  BY <1>1 DEF PersistChanged, PriceIInv, ColumnsOK
<1>4. l \in Listings /\ s \in Listings /\ (active[s] => prod[l] = s)
  BY <1>1, <1>2 DEF PriceIInv, ColumnsOK, SavedBelongs
<1>5. ColumnsOK'
  BY <1>2, <1>3, <1>4, TouchedTyped DEF PriceIInv, ColumnsOK
<1>6. /\ \A m \in Listings : known[m] \subseteq known'[m]
      /\ x \in known'[l]
  BY <1>2, <1>4 DEF PriceIInv, ColumnsOK
<1>7. ActiveKeepsOwn' /\ SavedBelongs'
  BY <1>2 DEF PriceIInv, ActiveKeepsOwn, SavedBelongs
<1>8. ShownIsKnown'
  BY <1>2, <1>4, <1>6 DEF PriceIInv, ColumnsOK, ShownIsKnown, Scraped
<1>9. CanonicalIsReal'
  <2> SUFFICES ASSUME NEW p \in Listings, active[p], canon'[p] # 0
               PROVE  \E m \in Listings : prod[m] = p /\ canon'[p] \in known'[m]
      BY <1>2 DEF CanonicalIsReal, SourcesOf
  <2>1. CASE canon'[p] = canon[p]
    <3>1. PICK m \in Listings : prod[m] = p /\ canon[p] \in known[m]
      BY <2>1 DEF PriceIInv, CanonicalIsReal, SourcesOf
    <3> QED BY <1>6, <2>1, <3>1
  <2>2. CASE canon'[p] # canon[p]
    <3>1. p = s /\ canon'[p] = x
      BY <1>3, <1>4, <2>2 DEF PriceIInv, ColumnsOK
    <3> QED BY <1>4, <1>6, <3>1
  <2> QED BY <2>1, <2>2
<1> QED BY <1>5, <1>7, <1>8, <1>9 DEF PriceIInv

\* The user's price is known of the product.
LEMMA UpdateCanonicalInv ==
    ASSUME PriceIInv, NEW p \in Listings, NEW x \in Nat, UpdateCanonical(p, x)
    PROVE  PriceIInv'
<1>1. /\ canon' = [canon EXCEPT ![p] = x] /\ known' = [known EXCEPT ![p] = known[p] \cup {x}]
      /\ active[p] /\ prod' = prod /\ price' = price /\ age' = age /\ active' = active
      /\ saving' = saving
  BY DEF UpdateCanonical
<1>2. prod[p] = p
  BY <1>1 DEF PriceIInv, ActiveKeepsOwn
<1>3. ColumnsOK'
  BY <1>1 DEF PriceIInv, ColumnsOK
<1>4. /\ \A m \in Listings : known[m] \subseteq known'[m]
      /\ x \in known'[p]
  BY <1>1 DEF PriceIInv, ColumnsOK
<1>5. ActiveKeepsOwn' /\ SavedBelongs'
  BY <1>1 DEF PriceIInv, ActiveKeepsOwn, SavedBelongs, Scraped
<1>6. ShownIsKnown'
  BY <1>1, <1>4 DEF PriceIInv, ShownIsKnown, Scraped
<1>7. CanonicalIsReal'
  <2> SUFFICES ASSUME NEW q \in Listings, active[q], canon'[q] # 0
               PROVE  \E m \in Listings : prod[m] = q /\ canon'[q] \in known'[m]
      BY <1>1 DEF CanonicalIsReal, SourcesOf
  <2>1. CASE q = p
    BY <1>1, <1>2, <1>4, <2>1 DEF PriceIInv, ColumnsOK
  <2>2. CASE q # p
    <3>1. canon'[q] = canon[q]
      BY <1>1, <2>2 DEF PriceIInv, ColumnsOK
    <3>2. PICK m \in Listings : prod[m] = q /\ canon[q] \in known[m]
      BY <3>1 DEF PriceIInv, CanonicalIsReal, SourcesOf
    <3> QED BY <1>4, <3>1, <3>2
  <2> QED BY <2>1, <2>2
<1> QED BY <1>3, <1>5, <1>6, <1>7 DEF PriceIInv

\* Merging q into p: what either product's listings showed is now known of p.
LEMMA MergeInv ==
    ASSUME PriceIInv, NEW p \in Listings, NEW q \in Listings, Merge(p, q)
    PROVE  PriceIInv'
<1>1. PICK ls : ls = SourcesOf(p) \cup SourcesOf(q)
  OBVIOUS
<1>2. /\ prod' = [l \in Listings |-> IF prod[l] = q THEN p ELSE prod[l]]
      /\ canon' = [canon EXCEPT ![p] = Recomputed(p, ls)]
      /\ active' = [active EXCEPT ![q] = FALSE]
      /\ p # q /\ price' = price /\ age' = age /\ saving' = saving /\ known' = known
  BY <1>1 DEF Merge
<1>3. ls \in SUBSET Listings /\ ls \subseteq Scraped /\ \A l \in ls : prod'[l] = p
  BY <1>1, <1>2, CanonicalPriceAssumption DEF SourcesOf, Scraped
<1>4. \/ Recomputed(p, ls) = canon[p]
      \/ \E l \in ls : Recomputed(p, ls) = price[l]
  BY <1>3, RecomputedIsShown DEF PriceIInv
<1>5. Recomputed(p, ls) \in Nat
  BY <1>3, <1>4 DEF PriceIInv, ColumnsOK
<1>6. ColumnsOK'
  BY <1>2, <1>5 DEF PriceIInv, ColumnsOK
<1>7. Scraped' = Scraped
  BY <1>2, CanonicalPriceAssumption DEF Scraped
<1>8. ActiveKeepsOwn'
  BY <1>2 DEF PriceIInv, ColumnsOK, ActiveKeepsOwn
<1>9. ShownIsKnown'
  BY <1>2, <1>7 DEF PriceIInv, ShownIsKnown
<1>10. SavedBelongs'
  <2> SUFFICES ASSUME saving # NotSaving
               PROVE  /\ saving.listing \in Scraped
                      /\ active'[saving.product] => prod'[saving.listing] = saving.product
      BY <1>2, <1>7 DEF SavedBelongs
  <2>1. saving.listing \in Listings /\ saving.product \in Listings
    BY DEF PriceIInv, ColumnsOK
  <2> QED BY <1>2, <2>1 DEF PriceIInv, ColumnsOK, SavedBelongs
<1>11. CanonicalIsReal'
  <2> SUFFICES ASSUME NEW k \in Listings, active'[k], canon'[k] # 0
               PROVE  \E m \in Listings : prod'[m] = k /\ canon'[k] \in known[m]
    <3>1. known' = known
      BY <1>2
    <3> QED BY <3>1 DEF CanonicalIsReal, SourcesOf
  <2>1. k # q /\ active[k]
    BY <1>2 DEF PriceIInv, ColumnsOK
  <2>2. CASE canon'[k] = canon[k]
    <3>1. PICK m \in Listings : prod[m] = k /\ canon[k] \in known[m]
      BY <2>1, <2>2 DEF PriceIInv, CanonicalIsReal, SourcesOf
    <3> QED BY <1>2, <2>1, <2>2, <3>1
  <2>3. CASE canon'[k] # canon[k]
    <3>1. k = p /\ canon'[k] = Recomputed(p, ls) /\ canon[k] = canon[p]
      BY <1>2, <2>3 DEF PriceIInv, ColumnsOK
    <3>2. PICK l \in ls : canon'[k] = price[l]
      BY <1>4, <2>3, <3>1
    <3> QED BY <1>3, <3>1, <3>2 DEF PriceIInv, ShownIsKnown
  <2> QED BY <2>2, <2>3
<1> QED BY <1>6, <1>8, <1>9, <1>10, <1>11 DEF PriceIInv

-----------------------------------------------------------------------------
(* The theorem *)

LEMMA PriceInitInv ==
    ASSUME PriceInit
    PROVE  PriceIInv
<1>1. Oldest \in Nat
  BY CanonicalPriceAssumption, FS_CardinalityType DEF Oldest
<1>2. ColumnsOK
  BY <1>1 DEF PriceInit, ColumnsOK
<1>3. Scraped = {}
  BY DEF PriceInit, Scraped
<1> QED BY <1>2, <1>3 DEF PriceInit, PriceIInv, ActiveKeepsOwn, ShownIsKnown, SavedBelongs,
                          CanonicalIsReal

\* Every step keeps the invariant; what is asked in a setting is a number.
LEMMA PriceNextInv ==
    ASSUME PriceIInv, setting.prices \subseteq Nat, [PriceNext]_priceVars
    PROVE  PriceIInv'
<1>1. ASSUME NEW l \in Listings, NEW x \in setting.prices \cup {0}, NEW archived \in BOOLEAN,
             PersistNew(l, x, archived)
      PROVE  PriceIInv'
  BY <1>1, PersistNewInv
<1>2. ASSUME NEW l \in Listings, ReadChanged(l) PROVE PriceIInv'
  BY <1>2, PricesRest DEF ReadChanged
<1>3. ASSUME NEW x \in setting.prices \cup {0}, NEW archived \in BOOLEAN, PersistChanged(x, archived)
      PROVE  PriceIInv'
  BY <1>3, PersistChangedInv
<1>4. ASSUME NEW l \in Listings, NEW archived \in BOOLEAN, PersistSame(l, archived) PROVE PriceIInv'
  BY <1>4, PricesRest DEF PersistSame
<1>5. ASSUME NEW l \in Listings, Archive(l) PROVE PriceIInv'
  BY <1>5, PricesRest DEF Archive
<1>6. ASSUME NEW p \in Listings, NEW q \in Listings, Merge(p, q) PROVE PriceIInv'
  BY <1>6, MergeInv
<1>7. ASSUME NEW p \in Listings, NEW x \in setting.prices, UpdateCanonical(p, x) PROVE PriceIInv'
  BY <1>7, UpdateCanonicalInv
<1>8. CASE UNCHANGED priceVars
  BY <1>8, PricesRest DEF priceVars
<1> QED BY <1>1, <1>2, <1>3, <1>4, <1>5, <1>6, <1>7, <1>8 DEF PriceNext

\* The invariant holds throughout: what is asked in a setting does not change.
LEMMA PriceInvariant == PriceSpec => []PriceIInv
<1> DEFINE Asks == setting.prices \subseteq Nat
<1>1. PriceInit => PriceIInv /\ Asks
  BY PriceInitInv, PriceSettingsAssumption, CanonicalPriceAssumption DEF PriceInit
<1>2. PriceIInv /\ Asks /\ [PriceNext]_priceVars => (PriceIInv /\ Asks)'
  <2>1. PriceIInv /\ Asks /\ [PriceNext]_priceVars => PriceIInv'
    BY PriceNextInv
  <2>2. [PriceNext]_priceVars => setting' = setting
    BY DEF PriceNext, priceVars, PersistNew, ReadChanged, PersistChanged, PersistSame,
           Archive, Merge, UpdateCanonical
  <2> QED BY <2>1, <2>2
<1> QED BY <1>1, <1>2, PTL DEF PriceSpec

\* engine.py:38: whatever stores, the user and merges do in whatever order, and
\* even if a merge falls into the saving of a listing, the canonical price of an
\* active product is one that a listing of it has had or that the user gave it.
THEOREM PricesAreReal == PriceSpec => []CanonicalIsReal
<1>1. PriceIInv => CanonicalIsReal
  BY DEF PriceIInv
<1> QED BY <1>1, PriceInvariant, PTL

-----------------------------------------------------------------------------
(* The order of scraped_at *)

\* Among the listings of S, n of them, a tells who was scraped last: S are those
\* that ever were.
Ordered(a, S, n) ==
    /\ a \in [Listings -> 0..Oldest]
    /\ \A l \in Listings : IF l \in S THEN a[l] < n ELSE a[l] = Oldest
    /\ \A l, m \in S : a[l] = a[m] => l = m

LatestOf(a, ls) == CHOOSE l \in ls : \A m \in ls : a[l] <= a[m]

\* Touched, of any such order.
TouchedOf(a, l) ==
    [m \in Listings |-> IF m = l THEN 0 ELSE IF a[m] < a[l] THEN a[m] + 1 ELSE a[m]]

OrderOK == Ordered(age, Scraped, Cardinality(Scraped))

\* Listings can be counted, and a listing more is one more.
LEMMA ListingsCount ==
    ASSUME NEW S \in SUBSET Listings
    PROVE  /\ IsFiniteSet(S) /\ Cardinality(S) \in Nat /\ Oldest \in Nat
           /\ Cardinality(S) <= Oldest
           /\ \A l \in Listings \ S : /\ Cardinality(S \cup {l}) = Cardinality(S) + 1
                                      /\ Cardinality(S) + 1 <= Oldest
<1>1. IsFiniteSet(Listings)
  BY CanonicalPriceAssumption
<1>2. ASSUME NEW T \in SUBSET Listings
      PROVE  IsFiniteSet(T) /\ Cardinality(T) \in Nat /\ Cardinality(T) <= Oldest
  BY <1>1, FS_Subset, FS_CardinalityType DEF Oldest
<1>3. Oldest \in Nat
  BY <1>1, FS_CardinalityType DEF Oldest
<1>4. ASSUME NEW l \in Listings \ S
      PROVE  Cardinality(S \cup {l}) = Cardinality(S) + 1 /\ Cardinality(S) + 1 <= Oldest
  <2>1. Cardinality(S \cup {l}) = Cardinality(S) + 1
    BY <1>2, FS_AddElement
  <2>2. Cardinality(S \cup {l}) <= Oldest
    BY <1>2
  <2> QED BY <2>1, <2>2
<1> QED BY <1>2, <1>3, <1>4

\* A listing that is not in the order yet comes first in it.
LEMMA TouchNew ==
    ASSUME NEW a, NEW S \in SUBSET Listings, Ordered(a, S, Cardinality(S)),
           NEW l \in Listings \ S
    PROVE  Ordered(TouchedOf(a, l), S \cup {l}, Cardinality(S) + 1)
<1>1. Cardinality(S) \in Nat /\ Oldest \in Nat /\ Cardinality(S) + 1 <= Oldest
  BY ListingsCount
<1>2. PICK b : b = TouchedOf(a, l)
  OBVIOUS
<1>3. \A m \in Listings : a[m] \in 0..Oldest
  BY DEF Ordered
<1>4. a[l] = Oldest
  BY DEF Ordered
<1>5. \A m \in S : a[m] < Cardinality(S) /\ b[m] = a[m] + 1
  BY <1>1, <1>2, <1>3, <1>4 DEF Ordered, TouchedOf
<1>6. \A m \in Listings \ (S \cup {l}) : b[m] = Oldest
  BY <1>1, <1>2, <1>4 DEF Ordered, TouchedOf
<1>7. b[l] = 0
  BY <1>2 DEF TouchedOf
<1>8. \A m \in Listings : b[m] \in 0..Oldest
  BY <1>1, <1>3, <1>5, <1>6, <1>7
<1>9. b \in [Listings -> 0..Oldest]
  BY <1>2, <1>8 DEF TouchedOf
<1>10. \A m \in Listings : IF m \in S \cup {l} THEN b[m] < Cardinality(S) + 1 ELSE b[m] = Oldest
  BY <1>1, <1>3, <1>5, <1>6, <1>7
<1>11. \A m, k \in S \cup {l} : b[m] = b[k] => m = k
  BY <1>3, <1>5, <1>7 DEF Ordered
<1> QED BY <1>2, <1>9, <1>10, <1>11 DEF Ordered

\* A listing that is in the order comes first, and the others keep theirs.
LEMMA TouchOld ==
    ASSUME NEW a, NEW S \in SUBSET Listings, Ordered(a, S, Cardinality(S)), NEW l \in S
    PROVE  Ordered(TouchedOf(a, l), S, Cardinality(S))
<1>1. Cardinality(S) \in Nat /\ Oldest \in Nat /\ Cardinality(S) <= Oldest
  BY ListingsCount
<1>2. PICK b : b = TouchedOf(a, l)
  OBVIOUS
<1>3. \A m \in Listings : a[m] \in 0..Oldest
  BY DEF Ordered
<1>4. a[l] < Cardinality(S) /\ l \in Listings
  BY DEF Ordered
<1>5. \A m \in Listings : b[m] = IF m = l THEN 0 ELSE IF a[m] < a[l] THEN a[m] + 1 ELSE a[m]
  BY <1>2 DEF TouchedOf
<1>6. \A m \in S : a[m] < Cardinality(S)
  BY DEF Ordered
<1>7. \A m \in S : b[m] < Cardinality(S) /\ b[m] \in 0..Oldest
  BY <1>1, <1>3, <1>4, <1>5, <1>6
<1>8. \A m \in Listings \ S : b[m] = Oldest
  BY <1>1, <1>4, <1>5 DEF Ordered
<1>9. b \in [Listings -> 0..Oldest]
  <2>1. \A m \in Listings : b[m] \in 0..Oldest
    BY <1>1, <1>7, <1>8
  <2> QED BY <1>2, <2>1 DEF TouchedOf
<1>10. \A m, k \in S : b[m] = b[k] => m = k
  <2> SUFFICES ASSUME NEW m \in S, NEW k \in S, b[m] = b[k] PROVE m = k
      OBVIOUS
  <2>1. a[m] \in Nat /\ a[k] \in Nat /\ a[l] \in Nat
    BY <1>3, <1>4
  <2>2. (a[m] = a[k] => m = k) /\ (a[m] = a[l] => m = l) /\ (a[k] = a[l] => k = l)
    BY DEF Ordered
  <2> QED BY <1>5, <2>1, <2>2
<1> QED BY <1>2, <1>7, <1>8, <1>9, <1>10 DEF Ordered

\* The listing of ls that none was scraped after is its latest one.
LEMMA LatestIs ==
    ASSUME NEW a, NEW S \in SUBSET Listings, NEW n, Ordered(a, S, n), NEW ls \in SUBSET S,
           NEW l \in ls, \A m \in ls : a[l] <= a[m]
    PROVE  LatestOf(a, ls) = l
<1>1. \A m \in ls : (\A k \in ls : a[m] <= a[k]) => m = l
  <2> SUFFICES ASSUME NEW m \in ls, a[m] <= a[l], a[l] <= a[m] PROVE m = l
      OBVIOUS
  <2>1. a[m] \in 0..Oldest /\ a[l] \in 0..Oldest /\ Oldest \in Nat
    BY ListingsCount DEF Ordered
  <2>2. a[m] = a[l]
    BY <2>1
  <2> QED BY <2>2 DEF Ordered
<1> QED BY <1>1 DEF LatestOf

\* Any listings in the order have a latest one.
LEMMA LatestExists ==
    ASSUME NEW a, NEW S \in SUBSET Listings, NEW n, Ordered(a, S, n), NEW ls \in SUBSET S, ls # {}
    PROVE  LatestOf(a, ls) \in ls /\ \A m \in ls : a[LatestOf(a, ls)] <= a[m]
<1>1. PICK T : T = {a[l] : l \in ls}
  OBVIOUS
<1>2. T \in SUBSET Nat /\ T # {}
  <2>1. \A l \in ls : a[l] \in 0..Oldest /\ Oldest \in Nat
    BY ListingsCount DEF Ordered
  <2> QED BY <1>1, <2>1
<1>3. PICK x \in T : \A y \in T : x <= y
  BY <1>2, LeastOf
<1>4. PICK l \in ls : a[l] = x
  BY <1>1
<1>5. \A m \in ls : a[l] <= a[m]
  BY <1>1, <1>3, <1>4
<1>6. LatestOf(a, ls) = l
  BY <1>5, LatestIs
<1> QED BY <1>5, <1>6

\* Scraping l does not change which of some other listings is the latest.
LEMMA LatestStays ==
    ASSUME NEW a, NEW S \in SUBSET Listings, Ordered(a, S, Cardinality(S)), NEW l \in Listings,
           NEW ls \in SUBSET (S \ {l}), ls # {}
    PROVE  LatestOf(TouchedOf(a, l), ls) = LatestOf(a, ls)
<1>1. PICK b : b = TouchedOf(a, l)
  OBVIOUS
<1>2. PICK T : T \in SUBSET Listings /\ ls \subseteq T /\ Ordered(b, T, Cardinality(T))
  <2>1. CASE l \in S
    BY <1>1, <2>1, TouchOld
  <2>2. CASE l \notin S
    <3>1. S \cup {l} \in SUBSET Listings /\ ls \subseteq S \cup {l}
      OBVIOUS
    <3>2. Cardinality(S \cup {l}) = Cardinality(S) + 1
      BY <2>2, ListingsCount
    <3>3. Ordered(b, S \cup {l}, Cardinality(S) + 1)
      BY <1>1, <2>2, TouchNew
    <3> QED BY <3>1, <3>2, <3>3
  <2> QED BY <2>1, <2>2
<1>3. PICK k : k = LatestOf(a, ls)
  OBVIOUS
<1>4. k \in ls /\ \A m \in ls : a[k] <= a[m]
  <2>1. ls \in SUBSET S
    OBVIOUS
  <2> QED BY <1>3, <2>1, LatestExists
<1>5. \A m \in ls : b[k] <= b[m]
  <2> SUFFICES ASSUME NEW m \in ls PROVE b[k] <= b[m]
      OBVIOUS
  <2>1. a[k] \in Nat /\ a[m] \in Nat /\ a[l] \in Nat /\ a[k] <= a[m]
    <3>1. \A j \in Listings : a[j] \in 0..Oldest
      BY DEF Ordered
    <3> QED BY <1>4, <3>1, ListingsCount
  <2>2. /\ b[k] = IF a[k] < a[l] THEN a[k] + 1 ELSE a[k]
        /\ b[m] = IF a[m] < a[l] THEN a[m] + 1 ELSE a[m]
    BY <1>1, <1>4 DEF TouchedOf
  <2> QED BY <2>1, <2>2
<1>6. ls \in SUBSET T
  BY <1>2
<1>7. LatestOf(b, ls) = k
  BY <1>2, <1>4, <1>5, <1>6, LatestIs
<1> QED BY <1>1, <1>3, <1>7

-----------------------------------------------------------------------------
(* The types of prices *)

\* Listings belong to products that were created for a scraped listing.
OwnersScraped == \A l \in Scraped : prod[l] \in Scraped

\* What PriceTypeOK says of what is not an order.
ValuesOK ==
    /\ prod \in [Listings -> Listings \cup {NoProduct}]
    /\ price \in [Listings -> Prices \cup {0}]
    /\ live \in [Listings -> BOOLEAN]
    /\ active \in [Listings -> BOOLEAN]
    /\ canon \in [Listings -> Prices \cup {0}]
    /\ merges \in 0..MaxMerges
    /\ saving \in [listing : Listings, product : Listings, canon : Prices \cup {0}]
                     \cup {NotSaving}
    /\ setting \in PriceSettings

PricesOK == ValuesOK /\ OrderOK /\ OwnersScraped

\* Values and order are what the type invariant asks for.
LEMMA PricesTyped == PricesOK => PriceTypeOK
<1> SUFFICES ASSUME PricesOK PROVE PriceTypeOK
  OBVIOUS
<1>1. /\ age \in [Listings -> 0..Oldest]
      /\ \A l \in Listings : IF l \in Scraped THEN age[l] < Cardinality(Scraped)
                                              ELSE age[l] = Oldest
      /\ \A l, m \in Scraped : age[l] = age[m] => l = m
  BY DEF PricesOK, OrderOK, Ordered
<1> QED BY <1>1 DEF PricesOK, ValuesOK, PriceTypeOK

\* Prices that stores and users may ask are prices.
LEMMA PricesAsked ==
    ASSUME ValuesOK, NEW x \in setting.prices \cup {0}
    PROVE  x \in Prices \cup {0} /\ x \in Nat
<1>1. setting.prices \subseteq Prices
  BY PriceSettingsAssumption DEF ValuesOK
<1>2. Prices \subseteq Nat
  BY CanonicalPriceAssumption
<1>3. CASE x \in setting.prices
  BY <1>1, <1>2, <1>3
<1>4. CASE x = 0
  BY <1>4
<1> QED BY <1>3, <1>4

\* At first no listing is in the order.
LEMMA PriceInitTyped == PriceInit => PricesOK
<1> SUFFICES ASSUME PriceInit PROVE PricesOK
  OBVIOUS
<1>1. Scraped = {} /\ Oldest \in Nat
  BY ListingsCount DEF PriceInit, Scraped
<1>2. OrderOK
  BY <1>1 DEF PriceInit, OrderOK, Ordered
<1>3. ValuesOK
  BY CanonicalPriceAssumption DEF PriceInit, ValuesOK
<1> QED BY <1>1, <1>2, <1>3 DEF PricesOK, OwnersScraped

\* A listing that is saved for the first time comes into the order.
LEMMA PersistNewTyped ==
    ASSUME PricesOK, NEW l \in Listings, NEW x \in setting.prices \cup {0}, NEW archived \in BOOLEAN,
           PersistNew(l, x, archived)
    PROVE  PricesOK' /\ Scraped' = Scraped \cup {l} /\ l \notin Scraped
<1>1. /\ prod' = [prod EXCEPT ![l] = l] /\ price' = [price EXCEPT ![l] = x]
      /\ live' = [live EXCEPT ![l] = ~archived] /\ age' = TouchedOf(age, l)
      /\ active' = [active EXCEPT ![l] = TRUE] /\ canon' = [canon EXCEPT ![l] = x]
      /\ prod[l] = NoProduct /\ UNCHANGED <<merges, saving, setting>>
  BY DEF PersistNew, Touched, TouchedOf
<1>2. ValuesOK' 
  BY <1>1, PricesAsked DEF PricesOK, ValuesOK
<1>3. Scraped' = Scraped \cup {l} /\ l \notin Scraped
  BY <1>1, CanonicalPriceAssumption DEF PricesOK, ValuesOK, Scraped
<1>4. PICK S, a : S = Scraped /\ a = age
  OBVIOUS
<1>5. S \in SUBSET Listings /\ l \in Listings \ S /\ Ordered(a, S, Cardinality(S))
  BY <1>3, <1>4 DEF PricesOK, OrderOK, Scraped
<1>6. Ordered(TouchedOf(a, l), S \cup {l}, Cardinality(S) + 1)
  BY <1>5, TouchNew
<1>7. OrderOK'
  BY <1>1, <1>3, <1>4, <1>5, <1>6, ListingsCount DEF OrderOK
<1>8. OwnersScraped'
  BY <1>1, <1>3 DEF PricesOK, OwnersScraped, ValuesOK, Scraped
<1> QED BY <1>2, <1>3, <1>7, <1>8 DEF PricesOK

\* A listing that is saved again comes first in the order.
LEMMA PersistChangedTyped ==
    ASSUME PricesOK, PriceIInv, NEW x \in setting.prices \cup {0}, NEW archived \in BOOLEAN,
           PersistChanged(x, archived)
    PROVE  PricesOK' /\ Scraped' = Scraped
<1>1. PICK l, s : l = saving.listing /\ s = saving.product
  OBVIOUS
<1>2. /\ saving # NotSaving /\ saving' = NotSaving /\ UNCHANGED <<prod, active, merges, setting>>
      /\ price' = [price EXCEPT ![l] = x] /\ live' = [live EXCEPT ![l] = ~archived]
      /\ age' = TouchedOf(age, l)
  BY <1>1 DEF PersistChanged, Touched, TouchedOf
<1>3. canon' = canon \/ canon' = [canon EXCEPT ![s] = x]
  BY <1>1 DEF PersistChanged, PricesOK, ValuesOK
<1>4. l \in Scraped /\ s \in Listings
  BY <1>1, <1>2 DEF PriceIInv, SavedBelongs, ColumnsOK
<1>5. ValuesOK'
  BY <1>2, <1>3, <1>4, PricesAsked DEF PricesOK, ValuesOK, Scraped
<1>6. Scraped' = Scraped
  BY <1>2 DEF Scraped
<1>7. PICK S, a : S = Scraped /\ a = age
  OBVIOUS
<1>8. S \in SUBSET Listings /\ l \in S /\ Ordered(a, S, Cardinality(S))
  BY <1>4, <1>7 DEF PricesOK, OrderOK, Scraped
<1>9. Ordered(TouchedOf(a, l), S, Cardinality(S))
  BY <1>8, TouchOld
<1>10. OrderOK'
  BY <1>2, <1>6, <1>7, <1>9 DEF OrderOK
<1>11. OwnersScraped'
  BY <1>2, <1>6 DEF PricesOK, OwnersScraped
<1> QED BY <1>5, <1>6, <1>10, <1>11 DEF PricesOK

\* A merge moves listings, and takes a price that one of them shows.
LEMMA MergeTyped ==
    ASSUME PricesOK, PriceIInv, NEW p \in Listings, NEW q \in Listings, Merge(p, q)
    PROVE  PricesOK' /\ Scraped' = Scraped
<1>1. PICK ls : ls = SourcesOf(p) \cup SourcesOf(q)
  OBVIOUS
<1>2. /\ prod' = [l \in Listings |-> IF prod[l] = q THEN p ELSE prod[l]]
      /\ canon' = [canon EXCEPT ![p] = Recomputed(p, ls)]
      /\ active' = [active EXCEPT ![q] = FALSE] /\ merges < MaxMerges /\ merges' = merges + 1
      /\ p \in Scraped /\ q \in Scraped /\ UNCHANGED <<price, live, age, saving, setting>>
  BY <1>1 DEF Merge
<1>3. Recomputed(p, ls) \in Prices \cup {0}
  <2>1. ls \in SUBSET Listings
    BY <1>1 DEF SourcesOf
  <2>2. \/ Recomputed(p, ls) = canon[p]
        \/ \E l \in ls : Recomputed(p, ls) = price[l]
    BY <2>1, RecomputedIsShown DEF PriceIInv
  <2> QED BY <2>1, <2>2 DEF PricesOK, ValuesOK
<1>4. ValuesOK'
  <2>1. merges' \in 0..MaxMerges
    BY <1>2, CanonicalPriceAssumption DEF PricesOK, ValuesOK
  <2> QED BY <1>2, <1>3, <2>1 DEF PricesOK, ValuesOK
<1>5. Scraped' = Scraped
  BY <1>2, CanonicalPriceAssumption DEF Scraped
<1>6. OrderOK'
  BY <1>2, <1>5 DEF PricesOK, OrderOK
<1>7. OwnersScraped'
  BY <1>2, <1>5 DEF PricesOK, OwnersScraped, Scraped
<1> QED BY <1>4, <1>5, <1>6, <1>7 DEF PricesOK

\* A step that leaves listings with their products and prices.
LEMMA RestTyped ==
    ASSUME PricesOK, UNCHANGED <<prod, price, age, active, merges, setting>>,
           live' \in [Listings -> BOOLEAN], canon' \in [Listings -> Prices \cup {0}],
           saving' \in {saving, NotSaving}
             \cup [listing : Listings, product : Listings, canon : Prices \cup {0}]
    PROVE  PricesOK' /\ Scraped' = Scraped
<1>1. ValuesOK'
  BY DEF PricesOK, ValuesOK
<1>2. Scraped' = Scraped
  BY DEF Scraped
<1> QED BY <1>1, <1>2 DEF PricesOK, OrderOK, OwnersScraped

\* Every step keeps values and order.
LEMMA PricesNextTyped ==
    ASSUME PricesOK, PriceIInv, [PriceNext]_priceVars
    PROVE  PricesOK'
<1>0. ValuesOK
  BY DEF PricesOK
<1>1. ASSUME NEW l \in Listings, NEW x \in setting.prices \cup {0}, NEW archived \in BOOLEAN,
             PersistNew(l, x, archived)
      PROVE  PricesOK'
  BY <1>1, PersistNewTyped
<1>2. ASSUME NEW l \in Listings, ReadChanged(l) PROVE PricesOK'
  <2>1. prod[l] \in Listings /\ canon[prod[l]] \in Prices \cup {0}
    BY <1>0, <1>2 DEF ReadChanged, Scraped, ValuesOK
  <2> QED BY <1>0, <1>2, <2>1, RestTyped DEF ReadChanged, ValuesOK
<1>3. ASSUME NEW x \in setting.prices \cup {0}, NEW archived \in BOOLEAN, PersistChanged(x, archived)
      PROVE  PricesOK'
  BY <1>3, PersistChangedTyped
<1>4. ASSUME NEW l \in Listings, NEW archived \in BOOLEAN, PersistSame(l, archived) PROVE PricesOK'
  BY <1>0, <1>4, RestTyped DEF PersistSame, ValuesOK
<1>5. ASSUME NEW l \in Listings, Archive(l) PROVE PricesOK'
  BY <1>0, <1>5, RestTyped DEF Archive, ValuesOK
<1>6. ASSUME NEW p \in Listings, NEW q \in Listings, Merge(p, q) PROVE PricesOK'
  BY <1>6, MergeTyped
<1>7. ASSUME NEW p \in Listings, NEW x \in setting.prices, UpdateCanonical(p, x) PROVE PricesOK'
  <2>1. x \in Prices
    BY <1>0, PriceSettingsAssumption DEF ValuesOK
  <2> QED BY <1>0, <1>7, <2>1, RestTyped DEF UpdateCanonical, ValuesOK
<1>8. CASE UNCHANGED priceVars
  BY <1>0, <1>8, RestTyped DEF priceVars, ValuesOK
<1> QED BY <1>1, <1>2, <1>3, <1>4, <1>5, <1>6, <1>7, <1>8 DEF PriceNext

\* models.py, engine.py: products, listings, their order of scraping and what is
\* being saved have their types, for any listings, prices and settings.
THEOREM PriceTypeCorrect == PriceSpec => []PriceTypeOK
<1>1. PriceSpec => []PricesOK
  BY PriceInvariant, PriceInitTyped, PricesNextTyped, PTL DEF PriceSpec
<1> QED BY <1>1, PricesTyped, PTL

-----------------------------------------------------------------------------
(* The price of the system of record *)

\* What a product shows, whose listings of the system of record are sor.
Follows(a, sor, pr, c) ==
    sor # {} /\ pr[LatestOf(a, sor)] > 0 => ~Differs(pr[LatestOf(a, sor)], c)

\* As long as nothing is exercised but the system of record's own changes and
\* merges: every listing is live, and a listing that is being saved is the
\* system of record's, with its product and that one's price as they are.
Undisputed ==
    setting.ops = {} =>
        /\ \A l \in Scraped : live[l]
        /\ saving # NotSaving =>
             /\ saving.listing \in Scraped \cap SoRListings
             /\ saving.product = prod[saving.listing]
             /\ saving.canon = canon[saving.product]
        /\ \A p \in Listings :
             active[p] => Follows(age, SourcesOf(p) \cap SoRListings, price, canon[p])

\* This is what is to be shown.
LEMMA NoDrift ==
    ASSUME PricesOK, Undisputed
    PROVE  SoRDriftBounded
BY DEF Undisputed, Follows, SoRDriftBounded, Latest, LatestOf

\* A price does not differ from itself.
LEMMA SamePrice == ASSUME NEW x \in Nat, x > 0 PROVE ~Differs(x, x)
BY DEF Differs

\* The listings of the system of record that a product has were scraped.
LEMMA OwnListings ==
    ASSUME PricesOK, NEW p \in Listings
    PROVE  SourcesOf(p) \cap SoRListings \in SUBSET Scraped /\ Scraped \in SUBSET Listings
BY CanonicalPriceAssumption DEF SourcesOf, Scraped

\* What was asked for a product's own first listing is its price.
LEMMA PersistNewFollows ==
    ASSUME PricesOK, Undisputed, NEW l \in Listings, NEW x \in setting.prices \cup {0},
           NEW archived \in BOOLEAN, PersistNew(l, x, archived)
    PROVE  Undisputed'
<1> SUFFICES ASSUME setting.ops = {} PROVE Undisputed'
  BY DEF Undisputed, PersistNew
<1>1. /\ prod' = [prod EXCEPT ![l] = l] /\ price' = [price EXCEPT ![l] = x]
      /\ live' = [live EXCEPT ![l] = TRUE] /\ age' = TouchedOf(age, l)
      /\ active' = [active EXCEPT ![l] = TRUE] /\ canon' = [canon EXCEPT ![l] = x]
      /\ saving = NotSaving /\ saving' = NotSaving /\ prod[l] = NoProduct
  BY DEF PersistNew, MayArchive, Touched, TouchedOf
<1>2. Scraped' = Scraped \cup {l} /\ l \notin Scraped
  BY PersistNewTyped
<1>3. \A m \in Scraped' : live'[m]
  BY <1>1, <1>2 DEF Undisputed, PricesOK, ValuesOK, Scraped
<1>4. ASSUME NEW p \in Listings, active'[p]
      PROVE  Follows(age', SourcesOf(p)' \cap SoRListings, price', canon'[p])
  <2>1. CASE p = l
    <3>1. SourcesOf(p)' \subseteq {l}
      BY <1>1, <1>2, <2>1 DEF SourcesOf, PricesOK, OwnersScraped, ValuesOK, Scraped
    <3>2. PICK sor : sor = SourcesOf(p)' \cap SoRListings
      OBVIOUS
    <3>3. CASE sor = {}
      BY <3>2, <3>3 DEF Follows
    <3>4. CASE sor = {l}
      <4>1. LatestOf(age', sor) \in {l}
        <5>1. age'[l] <= age'[l]
          BY <1>1 DEF TouchedOf
        <5> QED BY <3>4, <5>1 DEF LatestOf
      <4>2. price'[l] = x /\ canon'[p] = x /\ x \in Nat
        BY <1>1, <2>1, PricesAsked DEF PricesOK, ValuesOK
      <4> QED BY <3>2, <4>1, <4>2, SamePrice DEF Follows
    <3> QED BY <3>1, <3>2, <3>3, <3>4
  <2>2. CASE p # l
    <3>1. PICK sor : sor = SourcesOf(p) \cap SoRListings
      OBVIOUS
    <3>2. SourcesOf(p)' \cap SoRListings = sor /\ active[p] /\ canon'[p] = canon[p]
      <4>1. \A m \in Listings : (prod'[m] = p) <=> (prod[m] = p)
        BY <1>1, <2>2, CanonicalPriceAssumption DEF PricesOK, ValuesOK
      <4>2. active[p] /\ canon'[p] = canon[p]
        BY <1>1, <1>4, <2>2 DEF PricesOK, ValuesOK
      <4> QED BY <3>1, <4>1, <4>2 DEF SourcesOf
    <3>3. Follows(age, sor, price, canon[p])
      BY <3>1, <3>2 DEF Undisputed
    <3>4. PICK S, a : S = Scraped /\ a = age
      OBVIOUS
    <3>5. sor \in SUBSET (S \ {l}) /\ S \in SUBSET Listings /\ Ordered(a, S, Cardinality(S))
      BY <1>2, <3>1, <3>4, OwnListings DEF PricesOK, OrderOK
    <3>6. sor # {} => LatestOf(TouchedOf(a, l), sor) = LatestOf(a, sor)
      BY <3>5, LatestStays
    <3>7. sor # {} => LatestOf(a, sor) \in sor
      BY <3>5, LatestExists
    <3>8. \A m \in sor : price'[m] = price[m]
      BY <1>1, <3>5 DEF PricesOK, ValuesOK
    <3> QED BY <1>1, <3>2, <3>3, <3>4, <3>6, <3>7, <3>8 DEF Follows
  <2> QED BY <2>1, <2>2
<1> QED BY <1>1, <1>3, <1>4 DEF Undisputed

\* The product follows the listing that is saved, and only that product.
LEMMA PersistChangedFollows ==
    ASSUME PricesOK, PriceIInv, Undisputed, NEW x \in setting.prices \cup {0}, NEW archived \in BOOLEAN,
           PersistChanged(x, archived)
    PROVE  Undisputed'
<1> SUFFICES ASSUME setting.ops = {} PROVE Undisputed'
  BY DEF Undisputed, PersistChanged
<1>1. PICK l, s : l = saving.listing /\ s = saving.product
  OBVIOUS
<1>2. /\ l \in Scraped \cap SoRListings /\ prod[l] = s /\ saving.canon = canon[s]
      /\ l \in Listings /\ s \in Listings
  BY <1>1 DEF Undisputed, PersistChanged, PriceIInv, ColumnsOK
<1>3. /\ saving' = NotSaving /\ UNCHANGED <<prod, active>>
      /\ price' = [price EXCEPT ![l] = x] /\ live' = [live EXCEPT ![l] = TRUE]
      /\ age' = TouchedOf(age, l)
      /\ canon' = [canon EXCEPT ![s] = IF x # 0 /\ Differs(x, canon[s]) THEN x ELSE canon[s]]
  BY <1>1, <1>2 DEF PersistChanged, MayArchive, Touched, TouchedOf
<1>4. Scraped' = Scraped
  BY <1>3 DEF Scraped
<1>5. \A m \in Scraped : live'[m]
  BY <1>3 DEF Undisputed, PricesOK, ValuesOK, Scraped
<1>6. PICK S, a : S = Scraped /\ a = age
  OBVIOUS
<1>7. S \in SUBSET Listings /\ Ordered(a, S, Cardinality(S)) /\ l \in S
  BY <1>2, <1>6 DEF PricesOK, OrderOK, Scraped
<1>8. ASSUME NEW p \in Listings, active[p]
      PROVE  Follows(age', SourcesOf(p) \cap SoRListings, price', canon'[p])
  <2>1. PICK sor : sor = SourcesOf(p) \cap SoRListings
    OBVIOUS
  <2>2. sor \in SUBSET S
    BY <1>6, <2>1, OwnListings
  <2>3. CASE p = s
    <3>1. l \in sor
      BY <1>2, <2>1, <2>3 DEF SourcesOf
    <3>2. Ordered(TouchedOf(a, l), S, Cardinality(S))
      BY <1>7, TouchOld
    <3>3. \A m \in sor : TouchedOf(a, l)[l] <= TouchedOf(a, l)[m]
      <4>1. \A m \in S : TouchedOf(a, l)[m] \in 0..Oldest /\ Oldest \in Nat
        BY <1>7, <3>2, ListingsCount DEF Ordered
      <4>2. TouchedOf(a, l)[l] = 0
        BY <1>7 DEF TouchedOf
      <4> QED BY <2>2, <4>1, <4>2
    <3>4. LatestOf(TouchedOf(a, l), sor) = l
      BY <1>7, <2>2, <3>1, <3>2, <3>3, LatestIs
    <3>5. price'[l] = x /\ x \in Nat
      BY <1>2, <1>3, PricesAsked DEF PricesOK, ValuesOK
    <3>6. canon'[p] = IF x # 0 /\ Differs(x, canon[s]) THEN x ELSE canon[s]
      BY <1>3, <2>3 DEF PricesOK, ValuesOK
    <3>7. x > 0 => ~Differs(x, canon'[p])
      BY <3>5, <3>6, SamePrice
    <3> QED BY <1>3, <1>6, <2>1, <3>4, <3>5, <3>7 DEF Follows
  <2>4. CASE p # s
    <3>1. l \notin sor /\ sor \in SUBSET (S \ {l})
      BY <1>2, <2>1, <2>2, <2>4 DEF SourcesOf
    <3>2. canon'[p] = canon[p] /\ Follows(a, sor, price, canon[p])
      BY <1>3, <1>6, <1>8, <2>1, <2>4 DEF Undisputed, PricesOK, ValuesOK
    <3>3. sor # {} => LatestOf(TouchedOf(a, l), sor) = LatestOf(a, sor)
      BY <1>7, <3>1, LatestStays
    <3>4. sor # {} => LatestOf(a, sor) \in sor
      BY <1>7, <2>2, LatestExists
    <3>5. \A m \in sor : price'[m] = price[m]
      BY <1>3, <1>7, <3>1 DEF PricesOK, ValuesOK
    <3> QED BY <1>3, <1>6, <2>1, <3>2, <3>3, <3>4, <3>5 DEF Follows
  <2> QED BY <2>3, <2>4
<1>9. SourcesOf(s)' = SourcesOf(s) /\ \A p \in Listings : SourcesOf(p)' = SourcesOf(p)
  BY <1>3 DEF SourcesOf
<1> QED BY <1>3, <1>4, <1>5, <1>8, <1>9 DEF Undisputed

\* A merge asks the system of record's latest listing of either product first.
LEMMA MergeFollows ==
    ASSUME PricesOK, PriceIInv, Undisputed, NEW p \in Listings, NEW q \in Listings, Merge(p, q)
    PROVE  Undisputed'
<1> SUFFICES ASSUME setting.ops = {} PROVE Undisputed'
  BY DEF Undisputed, Merge
<1>1. PICK ls : ls = SourcesOf(p) \cup SourcesOf(q)
  OBVIOUS
<1>2. /\ prod' = [l \in Listings |-> IF prod[l] = q THEN p ELSE prod[l]]
      /\ canon' = [canon EXCEPT ![p] = Recomputed(p, ls)]
      /\ active' = [active EXCEPT ![q] = FALSE] /\ p # q
      /\ UNCHANGED <<price, live, age, saving>> /\ saving = NotSaving
  BY <1>1 DEF Merge
<1>3. Scraped' = Scraped
  BY MergeTyped
<1>4. PICK S, a : S = Scraped /\ a = age
  OBVIOUS
<1>5. S \in SUBSET Listings /\ Ordered(a, S, Cardinality(S))
  BY <1>4 DEF PricesOK, OrderOK, Scraped
<1>6. ASSUME NEW k \in Listings, active'[k]
      PROVE  Follows(age, SourcesOf(k)' \cap SoRListings, price, canon'[k])
  <2>1. k # q /\ active[k]
    BY <1>2, <1>6 DEF PricesOK, ValuesOK
  <2>2. CASE k = p
    <3>1. SourcesOf(k)' = ls /\ ls \subseteq S
      BY <1>1, <1>2, <1>4, <2>2, CanonicalPriceAssumption DEF SourcesOf, Scraped
    <3>2. PICK sor, t : sor = ls \cap SoRListings /\ t = LatestOf(a, sor)
      OBVIOUS
    <3>3. CASE sor = {} \/ ~(price[t] > 0)
      BY <1>4, <3>1, <3>2, <3>3 DEF Follows
    <3>4. CASE sor # {} /\ price[t] > 0
      <4>1. sor \in SUBSET S
        BY <3>1, <3>2
      <4>2. t \in sor /\ \A m \in sor : a[t] <= a[m]
        BY <1>5, <3>2, <3>4, <4>1, LatestExists
      <4>3. PICK srcs : srcs = {l \in ls : live[l] /\ price[l] > 0}
        OBVIOUS
      <4>4. t \in srcs \cap SoRListings /\ srcs \cap SoRListings \subseteq sor
        BY <1>4, <3>1, <3>2, <3>4, <4>2, <4>3 DEF Undisputed
      <4>5. LatestOf(a, srcs \cap SoRListings) = t
        <5>1. PICK asked : asked = srcs \cap SoRListings
          OBVIOUS
        <5>2. asked \in SUBSET S /\ t \in asked /\ \A m \in asked : a[t] <= a[m]
          BY <4>1, <4>2, <4>4, <5>1
        <5> QED BY <1>5, <5>1, <5>2, LatestIs
      <4>6. Latest(srcs \cap SoRListings) = t
        BY <1>4, <4>5 DEF Latest, LatestOf
      <4>7. Recomputed(p, ls) = price[t]
        BY <4>3, <4>4, <4>6 DEF Recomputed
      <4>8. canon'[k] = price[t]
        BY <1>2, <2>2, <4>7 DEF PricesOK, ValuesOK
      <4>9. price[t] \in Nat
        BY <1>5, <4>1, <4>2 DEF PriceIInv, ColumnsOK
      <4>10. ~Differs(price[t], canon'[k])
        BY <3>4, <4>8, <4>9, SamePrice
      <4> QED BY <1>4, <3>1, <3>2, <4>10 DEF Follows
    <3> QED BY <3>3, <3>4
  <2>3. CASE k # p
    <3>1. SourcesOf(k)' = SourcesOf(k) /\ canon'[k] = canon[k]
      BY <1>2, <2>1, <2>3 DEF SourcesOf, PricesOK, ValuesOK
    <3> QED BY <2>1, <3>1 DEF Undisputed
  <2> QED BY <2>2, <2>3
<1> QED BY <1>2, <1>3, <1>6 DEF Undisputed

\* Nothing is archived and nobody edits: other steps leave the prices.
LEMMA PricesUndisturbed ==
    ASSUME Undisputed, UNCHANGED <<prod, price, live, age, active, canon, setting>>,
           \/ saving' = saving
           \/ setting.ops # {}
           \/ \E l \in Scraped \cap SoRListings :
                 saving' = [listing |-> l, product |-> prod[l], canon |-> canon[prod[l]]]
    PROVE  Undisputed'
<1> SUFFICES ASSUME setting.ops = {} PROVE Undisputed'
  BY DEF Undisputed
<1>1. Scraped' = Scraped /\ \A p : SourcesOf(p)' = SourcesOf(p)
  BY DEF Scraped, SourcesOf
<1> QED BY <1>1 DEF Undisputed

\* Every step leaves the prices undisputed.
LEMMA PriceNextFollows ==
    ASSUME PricesOK, PriceIInv, Undisputed, [PriceNext]_priceVars
    PROVE  Undisputed'
<1>1. ASSUME NEW l \in Listings, NEW x \in setting.prices \cup {0}, NEW archived \in BOOLEAN,
             PersistNew(l, x, archived)
      PROVE  Undisputed'
  BY <1>1, PersistNewFollows
<1>2. ASSUME NEW l \in Listings, ReadChanged(l) PROVE Undisputed'
  <2>1. /\ UNCHANGED <<prod, price, live, age, active, canon, setting>>
        /\ l \in Scraped /\ (setting.ops = {} => l \in SoRListings)
        /\ saving' = [listing |-> l, product |-> prod[l], canon |-> canon[prod[l]]]
    BY <1>2 DEF ReadChanged
  <2> QED BY <2>1, PricesUndisturbed
<1>3. ASSUME NEW x \in setting.prices \cup {0}, NEW archived \in BOOLEAN, PersistChanged(x, archived)
      PROVE  Undisputed'
  BY <1>3, PersistChangedFollows
<1>4. ASSUME NEW l \in Listings, NEW archived \in BOOLEAN, PersistSame(l, archived) PROVE Undisputed'
  BY <1>4 DEF PersistSame, Undisputed
<1>5. ASSUME NEW l \in Listings, Archive(l) PROVE Undisputed'
  BY <1>5 DEF Archive, Undisputed
<1>6. ASSUME NEW p \in Listings, NEW q \in Listings, Merge(p, q) PROVE Undisputed'
  BY <1>6, MergeFollows
<1>7. ASSUME NEW p \in Listings, NEW x \in setting.prices, UpdateCanonical(p, x) PROVE Undisputed'
  BY <1>7 DEF UpdateCanonical, Undisputed
<1>8. CASE UNCHANGED priceVars
  <2>1. UNCHANGED <<prod, price, live, age, active, canon, setting>> /\ saving' = saving
    BY <1>8 DEF priceVars
  <2> QED BY <2>1, PricesUndisturbed
<1> QED BY <1>1, <1>2, <1>3, <1>4, <1>5, <1>6, <1>7, <1>8 DEF PriceNext

\* At first no product shows anything.
LEMMA PriceInitFollows == PriceInit => Undisputed
BY DEF PriceInit, Undisputed, Scraped, NotSaving

\* source_scraper.py:453, engine.py:38: for any listings and prices and any number
\* of merges, as long as only the system of record changes its prices, an active
\* product's price is within one per cent of that of its latest listing there.
THEOREM SoRPricesHold == PriceSpec => []SoRDriftBounded
<1>1. PriceInit => PricesOK /\ Undisputed
  BY PriceInitTyped, PriceInitFollows
<1>2. PricesOK /\ Undisputed /\ PriceIInv /\ [PriceNext]_priceVars => (PricesOK /\ Undisputed)'
  BY PricesNextTyped, PriceNextFollows
<1>3. PriceSpec => [](PricesOK /\ Undisputed)
  BY PriceInvariant, <1>1, <1>2, PTL DEF PriceSpec
<1> QED BY <1>3, NoDrift, PTL

-----------------------------------------------------------------------------
(* The broadcasts *)

\* The sockets a broadcast b still has to reach, and those from the n-th of the
\* list on.
Owed(b) == {w \in due[b] : w \notin ToSet(got[b])}
FromOn(n) == {sockets[k] : k \in {m \in DOMAIN sockets : m >= n}}

\* A broadcast reaches whom it owes from where its loop is.
Reaching(b) ==
    /\ \A w \in due[b] : life[w] = "open"
    /\ bc[b].at = "next" => Owed(b) \subseteq FromOn(bc[b].i)
    /\ bc[b].at = "send" => Owed(b) \subseteq FromOn(bc[b].i + 1) \cup {bc[b].to}
    /\ bc[b].at \in {"dead", "over"} => Owed(b) = {}
    /\ UnderWay(b) => bc[b].i > 0
    /\ bc[b].at = "send" => bc[b].to \in Sockets

BcIInv == BcTypeOK /\ \A b \in Broadcasts : Reaching(b)

\* No broadcast has begun.
LEMMA BcInitInv == BcInit => BcIInv
<1> SUFFICES ASSUME BcInit PROVE BcIInv
  OBVIOUS
<1>1. NotStarted \in Loop
  BY DEF NotStarted, Loop
<1>2. <<>> \in Seq(Sockets)
  OBVIOUS
<1>3. BcTypeOK
  BY <1>1, <1>2 DEF BcInit, BcTypeOK
<1>4. ASSUME NEW b \in Broadcasts PROVE Reaching(b)
  BY <1>1 DEF Reaching, BcInit, NotStarted, UnderWay
<1> QED BY <1>3, <1>4 DEF BcIInv

\* A step that leaves the loops alone, takes sockets that are not open off
\* those that are due, and moves nobody of those that remain due to the left.
LEMMA BcQuiet ==
    ASSUME BcIInv, BcTypeOK', UNCHANGED <<bc, got>>, NEW b \in Broadcasts,
           due'[b] \subseteq due[b], \A w \in due'[b] : life'[w] = "open",
           UnderWay(b) /\ due'[b] # {} => \A n \in Nat : FromOn(n) \subseteq FromOn(n)'
    PROVE  Reaching(b)'
<1>1. Reaching(b) /\ bc[b] \in Loop
  BY DEF BcIInv, BcTypeOK
<1>2. Owed(b)' \subseteq Owed(b) /\ (due'[b] = {} => Owed(b)' = {})
  BY DEF Owed
<1>3. bc[b].i \in Nat /\ bc[b].i + 1 \in Nat
  BY <1>1 DEF Loop
<1>4. CASE due'[b] = {}
  BY <1>1, <1>2, <1>4 DEF Reaching, UnderWay
<1>5. CASE ~UnderWay(b)
  BY <1>1, <1>2, <1>5 DEF Reaching, UnderWay
<1>6. CASE UnderWay(b) /\ due'[b] # {}
  <2>1. FromOn(bc[b].i) \subseteq FromOn(bc[b].i)' /\ FromOn(bc[b].i + 1) \subseteq FromOn(bc[b].i + 1)'
    <3>1. PICK n : n = bc[b].i
      OBVIOUS
    <3>2. FromOn(n) \subseteq FromOn(n)' /\ FromOn(n + 1) \subseteq FromOn(n + 1)'
      BY <1>3, <1>6, <3>1
    <3> QED BY <3>1, <3>2 DEF FromOn
  <2> QED BY <1>1, <1>2, <2>1 DEF Reaching, UnderWay
<1> QED BY <1>4, <1>5, <1>6

\* A socket that connects comes to the end of the list: whoever is in it stays
\* where it is.
LEMMA ConnectBcInv ==
    ASSUME BcIInv, NEW w \in Sockets, Connect(w)
    PROVE  BcIInv'
<1>1. sockets \in Seq(Sockets) /\ BcTypeOK
  BY DEF BcIInv, BcTypeOK
<1>2. sockets' \in Seq(Sockets) /\ Len(sockets') = Len(sockets) + 1
      /\ \A k \in 1..Len(sockets) : sockets'[k] = sockets[k]
  BY <1>1 DEF Connect
<1>3. BcTypeOK'
  BY <1>1, <1>2 DEF Connect, BcTypeOK
<1>4. \A n \in Nat : FromOn(n) \subseteq FromOn(n)'
  BY <1>1, <1>2 DEF FromOn
<1>5. ASSUME NEW b \in Broadcasts PROVE Reaching(b)'
  <2>1. due'[b] = due[b] /\ \A v \in due[b] : life'[v] = "open"
    BY <1>1 DEF Connect, BcIInv, Reaching, BcTypeOK
  <2> QED BY <1>3, <1>4, <2>1, BcQuiet DEF Connect
<1> QED BY <1>3, <1>5 DEF BcIInv

\* A socket whose peer is gone is not due any more.
LEMMA BreakBcInv ==
    ASSUME BcIInv, NEW w \in Sockets, Break(w)
    PROVE  BcIInv'
<1>1. BcTypeOK
  BY DEF BcIInv
<1>2. BcTypeOK'
  BY <1>1 DEF Break, BcTypeOK
<1>3. \A n \in Nat : FromOn(n) \subseteq FromOn(n)'
  BY DEF FromOn, Break
<1>4. ASSUME NEW b \in Broadcasts PROVE Reaching(b)'
  <2>1. due'[b] = due[b] \ {w}
    BY DEF Break
  <2>2. \A v \in due'[b] : life'[v] = "open"
    BY <1>1, <2>1 DEF Break, BcIInv, Reaching, BcTypeOK
  <2> QED BY <1>2, <1>3, <2>1, <2>2, BcQuiet DEF Break
<1> QED BY <1>2, <1>4 DEF BcIInv

\* Taking a socket off the list moves those behind it: no broadcast that is
\* under way owes anything then.
LEMMA DisconnectBcInv ==
    ASSUME BcIInv, NEW w \in Sockets, Disconnect(w)
    PROVE  BcIInv'
<1>1. sockets \in Seq(Sockets) /\ BcTypeOK
  BY DEF BcIInv, BcTypeOK
<1>2. sockets' = Only(sockets, Sockets \ {w})
  BY DEF Disconnect, Drop
<1>3. sockets' \in Seq(Sockets) /\ (ToSet(sockets) \subseteq (Sockets \ {w}) => sockets' = sockets)
  <2>1. PICK T : T = Sockets \ {w}
    OBVIOUS
  <2> QED BY <1>1, <1>2, <2>1, OnlyIs
<1>4. \A b \in Broadcasts :
        due'[b] = IF UnderWay(b) /\ Contains(sockets, w) THEN {} ELSE due[b] \ {w}
  BY DEF Disconnect, Drop
<1>5. BcTypeOK'
  <2>1. due' \in [Broadcasts -> SUBSET Sockets]
    BY <1>1 DEF Disconnect, Drop, BcTypeOK
  <2> QED BY <1>1, <1>3, <2>1 DEF Disconnect, BcTypeOK
<1>6. ASSUME NEW b \in Broadcasts PROVE Reaching(b)'
  <2>1. due'[b] \subseteq due[b] \ {w}
    BY <1>4
  <2>2. \A v \in due'[b] : life'[v] = "open"
    BY <1>1, <2>1 DEF Disconnect, BcIInv, Reaching, BcTypeOK
  <2>3. ASSUME UnderWay(b), due'[b] # {} PROVE \A n \in Nat : FromOn(n) \subseteq FromOn(n)'
    <3>1. ~Contains(sockets, w)
      BY <1>4, <2>3
    <3>2. ToSet(sockets) \subseteq (Sockets \ {w})
      BY <1>1, <3>1 DEF Contains, ToSet
    <3> QED BY <1>3, <3>2 DEF FromOn
  <2> QED BY <1>5, <2>1, <2>2, <2>3, BcQuiet DEF Disconnect
<1> QED BY <1>5, <1>6 DEF BcIInv

\* A step of b's loop says nothing of another broadcast's.
LEMMA BcOthers ==
    ASSUME BcIInv, NEW b \in Broadcasts, UNCHANGED <<sockets, life>>, NEW c \in Broadcasts,
           bc'[c] = bc[c], got'[c] = got[c], due'[c] = due[c]
    PROVE  Reaching(c)'
BY DEF BcIInv, Reaching, Owed, FromOn, UnderWay

\* A broadcast that begins owes the open sockets of the list, all from its
\* first place on.
LEMMA BeginsBcInv ==
    ASSUME BcIInv, NEW b \in Broadcasts, BroadcastBegins(b)
    PROVE  BcIInv'
<1>1. sockets \in Seq(Sockets) /\ BcTypeOK
  BY DEF BcIInv, BcTypeOK
<1>2. PICK loop : loop = bc[b]
  OBVIOUS
<1>3. loop \in Loop
  BY <1>1, <1>2 DEF BcTypeOK
<1>4. [loop EXCEPT !.at = "next", !.i = 1] \in Loop
  BY <1>3 DEF Loop
<1>5. bc' = [bc EXCEPT ![b] = [loop EXCEPT !.at = "next", !.i = 1]]
  BY <1>1, <1>2, <1>3 DEF BroadcastBegins, BcTypeOK, Loop
<1>6. bc'[b].at = "next" /\ bc'[b].i = 1
  BY <1>1, <1>3, <1>5 DEF BcTypeOK, Loop
<1>7. due'[b] = {w \in ToSet(sockets) : life[w] = "open"}
  BY <1>1 DEF BroadcastBegins, BcTypeOK
<1>8. ToSet(sockets) \subseteq Sockets
  BY <1>1 DEF ToSet
<1>9. BcTypeOK'
  <2>1. {w \in ToSet(sockets) : life[w] = "open"} \in SUBSET Sockets
    BY <1>8
  <2> QED BY <1>1, <1>4, <1>5, <2>1 DEF BroadcastBegins, BcTypeOK
<1>10. Reaching(b)'
  <2>1. Owed(b)' \subseteq FromOn(1)'
    BY <1>1, <1>7 DEF Owed, FromOn, ToSet, BroadcastBegins
  <2>2. \A w \in due'[b] : life'[w] = "open"
    BY <1>7 DEF BroadcastBegins
  <2>3. Owed(b)' \subseteq FromOn(bc[b].i)'
    BY <1>6, <2>1 DEF FromOn
  <2> QED BY <1>6, <2>2, <2>3 DEF Reaching, UnderWay
<1>11. ASSUME NEW c \in Broadcasts, c # b PROVE Reaching(c)'
  BY <1>1, <1>11, BcOthers DEF BroadcastBegins, BcTypeOK
<1> QED BY <1>9, <1>10, <1>11 DEF BcIInv

\* The loop takes the socket at its index, or it is past the list and owes
\* nothing.
LEMMA NextSocketBcInv ==
    ASSUME BcIInv, NEW b \in Broadcasts, NextSocket(b)
    PROVE  BcIInv'
<1>1. sockets \in Seq(Sockets) /\ BcTypeOK /\ Reaching(b)
  BY DEF BcIInv, BcTypeOK
<1>2. PICK loop : loop = bc[b]
  OBVIOUS
<1>3. loop \in Loop /\ loop.at = "next" /\ loop.i \in Nat /\ loop.i > 0
  BY <1>1, <1>2 DEF BcTypeOK, NextSocket, Reaching, UnderWay, Loop
<1>4. Owed(b) \subseteq FromOn(loop.i)
  BY <1>1, <1>2, <1>3 DEF Reaching
<1>5. ASSUME NEW c \in Broadcasts, c # b PROVE Reaching(c)'
  BY <1>1, <1>5, BcOthers DEF NextSocket, BcTypeOK
<1>6. CASE loop.i <= Len(sockets)
  <2>1. PICK w : w = sockets[loop.i]
    OBVIOUS
  <2>2. w \in Sockets
    BY <1>1, <1>3, <1>6, <2>1
  <2>3. [loop EXCEPT !.at = "send", !.to = w] \in Loop
    BY <1>3, <2>2 DEF Loop
  <2>4. bc' = [bc EXCEPT ![b] = [loop EXCEPT !.at = "send", !.to = w]]
    BY <1>2, <1>6, <2>1 DEF NextSocket
  <2>5. bc'[b].at = "send" /\ bc'[b].i = loop.i /\ bc'[b].to = w
    BY <1>1, <1>3, <2>4 DEF BcTypeOK, Loop
  <2>6. BcTypeOK'
    BY <1>1, <2>3, <2>4 DEF NextSocket, BcTypeOK
  <2>7. FromOn(loop.i) \subseteq FromOn(loop.i + 1) \cup {w}
    BY <1>1, <1>3, <2>1 DEF FromOn
  <2>8. Reaching(b)'
    BY <1>1, <1>3, <1>4, <2>2, <2>5, <2>7 DEF Reaching, UnderWay, Owed, FromOn, NextSocket
  <2> QED BY <1>5, <2>6, <2>8 DEF BcIInv
<1>7. CASE ~(loop.i <= Len(sockets))
  <2>1. [loop EXCEPT !.at = "dead"] \in Loop
    BY <1>3 DEF Loop
  <2>2. bc' = [bc EXCEPT ![b] = [loop EXCEPT !.at = "dead"]]
    BY <1>2, <1>7 DEF NextSocket
  <2>3. bc'[b].at = "dead" /\ bc'[b].i = loop.i
    BY <1>1, <1>3, <2>2 DEF BcTypeOK, Loop
  <2>4. BcTypeOK'
    BY <1>1, <2>1, <2>2 DEF NextSocket, BcTypeOK
  <2>5. FromOn(loop.i) = {}
    BY <1>1, <1>3, <1>7 DEF FromOn
  <2>6. Reaching(b)'
    BY <1>1, <1>3, <1>4, <2>3, <2>5 DEF Reaching, UnderWay, Owed, NextSocket
  <2> QED BY <1>5, <2>4, <2>6 DEF BcIInv
<1> QED BY <1>6, <1>7

\* A socket that is due is open, so that its send comes through.
LEMMA SentBcInv ==
    ASSUME BcIInv, NEW b \in Broadcasts, Sent(b)
    PROVE  BcIInv'
<1>1. sockets \in Seq(Sockets) /\ BcTypeOK /\ Reaching(b)
  BY DEF BcIInv, BcTypeOK
<1>2. PICK loop : loop = bc[b]
  OBVIOUS
<1>3. loop \in Loop /\ loop.at = "send" /\ loop.i \in Nat /\ loop.i > 0 /\ loop.to \in Sockets
  BY <1>1, <1>2 DEF BcTypeOK, Sent, Reaching, UnderWay, Loop
<1>4. PICK w : w = loop.to
  OBVIOUS
<1>5. PICK after : after = [at |-> "next", i |-> loop.i + 1, to |-> NoSocket,
                            dead |-> IF life[w] = "open" THEN loop.dead ELSE loop.dead \cup {w}]
  OBVIOUS
<1>6. after \in Loop /\ after.at = "next" /\ after.i = loop.i + 1
  BY <1>3, <1>4, <1>5 DEF Loop
<1>7. bc' = [bc EXCEPT ![b] = after] /\ bc'[b] = after
  BY <1>1, <1>2, <1>4, <1>5 DEF Sent, BcTypeOK
<1>8. got' = IF life[w] = "open" THEN [got EXCEPT ![b] = Append(@, w)] ELSE got
  BY <1>2, <1>4 DEF Sent
<1>9. got[b] \in Seq(Sockets) /\ Append(got[b], w) \in Seq(Sockets)
  BY <1>1, <1>3, <1>4 DEF BcTypeOK
<1>10. BcTypeOK'
  <2>1. bc' \in [Broadcasts -> Loop]
    BY <1>1, <1>6, <1>7 DEF BcTypeOK
  <2>2. got' \in [Broadcasts -> Seq(Sockets)]
    BY <1>1, <1>8, <1>9 DEF BcTypeOK
  <2> QED BY <1>1, <2>1, <2>2 DEF BcTypeOK, Sent
<1>11. Reaching(b)'
  <2>1. Owed(b) \subseteq FromOn(loop.i + 1) \cup {w}
    BY <1>1, <1>2, <1>3, <1>4 DEF Reaching
  <2>2. ToSet(got[b]) \subseteq ToSet(got'[b]) /\ (life[w] = "open" => w \in ToSet(got'[b]))
    <3>1. CASE life[w] = "open"
      <4>1. got'[b] = Append(got[b], w)
        BY <1>1, <1>8, <3>1 DEF BcTypeOK
      <4>2. PICK g : g = got[b]
        OBVIOUS
      <4>3. \A k \in 1..Len(g) : Append(g, w)[k] = g[k]
        BY <1>9, <4>2
      <4>4. Append(g, w)[Len(g) + 1] = w /\ DOMAIN Append(g, w) = 1..(Len(g) + 1) /\ DOMAIN g = 1..Len(g)
        BY <1>9, <4>2
      <4>5. ToSet(g) \subseteq ToSet(Append(g, w))
        <5>1. ASSUME NEW k \in 1..Len(g) PROVE g[k] \in ToSet(Append(g, w))
          <6>1. k \in DOMAIN Append(g, w)
            BY <1>9, <4>2, <4>4
          <6> QED BY <4>3, <6>1 DEF ToSet
        <5> QED BY <4>4, <5>1 DEF ToSet
      <4>6. w \in ToSet(Append(g, w))
        <5>1. Len(g) + 1 \in DOMAIN Append(g, w)
          BY <1>9, <4>2, <4>4
        <5> QED BY <4>4, <5>1 DEF ToSet
      <4> QED BY <4>1, <4>2, <4>5, <4>6
    <3>2. CASE life[w] # "open"
      BY <1>8, <3>2
    <3> QED BY <3>1, <3>2
  <2>3. w \notin Owed(b)'
    BY <1>1, <2>2 DEF Owed, Reaching, Sent
  <2>4. Owed(b)' \subseteq Owed(b)
    BY <2>2 DEF Owed, Sent
  <2>5. Owed(b)' \subseteq FromOn(loop.i + 1)
    BY <2>1, <2>3, <2>4
  <2> QED BY <1>1, <1>3, <1>6, <1>7, <2>5 DEF Reaching, UnderWay, FromOn, Sent
<1>12. ASSUME NEW c \in Broadcasts, c # b PROVE Reaching(c)'
  <2>1. got'[c] = got[c] /\ bc'[c] = bc[c]
    BY <1>1, <1>7, <1>8, <1>12 DEF BcTypeOK
  <2> QED BY <2>1, BcOthers DEF Sent
<1> QED BY <1>10, <1>11, <1>12 DEF BcIInv

\* What a broadcast drops at its end are sockets whose send failed, which no
\* broadcast owes.
LEMMA DropDeadBcInv ==
    ASSUME BcIInv, NEW b \in Broadcasts, DropDead(b)
    PROVE  BcIInv'
<1>1. sockets \in Seq(Sockets) /\ BcTypeOK
  BY DEF BcIInv, BcTypeOK
<1>2. PICK loop : loop = bc[b]
  OBVIOUS
<1>3. loop \in Loop /\ loop.at = "dead" /\ loop.i \in Nat /\ loop.dead \subseteq Sockets
  BY <1>1, <1>2 DEF BcTypeOK, DropDead, Loop
<1>4. PICK dead : dead = loop.dead
  OBVIOUS
<1>5. sockets' = Only(sockets, Sockets \ dead)
  BY <1>2, <1>4 DEF DropDead
<1>6. sockets' \in Seq(Sockets) /\ (ToSet(sockets) \subseteq (Sockets \ dead) => sockets' = sockets)
  <2>1. PICK T : T = Sockets \ dead
    OBVIOUS
  <2> QED BY <1>1, <1>5, <2>1, OnlyIs
<1>7. \A c \in Broadcasts :
        due'[c] = IF c # b /\ UnderWay(c) /\ dead \cap ToSet(sockets) # {} THEN {}
                  ELSE due[c] \ dead
  BY <1>2, <1>4 DEF DropDead
<1>8. bc' = [bc EXCEPT ![b] = [loop EXCEPT !.at = "over"]]
  BY <1>1, <1>2, <1>3 DEF DropDead, BcTypeOK, Loop
<1>9. [loop EXCEPT !.at = "over"] \in Loop /\ bc'[b].at = "over"
  BY <1>1, <1>3, <1>8 DEF Loop, BcTypeOK
<1>10. BcTypeOK'
  <2>1. due' \in [Broadcasts -> SUBSET Sockets]
    BY <1>1 DEF DropDead, BcTypeOK
  <2>2. bc' \in [Broadcasts -> Loop]
    BY <1>1, <1>8, <1>9 DEF BcTypeOK
  <2> QED BY <1>1, <1>6, <2>1, <2>2 DEF DropDead, BcTypeOK
<1>11. \A c \in Broadcasts : due'[c] \subseteq due[c] /\ \A w \in due'[c] : life'[w] = "open"
  BY <1>7 DEF DropDead, BcIInv, Reaching
<1>12. Reaching(b)'
  <2>1. Owed(b) = {}
    BY <1>2, <1>3 DEF BcIInv, Reaching
  <2>2. Owed(b)' = {}
    BY <1>11, <2>1 DEF Owed, DropDead
  <2> QED BY <1>9, <1>11, <2>2 DEF Reaching, UnderWay
<1>13. ASSUME NEW c \in Broadcasts, c # b PROVE Reaching(c)'
  <2>1. Reaching(c) /\ bc'[c] = bc[c] /\ got' = got /\ bc[c] \in Loop
    BY <1>1, <1>8, <1>13 DEF DropDead, BcIInv, BcTypeOK
  <2>2. Owed(c)' \subseteq Owed(c) /\ (due'[c] = {} => Owed(c)' = {})
    BY <1>11, <2>1 DEF Owed
  <2>3. CASE due'[c] = {}
    BY <2>1, <2>2, <2>3 DEF Reaching, UnderWay
  <2>4. CASE ~UnderWay(c)
    BY <1>11, <2>1, <2>2, <2>4 DEF Reaching, UnderWay
  <2>5. CASE due'[c] # {} /\ UnderWay(c)
    <3>1. dead \cap ToSet(sockets) = {}
      BY <1>7, <1>13, <2>5
    <3>2. ToSet(sockets) \subseteq (Sockets \ dead)
      BY <1>1, <3>1 DEF ToSet
    <3>3. sockets' = sockets
      BY <1>6, <3>2
    <3> QED BY <1>11, <2>1, <2>2, <3>3 DEF Reaching, UnderWay, FromOn
  <2> QED BY <2>3, <2>4, <2>5
<1> QED BY <1>10, <1>12, <1>13 DEF BcIInv

\* Every step keeps the invariant.
LEMMA BcNextInv == BcIInv /\ [BcNext]_bcVars => BcIInv'
<1> SUFFICES ASSUME BcIInv, [BcNext]_bcVars PROVE BcIInv'
  OBVIOUS
<1>1. CASE UNCHANGED bcVars
  BY <1>1 DEF bcVars, BcIInv, BcTypeOK, Reaching, Owed, FromOn, UnderWay
<1>2. ASSUME NEW w \in Sockets, Connect(w) \/ Break(w) \/ Disconnect(w) PROVE BcIInv'
  BY <1>2, ConnectBcInv, BreakBcInv, DisconnectBcInv
<1>3. ASSUME NEW b \in Broadcasts, BroadcastBegins(b) \/ NextSocket(b) \/ Sent(b) \/ DropDead(b)
      PROVE  BcIInv'
  BY <1>3, BeginsBcInv, NextSocketBcInv, SentBcInv, DropDeadBcInv
<1> QED BY <1>1, <1>2, <1>3 DEF BcNext

\* The invariant holds throughout.
LEMMA BcInvariant == BcSpec => []BcIInv
BY BcInitInv, BcNextInv, PTL DEF BcSpec

\* routes.py:75, ConnectionManager: the list holds sockets, and every loop an
\* index and sockets, for any number of sockets and broadcasts.
THEOREM BcTypeCorrect == BcSpec => []BcTypeOK
<1>1. BcIInv => BcTypeOK
  BY DEF BcIInv
<1> QED BY <1>1, BcInvariant, PTL

\* routes.py:89: for any number of sockets and broadcasts that overlap, a
\* broadcast that is over has reached every socket that was in its list from
\* beginning to end, unless one was removed from the list meanwhile.
THEOREM BroadcastsReach == BcSpec => []ReachesTheOpen
<1>1. BcIInv => ReachesTheOpen
  BY DEF BcIInv, Reaching, ReachesTheOpen, Owed
<1> QED BY <1>1, BcInvariant, PTL

-----------------------------------------------------------------------------
(* The crawl of a site *)

Kinds == {"scraped", "skipped", "errors"}
AfterSites == {"extract", "done", "cancelled"}
Scrapers == [up : BOOLEAN, context : {"good", "bad", "closed"}, rebuilds : 0..1,
             fast : 0..(FastFails - 1), proved : BOOLEAN, failures : 0..Breaker]
Crawls == [at : {"check", "sitemap", "crawl", "extract", "done", "cancelled", "failed"},
           sitemaps : Seq(Urls), subs : Seq(Urls),
           page : Urls \cup {NoUrl}, sub : BOOLEAN, retry : 0..MaxRetries]

\* What CrawlTypeOK says of all variables but the tally.
CrawlShapes ==
    /\ scraper \in Scrapers
    /\ crawl \in Crawls
    /\ toVisit \in Seq(Urls)
    /\ visited \subseteq Urls /\ missed \subseteq Urls
    /\ found \subseteq ProductUrls /\ todo \subseteq found
    /\ breaks \in 0..MaxBreaks /\ lost \in 0..3

\* Between its phases the crawl fetches nothing.
PhasesApart == crawl.at \in {"check", "done", "cancelled", "failed"} => ~Busy

\* Products are counted once they are scraped, and not before.
Counts ==
    /\ tally \in [Kinds -> Nat]
    /\ crawl.at \notin AfterSites => todo = {} /\ \A k \in Kinds : tally[k] = 0
    /\ EveryUrlCounted

\* What the page u leads to is in hand: visited, or to be visited, or found.
FollowedUp(u) ==
    /\ ToSet(Links[u]) \cap CategoryUrls \subseteq visited \cup ToSet(toVisit)
    /\ NextOf[u] \in visited \cup ToSet(toVisit) \cup {NoUrl}
    /\ ToSet(Links[u]) \cap ProductUrls \subseteq found \cup visited

\* While pages are visited, whatever the loaded ones lead to is in hand.
Frontier ==
    /\ crawl.at \in {"check", "sitemap"} => visited = {} /\ toVisit = <<Base>>
    /\ crawl.at = "crawl" =>
         /\ Base \in visited \cup ToSet(toVisit)
         /\ \A u \in visited \ (missed \cup {crawl.page}) : FollowedUp(u)

CrawlIInv == CrawlShapes /\ PhasesApart /\ Counts /\ Frontier /\ WholeSiteSeen

-----------------------------------------------------------------------------
(* Bounds, types and the beginning *)

\* The bounds are numbers, and those that are counted up to are not 0.
LEMMA CrawlBounds ==
    /\ MaxPages \in Nat /\ FastFails \in Nat /\ Breaker \in Nat
    /\ MaxPages > 0 /\ FastFails > 0 /\ Breaker > 0
    /\ EnoughUrls \in Nat /\ MaxRetries \in Nat /\ MaxBreaks \in Nat
<1>1. {MaxPages, FastFails, Breaker} \subseteq Nat \ {0}
  BY CrawlAssumption
<1>2. {EnoughUrls, MaxRetries, MaxBreaks} \subseteq Nat
  BY CrawlAssumption
<1> QED BY <1>1, <1>2

\* A site has finitely many products.
LEMMA FiniteSites ==
    ASSUME CrawlShapes
    PROVE  /\ IsFiniteSet(ProductUrls) /\ IsFiniteSet(found) /\ IsFiniteSet(todo)
           /\ Cardinality(ProductUrls) \in Nat /\ Cardinality(found) \in Nat
           /\ Cardinality(todo) \in Nat
           /\ Cardinality(found) <= Cardinality(ProductUrls)
<1>1. IsFiniteSet(ProductUrls)
  BY CrawlAssumption, FS_Subset
<1>2. IsFiniteSet(found) /\ IsFiniteSet(todo)
  BY <1>1, FS_Subset DEF CrawlShapes
<1>3. Cardinality(found) <= Cardinality(ProductUrls)
  BY <1>1, FS_Subset DEF CrawlShapes
<1> QED BY <1>1, <1>2, <1>3, FS_CardinalityType

\* What is counted is no more than what was found.
LEMMA CountedType ==
    ASSUME CrawlShapes, Counts
    PROVE  CrawlTypeOK
<1>1. \A k \in Kinds : tally[k] \in 0..Cardinality(ProductUrls)
  <2>1. CASE crawl.at \notin AfterSites
    BY <2>1, FiniteSites DEF Counts
  <2>2. CASE crawl.at \in AfterSites
    <3>1. Cardinality(found) = Cardinality(todo) + tally["scraped"] + tally["skipped"]
                               + tally["errors"] + (IF Busy THEN 1 ELSE 0)
      BY <2>2 DEF Counts, EveryUrlCounted, AfterSites
    <3>2. tally["scraped"] \in Nat /\ tally["skipped"] \in Nat /\ tally["errors"] \in Nat
      BY DEF Counts, Kinds
    <3>3. PICK n : n = IF Busy THEN 1 ELSE 0
      OBVIOUS
    <3>4. n \in Nat
      BY <3>3
    <3> QED BY <3>1, <3>2, <3>3, <3>4, FiniteSites DEF Kinds
  <2> QED BY <2>1, <2>2
<1>2. tally \in [Kinds -> 0..Cardinality(ProductUrls)]
  BY <1>1 DEF Counts
<1> QED BY <1>2 DEF CrawlTypeOK, CrawlShapes, Kinds, Scrapers, Crawls

\* Before the health check nothing is visited and nothing counted.
LEMMA CrawlInitInv == CrawlInit => CrawlIInv
<1> SUFFICES ASSUME CrawlInit PROVE CrawlIInv
  OBVIOUS
<1>1. scraper \in Scrapers
  BY CrawlAssumption DEF CrawlInit, Scrapers
<1>2. crawl \in Crawls
  BY CrawlAssumption DEF CrawlInit, Crawls
<1>3. CrawlShapes
  BY <1>1, <1>2, CrawlAssumption DEF CrawlInit, CrawlShapes
<1>4. crawl.at = "check" /\ crawl.page = NoUrl
  BY DEF CrawlInit
<1>5. Counts
  <2>1. tally \in [Kinds -> Nat] /\ \A k \in Kinds : tally[k] = 0
    BY DEF CrawlInit, Kinds
  <2> QED BY <1>4, <2>1 DEF Counts, CrawlInit, EveryUrlCounted, AfterSites
<1>6. Frontier /\ PhasesApart /\ WholeSiteSeen
  BY <1>4 DEF Frontier, PhasesApart, WholeSiteSeen, CrawlInit, Busy
<1> QED BY <1>3, <1>5, <1>6 DEF CrawlIInv

-----------------------------------------------------------------------------
(* The scraper's repairs keep the scraper's shape *)

\* Rebuilding the context keeps the scraper's type.
LEMMA ResetShape ==
    ASSUME NEW b \in Scrapers
    PROVE  ResetContext(b) \in Scrapers /\ ResetContext(b).failures = b.failures
<1>1. PICK c : c = [b EXCEPT !.fast = 0]
  OBVIOUS
<1>2. c \in Scrapers /\ c.failures = b.failures /\ c.rebuilds = b.rebuilds
  BY <1>1, CrawlBounds DEF Scrapers
<1>3. ResetBrowser(c) \in Scrapers /\ ResetBrowser(c).failures = c.failures
  <2>1. 0 \in 0..1 /\ "good" \in {"good", "bad", "closed"}
    OBVIOUS
  <2> QED BY <1>2, <2>1 DEF Scrapers, ResetBrowser
<1>4. ASSUME ~(b.rebuilds + 1 >= 2)
      PROVE  LET d == [c EXCEPT !.rebuilds = @ + 1, !.proved = FALSE,
                                !.context = IF b.up THEN "good" ELSE "closed"]
             IN  d \in Scrapers /\ d.failures = b.failures
  <2>1. PICK x : x = IF b.up THEN "good" ELSE "closed"
    OBVIOUS
  <2>2. x \in {"good", "bad", "closed"} /\ b.rebuilds + 1 \in 0..1
    BY <1>4, <2>1 DEF Scrapers
  <2> QED BY <1>2, <2>1, <2>2 DEF Scrapers
<1> QED BY <1>1, <1>2, <1>3, <1>4 DEF ResetContext

\* Repairing the browser keeps the scraper's type.
LEMMA RepairShape ==
    ASSUME NEW b \in Scrapers, NEW fast \in BOOLEAN, NEW named \in BOOLEAN
    PROVE  Repaired(b, fast, named) \in Scrapers /\ Repaired(b, fast, named).failures = b.failures
<1>1. CountFast(b, fast) \in Scrapers /\ CountFast(b, fast).failures = b.failures
  <2>1. [b EXCEPT !.fast = 0] \in Scrapers /\ [b EXCEPT !.fast = 0].failures = b.failures
    BY CrawlBounds DEF Scrapers
  <2>2. ASSUME ~(b.fast + 1 >= FastFails)
        PROVE  LET c == [b EXCEPT !.fast = @ + 1] IN c \in Scrapers /\ c.failures = b.failures
    BY <2>2, CrawlBounds DEF Scrapers
  <2> QED BY <2>1, <2>2, ResetShape DEF CountFast
<1>2. PICK c : c = CountFast(b, fast)
  OBVIOUS
<1>3. ResetContext(c) \in Scrapers /\ ResetContext(c).failures = b.failures
  BY <1>1, <1>2, ResetShape
<1> QED BY <1>1, <1>2, <1>3 DEF Repaired

\* The pause of the breaker leaves room to count failures.
LEMMA PausedShape ==
    ASSUME NEW b \in Scrapers
    PROVE  Paused(b) \in Scrapers /\ Paused(b).failures < Breaker
BY CrawlBounds DEF Paused, Scrapers

\* A page that loads proves the browser.
LEMMA ProvedShape ==
    ASSUME NEW b \in Scrapers
    PROVE  Proved(b) \in Scrapers
<1>1. 0 \in 0..1 /\ 0 \in 0..(FastFails - 1) /\ 0 \in 0..Breaker
  BY CrawlBounds
<1> QED BY <1>1 DEF Proved, Scrapers

\* A crawl that lets go of its page stays in its phase.
LEMMA FreeShape ==
    ASSUME crawl \in Crawls
    PROVE  Free \in Crawls /\ Free.at = crawl.at /\ Free.page = NoUrl
<1>1. 0 \in 0..MaxRetries /\ NoUrl \in Urls \cup {NoUrl}
  BY CrawlBounds
<1> QED BY <1>1 DEF Free, Crawls

-----------------------------------------------------------------------------
(* Counting *)

\* Counting a product adds one to the tally.
LEMMA CountOne ==
    ASSUME tally \in [Kinds -> Nat], NEW kind \in Kinds, Count(kind)
    PROVE  /\ tally' \in [Kinds -> Nat]
           /\ tally'.scraped + tally'.skipped + tally'.errors
                = tally.scraped + tally.skipped + tally.errors + 1
<1>1. tally' = [tally EXCEPT ![kind] = tally[kind] + 1]
  BY DEF Count
<1>2. tally' \in [Kinds -> Nat]
  BY <1>1
<1>3. tally["scraped"] \in Nat /\ tally["skipped"] \in Nat /\ tally["errors"] \in Nat
  BY DEF Kinds
<1>4. CASE kind = "scraped"
  BY <1>1, <1>3, <1>4 DEF Kinds
<1>5. CASE kind = "skipped"
  BY <1>1, <1>3, <1>5 DEF Kinds
<1>6. CASE kind = "errors"
  BY <1>1, <1>3, <1>6 DEF Kinds
<1> QED BY <1>2, <1>4, <1>5, <1>6 DEF Kinds

\* The page that was fetched is counted, and the next one can be opened.
LEMMA CountFetched ==
    ASSUME CrawlShapes, Counts, crawl.at = "extract", Busy,
           crawl'.at = "extract", ~Busy', NEW kind \in Kinds, Count(kind),
           UNCHANGED <<found, todo>>
    PROVE  Counts'
<1>1. tally \in [Kinds -> Nat]
  BY DEF Counts
<1>2. /\ tally' \in [Kinds -> Nat]
      /\ tally'.scraped + tally'.skipped + tally'.errors
           = tally.scraped + tally.skipped + tally.errors + 1
  BY <1>1, CountOne
<1>3. Cardinality(found) = Cardinality(todo) + tally.scraped + tally.skipped + tally.errors + 1
  BY DEF Counts, EveryUrlCounted
<1>4. /\ tally.scraped \in Nat /\ tally.skipped \in Nat /\ tally.errors \in Nat
      /\ tally'.scraped \in Nat /\ tally'.skipped \in Nat /\ tally'.errors \in Nat
  BY <1>1, <1>2 DEF Kinds
<1>5. Cardinality(found) = Cardinality(todo) + tally'.scraped + tally'.skipped + tally'.errors + 0
  BY <1>2, <1>3, <1>4, FiniteSites
<1> QED BY <1>2, <1>5 DEF Counts, EveryUrlCounted, AfterSites

\* Before products are scraped, and while a page is fetched again, nothing is counted.
LEMMA CountNone ==
    ASSUME Counts, UNCHANGED <<todo, tally>>,
           \/ /\ crawl.at \notin AfterSites
              /\ crawl'.at \notin AfterSites
           \/ UNCHANGED found /\ (crawl'.at = crawl.at) /\ (Busy' <=> Busy)
    PROVE  Counts'
BY DEF Counts, EveryUrlCounted, AfterSites

-----------------------------------------------------------------------------
(* Fetching *)

\* Trying a page again changes nothing but the scraper.
LEMMA RetryInv ==
    ASSUME CrawlIInv, NEW fast \in BOOLEAN, NEW named \in BOOLEAN, Retry(fast, named)
    PROVE  CrawlIInv'
<1>1. CrawlShapes /\ crawl \in Crawls /\ crawl.retry < MaxRetries /\ Busy
  BY DEF CrawlIInv, CrawlShapes, Retry, Fails
<1>2. crawl' = [crawl EXCEPT !.retry = crawl.retry + 1]
  BY DEF Retry
<1>3. crawl' \in Crawls /\ crawl'.at = crawl.at /\ crawl'.page = crawl.page
  <2>1. crawl.retry \in 0..MaxRetries
    BY <1>1 DEF Crawls
  <2>2. PICK n : n = crawl.retry + 1
    OBVIOUS
  <2>3. n \in 0..MaxRetries
    BY <1>1, <2>1, <2>2, CrawlBounds
  <2>4. crawl' = [crawl EXCEPT !.retry = n]
    BY <1>2, <2>2
  <2> QED BY <1>1, <2>3, <2>4 DEF Crawls
<1>4. scraper' \in Scrapers
  BY <1>1, PausedShape, RepairShape DEF Retry, CrawlShapes
<1>5. CrawlShapes'
  BY <1>1, <1>3, <1>4 DEF CrawlShapes, Retry
<1>6. Counts'
  BY <1>3, CountNone DEF CrawlIInv, Retry, Busy
<1>7. Frontier'
  BY <1>3 DEF CrawlIInv, Frontier, FollowedUp, Retry
<1>8. PhasesApart' /\ WholeSiteSeen'
  BY <1>3 DEF CrawlIInv, PhasesApart, WholeSiteSeen, Busy, Retry
<1> QED BY <1>5, <1>6, <1>7, <1>8 DEF CrawlIInv

\* A page that is given up: it is missed, and nothing is being fetched.
LEMMA LoseFrontier ==
    ASSUME CrawlIInv, Lose, Busy, crawl'.page = NoUrl, crawl'.at \in {crawl.at, "failed"}
    PROVE  Frontier' /\ WholeSiteSeen' /\ missed' \subseteq Urls /\ lost' \in 0..3
<1>1. CrawlShapes /\ crawl.page \in Urls
  BY DEF CrawlIInv, CrawlShapes, Crawls, Busy
<1>2. missed' = missed \cup {crawl.page} /\ UNCHANGED <<toVisit, visited, found>>
  BY DEF Lose
<1>3. missed' \subseteq Urls /\ lost' \in 0..3
  BY <1>1 DEF Lose, CrawlShapes
<1>4. Frontier'
  BY <1>2 DEF CrawlIInv, Frontier, FollowedUp
<1>5. WholeSiteSeen'
  BY <1>2 DEF CrawlIInv, WholeSiteSeen
<1> QED BY <1>3, <1>4, <1>5

\* A page that is given up is missed, and a product among the errors.
LEMMA GiveUpInv ==
    ASSUME CrawlIInv, NEW fast \in BOOLEAN, NEW named \in BOOLEAN, GiveUp(fast, named)
    PROVE  CrawlIInv'
<1>1. CrawlShapes /\ crawl \in Crawls /\ Busy /\ Counts
  BY DEF CrawlIInv, CrawlShapes, GiveUp, Fails
<1>2. crawl' \in Crawls /\ crawl'.at = crawl.at /\ crawl'.page = NoUrl
  BY <1>1, FreeShape DEF GiveUp
<1>3. PICK b : b = Repaired(Paused(scraper), fast, named)
  OBVIOUS
<1>4. b \in Scrapers /\ b.failures < Breaker
  BY <1>1, <1>3, PausedShape, RepairShape DEF CrawlShapes
<1>5. scraper' = [b EXCEPT !.failures = b.failures + 1]
  BY <1>3 DEF GiveUp
<1>6. scraper' \in Scrapers
  BY <1>4, <1>5, CrawlBounds DEF Scrapers
<1>7. Lose
  BY DEF GiveUp
<1>8. Frontier' /\ WholeSiteSeen' /\ missed' \subseteq Urls /\ lost' \in 0..3
  BY <1>1, <1>2, <1>7, LoseFrontier
<1>9. CrawlShapes'
  BY <1>1, <1>2, <1>6, <1>7, <1>8 DEF CrawlShapes, Lose
<1>10. Counts'
  <2>1. CASE crawl.at = "extract"
    <3>1. Count("skipped") /\ "skipped" \in Kinds
      BY <2>1 DEF GiveUp, Kinds
    <3> QED BY <1>1, <1>2, <1>7, <2>1, <3>1, CountFetched DEF Lose, Busy
  <2>2. CASE crawl.at # "extract"
    <3>1. crawl.at \notin AfterSites
      BY <1>1, <2>2 DEF CrawlIInv, PhasesApart, AfterSites
    <3> QED BY <1>1, <1>2, <1>7, <2>2, <3>1, CountNone DEF Lose, GiveUp
  <2> QED BY <2>1, <2>2
<1>11. PhasesApart'
  BY <1>2 DEF PhasesApart, Busy
<1> QED BY <1>8, <1>9, <1>10, <1>11 DEF CrawlIInv

\* A browser that cannot be repaired loses the page, or ends the health check.
LEMMA RepairFailsInv ==
    ASSUME CrawlIInv, NEW fast \in BOOLEAN, NEW named \in BOOLEAN, RepairFails(fast, named)
    PROVE  CrawlIInv'
<1>1. CrawlShapes /\ crawl \in Crawls /\ Busy /\ Counts
  BY DEF CrawlIInv, CrawlShapes, RepairFails, Fails
<1>2. PICK at : at = IF crawl.at = "extract" THEN "extract" ELSE "failed"
  OBVIOUS
<1>3. crawl' = [Free EXCEPT !.at = at]
  BY <1>1, <1>2 DEF RepairFails, Free, Crawls
<1>4. crawl' \in Crawls /\ crawl'.at = at /\ crawl'.page = NoUrl
  <2>1. PICK free : free = Free
    OBVIOUS
  <2>2. free \in Crawls /\ free.page = NoUrl /\ crawl' = [free EXCEPT !.at = at]
    BY <1>1, <1>3, <2>1, FreeShape
  <2> QED BY <1>2, <2>2 DEF Crawls
<1>5. scraper' \in Scrapers
  BY <1>1, PausedShape, RepairShape DEF RepairFails, CrawlShapes
<1>6. Lose
  BY DEF RepairFails
<1>7. Frontier' /\ WholeSiteSeen' /\ missed' \subseteq Urls /\ lost' \in 0..3
  BY <1>1, <1>2, <1>4, <1>6, LoseFrontier
<1>8. CrawlShapes'
  BY <1>1, <1>4, <1>5, <1>6, <1>7 DEF CrawlShapes, Lose
<1>9. Counts'
  <2>1. CASE crawl.at = "extract"
    <3>1. Count("errors") /\ "errors" \in Kinds
      BY <2>1 DEF RepairFails, Kinds
    <3> QED BY <1>1, <1>2, <1>4, <1>6, <2>1, <3>1, CountFetched DEF Lose, Busy
  <2>2. CASE crawl.at # "extract"
    <3>1. crawl.at \notin AfterSites /\ crawl'.at \notin AfterSites
      BY <1>1, <1>2, <1>4, <2>2 DEF CrawlIInv, PhasesApart, AfterSites
    <3> QED BY <1>1, <1>4, <1>6, <2>2, <3>1, CountNone DEF Lose, RepairFails
  <2> QED BY <2>1, <2>2
<1>10. PhasesApart'
  BY <1>4 DEF PhasesApart, Busy
<1> QED BY <1>7, <1>8, <1>9, <1>10 DEF CrawlIInv

\* A page has been loaded.
LEMMA LoadShape ==
    ASSUME CrawlShapes, Load
    PROVE  /\ scraper' \in Scrapers /\ Free \in Crawls
           /\ Free.at = crawl.at /\ Free.page = NoUrl
           /\ Busy /\ crawl.page \in Urls
<1>1. scraper' \in Scrapers
  BY PausedShape, ProvedShape DEF Load, CrawlShapes
<1>2. Free \in Crawls /\ Free.at = crawl.at /\ Free.page = NoUrl
  BY FreeShape DEF CrawlShapes
<1>3. Busy /\ crawl.page \in Urls
  BY DEF Load, Busy, CrawlShapes, Crawls
<1> QED BY <1>1, <1>2, <1>3

\* What two sequences hold together.
LEMMA JoinedSets ==
    ASSUME NEW S, NEW s \in Seq(S), NEW t \in Seq(S)
    PROVE  s \o t \in Seq(S) /\ ToSet(s \o t) = ToSet(s) \cup ToSet(t)
<1>1. /\ s \o t \in Seq(S) /\ Len(s \o t) = Len(s) + Len(t)
      /\ \A k \in 1..Len(s) : (s \o t)[k] = s[k]
      /\ \A k \in 1..Len(t) : (s \o t)[Len(s) + k] = t[k]
  OBVIOUS
<1>2. PICK q : q = s \o t
  OBVIOUS
<1>3. DOMAIN q = 1..(Len(s) + Len(t)) /\ DOMAIN s = 1..Len(s) /\ DOMAIN t = 1..Len(t)
      /\ Len(s) \in Nat /\ Len(t) \in Nat
  BY <1>1, <1>2
<1>4. ASSUME NEW k \in DOMAIN s PROVE s[k] \in ToSet(q)
  BY <1>1, <1>2, <1>3 DEF ToSet
<1>5. ASSUME NEW k \in DOMAIN t PROVE t[k] \in ToSet(q)
  <2>1. Len(s) + k \in DOMAIN q /\ q[Len(s) + k] = t[k]
    BY <1>1, <1>2, <1>3
  <2> QED BY <2>1 DEF ToSet
<1>6. ASSUME NEW k \in DOMAIN q PROVE q[k] \in ToSet(s) \cup ToSet(t)
  <2>1. CASE k <= Len(s)
    BY <1>1, <1>2, <1>3, <2>1 DEF ToSet
  <2>2. CASE ~(k <= Len(s))
    <3>1. PICK j : j = k - Len(s)
      OBVIOUS
    <3>2. j \in DOMAIN t /\ q[k] = t[j]
      BY <1>1, <1>2, <1>3, <2>2, <3>1
    <3> QED BY <3>2 DEF ToSet
  <2> QED BY <2>1, <2>2
<1>7. \A x \in ToSet(q) : x \in ToSet(s) \cup ToSet(t)
  BY <1>6 DEF ToSet
<1>8. \A x \in ToSet(s) \cup ToSet(t) : x \in ToSet(q)
  BY <1>4, <1>5 DEF ToSet
<1> QED BY <1>1, <1>2, <1>7, <1>8

\* A sitemap adds products, and an index its sitemaps.
LEMMA SitemapLoadedInv ==
    ASSUME CrawlIInv, SitemapLoaded
    PROVE  CrawlIInv'
<1>1. CrawlShapes /\ Counts /\ Load /\ crawl.at = "sitemap"
  BY DEF CrawlIInv, SitemapLoaded
<1>2. PICK listed, subs : listed = Links[crawl.page]
                         /\ subs = IF crawl.sub THEN <<>> ELSE Only(listed, SubSitemaps)
  OBVIOUS
<1>3. /\ found' = found \cup ((ToSet(listed) \cap ProductUrls) \ ToSet(subs))
      /\ crawl' = [Free EXCEPT !.subs = Free.subs \o subs]
  BY <1>2 DEF SitemapLoaded
<1>4. scraper' \in Scrapers /\ Free \in Crawls /\ Free.at = "sitemap" /\ Free.page = NoUrl
      /\ crawl.page \in Urls
  BY <1>1, LoadShape
<1>5. subs \in Seq(Urls)
  <2>1. listed \in Seq(Urls)
    BY <1>2, <1>4, CrawlAssumption
  <2>2. Only(listed, SubSitemaps) \in Seq(Urls)
    BY <2>1, OnlyIs
  <2> QED BY <1>2, <2>2
<1>6. Free.subs \o subs \in Seq(Urls)
  <2>1. Free.subs \in Seq(Urls)
    BY <1>4 DEF Crawls
  <2> QED BY <1>5, <2>1, JoinedSets
<1>7. crawl' \in Crawls /\ crawl'.at = "sitemap" /\ crawl'.page = NoUrl
  BY <1>3, <1>4, <1>6 DEF Crawls
<1>8. found' \subseteq ProductUrls /\ todo = {}
      /\ UNCHANGED <<todo, visited, missed, breaks, lost, toVisit, tally>>
  BY <1>1, <1>3 DEF SitemapLoaded, Counts, AfterSites, Load, CrawlShapes
<1>9. CrawlShapes'
  BY <1>1, <1>4, <1>7, <1>8 DEF CrawlShapes
<1>10. Counts'
  BY <1>1, <1>7, <1>8, CountNone DEF AfterSites
<1>11. Frontier' /\ PhasesApart' /\ WholeSiteSeen'
  BY <1>1, <1>7, <1>8 DEF CrawlIInv, Frontier, PhasesApart, WholeSiteSeen
<1> QED BY <1>9, <1>10, <1>11 DEF CrawlIInv

\* Extending the list of pages by a page's links loses none of it.
LEMMA ExtendedIs ==
    ASSUME CrawlShapes, NEW u \in Urls
    PROVE  /\ Extended(u) \in Seq(Urls)
           /\ ToSet(toVisit) \subseteq ToSet(Extended(u))
           /\ ToSet(Links[u]) \cap CategoryUrls \subseteq visited \cup ToSet(Extended(u))
           /\ NextOf[u] \in visited \cup ToSet(Extended(u)) \cup {NoUrl}
<1>1. PICK next : next = IF NextOf[u] \in {NoUrl} \cup visited THEN <<>> ELSE <<NextOf[u]>>
  OBVIOUS
<1>2. PICK T : T = CategoryUrls \ visited
  OBVIOUS
<1>3. PICK cats : cats = Only(Links[u], T)
  OBVIOUS
<1>4. Links[u] \in Seq(Urls) /\ NextOf[u] \in Urls \cup {NoUrl} /\ toVisit \in Seq(Urls)
  BY CrawlAssumption DEF CrawlShapes
<1>5. cats \in Seq(Urls) /\ ToSet(cats) = ToSet(Links[u]) \cap T
  BY <1>3, <1>4, OnlyIs
<1>6. next \in Seq(Urls) /\ NextOf[u] \in visited \cup {NoUrl} \cup ToSet(next)
  <2>1. CASE NextOf[u] \in {NoUrl} \cup visited
    BY <1>1, <2>1
  <2>2. CASE NextOf[u] \notin {NoUrl} \cup visited
    <3>1. next = <<NextOf[u]>> /\ NextOf[u] \in Urls
      BY <1>1, <1>4, <2>2
    <3>2. 1 \in DOMAIN next /\ next[1] = NextOf[u]
      BY <3>1
    <3> QED BY <3>1, <3>2 DEF ToSet
  <2> QED BY <2>1, <2>2
<1>7. next \o toVisit \in Seq(Urls) /\ ToSet(next \o toVisit) = ToSet(next) \cup ToSet(toVisit)
  BY <1>4, <1>6, JoinedSets
<1>8. PICK front : front = next \o toVisit
  OBVIOUS
<1>9. front \o cats \in Seq(Urls) /\ ToSet(front \o cats) = ToSet(front) \cup ToSet(cats)
  <2>1. front \in Seq(Urls)
    BY <1>7, <1>8
  <2> QED BY <1>5, <2>1, JoinedSets
<1>10. Extended(u) = front \o cats
  BY <1>1, <1>2, <1>3, <1>8 DEF Extended
<1> QED BY <1>2, <1>5, <1>6, <1>7, <1>8, <1>9, <1>10

\* A page that is loaded is followed up: its links are queued or found.
LEMMA PageLoadedInv ==
    ASSUME CrawlIInv, PageLoaded
    PROVE  CrawlIInv'
<1>1. CrawlShapes /\ Counts /\ Load /\ crawl.at = "crawl"
  BY DEF CrawlIInv, PageLoaded
<1>2. PICK u : u = crawl.page
  OBVIOUS
<1>3. /\ scraper' \in Scrapers /\ crawl' \in Crawls /\ u \in Urls
      /\ crawl'.at = "crawl" /\ crawl'.page = NoUrl
  BY <1>1, <1>2, LoadShape DEF PageLoaded
<1>4. /\ found' = found \cup Shown(u) /\ toVisit' = Extended(u)
      /\ UNCHANGED <<todo, visited, missed, breaks, lost, tally>>
  BY <1>2 DEF PageLoaded, Load
<1>5. /\ toVisit' \in Seq(Urls)
      /\ ToSet(toVisit) \subseteq ToSet(toVisit')
      /\ ToSet(Links[u]) \cap CategoryUrls \subseteq visited \cup ToSet(toVisit')
      /\ NextOf[u] \in visited \cup ToSet(toVisit') \cup {NoUrl}
  BY <1>1, <1>3, <1>4, ExtendedIs
<1>6. CrawlShapes'
  BY <1>1, <1>3, <1>4, <1>5 DEF CrawlShapes, Shown
<1>7. Counts'
  BY <1>1, <1>3, <1>4, CountNone DEF AfterSites
<1>8. Frontier'
  <2>1. Base \in visited' \cup ToSet(toVisit')
    BY <1>1, <1>4, <1>5 DEF CrawlIInv, Frontier
  <2>2. ASSUME NEW v \in visited \ missed PROVE FollowedUp(v)'
    <3>1. CASE v = u
      BY <1>4, <1>5, <3>1 DEF FollowedUp, Shown
    <3>2. CASE v # u
      <4>1. FollowedUp(v)
        BY <1>1, <1>2, <2>2, <3>2 DEF CrawlIInv, Frontier
      <4> QED BY <1>4, <1>5, <4>1 DEF FollowedUp
    <3> QED BY <3>1, <3>2
  <2> QED BY <1>3, <1>4, <2>1, <2>2 DEF Frontier
<1>9. PhasesApart' /\ WholeSiteSeen'
  BY <1>3 DEF PhasesApart, WholeSiteSeen
<1> QED BY <1>6, <1>7, <1>8, <1>9 DEF CrawlIInv

\* A product page that is loaded is counted as scraped or skipped.
LEMMA ProductLoadedInv ==
    ASSUME CrawlIInv, NEW kind \in Kinds, ProductLoaded(kind)
    PROVE  CrawlIInv'
<1>1. CrawlShapes /\ Counts /\ Load /\ crawl.at = "extract" /\ Count(kind)
  BY DEF CrawlIInv, ProductLoaded
<1>2. /\ scraper' \in Scrapers /\ crawl' \in Crawls
      /\ crawl'.at = "extract" /\ crawl'.page = NoUrl /\ Busy
  BY <1>1, LoadShape DEF ProductLoaded
<1>3. UNCHANGED <<todo, visited, missed, breaks, lost, toVisit, found>>
  BY DEF ProductLoaded, Load
<1>4. CrawlShapes'
  BY <1>1, <1>2, <1>3 DEF CrawlShapes
<1>5. Counts'
  BY <1>1, <1>2, <1>3, CountFetched DEF Busy
<1>6. Frontier' /\ PhasesApart'
  BY <1>2 DEF Frontier, PhasesApart
<1>7. WholeSiteSeen'
  BY <1>1, <1>2, <1>3 DEF CrawlIInv, WholeSiteSeen
<1> QED BY <1>4, <1>5, <1>6, <1>7 DEF CrawlIInv

-----------------------------------------------------------------------------
(* Going on *)

\* The health check repairs the context, if anything.
LEMMA HealthCheckInv ==
    ASSUME CrawlIInv, HealthCheck
    PROVE  CrawlIInv'
<1>1. CrawlShapes /\ Counts /\ crawl \in Crawls /\ crawl.at = "check"
  BY DEF CrawlIInv, HealthCheck, CrawlShapes
<1>2. crawl' \in Crawls /\ crawl'.at = "sitemap" /\ crawl'.page = crawl.page
  BY <1>1 DEF HealthCheck, Crawls
<1>3. scraper' \in Scrapers
  BY <1>1, ResetShape DEF HealthCheck, CrawlShapes
<1>4. CrawlShapes'
  BY <1>1, <1>2, <1>3 DEF CrawlShapes, HealthCheck
<1>5. Counts'
  BY <1>1, <1>2, CountNone DEF AfterSites, HealthCheck
<1>6. Frontier' /\ PhasesApart' /\ WholeSiteSeen'
  BY <1>1, <1>2 DEF CrawlIInv, Frontier, PhasesApart, WholeSiteSeen, HealthCheck
<1> QED BY <1>4, <1>5, <1>6 DEF CrawlIInv

\* The next sitemap is fetched.
LEMMA OpenSitemapInv ==
    ASSUME CrawlIInv, OpenSitemap
    PROVE  CrawlIInv'
<1>1. CrawlShapes /\ Counts /\ crawl \in Crawls /\ crawl.at = "sitemap"
  BY DEF CrawlIInv, OpenSitemap, CrawlShapes
<1>2. \/ /\ crawl.subs # <<>>
         /\ crawl' = [crawl EXCEPT !.page = Head(crawl.subs), !.subs = Tail(crawl.subs), !.sub = TRUE]
      \/ /\ crawl.sitemaps # <<>>
         /\ crawl' = [crawl EXCEPT !.page = Head(crawl.sitemaps), !.sitemaps = Tail(crawl.sitemaps)]
  BY DEF OpenSitemap
<1>3. \A s \in Seq(Urls) : s # <<>> => Head(s) \in Urls /\ Tail(s) \in Seq(Urls)
  OBVIOUS
<1>4. crawl.subs \in Seq(Urls) /\ crawl.sitemaps \in Seq(Urls)
  BY <1>1 DEF Crawls
<1>5. crawl' \in Crawls /\ crawl'.at = "sitemap"
  BY <1>1, <1>2, <1>3, <1>4 DEF Crawls
<1>6. CrawlShapes'
  BY <1>1, <1>5 DEF CrawlShapes, OpenSitemap
<1>7. Counts'
  BY <1>1, <1>5, CountNone DEF AfterSites, OpenSitemap
<1>8. Frontier' /\ PhasesApart' /\ WholeSiteSeen'
  BY <1>1, <1>5 DEF CrawlIInv, Frontier, PhasesApart, WholeSiteSeen, OpenSitemap
<1> QED BY <1>6, <1>7, <1>8 DEF CrawlIInv

\* The products that were found are to be scraped, all of them.
LEMMA CountStarts ==
    ASSUME CrawlShapes, Counts, crawl.at \notin AfterSites, ~Busy, crawl' = Listing,
           todo' = found, UNCHANGED <<found, tally>>
    PROVE  /\ crawl' \in Crawls /\ crawl'.at = "extract" /\ crawl'.page = NoUrl
           /\ Counts'
<1>1. crawl' \in Crawls /\ crawl'.at = "extract" /\ crawl'.page = NoUrl
  BY DEF Listing, CrawlShapes, Crawls, Busy
<1>2. tally["scraped"] = 0 /\ tally["skipped"] = 0 /\ tally["errors"] = 0
  BY DEF Counts, Kinds
<1>3. Cardinality(found) = Cardinality(found) + 0 + 0 + 0 + 0
  BY FiniteSites
<1>4. Counts'
  BY <1>1, <1>2, <1>3 DEF Counts, EveryUrlCounted, AfterSites, Busy
<1> QED BY <1>1, <1>4

\* The sitemaps are done: enough products go to be extracted at once, else the
\* crawl of the pages begins at the base page.
LEMMA LeaveSitemapsInv ==
    ASSUME CrawlIInv, LeaveSitemaps
    PROVE  CrawlIInv'
<1>1. CrawlShapes /\ Counts /\ crawl \in Crawls /\ crawl.at = "sitemap" /\ ~Busy
      /\ visited = {} /\ toVisit = <<Base>>
  BY DEF CrawlIInv, LeaveSitemaps, CrawlShapes, Frontier
<1>2. UNCHANGED <<scraper, toVisit, visited, found, tally, breaks, missed, lost>>
  BY DEF LeaveSitemaps
<1>3. CASE Cardinality(found) >= EnoughUrls
  <2>1. crawl' = Listing /\ todo' = found
    BY <1>3 DEF LeaveSitemaps
  <2>2. crawl' \in Crawls /\ crawl'.at = "extract" /\ crawl'.page = NoUrl /\ Counts'
    BY <1>1, <1>2, <2>1, CountStarts DEF AfterSites
  <2>3. CrawlShapes'
    BY <1>1, <1>2, <2>1, <2>2 DEF CrawlShapes
  <2>4. Frontier' /\ PhasesApart' /\ WholeSiteSeen'
    BY <1>1, <1>2, <2>2 DEF Frontier, PhasesApart, WholeSiteSeen
  <2> QED BY <2>2, <2>3, <2>4 DEF CrawlIInv
<1>4. CASE ~(Cardinality(found) >= EnoughUrls)
  <2>1. crawl' = [crawl EXCEPT !.at = "crawl"] /\ UNCHANGED todo
    BY <1>4 DEF LeaveSitemaps
  <2>2. crawl' \in Crawls /\ crawl'.at = "crawl" /\ crawl'.page = NoUrl
    BY <1>1, <2>1 DEF Crawls, Busy
  <2>3. CrawlShapes'
    BY <1>1, <1>2, <2>1, <2>2 DEF CrawlShapes
  <2>4. Counts'
    BY <1>1, <1>2, <2>1, <2>2, CountNone DEF AfterSites
  <2>5. Base \in ToSet(toVisit)
    <3>1. 1 \in DOMAIN <<Base>> /\ <<Base>>[1] = Base
      OBVIOUS
    <3> QED BY <1>1, <3>1 DEF ToSet
  <2>6. Frontier' /\ PhasesApart' /\ WholeSiteSeen'
    BY <1>1, <1>2, <2>2, <2>5 DEF Frontier, PhasesApart, WholeSiteSeen
  <2> QED BY <2>3, <2>4, <2>6 DEF CrawlIInv
<1> QED BY <1>3, <1>4

\* Ahead are the queued pages that are not visited.
LEMMA AheadIs ==
    ASSUME CrawlShapes
    PROVE  Ahead \in Seq(Urls) /\ ToSet(Ahead) = ToSet(toVisit) \ visited
<1>1. PICK T : T = Urls \ visited
  OBVIOUS
<1>2. toVisit \in Seq(Urls) /\ ToSet(toVisit) \subseteq Urls
  BY DEF CrawlShapes, ToSet
<1>3. Only(toVisit, T) \in Seq(Urls) /\ ToSet(Only(toVisit, T)) = ToSet(toVisit) \cap T
  BY <1>2, OnlyIs
<1> QED BY <1>1, <1>2, <1>3 DEF Ahead

\* The page that is opened is visited, and not followed up yet.
LEMMA OpenPageInv ==
    ASSUME CrawlIInv, OpenPage
    PROVE  CrawlIInv'
<1>1. CrawlShapes /\ Counts /\ crawl \in Crawls /\ crawl.at = "crawl" /\ ~Busy
  BY DEF CrawlIInv, OpenPage, CrawlShapes
<1>2. PICK a : a = Ahead
  OBVIOUS
<1>3. a \in Seq(Urls) /\ ToSet(a) = ToSet(toVisit) \ visited /\ a # <<>>
  BY <1>1, <1>2, AheadIs DEF OpenPage, Exhausted
<1>4. PICK u, rest : u = Head(a) /\ rest = Tail(a)
  OBVIOUS
<1>5. u \in Urls /\ rest \in Seq(Urls) /\ u \in ToSet(a) /\ ToSet(a) \subseteq ToSet(rest) \cup {u}
  <2>1. u \in Urls /\ rest \in Seq(Urls) /\ Len(rest) = Len(a) - 1 /\ u = a[1] /\ 1 \in DOMAIN a
        /\ \A k \in 1..Len(rest) : rest[k] = a[k + 1]
    BY <1>3, <1>4
  <2>2. ASSUME NEW k \in DOMAIN a, k # 1 PROVE a[k] \in ToSet(rest)
    <3>1. PICK j : j = k - 1
      OBVIOUS
    <3>2. j \in 1..Len(rest) /\ rest[j] = a[k] /\ DOMAIN rest = 1..Len(rest)
      BY <1>3, <2>1, <2>2, <3>1
    <3> QED BY <3>2 DEF ToSet
  <2> QED BY <2>1, <2>2 DEF ToSet
<1>6. /\ crawl' = [crawl EXCEPT !.page = u] /\ visited' = visited \cup {u} /\ toVisit' = rest
      /\ UNCHANGED <<scraper, found, todo, tally, breaks, missed, lost>>
  BY <1>2, <1>4 DEF OpenPage
<1>7. crawl' \in Crawls /\ crawl'.at = "crawl" /\ crawl'.page = u
  BY <1>1, <1>5, <1>6 DEF Crawls
<1>8. CrawlShapes'
  BY <1>1, <1>5, <1>6, <1>7 DEF CrawlShapes
<1>9. Counts'
  BY <1>1, <1>6, <1>7, CountNone DEF AfterSites
<1>10. visited \cup ToSet(toVisit) \subseteq visited' \cup ToSet(toVisit')
  BY <1>3, <1>5, <1>6
<1>11. Frontier'
  <2>1. Base \in visited' \cup ToSet(toVisit')
    BY <1>1, <1>10 DEF CrawlIInv, Frontier
  <2>2. ASSUME NEW v \in visited' \ (missed \cup {u}) PROVE FollowedUp(v)'
    <3>1. v \in visited /\ v # crawl.page
      BY <1>1, <1>6, <2>2, CrawlAssumption DEF Busy, CrawlShapes
    <3>2. FollowedUp(v)
      BY <1>1, <2>2, <3>1 DEF CrawlIInv, Frontier
    <3> QED BY <1>6, <1>10, <3>2 DEF FollowedUp
  <2> QED BY <1>6, <1>7, <2>1, <2>2 DEF Frontier
<1>12. PhasesApart' /\ WholeSiteSeen'
  BY <1>7 DEF PhasesApart, WholeSiteSeen
<1> QED BY <1>8, <1>9, <1>11, <1>12 DEF CrawlIInv

\* A page whose links cannot be read is missed.
LEMMA PageUnreadableInv ==
    ASSUME CrawlIInv, PageUnreadable
    PROVE  CrawlIInv'
<1>1. CrawlShapes /\ Counts /\ crawl \in Crawls /\ crawl.at = "crawl"
  BY DEF CrawlIInv, PageUnreadable, CrawlShapes
<1>2. crawl' \in Crawls /\ crawl'.at = "failed" /\ crawl'.page = NoUrl
  <2>1. PICK free : free = Free
    OBVIOUS
  <2>2. free \in Crawls /\ free.page = NoUrl /\ crawl' = [free EXCEPT !.at = "failed"]
    BY <1>1, <2>1, FreeShape DEF PageUnreadable
  <2> QED BY <2>2 DEF Crawls
<1>3. scraper' \in Scrapers
  BY <1>1, PausedShape, ProvedShape DEF PageUnreadable, CrawlShapes
<1>4. CrawlShapes'
  BY <1>1, <1>2, <1>3 DEF CrawlShapes, PageUnreadable
<1>5. Counts'
  BY <1>1, <1>2, CountNone DEF AfterSites, PageUnreadable
<1>6. Frontier' /\ PhasesApart' /\ WholeSiteSeen'
  BY <1>2 DEF Frontier, PhasesApart, WholeSiteSeen, Busy
<1> QED BY <1>4, <1>5, <1>6 DEF CrawlIInv

\* The crawl of the pages ends with the queue empty, so that everything
\* found is in hand, or at its limit.
LEMMA LeaveCrawlInv ==
    ASSUME CrawlIInv, LeaveCrawl
    PROVE  CrawlIInv'
<1>1. CrawlShapes /\ Counts /\ crawl \in Crawls /\ crawl.at = "crawl" /\ ~Busy
  BY DEF CrawlIInv, LeaveCrawl, CrawlShapes
<1>2. /\ crawl' = Listing /\ todo' = found /\ Exhausted
      /\ UNCHANGED <<scraper, toVisit, visited, found, tally, breaks, missed, lost>>
  BY DEF LeaveCrawl
<1>3. crawl' \in Crawls /\ crawl'.at = "extract" /\ crawl'.page = NoUrl /\ Counts'
  BY <1>1, <1>2, CountStarts DEF AfterSites
<1>4. CrawlShapes'
  BY <1>1, <1>2, <1>3 DEF CrawlShapes
<1>5. WholeSiteSeen'
  <2>1. SUFFICES ASSUME Cardinality(visited) < MaxPages
                 PROVE  Base \in visited /\ \A u \in visited \ missed :
                          /\ ToSet(Links[u]) \cap CategoryUrls \subseteq visited
                          /\ NextOf[u] \in visited \cup {NoUrl}
                          /\ ToSet(Links[u]) \cap ProductUrls \subseteq found \cup visited
    BY <1>2 DEF WholeSiteSeen
  <2>2. IsFiniteSet(visited) /\ Cardinality(visited) \in Nat
    BY <1>1, CrawlAssumption, FS_Subset, FS_CardinalityType DEF CrawlShapes
  <2>3. Ahead = <<>>
    BY <1>2, <2>1, <2>2, CrawlAssumption DEF Exhausted
  <2>4. ToSet(toVisit) \subseteq visited
    <3>1. ToSet(Ahead) = {}
      BY <2>3 DEF ToSet
    <3> QED BY <1>1, <3>1, AheadIs
  <2>5. \A u \in visited \ missed : FollowedUp(u)
    BY <1>1, CrawlAssumption DEF CrawlIInv, Frontier, Busy, CrawlShapes
  <2> QED BY <1>1, <2>4, <2>5 DEF CrawlIInv, Frontier, FollowedUp
<1>6. Frontier' /\ PhasesApart'
  BY <1>3 DEF Frontier, PhasesApart
<1> QED BY <1>3, <1>4, <1>5, <1>6 DEF CrawlIInv

\* A product goes from the list into the browser.
LEMMA OpenProductInv ==
    ASSUME CrawlIInv, OpenProduct
    PROVE  CrawlIInv'
<1>1. CrawlShapes /\ Counts /\ crawl \in Crawls /\ crawl.at = "extract" /\ ~Busy
  BY DEF CrawlIInv, OpenProduct, CrawlShapes
<1>2. PICK u \in todo : crawl' = [crawl EXCEPT !.page = u] /\ todo' = todo \ {u}
  BY DEF OpenProduct
<1>3. UNCHANGED <<scraper, toVisit, visited, found, tally, breaks, missed, lost>>
  BY DEF OpenProduct
<1>4. u \in Urls /\ u # NoUrl
  BY <1>1, CrawlAssumption DEF CrawlShapes
<1>5. crawl' \in Crawls /\ crawl'.at = "extract" /\ crawl'.page = u
  BY <1>1, <1>2, <1>4 DEF Crawls
<1>6. CrawlShapes'
  BY <1>1, <1>2, <1>3, <1>5 DEF CrawlShapes
<1>7. Counts'
  <2>1. Cardinality(todo') = Cardinality(todo) - 1
    BY <1>1, <1>2, FiniteSites, FS_RemoveElement
  <2>2. Cardinality(found) = Cardinality(todo) + tally.scraped + tally.skipped + tally.errors + 0
    BY <1>1 DEF Counts, EveryUrlCounted
  <2>3. tally.scraped \in Nat /\ tally.skipped \in Nat /\ tally.errors \in Nat
    BY <1>1 DEF Counts, Kinds
  <2>4. Cardinality(found) = Cardinality(todo') + tally.scraped + tally.skipped + tally.errors + 1
    BY <1>1, <2>1, <2>2, <2>3, FiniteSites
  <2> QED BY <1>1, <1>3, <1>4, <1>5, <2>4 DEF Counts, EveryUrlCounted, AfterSites, Busy
<1>8. Frontier' /\ PhasesApart'
  BY <1>5 DEF Frontier, PhasesApart
<1>9. WholeSiteSeen'
  BY <1>1, <1>3, <1>5 DEF CrawlIInv, WholeSiteSeen
<1> QED BY <1>6, <1>7, <1>8, <1>9 DEF CrawlIInv

\* A crawl ends with no product left, or is cancelled.
LEMMA FinishSiteInv ==
    ASSUME CrawlIInv, FinishSite
    PROVE  CrawlIInv'
<1>1. CrawlShapes /\ Counts /\ crawl \in Crawls /\ crawl.at = "extract" /\ ~Busy
  BY DEF CrawlIInv, FinishSite, CrawlShapes
<1>2. UNCHANGED <<scraper, toVisit, visited, found, todo, tally, breaks, missed, lost>>
  BY DEF FinishSite
<1>3. crawl' \in Crawls /\ crawl'.at \in {"done", "cancelled"} /\ crawl'.page = NoUrl
  BY <1>1 DEF FinishSite, Crawls, Busy
<1>4. CrawlShapes'
  BY <1>1, <1>2, <1>3 DEF CrawlShapes
<1>5. Counts'
  BY <1>1, <1>2, <1>3 DEF Counts, EveryUrlCounted, AfterSites, Busy
<1>6. Frontier' /\ PhasesApart'
  BY <1>3 DEF Frontier, PhasesApart, Busy
<1>7. WholeSiteSeen'
  BY <1>1, <1>2, <1>3 DEF CrawlIInv, WholeSiteSeen
<1> QED BY <1>4, <1>5, <1>6, <1>7 DEF CrawlIInv

\* The browser may break at any time.
LEMMA BreakageInv ==
    ASSUME CrawlIInv, Breakage
    PROVE  CrawlIInv'
<1>1. CrawlShapes /\ scraper \in Scrapers
  BY DEF CrawlIInv, CrawlShapes
<1>2. UNCHANGED <<crawl, toVisit, visited, found, todo, tally, missed, lost>>
  BY DEF Breakage
<1>3. scraper' \in Scrapers
  BY <1>1 DEF Breakage, Scrapers
<1>4. breaks' \in 0..MaxBreaks
  BY <1>1, CrawlAssumption DEF Breakage, CrawlShapes
<1>5. CrawlShapes'
  BY <1>1, <1>2, <1>3, <1>4 DEF CrawlShapes
<1> QED BY <1>2, <1>5 DEF CrawlIInv, Counts, EveryUrlCounted, Frontier, FollowedUp,
                          PhasesApart, WholeSiteSeen, Busy

\* Every step keeps the invariant.
LEMMA CrawlNextInv == CrawlIInv /\ [CrawlNext]_crawlVars => CrawlIInv'
<1> SUFFICES ASSUME CrawlIInv, [CrawlNext]_crawlVars PROVE CrawlIInv'
  OBVIOUS
<1>1. CASE UNCHANGED crawlVars
  BY <1>1 DEF crawlVars, CrawlIInv, CrawlShapes, Counts, EveryUrlCounted, Frontier, FollowedUp,
              PhasesApart, WholeSiteSeen, Busy
<1>2. CASE HealthCheck \/ OpenSitemap \/ SitemapLoaded \/ LeaveSitemaps
  BY <1>2, HealthCheckInv, OpenSitemapInv, SitemapLoadedInv, LeaveSitemapsInv
<1>3. CASE OpenPage \/ PageLoaded \/ PageUnreadable \/ LeaveCrawl
  BY <1>3, OpenPageInv, PageLoadedInv, PageUnreadableInv, LeaveCrawlInv
<1>4. CASE OpenProduct \/ FinishSite \/ Breakage
  BY <1>4, OpenProductInv, FinishSiteInv, BreakageInv
<1>5. ASSUME NEW kind \in Kinds, ProductLoaded(kind) PROVE CrawlIInv'
  BY <1>5, ProductLoadedInv
<1>6. ASSUME NEW fast \in BOOLEAN, NEW named \in BOOLEAN,
             Retry(fast, named) \/ GiveUp(fast, named) \/ RepairFails(fast, named)
      PROVE  CrawlIInv'
  BY <1>6, RetryInv, GiveUpInv, RepairFailsInv
<1> QED BY <1>1, <1>2, <1>3, <1>4, <1>5, <1>6 DEF CrawlNext, Kinds

\* The invariant holds throughout.
LEMMA CrawlInvariant == CrawlSpec => []CrawlIInv
BY CrawlInitInv, CrawlNextInv, PTL DEF CrawlSpec

\* base_scraper.py, source_scraper.py: the scraper, the crawl, its queue and its
\* tallies have their types, for any site and any limits.
THEOREM CrawlTypeCorrect == CrawlSpec => []CrawlTypeOK
<1>1. CrawlIInv => CrawlTypeOK
  BY CountedType DEF CrawlIInv
<1> QED BY <1>1, CrawlInvariant, PTL

\* base_scraper.py:768: for any site, any limits, and any pages that fail, a
\* crawl that ends below its page limit has visited the category and next pages
\* and found the products that the pages it loaded lead to.
THEOREM CrawlsAreComplete == CrawlSpec => []WholeSiteSeen
<1>1. CrawlIInv => WholeSiteSeen
  BY DEF CrawlIInv
<1> QED BY <1>1, CrawlInvariant, PTL

\* source_scraper.py:303-327: for any site, with pages that fail, browsers that
\* break and cancellation, every product URL that was found is still to be
\* scraped, being scraped, or counted once.
THEOREM UrlsAreCounted == CrawlSpec => []EveryUrlCounted
<1>1. CrawlIInv => EveryUrlCounted
  BY DEF CrawlIInv, Counts
<1> QED BY <1>1, CrawlInvariant, PTL

-----------------------------------------------------------------------------
(* The settings *)

\* The dictionaries and the lists of them.
TreeOK ==
    /\ dicts \in Seq(Site) /\ lists \in Seq(Seq(1..MaxDicts)) /\ current \in DOMAIN lists
    /\ \A k \in DOMAIN lists : ToSet(lists[k]) \subseteq DOMAIN dicts /\ Distinct(lists[k])

Files == [state : {"written", "empty", "mixed"}, sites : Seq(Site), rest : Seq(Site)]

\* A file that nobody has written over says what one text says.
FileOK == yaml \in Files /\ (yaml.state # "mixed" => yaml.rest = <<>>)

\* There is room for what the requests are going to add and to remove.
RoomOK ==
    /\ Len(dicts) + Undone("add") <= MaxDicts
    /\ Len(lists) + Undone("remove") <= MaxLists

SRequests == [at : {"idle", "decided", "put", "save", "open", "dumped"},
              want : Wants \cup {NoWant}, list : 0..MaxLists,
              new : Seq(1..MaxDicts), text : Seq(Site)]

\* A request that has looked: its list is there, what it is about is in it.
Decided(r) ==
    /\ sreq[r].want \in Wants
    /\ sreq[r].list \in DOMAIN lists
    /\ ToSet(sreq[r].new) \subseteq DOMAIN dicts /\ Distinct(sreq[r].new)
    /\ sreq[r].want.op # "add" => sreq[r].want.domain \in DomainsOf(sreq[r].list)

ReqsOK ==
    /\ sreq \in [SettingReqs -> SRequests] /\ met \in BOOLEAN /\ crossed \in BOOLEAN
    /\ \A r \in SettingReqs :
          /\ sreq[r].at = "decided" => Decided(r)
          /\ sreq[r].at = "put" => sreq[r].list \in DOMAIN lists

\* What list i of dictionaries keeps without those of the domain d.
Without(k, d) == {i \in ToSet(lists[k]) : dicts[i].domain # d}

\* As long as no removal has met another request: they have all looked at the
\* list in use, and a removal is alone and will put the rest of it in its place.
Aligned ==
    ~met => \A r \in SettingReqs :
        /\ sreq[r].at \in {"decided", "put"} => sreq[r].list = current
        /\ sreq[r].at = "decided" /\ sreq[r].want.op = "remove" =>
             /\ ToSet(sreq[r].new) = Without(current, sreq[r].want.domain)
             /\ \A q \in SettingReqs : sreq[q].at \in {"decided", "put"} => q = r

\* Requests that have not changed the tree, or have saved what they changed.
Settled(r) == sreq[r].at \in {"idle", "decided"}

\* The text that request r is going to write is that of the tree, if no other
\* request has something to save.
Represented(r) ==
    sreq[r].at = "dumped" /\ (\A q \in SettingReqs \ {r} : Settled(q)) => sreq[r].text = Listed(current)

\* As long as no saves have overlapped: the one that saves has emptied the file,
\* and a file that nobody is about to write says what the tree says.
Filed ==
    ~crossed =>
        /\ yaml.state # "mixed"
        /\ \A r \in SettingReqs : sreq[r].at \in {"open", "dumped"} =>
              /\ yaml.state = "empty" /\ Represented(r)
              /\ \A q \in SettingReqs : sreq[q].at \in {"open", "dumped"} => q = r
        /\ (\A r \in SettingReqs : Settled(r)) => yaml.sites = Listed(current)

SettingsIInv == TreeOK /\ FileOK /\ RoomOK /\ ReqsOK /\ Aligned /\ Filed

-----------------------------------------------------------------------------
(* Counting requests *)

\* The bounds are numbers and there are finitely many requests.
LEMMA SettingsBounds == MaxDicts \in Nat /\ MaxLists \in Nat /\ MaxLists >= 1 /\ IsFiniteSet(SettingReqs)
BY SettingsAssumption

\* Requests can be counted.
LEMMA UndoneNat == ASSUME NEW op PROVE Undone(op) \in Nat
<1> DEFINE U == {q \in SettingReqs : sreq[q].want.op = op}
<1>1. U \in SUBSET SettingReqs /\ IsFiniteSet(SettingReqs)
  BY SettingsBounds
<1> HIDE DEF U
<1>2. IsFiniteSet(U)
  BY <1>1, FS_Subset
<1>3. Cardinality(U) \in Nat
  BY <1>2, FS_CardinalityType
<1> QED BY <1>3 DEF U, Undone

\* Requests whose wishes are gone are not counted any more.
LEMMA UndoneFalls ==
    ASSUME NEW op, \A q \in SettingReqs : sreq'[q].want.op = op => sreq[q].want.op = op
    PROVE  /\ Undone(op)' \in Nat /\ Undone(op)' <= Undone(op)
           /\ \A r \in SettingReqs : sreq[r].want.op = op /\ sreq'[r].want.op # op
                => Undone(op)' + 1 <= Undone(op)
<1> DEFINE U == {q \in SettingReqs : sreq[q].want.op = op}
           V == {q \in SettingReqs : sreq'[q].want.op = op}
<1>1. U \in SUBSET SettingReqs /\ V \in SUBSET U /\ IsFiniteSet(SettingReqs)
  BY SettingsBounds
<1>2. \A r \in SettingReqs : sreq[r].want.op = op /\ sreq'[r].want.op # op => r \in U /\ r \notin V
  OBVIOUS
<1>3. Undone(op) = Cardinality(U) /\ Undone(op)' = Cardinality(V)
  BY DEF Undone
<1> HIDE DEF U, V
<1>4. IsFiniteSet(U)
  BY <1>1, FS_Subset
<1>5. IsFiniteSet(V) /\ Cardinality(V) <= Cardinality(U) /\ (Cardinality(U) = Cardinality(V) => U = V)
  BY <1>1, <1>4, FS_Subset
<1>6. Cardinality(U) \in Nat /\ Cardinality(V) \in Nat
  BY <1>4, <1>5, FS_CardinalityType
<1> QED BY <1>2, <1>3, <1>5, <1>6

\* One more request is counted.
LEMMA UndoneRises ==
    ASSUME NEW op, NEW r \in SettingReqs,
           \A q \in SettingReqs \ {r} : sreq'[q].want.op = sreq[q].want.op
    PROVE  /\ Undone(op)' \in Nat /\ Undone(op)' <= Undone(op) + 1
           /\ sreq'[r].want.op # op => Undone(op)' <= Undone(op)
<1> DEFINE U == {q \in SettingReqs : sreq[q].want.op = op}
           V == {q \in SettingReqs : sreq'[q].want.op = op}
<1>1. U \in SUBSET SettingReqs /\ V \subseteq U \cup {r} /\ IsFiniteSet(SettingReqs)
      /\ (sreq'[r].want.op # op => V \subseteq U)
  BY SettingsBounds
<1>2. Undone(op) = Cardinality(U) /\ Undone(op)' = Cardinality(V)
  BY DEF Undone
<1> HIDE DEF U, V
<1>3. IsFiniteSet(U) /\ Cardinality(U) \in Nat
  BY <1>1, FS_Subset, FS_CardinalityType
<1>4. PICK W : W = U \cup {r}
  OBVIOUS
<1>5. IsFiniteSet(W) /\ Cardinality(W) <= Cardinality(U) + 1 /\ Cardinality(W) \in Nat
  BY <1>3, <1>4, FS_AddElement, FS_CardinalityType
<1>6. IsFiniteSet(V) /\ Cardinality(V) <= Cardinality(W)
  BY <1>1, <1>4, <1>5, FS_Subset
<1>7. sreq'[r].want.op # op => Cardinality(V) <= Cardinality(U)
  BY <1>1, <1>3, FS_Subset
<1>8. Cardinality(V) \in Nat
  BY <1>6, FS_CardinalityType
<1> QED BY <1>2, <1>3, <1>5, <1>6, <1>7, <1>8

\* What a site list that is in order says of its sites.
LEMMA ListedShape ==
    ASSUME TreeOK, RoomOK, NEW k \in DOMAIN lists
    PROVE  Listed(k) \in Seq(Site) /\ Len(Listed(k)) = Len(lists[k]) /\ Len(lists[k]) <= MaxDicts
<1>1. lists[k] \in Seq(1..MaxDicts) /\ ToSet(lists[k]) \subseteq DOMAIN dicts /\ Distinct(lists[k])
      /\ dicts \in Seq(Site)
  BY DEF TreeOK
<1>2. Len(lists[k]) <= Len(dicts)
  <2>1. ToSet(lists[k]) \subseteq 1..Len(dicts) /\ Len(dicts) \in Nat
    BY <1>1
  <2>2. PICK s : s = lists[k]
    OBVIOUS
  <2> QED BY <1>1, <2>1, <2>2, DistinctShort
<1>3. Len(dicts) <= MaxDicts
  BY <1>1, UndoneNat, SettingsBounds DEF RoomOK
<1>4. \A i \in 1..Len(lists[k]) : dicts[lists[k][i]] \in Site
  <2>1. ASSUME NEW i \in 1..Len(lists[k]) PROVE dicts[lists[k][i]] \in Site
    <3>1. lists[k][i] \in DOMAIN dicts
      BY <1>1 DEF ToSet
    <3> QED BY <1>1, <3>1
  <2> QED BY <2>1
<1>5. Len(lists[k]) \in Nat
  BY <1>1
<1> QED BY <1>1, <1>2, <1>3, <1>4, <1>5, SettingsBounds DEF Listed

\* The domains of the list in use are those of its sites.
LEMMA ListedDomains ==
    ASSUME TreeOK
    PROVE  DomainsOf(current) = {Listed(current)[i].domain : i \in DOMAIN Listed(current)}
<1>1. PICK s : s = lists[current]
  OBVIOUS
<1>2. s \in Seq(1..MaxDicts) /\ DOMAIN s = 1..Len(s)
  BY <1>1 DEF TreeOK
<1>3. Listed(current) = [i \in 1..Len(s) |-> dicts[s[i]]]
  BY <1>1 DEF Listed
<1> QED BY <1>1, <1>2, <1>3 DEF DomainsOf, ToSet

\* A request that is done, or is going to save, wants nothing.
LEMMA QuietShape ==
    /\ Quiet \in SRequests /\ Quiet.at = "idle" /\ Quiet.want.op = "none"
    /\ Saving \in SRequests /\ Saving.at = "save" /\ Saving.want.op = "none"
    /\ Empty \in Files /\ Empty.state = "empty" /\ Empty.rest = <<>>
    /\ \A sites \in Seq(Site) :
          Text(sites) \in Files /\ Text(sites).state = "written" /\ Text(sites).sites = sites
          /\ Text(sites).rest = <<>>
<1>1. 0 \in 0..MaxLists /\ <<>> \in Seq(1..MaxDicts) /\ <<>> \in Seq(Site)
  BY SettingsBounds
<1>2. Quiet \in SRequests /\ Quiet.at = "idle" /\ Quiet.want.op = "none"
  BY <1>1 DEF Quiet, SRequests, NoWant
<1>3. Saving \in SRequests /\ Saving.at = "save" /\ Saving.want.op = "none"
  BY <1>1 DEF Saving, Quiet, SRequests, NoWant
<1>4. Empty \in Files /\ Empty.state = "empty" /\ Empty.rest = <<>>
  BY <1>1 DEF Empty, Files
<1>5. ASSUME NEW sites \in Seq(Site)
      PROVE  Text(sites) \in Files /\ Text(sites).state = "written" /\ Text(sites).sites = sites
             /\ Text(sites).rest = <<>>
  BY <1>1 DEF Text, Files
<1> QED BY <1>2, <1>3, <1>4, <1>5

\* The one list of what is loaded from a file: all its sites.
HoldAll(ls, sites) == ls = <<[i \in 1..Len(sites) |-> i]>>
AllListed(ls, sites) == [i \in 1..Len(ls[1]) |-> sites[ls[1][i]]] = sites

\* A tree that was loaded has one list, of all dictionaries.
LEMMA LoadedLists ==
    ASSUME NEW sites \in Seq(Site), Len(sites) <= MaxDicts, NEW ls, HoldAll(ls, sites)
    PROVE  /\ ls \in Seq(Seq(1..MaxDicts)) /\ DOMAIN ls = {1} /\ Len(ls) = 1
           /\ ToSet(ls[1]) = DOMAIN sites /\ Distinct(ls[1])
           /\ AllListed(ls, sites)
<1>1. PICK s : s = [i \in 1..Len(sites) |-> i]
  OBVIOUS
<1>2. s \in Seq(1..MaxDicts) /\ ToSet(s) = 1..Len(sites) /\ Distinct(s)
  BY <1>1, SettingsBounds DEF ToSet, Distinct
<1>3. ls = <<s>> /\ ls \in Seq(Seq(1..MaxDicts)) /\ DOMAIN ls = {1} /\ ls[1] = s /\ Len(ls) = 1
  BY <1>1, <1>2 DEF HoldAll
<1>4. [i \in 1..Len(s) |-> sites[s[i]]] = sites
  BY <1>1
<1> QED BY <1>2, <1>3, <1>4 DEF AllListed

\* With every request idle nothing is undone.
LEMMA NothingUndone ==
    ASSUME \A r \in SettingReqs : sreq[r] = Quiet
    PROVE  Undone("add") = 0 /\ Undone("remove") = 0
<1>1. {q \in SettingReqs : sreq[q].want.op = "add"} = {}
  BY QuietShape
<1>2. {q \in SettingReqs : sreq[q].want.op = "remove"} = {}
  BY QuietShape
<1> QED BY <1>1, <1>2, FS_EmptySet DEF Undone

\* The settings begin with what the file says.
LEMMA SettingsInitInv == SettingsInit => SettingsIInv
<1> SUFFICES ASSUME SettingsInit PROVE SettingsIInv
  OBVIOUS
<1>1. Yaml \in Seq(Site) /\ Len(Yaml) <= MaxDicts
  BY SettingsAssumption
<1>2. TreeOK /\ Listed(current) = Yaml /\ Len(lists) = 1
  <2>1. PICK ls : ls = lists
    OBVIOUS
  <2>2. /\ ls \in Seq(Seq(1..MaxDicts)) /\ DOMAIN ls = {1} /\ Len(ls) = 1
        /\ ToSet(ls[1]) = DOMAIN Yaml /\ Distinct(ls[1])
        /\ AllListed(ls, Yaml)
    <3>1. HoldAll(ls, Yaml)
      BY <2>1 DEF SettingsInit, HoldAll
    <3> QED BY <1>1, <3>1, LoadedLists
  <2> QED BY <1>1, <2>1, <2>2 DEF SettingsInit, TreeOK, Listed, AllListed
<1>3. FileOK
  BY <1>1, QuietShape DEF SettingsInit, FileOK
<1>4. \A r \in SettingReqs : sreq[r] = Quiet
  BY DEF SettingsInit
<1>5. RoomOK
  BY <1>1, <1>2, <1>4, NothingUndone, SettingsBounds DEF RoomOK, SettingsInit
<1>6. ReqsOK /\ Aligned
  BY <1>4, QuietShape DEF ReqsOK, Aligned, SettingsInit
<1>7. Filed
  BY <1>1, <1>2, <1>4, QuietShape DEF Filed, SettingsInit
<1> QED BY <1>2, <1>3, <1>5, <1>6, <1>7 DEF SettingsIInv

\* A request that has nothing to save, before and after, does not matter to the file.
LEMMA OtherSaves ==
    ASSUME Filed, UNCHANGED <<dicts, lists, current, yaml, crossed>>,
           \A q \in SettingReqs : sreq'[q] = sreq[q] \/ (Settled(q) /\ Settled(q)')
    PROVE  Filed'
<1>1. \A q \in SettingReqs : Settled(q)' <=> Settled(q)
  BY DEF Settled
<1>2. \A q \in SettingReqs : sreq'[q].at \in {"open", "dumped"} => sreq'[q] = sreq[q]
  BY DEF Settled
<1>3. Listed(current)' = Listed(current)
  BY DEF Listed
<1>4. ASSUME NEW q \in SettingReqs, sreq'[q] = sreq[q], Represented(q) PROVE Represented(q)'
  BY <1>1, <1>3, <1>4 DEF Represented
<1> QED BY <1>1, <1>2, <1>3, <1>4 DEF Filed

-----------------------------------------------------------------------------
(* Looking *)

\* A request looks at the list in use, and may be going to do what there is
\* room for.
LEMMA DecideInv ==
    ASSUME SettingsIInv, NEW r \in SettingReqs, NEW w \in Wants, NEW new, Decide(r, w, new),
           new \in Seq(1..MaxDicts), ToSet(new) \subseteq DOMAIN dicts, Distinct(new),
           w.op # "add" => w.domain \in DomainsOf(current),
           w.op = "remove" => ToSet(new) = Without(current, w.domain),
           w.op = "add" => Len(dicts) + Undone("add") < MaxDicts,
           w.op = "remove" => Len(lists) + Undone("remove") < MaxLists
    PROVE  SettingsIInv'
<1>1. TreeOK /\ FileOK /\ RoomOK /\ ReqsOK /\ Aligned /\ Filed
  BY DEF SettingsIInv
<1>2. UNCHANGED <<dicts, lists, current, yaml, crossed>> /\ sreq[r] = Quiet
  BY DEF Decide
<1>3. PICK x : x = [Quiet EXCEPT !.at = "decided", !.want = w, !.list = current, !.new = new]
  OBVIOUS
<1>4. sreq' = [sreq EXCEPT ![r] = x] /\ x.at = "decided" /\ x.want = w /\ x.list = current /\ x.new = new
  BY <1>3 DEF Decide, Quiet
<1>5. x \in SRequests
  <2>1. current \in 0..MaxLists
    <3>1. current \in 1..Len(lists) /\ Len(lists) \in Nat
      BY <1>1 DEF TreeOK
    <3>2. Len(lists) <= MaxLists
      BY <1>1, <3>1, UndoneNat, SettingsBounds DEF RoomOK
    <3> QED BY <3>1, <3>2, SettingsBounds
  <2>2. <<>> \in Seq(Site)
    OBVIOUS
  <2> QED BY <1>3, <2>1, <2>2 DEF SRequests, Quiet
<1>6. sreq'[r] = x /\ \A q \in SettingReqs \ {r} : sreq'[q] = sreq[q]
  BY <1>1, <1>4 DEF ReqsOK
<1>7. TreeOK' /\ FileOK'
  BY <1>1, <1>2 DEF TreeOK, FileOK
<1>8. RoomOK'
  <2>1. \A q \in SettingReqs \ {r} : sreq'[q].want.op = sreq[q].want.op
    BY <1>6
  <2>2. Undone("add")' \in Nat /\ Undone("add")' <= Undone("add") + 1 /\ (w.op # "add" => Undone("add")' <= Undone("add"))
    BY <1>4, <1>6, <2>1, UndoneRises
  <2>3. Undone("remove")' \in Nat /\ Undone("remove")' <= Undone("remove") + 1
        /\ (w.op # "remove" => Undone("remove")' <= Undone("remove"))
    BY <1>4, <1>6, <2>1, UndoneRises
  <2>4. Len(dicts) \in Nat /\ Len(lists) \in Nat
    BY <1>1 DEF TreeOK
  <2>5. Undone("add") \in Nat /\ Undone("remove") \in Nat
    BY UndoneNat
  <2>6. Len(dicts) + Undone("add")' <= MaxDicts
    BY <1>1, <2>2, <2>4, <2>5, SettingsBounds DEF RoomOK
  <2>7. Len(lists) + Undone("remove")' <= MaxLists
    BY <1>1, <2>3, <2>4, <2>5, SettingsBounds DEF RoomOK
  <2> QED BY <1>2, <2>6, <2>7 DEF RoomOK
<1>9. ReqsOK'
  <2>1. sreq' \in [SettingReqs -> SRequests] /\ met' \in BOOLEAN /\ crossed' \in BOOLEAN
    BY <1>1, <1>2, <1>4, <1>5 DEF ReqsOK, Decide, Meets
  <2>2. ASSUME NEW q \in SettingReqs, sreq'[q].at = "decided" PROVE Decided(q)'
    <3>1. CASE q = r
      BY <1>1, <1>2, <1>4, <1>6, <3>1 DEF Decided, TreeOK, DomainsOf
    <3>2. CASE q # r
      <4>1. Decided(q) /\ sreq'[q] = sreq[q]
        BY <1>1, <1>6, <2>2, <3>2 DEF ReqsOK
      <4> QED BY <1>2, <4>1 DEF Decided, DomainsOf
    <3> QED BY <3>1, <3>2
  <2>3. \A q \in SettingReqs : sreq'[q].at = "put" => sreq'[q].list \in DOMAIN lists'
    BY <1>1, <1>2, <1>4, <1>6 DEF ReqsOK
  <2> QED BY <2>1, <2>2, <2>3 DEF ReqsOK
<1>10. Aligned'
  <2>1. SUFFICES ASSUME ~met', NEW q \in SettingReqs
                 PROVE  /\ sreq'[q].at \in {"decided", "put"} => sreq'[q].list = current
                        /\ sreq'[q].at = "decided" /\ sreq'[q].want.op = "remove" =>
                             /\ ToSet(sreq'[q].new) = Without(current, sreq'[q].want.domain)
                             /\ \A p \in SettingReqs : sreq'[p].at \in {"decided", "put"} => p = q
    BY <1>2 DEF Aligned, Without
  <2>2. ~met /\ ~Meets(r, w)
    BY <2>1 DEF Decide
  <2>3. \A p \in SettingReqs \ {r} : sreq[p].at \in {"decided", "put"} => w.op # "remove" /\ sreq[p].want.op # "remove"
    BY <2>2 DEF Meets
  <2>4. CASE q = r
    BY <1>4, <1>6, <2>3, <2>4
  <2>5. CASE q # r
    BY <1>1, <1>6, <2>1, <2>2, <2>3, <2>5 DEF Aligned
  <2> QED BY <2>4, <2>5
<1>11. Filed'
  <2>1. \A q \in SettingReqs : sreq'[q] = sreq[q] \/ (Settled(q) /\ Settled(q)')
    BY <1>2, <1>4, <1>6, QuietShape DEF Settled
  <2> QED BY <1>1, <1>2, <2>1, OtherSaves
<1> QED BY <1>7, <1>8, <1>9, <1>10, <1>11 DEF SettingsIInv

\* A request that is no removal has no new list.
LEMMA EmptyNew ==
    <<>> \in Seq(1..MaxDicts) /\ ToSet(<<>>) \subseteq DOMAIN dicts /\ Distinct(<<>>)
BY DEF ToSet, Distinct

\* Each route decides on what it has found in the list in use.
LEMMA DecisionsInv ==
    ASSUME SettingsIInv, NEW r \in SettingReqs, NEW w \in Wants,
           \/ AddSourceSite(r, w) \/ RemoveSourceSite(r, w)
           \/ SaveSiteCredentials(r, w) \/ SetDestination(r, w)
    PROVE  SettingsIInv'
<1>1. CASE AddSourceSite(r, w)
  <2>1. Decide(r, w, <<>>) /\ w.op = "add" /\ Len(dicts) + Undone("add") < MaxDicts
    BY <1>1 DEF AddSourceSite
  <2> QED BY <2>1, EmptyNew, DecideInv
<1>2. CASE SaveSiteCredentials(r, w) \/ SetDestination(r, w)
  <2>1. Decide(r, w, <<>>) /\ w.op \in {"credentials", "destination"} /\ w.domain \in DomainsOf(current)
    BY <1>2 DEF SaveSiteCredentials, SetDestination
  <2> QED BY <2>1, EmptyNew, DecideInv
<1>3. CASE RemoveSourceSite(r, w)
  <2>1. PICK T : T = {i \in DOMAIN dicts : dicts[i].domain # w.domain}
    OBVIOUS
  <2>2. PICK s : s = lists[current]
    OBVIOUS
  <2>3. s \in Seq(1..MaxDicts) /\ ToSet(s) \subseteq DOMAIN dicts /\ Distinct(s)
    BY <2>2 DEF SettingsIInv, TreeOK
  <2>4. PICK new : new = Only(s, T)
    OBVIOUS
  <2>5. new \in Seq(1..MaxDicts) /\ ToSet(new) = ToSet(s) \cap T /\ Distinct(new)
    BY <2>3, <2>4, OnlyIs
  <2>6. ToSet(new) = Without(current, w.domain) /\ ToSet(new) \subseteq DOMAIN dicts
    BY <2>1, <2>2, <2>3, <2>5 DEF Without
  <2>7. /\ Decide(r, w, new) /\ w.op = "remove" /\ w.domain \in DomainsOf(current)
        /\ Len(lists) + Undone("remove") < MaxLists
    BY <1>3, <2>1, <2>2, <2>4 DEF RemoveSourceSite
  <2> QED BY <2>5, <2>6, <2>7, DecideInv
<1> QED BY <1>1, <1>2, <1>3

-----------------------------------------------------------------------------
(* Acting *)

\* What acting keeps: the dictionaries with their domains and what the lists have.
TreeGrows ==
    /\ TreeOK'
    /\ DOMAIN dicts \subseteq DOMAIN dicts'
    /\ \A i \in DOMAIN dicts : dicts'[i].domain = dicts[i].domain
    /\ DOMAIN lists \subseteq DOMAIN lists'
    /\ \A k \in DOMAIN lists : ToSet(lists[k]) \subseteq ToSet(lists'[k])

\* The first dictionary with a domain is one that the list holds and that has it.
LEMMA FirstInIs ==
    ASSUME TreeOK, NEW k \in DOMAIN lists, NEW d \in DomainsOf(k)
    PROVE  FirstIn(k, d) \in DOMAIN dicts /\ dicts[FirstIn(k, d)].domain = d
<1>1. PICK s : s = lists[k]
  OBVIOUS
<1>2. s \in Seq(1..MaxDicts) /\ ToSet(s) \subseteq DOMAIN dicts
  BY <1>1 DEF TreeOK
<1>3. PICK I : I = {i \in 1..Len(s) : dicts[s[i]].domain = d}
  OBVIOUS
<1>4. I # {} /\ I \in SUBSET Nat
  BY <1>1, <1>2, <1>3 DEF DomainsOf, ToSet
<1>5. \E m \in I : \A j \in I : m <= j
  BY <1>4, LeastOf
<1>6. PICK m : m = CHOOSE n \in I : \A j \in I : n <= j
  OBVIOUS
<1>7. m \in I
  BY <1>5, <1>6
<1>8. FirstIn(k, d) = s[m]
  BY <1>1, <1>3, <1>4, <1>6 DEF FirstIn, SelectInSeq, Min
<1>9. s[m] \in ToSet(s)
  BY <1>2, <1>3, <1>7 DEF ToSet
<1> QED BY <1>2, <1>3, <1>7, <1>8, <1>9

\* A dictionary is changed but for its domain.
LEMMA ChangedDict ==
    ASSUME TreeOK, NEW j \in DOMAIN dicts, NEW x \in Site, x.domain = dicts[j].domain,
           dicts' = [dicts EXCEPT ![j] = x], UNCHANGED <<lists, current>>
    PROVE  /\ TreeGrows /\ Len(dicts') = Len(dicts)
           /\ \A n \in DOMAIN lists : DomainsOf(n)' = DomainsOf(n)
<1>1. dicts \in Seq(Site)
  BY DEF TreeOK
<1>2. dicts' \in Seq(Site) /\ DOMAIN dicts' = DOMAIN dicts /\ Len(dicts') = Len(dicts)
  BY <1>1
<1>3. \A i \in DOMAIN dicts : dicts'[i].domain = dicts[i].domain
  BY <1>1
<1>4. TreeGrows
  BY <1>2, <1>3 DEF TreeOK, TreeGrows
<1>5. ASSUME NEW n \in DOMAIN lists PROVE DomainsOf(n)' = DomainsOf(n)
  <2>1. \A i \in ToSet(lists[n]) : dicts'[i].domain = dicts[i].domain
    BY <1>3 DEF TreeOK
  <2> QED BY <2>1 DEF DomainsOf
<1> QED BY <1>2, <1>4, <1>5

\* An addition appends a new dictionary to its list.
LEMMA AddChange ==
    ASSUME SettingsIInv, NEW r \in SettingReqs, sreq[r].at = "decided", sreq[r].want.op = "add",
           Edit(sreq[r]), UNCHANGED current
    PROVE  /\ TreeGrows /\ Len(dicts') = Len(dicts) + 1 /\ Len(lists') = Len(lists)
           /\ sreq[r].list = current =>
                DomainsOf(current)' = DomainsOf(current) \cup {sreq[r].want.domain}
<1>1. TreeOK /\ RoomOK /\ Decided(r)
  BY DEF SettingsIInv, ReqsOK
<1>2. PICK k, d, n : k = sreq[r].list /\ d = sreq[r].want.domain /\ n = Len(dicts) + 1
  OBVIOUS
<1>3. k \in DOMAIN lists /\ sreq[r].want \in Wants
  BY <1>1, <1>2 DEF Decided
<1>4. PICK x : x = [domain |-> d, dest |-> sreq[r].want.on, set |-> FALSE]
  OBVIOUS
<1>5. x \in Site /\ x.domain = d
  BY <1>2, <1>3, <1>4, SettingsAssumption DEF Site
<1>6. dicts' = Append(dicts, x) /\ lists' = [lists EXCEPT ![k] = Append(lists[k], n)] /\ current' = current
  BY <1>2, <1>4 DEF Edit
<1>7. dicts \in Seq(Site) /\ Len(dicts) \in Nat /\ lists \in Seq(Seq(1..MaxDicts)) /\ lists[k] \in Seq(1..MaxDicts)
      /\ ToSet(lists[k]) \subseteq DOMAIN dicts /\ Distinct(lists[k])
  BY <1>1, <1>3 DEF TreeOK
<1>8. n \in 1..MaxDicts
  <2>1. Undone("add") >= 1
    <3> DEFINE U == {q \in SettingReqs : sreq[q].want.op = "add"}
    <3>1. U \in SUBSET SettingReqs /\ r \in U
      OBVIOUS
    <3>2. Undone("add") = Cardinality(U)
      BY DEF Undone
    <3> HIDE DEF U
    <3>3. IsFiniteSet(U) /\ Cardinality(U) \in Nat /\ Cardinality(U) # 0
      BY <3>1, SettingsBounds, FS_Subset, FS_CardinalityType, FS_EmptySet
    <3> QED BY <3>2, <3>3
  <2> QED BY <1>1, <1>2, <1>7, <2>1, UndoneNat, SettingsBounds DEF RoomOK
<1>9. /\ dicts' \in Seq(Site) /\ Len(dicts') = n /\ DOMAIN dicts' = 1..n /\ dicts'[n] = x
      /\ \A i \in DOMAIN dicts : i \in DOMAIN dicts' /\ dicts'[i] = dicts[i] /\ i # n
  BY <1>2, <1>5, <1>6, <1>7
<1>10. PICK s, t : s = lists[k] /\ t = Append(lists[k], n)
  OBVIOUS
<1>11. /\ t \in Seq(1..MaxDicts) /\ DOMAIN t = 1..(Len(s) + 1) /\ DOMAIN s = 1..Len(s) /\ Len(s) \in Nat
       /\ t[Len(s) + 1] = n /\ \A i \in 1..Len(s) : t[i] = s[i]
  BY <1>7, <1>8, <1>10
<1>12. ToSet(t) = ToSet(s) \cup {n}
  <2>1. \A i \in DOMAIN t : t[i] \in ToSet(s) \cup {n}
    BY <1>11 DEF ToSet
  <2>2. \A i \in DOMAIN s : i \in DOMAIN t /\ t[i] = s[i]
    BY <1>11
  <2>3. Len(s) + 1 \in DOMAIN t
    BY <1>11
  <2> QED BY <1>11, <2>1, <2>2, <2>3 DEF ToSet
<1>13. Distinct(t)
  <2>1. \A i \in 1..Len(s) : s[i] # n
    BY <1>7, <1>9, <1>10, <1>11 DEF ToSet
  <2>2. \A i, j \in 1..Len(s) : s[i] = s[j] => i = j
    BY <1>7, <1>10, <1>11 DEF Distinct
  <2>3. ASSUME NEW i \in DOMAIN t, NEW j \in DOMAIN t, t[i] = t[j] PROVE i = j
    <3>1. i \in 1..Len(s) \/ i = Len(s) + 1
      BY <1>11
    <3>2. j \in 1..Len(s) \/ j = Len(s) + 1
      BY <1>11
    <3> QED BY <1>11, <2>1, <2>2, <2>3, <3>1, <3>2
  <2> QED BY <2>3 DEF Distinct
<1>14. lists' \in Seq(Seq(1..MaxDicts)) /\ DOMAIN lists' = DOMAIN lists /\ Len(lists') = Len(lists)
       /\ lists'[k] = t /\ \A m \in DOMAIN lists : m # k => lists'[m] = lists[m]
  BY <1>3, <1>6, <1>7, <1>10, <1>11
<1>15. TreeOK'
  <2>1. ASSUME NEW m \in DOMAIN lists'
        PROVE  ToSet(lists'[m]) \subseteq DOMAIN dicts' /\ Distinct(lists'[m])
    <3>1. CASE m = k
      <4>1. n \in DOMAIN dicts'
        BY <1>2, <1>7, <1>9
      <4> QED BY <1>7, <1>9, <1>10, <1>12, <1>13, <1>14, <3>1, <4>1
    <3>2. CASE m # k
      BY <1>1, <1>9, <1>14, <3>2 DEF TreeOK
    <3> QED BY <3>1, <3>2
  <2> QED BY <1>1, <1>6, <1>9, <1>14, <2>1 DEF TreeOK
<1>16. TreeGrows
  <2>1. \A m \in DOMAIN lists : ToSet(lists[m]) \subseteq ToSet(lists'[m])
    BY <1>10, <1>12, <1>14
  <2> QED BY <1>9, <1>14, <1>15, <2>1 DEF TreeGrows
<1>17. ASSUME k = current PROVE DomainsOf(current)' = DomainsOf(current) \cup {d}
  <2>1. \A i \in ToSet(s) : dicts'[i].domain = dicts[i].domain
    BY <1>7, <1>9, <1>10
  <2>2. dicts'[n].domain = d
    BY <1>5, <1>9
  <2>3. DomainsOf(current)' = {dicts'[i].domain : i \in ToSet(s) \cup {n}}
    BY <1>6, <1>10, <1>12, <1>14, <1>17 DEF DomainsOf
  <2>4. DomainsOf(current) = {dicts'[i].domain : i \in ToSet(s)}
    BY <1>10, <1>17, <2>1 DEF DomainsOf
  <2> QED BY <2>2, <2>3, <2>4
<1> QED BY <1>2, <1>6, <1>9, <1>14, <1>16, <1>17

\* A removal puts a new list beside the others.
LEMMA RemoveChange ==
    ASSUME SettingsIInv, NEW r \in SettingReqs, sreq[r].at = "decided", Replace(r)
    PROVE  /\ TreeGrows /\ Len(dicts') = Len(dicts) /\ Len(lists') = Len(lists) + 1
           /\ DomainsOf(current)' = {dicts[i].domain : i \in ToSet(sreq[r].new)}
<1>1. TreeOK /\ Decided(r) /\ sreq[r] \in SRequests
  BY DEF SettingsIInv, ReqsOK
<1>2. PICK new : new = sreq[r].new
  OBVIOUS
<1>3. new \in Seq(1..MaxDicts) /\ ToSet(new) \subseteq DOMAIN dicts /\ Distinct(new)
  BY <1>1, <1>2 DEF Decided, SRequests
<1>4. lists' = Append(lists, new) /\ current' = Len(lists) + 1 /\ dicts' = dicts
  BY <1>2 DEF Replace
<1>5. lists \in Seq(Seq(1..MaxDicts)) /\ Len(lists) \in Nat
  BY <1>1 DEF TreeOK
<1>6. /\ lists' \in Seq(Seq(1..MaxDicts)) /\ Len(lists') = Len(lists) + 1
      /\ DOMAIN lists' = 1..(Len(lists) + 1) /\ DOMAIN lists = 1..Len(lists)
      /\ lists'[Len(lists) + 1] = new /\ \A k \in 1..Len(lists) : lists'[k] = lists[k]
  BY <1>3, <1>4, <1>5
<1>7. current' \in DOMAIN lists' /\ lists'[current'] = new
  BY <1>4, <1>5, <1>6
<1>8. ASSUME NEW k \in DOMAIN lists'
      PROVE  ToSet(lists'[k]) \subseteq DOMAIN dicts' /\ Distinct(lists'[k])
  <2>1. k \in 1..Len(lists) \/ k = Len(lists) + 1
    BY <1>5, <1>6
  <2> QED BY <1>1, <1>3, <1>4, <1>6, <2>1 DEF TreeOK
<1>9. TreeOK'
  BY <1>1, <1>4, <1>6, <1>7, <1>8 DEF TreeOK
<1>10. TreeGrows
  BY <1>4, <1>5, <1>6, <1>9 DEF TreeGrows
<1> QED BY <1>2, <1>4, <1>6, <1>7, <1>10 DEF DomainsOf

\* An edit changes a dictionary in its place.
LEMMA OtherChange ==
    ASSUME SettingsIInv, NEW r \in SettingReqs, sreq[r].at = "decided",
           sreq[r].want.op \in {"credentials", "destination"}, Edit(sreq[r]), UNCHANGED current
    PROVE  /\ TreeGrows /\ Len(dicts') = Len(dicts) /\ Len(lists') = Len(lists)
           /\ \A n \in DOMAIN lists : DomainsOf(n)' = DomainsOf(n)
<1>1. TreeOK /\ Decided(r)
  BY DEF SettingsIInv, ReqsOK
<1>2. PICK k, d : k = sreq[r].list /\ d = sreq[r].want.domain
  OBVIOUS
<1>3. k \in DOMAIN lists /\ d \in DomainsOf(k) /\ sreq[r].want.on \in BOOLEAN
  BY <1>1, <1>2, SettingsAssumption DEF Decided
<1>4. PICK j : j = FirstIn(k, d)
  OBVIOUS
<1>5. j \in DOMAIN dicts /\ dicts[j] \in Site
  BY <1>1, <1>3, <1>4, FirstInIs DEF TreeOK
<1>6. UNCHANGED <<lists, current>>
  BY <1>2 DEF Edit
<1>7. PICK x : x \in Site /\ x.domain = dicts[j].domain /\ dicts' = [dicts EXCEPT ![j] = x]
  <2>1. CASE sreq[r].want.op = "credentials"
    <3>1. PICK x : x = [dicts[j] EXCEPT !.set = sreq[r].want.on]
      OBVIOUS
    <3>2. x \in Site /\ x.domain = dicts[j].domain
      BY <1>3, <1>5, <3>1 DEF Site
    <3>3. dicts' = [dicts EXCEPT ![j] = x]
      BY <1>2, <1>4, <2>1, <3>1 DEF Edit
    <3> QED BY <3>2, <3>3
  <2>2. CASE sreq[r].want.op = "destination"
    <3>1. PICK x : x = [dicts[j] EXCEPT !.dest = sreq[r].want.on]
      OBVIOUS
    <3>2. x \in Site /\ x.domain = dicts[j].domain
      BY <1>3, <1>5, <3>1 DEF Site
    <3>3. dicts' = [dicts EXCEPT ![j] = x]
      BY <1>2, <1>4, <2>2, <3>1 DEF Edit
    <3> QED BY <3>2, <3>3
  <2> QED BY <2>1, <2>2
<1>8. /\ TreeGrows /\ Len(dicts') = Len(dicts)
      /\ \A n \in DOMAIN lists : DomainsOf(n)' = DomainsOf(n)
  BY <1>1, <1>3, <1>5, <1>6, <1>7, ChangedDict
<1> QED BY <1>2, <1>6, <1>8

\* What is wanted is one of four things, of a domain.
LEMMA WishShape ==
    ASSUME NEW w \in Wants
    PROVE  w.op \in {"add", "remove", "credentials", "destination"} /\ w.domain \in SiteDomains
BY SettingsAssumption

\* A request that is between its change and its save leaves the file alone.
LEMMA MidSave ==
    ASSUME Filed, NEW r \in SettingReqs, UNCHANGED <<yaml, crossed>>,
           sreq'[r].at \in {"put", "save"}, \A q \in SettingReqs \ {r} : sreq'[q] = sreq[q]
    PROVE  Filed'
<1>1. ~Settled(r)'
  BY DEF Settled
<1>2. \A q \in SettingReqs : sreq'[q].at \in {"open", "dumped"} =>
         sreq'[q] = sreq[q] /\ q # r
  OBVIOUS
<1>3. \A q \in SettingReqs : sreq'[q].at \in {"open", "dumped"} => Represented(q)'
  BY <1>1, <1>2 DEF Represented
<1> QED BY <1>1, <1>2, <1>3 DEF Filed

\* What an act keeps of the requests that have looked, and the room for them.
LEMMA ActRoom ==
    ASSUME TreeOK, RoomOK, ReqsOK, NEW r \in SettingReqs, NEW x \in SRequests, x.want.op = "none",
           sreq' = [sreq EXCEPT ![r] = x],
           Len(dicts') = IF sreq[r].want.op = "add" THEN Len(dicts) + 1 ELSE Len(dicts),
           Len(lists') = IF sreq[r].want.op = "remove" THEN Len(lists) + 1 ELSE Len(lists)
    PROVE  RoomOK'
<1>1. PICK op : op = sreq[r].want.op
  OBVIOUS
<1>2. sreq'[r] = x /\ \A q \in SettingReqs \ {r} : sreq'[q] = sreq[q]
  BY DEF ReqsOK
<1>3. \A q \in SettingReqs : sreq'[q].want.op = "add" => sreq[q].want.op = "add"
  BY <1>2
<1>4. \A q \in SettingReqs : sreq'[q].want.op = "remove" => sreq[q].want.op = "remove"
  BY <1>2
<1>5. Undone("add")' \in Nat /\ Undone("add")' <= Undone("add") /\ (op = "add" => Undone("add")' + 1 <= Undone("add"))
  BY <1>1, <1>2, <1>3, UndoneFalls
<1>6. Undone("remove")' \in Nat /\ Undone("remove")' <= Undone("remove")
      /\ (op = "remove" => Undone("remove")' + 1 <= Undone("remove"))
  BY <1>1, <1>2, <1>4, UndoneFalls
<1>7. Len(dicts) \in Nat /\ Len(lists) \in Nat /\ Undone("add") \in Nat /\ Undone("remove") \in Nat
  BY UndoneNat DEF TreeOK
<1>8. Len(dicts') + Undone("add")' <= MaxDicts
  BY <1>1, <1>5, <1>7, SettingsBounds DEF RoomOK
<1>9. Len(lists') + Undone("remove")' <= MaxLists
  BY <1>1, <1>6, <1>7, SettingsBounds DEF RoomOK
<1> QED BY <1>8, <1>9 DEF RoomOK

LEMMA ActReqs ==
    ASSUME TreeOK, ReqsOK, TreeGrows, NEW r \in SettingReqs, NEW x \in SRequests,
           sreq' = [sreq EXCEPT ![r] = x], UNCHANGED <<met, crossed>>, x.at \in {"put", "save"},
           x.at = "put" => x.list \in DOMAIN lists
    PROVE  ReqsOK'
<1>1. sreq'[r] = x /\ \A q \in SettingReqs \ {r} : sreq'[q] = sreq[q]
  BY DEF ReqsOK
<1>2. sreq' \in [SettingReqs -> SRequests] /\ met' \in BOOLEAN /\ crossed' \in BOOLEAN
  BY DEF ReqsOK
<1>3. ASSUME NEW q \in SettingReqs, sreq'[q].at = "decided" PROVE Decided(q)'
  <2>1. q # r /\ sreq'[q] = sreq[q]
    BY <1>1, <1>3
  <2>2. Decided(q)
    BY <1>3, <2>1 DEF ReqsOK
  <2>3. PICK k : k = sreq[q].list
    OBVIOUS
  <2>4. k \in DOMAIN lists
    BY <2>2, <2>3 DEF Decided
  <2>5. DomainsOf(k) \subseteq DomainsOf(k)'
    <3>1. ToSet(lists[k]) \subseteq DOMAIN dicts /\ ToSet(lists[k]) \subseteq ToSet(lists'[k])
      BY <2>4 DEF TreeOK, TreeGrows
    <3> QED BY <3>1 DEF DomainsOf, TreeGrows
  <2>6. DomainsOf(sreq[q].list) \subseteq DomainsOf(sreq[q].list)'
    BY <2>1, <2>3, <2>5 DEF DomainsOf
  <2> QED BY <2>1, <2>2, <2>6 DEF Decided, TreeGrows
<1>4. \A q \in SettingReqs : sreq'[q].at = "put" => sreq'[q].list \in DOMAIN lists'
  BY <1>1 DEF ReqsOK, TreeGrows
<1> QED BY <1>2, <1>3, <1>4 DEF ReqsOK

\* A request changes the list it has looked at, or a dictionary, in place.
LEMMA ActInv ==
    ASSUME SettingsIInv, NEW r \in SettingReqs, Act(r)
    PROVE  SettingsIInv'
<1>1. TreeOK /\ FileOK /\ RoomOK /\ ReqsOK /\ Aligned /\ Filed /\ sreq[r].at = "decided" /\ Decided(r)
  <2>1. TreeOK /\ FileOK /\ RoomOK /\ ReqsOK /\ Aligned /\ Filed
    BY DEF SettingsIInv
  <2>2. sreq[r].at = "decided"
    BY Zenon DEF Act
  <2> QED BY <2>1, <2>2 DEF ReqsOK
<1>2. Edit(sreq[r]) /\ UNCHANGED <<current, yaml, met, crossed>>
      /\ sreq[r].want.op \in {"add", "credentials", "destination"}
  BY DEF Act, Edit
<1>3. PICK x : x = [Quiet EXCEPT !.at = "put", !.list = sreq[r].list]
  OBVIOUS
<1>4. x \in SRequests /\ x.at = "put" /\ x.list = sreq[r].list /\ x.want.op = "none"
  <2>1. sreq[r].list \in 0..MaxLists
    BY <1>1 DEF ReqsOK, SRequests
  <2> QED BY <1>3, <2>1, QuietShape DEF SRequests, Quiet, NoWant
<1>5. sreq' = [sreq EXCEPT ![r] = x]
  BY <1>3 DEF Act
<1>6. sreq'[r] = x /\ \A q \in SettingReqs \ {r} : sreq'[q] = sreq[q]
  BY <1>1, <1>5 DEF ReqsOK
<1>7. /\ TreeGrows
      /\ Len(dicts') = IF sreq[r].want.op = "add" THEN Len(dicts) + 1 ELSE Len(dicts)
      /\ Len(lists') = IF sreq[r].want.op = "remove" THEN Len(lists) + 1 ELSE Len(lists)
  BY <1>1, <1>2, AddChange, OtherChange
<1>8. RoomOK'
  BY <1>1, <1>4, <1>5, <1>7, ActRoom
<1>9. ReqsOK'
  BY <1>1, <1>2, <1>4, <1>5, <1>7, ActReqs DEF Decided
<1>10. Aligned'
  <2>1. SUFFICES ASSUME ~met, NEW q \in SettingReqs, sreq'[q].at \in {"decided", "put"}
                 PROVE  /\ sreq'[q].list = current'
                        /\ ~(sreq'[q].at = "decided" /\ sreq'[q].want.op = "remove")
    BY <1>2 DEF Aligned
  <2>2. CASE q = r
    BY <1>1, <1>2, <1>4, <1>6, <2>1, <2>2 DEF Aligned
  <2>3. CASE q # r
    BY <1>1, <1>2, <1>6, <2>1, <2>3 DEF Aligned
  <2> QED BY <2>2, <2>3
<1>11. Filed'
  BY <1>1, <1>2, <1>4, <1>6, MidSave
<1>12. TreeOK' /\ FileOK'
  BY <1>1, <1>2, <1>7 DEF TreeGrows, FileOK
<1> QED BY <1>8, <1>9, <1>10, <1>11, <1>12 DEF SettingsIInv

\* A request puts the list it has looked at back.
LEMMA PutBackInv ==
    ASSUME SettingsIInv, NEW r \in SettingReqs, PutBack(r)
    PROVE  SettingsIInv'
<1>1. TreeOK /\ FileOK /\ RoomOK /\ ReqsOK /\ Aligned /\ Filed /\ sreq[r].at = "put"
  BY DEF SettingsIInv, PutBack
<1>2. /\ sreq' = [sreq EXCEPT ![r] = Saving] /\ UNCHANGED <<dicts, lists, yaml, met, crossed>>
      /\ current' = sreq[r].list /\ sreq[r].list \in DOMAIN lists
  BY <1>1 DEF PutBack, ReqsOK
<1>3. sreq'[r] = Saving /\ \A q \in SettingReqs \ {r} : sreq'[q] = sreq[q]
  BY <1>1, <1>2 DEF ReqsOK
<1>4. TreeOK' /\ TreeGrows /\ FileOK'
  BY <1>1, <1>2 DEF TreeOK, TreeGrows, FileOK
<1>5. RoomOK'
  <2>1. \A q \in SettingReqs : sreq'[q].want.op = "add" => sreq[q].want.op = "add"
    BY <1>3, QuietShape
  <2>2. \A q \in SettingReqs : sreq'[q].want.op = "remove" => sreq[q].want.op = "remove"
    BY <1>3, QuietShape
  <2>3. Undone("add")' \in Nat /\ Undone("add")' <= Undone("add")
    BY <2>1, UndoneFalls
  <2>4. Undone("remove")' \in Nat /\ Undone("remove")' <= Undone("remove")
    BY <2>2, UndoneFalls
  <2>5. Len(dicts) \in Nat /\ Len(lists) \in Nat /\ Undone("add") \in Nat /\ Undone("remove") \in Nat
    BY <1>1, UndoneNat DEF TreeOK
  <2> QED BY <1>1, <1>2, <2>3, <2>4, <2>5, SettingsBounds DEF RoomOK
<1>6. ReqsOK'
  BY <1>1, <1>2, <1>4, QuietShape, ActReqs
<1>7. Aligned'
  <2>1. ASSUME ~met PROVE current' = current
    BY <1>1, <1>2, <2>1 DEF Aligned
  <2> QED BY <1>1, <1>2, <1>3, <2>1, QuietShape DEF Aligned, Without
<1>8. Filed'
  BY <1>1, <1>2, <1>3, QuietShape, MidSave
<1> QED BY <1>4, <1>5, <1>6, <1>7, <1>8 DEF SettingsIInv

\* A removal puts its list in the place of the one in use: any other request that
\* had looked has now met it.
LEMMA ReplaceInv ==
    ASSUME SettingsIInv, NEW r \in SettingReqs, Replace(r)
    PROVE  SettingsIInv'
<1>1. TreeOK /\ FileOK /\ RoomOK /\ ReqsOK /\ Aligned /\ Filed /\ sreq[r].at = "decided"
  BY DEF SettingsIInv, Replace
<1>2. /\ sreq' = [sreq EXCEPT ![r] = Saving] /\ UNCHANGED <<yaml, met, crossed>>
      /\ sreq[r].want.op = "remove"
  BY DEF Replace
<1>3. sreq'[r] = Saving /\ \A q \in SettingReqs \ {r} : sreq'[q] = sreq[q]
  BY <1>1, <1>2 DEF ReqsOK
<1>4. TreeGrows /\ Len(dicts') = Len(dicts) /\ Len(lists') = Len(lists) + 1
  BY <1>1, RemoveChange
<1>5. TreeOK' /\ FileOK'
  BY <1>1, <1>2, <1>4 DEF TreeGrows, FileOK
<1>6. RoomOK'
  BY <1>1, <1>2, <1>4, QuietShape, ActRoom
<1>7. ReqsOK'
  BY <1>1, <1>2, <1>4, QuietShape, ActReqs
<1>8. Aligned'
  <2>1. ASSUME ~met, NEW q \in SettingReqs, sreq'[q].at \in {"decided", "put"} PROVE FALSE
    <3>1. q # r /\ sreq[q].at \in {"decided", "put"}
      BY <1>3, <2>1, QuietShape
    <3> QED BY <1>1, <1>2, <2>1, <3>1 DEF Aligned
  <2> QED BY <1>2, <2>1 DEF Aligned
<1>9. Filed'
  BY <1>1, <1>2, <1>3, QuietShape, MidSave
<1> QED BY <1>5, <1>6, <1>7, <1>8, <1>9 DEF SettingsIInv

-----------------------------------------------------------------------------
(* Saving and loading *)

\* A step of a request r that is not deciding and leaves the tree.
LEMMA TreeStays ==
    ASSUME SettingsIInv, NEW r \in SettingReqs, NEW x \in SRequests,
           sreq' = [sreq EXCEPT ![r] = x], x.at \notin {"decided", "put"},
           x.want.op = sreq[r].want.op \/ x.want.op = "none",
           UNCHANGED <<dicts, lists, current, met>>, crossed' \in BOOLEAN
    PROVE  TreeOK' /\ RoomOK' /\ ReqsOK' /\ Aligned'
<1>1. TreeOK /\ RoomOK /\ ReqsOK /\ Aligned
  BY DEF SettingsIInv
<1>2. sreq'[r] = x /\ \A q \in SettingReqs \ {r} : sreq'[q] = sreq[q]
  BY <1>1 DEF ReqsOK
<1>3. TreeOK'
  BY <1>1 DEF TreeOK
<1>4. RoomOK'
  <2>1. \A q \in SettingReqs : sreq'[q].want.op = "add" => sreq[q].want.op = "add"
    BY <1>2
  <2>2. \A q \in SettingReqs : sreq'[q].want.op = "remove" => sreq[q].want.op = "remove"
    BY <1>2
  <2>3. Undone("add")' \in Nat /\ Undone("add")' <= Undone("add")
    BY <2>1, UndoneFalls
  <2>4. Undone("remove")' \in Nat /\ Undone("remove")' <= Undone("remove")
    BY <2>2, UndoneFalls
  <2>5. Len(dicts) \in Nat /\ Len(lists) \in Nat /\ Undone("add") \in Nat /\ Undone("remove") \in Nat
    BY <1>1, UndoneNat DEF TreeOK
  <2> QED BY <1>1, <2>3, <2>4, <2>5, SettingsBounds DEF RoomOK
<1>5. ReqsOK'
  <2>1. sreq' \in [SettingReqs -> SRequests] /\ met' \in BOOLEAN /\ crossed' \in BOOLEAN
    BY <1>1 DEF ReqsOK
  <2>2. ASSUME NEW q \in SettingReqs, sreq'[q].at = "decided" PROVE Decided(q)'
    <3>1. sreq'[q] = sreq[q] /\ Decided(q)
      BY <1>1, <1>2, <2>2 DEF ReqsOK
    <3> QED BY <3>1 DEF Decided, DomainsOf
  <2>3. \A q \in SettingReqs : sreq'[q].at = "put" => sreq'[q].list \in DOMAIN lists'
    BY <1>1, <1>2 DEF ReqsOK
  <2> QED BY <2>1, <2>2, <2>3 DEF ReqsOK
<1>6. Aligned'
  <2>1. \A q \in SettingReqs : sreq'[q].at \in {"decided", "put"} => sreq'[q] = sreq[q]
    BY <1>2
  <2> QED BY <1>1, <2>1 DEF Aligned, Without
<1> QED BY <1>3, <1>4, <1>5, <1>6

\* Opening the file empties it.
LEMMA OpenYamlInv ==
    ASSUME SettingsIInv, NEW r \in SettingReqs, OpenYaml(r)
    PROVE  SettingsIInv'
<1>1. sreq[r] \in SRequests /\ ReqsOK
  BY DEF SettingsIInv, ReqsOK
<1>2. PICK x : x = [sreq[r] EXCEPT !.at = "open"]
  OBVIOUS
<1>3. x \in SRequests /\ x.at = "open" /\ x.want = sreq[r].want
  BY <1>1, <1>2 DEF SRequests
<1>4. /\ sreq' = [sreq EXCEPT ![r] = x] /\ UNCHANGED <<dicts, lists, current, met>> /\ yaml' = Empty
      /\ crossed' = \E q \in SettingReqs \ {r} : sreq[q].at \in {"open", "dumped"}
  BY <1>2 DEF OpenYaml
<1>5. TreeOK' /\ RoomOK' /\ ReqsOK' /\ Aligned'
  BY <1>3, <1>4, TreeStays
<1>6. sreq'[r] = x /\ \A q \in SettingReqs \ {r} : sreq'[q] = sreq[q]
  BY <1>1, <1>4 DEF ReqsOK
<1>7. FileOK'
  BY <1>4, QuietShape DEF FileOK
<1>8. Filed'
  <2> SUFFICES ASSUME ~crossed' PROVE Filed'
    BY DEF Filed
  <2>1. \A q \in SettingReqs : sreq'[q].at \in {"open", "dumped"} => q = r
    BY <1>4, <1>6
  <2>2. yaml'.state = "empty" /\ sreq'[r].at = "open"
    BY <1>3, <1>4, <1>6, QuietShape
  <2>3. Represented(r)' /\ ~Settled(r)'
    BY <2>2 DEF Represented, Settled
  <2> QED BY <2>1, <2>2, <2>3 DEF Filed
<1> QED BY <1>5, <1>7, <1>8 DEF SettingsIInv

\* Dumping takes the text of the list in use.
LEMMA DumpYamlInv ==
    ASSUME SettingsIInv, NEW r \in SettingReqs, DumpYaml(r)
    PROVE  SettingsIInv'
<1>1. TreeOK /\ RoomOK /\ ReqsOK /\ FileOK /\ Filed /\ current \in DOMAIN lists /\ sreq[r].at = "open"
  BY DEF SettingsIInv, TreeOK, DumpYaml
<1>2. PICK x : x = [Quiet EXCEPT !.at = "dumped", !.text = Listed(current)]
  OBVIOUS
<1>3. x \in SRequests /\ x.at = "dumped" /\ x.want.op = "none" /\ x.text = Listed(current)
  <2>1. Listed(current) \in Seq(Site)
    BY <1>1, ListedShape
  <2> QED BY <1>2, <2>1, QuietShape DEF SRequests, Quiet, NoWant
<1>4. sreq' = [sreq EXCEPT ![r] = x] /\ UNCHANGED <<dicts, lists, current, yaml, met, crossed>>
  BY <1>2 DEF DumpYaml
<1>5. TreeOK' /\ RoomOK' /\ ReqsOK' /\ Aligned'
  BY <1>1, <1>3, <1>4, TreeStays DEF ReqsOK
<1>6. sreq'[r] = x /\ \A q \in SettingReqs \ {r} : sreq'[q] = sreq[q]
  BY <1>1, <1>4 DEF ReqsOK
<1>7. FileOK'
  BY <1>1, <1>4 DEF FileOK
<1>8. Filed'
  <2> SUFFICES ASSUME ~crossed PROVE Filed'
    BY <1>4 DEF Filed
  <2>1. yaml.state = "empty" /\ \A q \in SettingReqs : sreq[q].at \in {"open", "dumped"} => q = r
    BY <1>1 DEF Filed
  <2>2. \A q \in SettingReqs : sreq'[q].at \in {"open", "dumped"} => q = r
    BY <1>6, <2>1
  <2>3. Listed(current)' = Listed(current)
    BY <1>4 DEF Listed
  <2>4. sreq'[r].at = "dumped" /\ sreq'[r].text = Listed(current)
    BY <1>3, <1>6
  <2>5. Represented(r)' /\ ~Settled(r)'
    BY <2>3, <2>4 DEF Represented, Settled
  <2>6. yaml'.state = "empty"
    BY <1>4, <2>1
  <2> QED BY <2>2, <2>5, <2>6 DEF Filed
<1> QED BY <1>5, <1>7, <1>8 DEF SettingsIInv

\* The text is written: alone, or over what another request has written.
LEMMA CloseYamlInv ==
    ASSUME SettingsIInv, NEW r \in SettingReqs, CloseYaml(r)
    PROVE  SettingsIInv'
<1>1. TreeOK /\ ReqsOK /\ FileOK /\ Filed /\ sreq[r].at = "dumped" /\ sreq[r].text \in Seq(Site)
  BY DEF SettingsIInv, CloseYaml, ReqsOK, SRequests
<1>2. sreq' = [sreq EXCEPT ![r] = Quiet] /\ UNCHANGED <<dicts, lists, current, met, crossed>>
  BY DEF CloseYaml
<1>3. TreeOK' /\ RoomOK' /\ ReqsOK' /\ Aligned'
  BY <1>1, <1>2, QuietShape, TreeStays DEF ReqsOK
<1>4. sreq'[r] = Quiet /\ \A q \in SettingReqs \ {r} : sreq'[q] = sreq[q]
  BY <1>1, <1>2 DEF ReqsOK
<1>5. \/ yaml' = Text(sreq[r].text)
      \/ /\ yaml.state # "empty"
         /\ yaml' = [state |-> "mixed", sites |-> sreq[r].text, rest |-> yaml.sites \o yaml.rest]
  BY DEF CloseYaml
<1>6. FileOK'
  <2>1. yaml.sites \o yaml.rest \in Seq(Site)
    BY <1>1 DEF FileOK, Files
  <2>2. CASE yaml' = Text(sreq[r].text)
    BY <1>1, <2>2, QuietShape DEF FileOK
  <2>3. CASE yaml' = [state |-> "mixed", sites |-> sreq[r].text, rest |-> yaml.sites \o yaml.rest]
    BY <1>1, <2>1, <2>3 DEF FileOK, Files
  <2> QED BY <1>5, <2>2, <2>3
<1>7. Filed'
  <2> SUFFICES ASSUME ~crossed PROVE Filed'
    BY <1>2 DEF Filed
  <2>1. /\ yaml.state = "empty" /\ Represented(r)
        /\ \A q \in SettingReqs : sreq[q].at \in {"open", "dumped"} => q = r
    BY <1>1 DEF Filed
  <2>2. yaml' = Text(sreq[r].text)
    BY <1>5, <2>1
  <2>3. yaml'.state = "written" /\ yaml'.sites = sreq[r].text
    BY <1>1, <2>2, QuietShape
  <2>4. \A q \in SettingReqs : sreq'[q].at \notin {"open", "dumped"}
    BY <1>4, <2>1, QuietShape
  <2>5. ASSUME \A q \in SettingReqs : Settled(q)' PROVE yaml'.sites = Listed(current)'
    <3>1. \A q \in SettingReqs \ {r} : Settled(q)
      BY <1>4, <2>5 DEF Settled
    <3>2. sreq[r].text = Listed(current)
      BY <1>1, <2>1, <3>1 DEF Represented
    <3>3. Listed(current)' = Listed(current)
      BY <1>2 DEF Listed
    <3> QED BY <2>3, <3>2, <3>3
  <2> QED BY <2>3, <2>4, <2>5 DEF Filed
<1> QED BY <1>3, <1>6, <1>7 DEF SettingsIInv

\* What is read is a list of sites, and in a file that is not mixed what was
\* written.
LEMMA ReadingsAre ==
    ASSUME FileOK, NEW sites \in Readings
    PROVE  sites \in Seq(Site) /\ (yaml.state # "mixed" => sites = yaml.sites)
<1>1. yaml.sites \in Seq(Site) /\ yaml.rest \in Seq(Site)
  BY DEF FileOK, Files
<1>2. PICK s, t : s = yaml.sites /\ t = yaml.rest
  OBVIOUS
<1>3. PICK n \in 1..(Len(t) + 1) :
        \/ sites = s \o SubSeq(t, n, Len(t))
        \/ yaml.state = "mixed" /\ sites = SubSeq(t, n, Len(t))
  BY <1>2 DEF Readings
<1>4. PICK e : e = SubSeq(t, n, Len(t))
  OBVIOUS
<1>5. e \in Seq(Site)
  BY <1>1, <1>2, <1>4
<1>6. ASSUME yaml.state # "mixed" PROVE sites = s
  <2>1. Len(t) = 0 /\ t = <<>>
    BY <1>2, <1>6 DEF FileOK
  <2>2. e = <<>>
    BY <1>3, <1>4, <2>1
  <2>3. sites = s \o e
    BY <1>3, <1>4, <1>6
  <2>4. s \in Seq(Site) => s \o <<>> = s
    OBVIOUS
  <2> QED BY <1>1, <1>2, <2>2, <2>3, <2>4
<1>7. s \o e \in Seq(Site)
  BY <1>1, <1>2, <1>5
<1>8. sites \in Seq(Site)
  BY <1>3, <1>4, <1>5, <1>7
<1> QED BY <1>2, <1>6, <1>8

\* A new process holds what the file says, in one list.
LEMMA LoadYamlInv ==
    ASSUME SettingsIInv, LoadYaml
    PROVE  SettingsIInv'
<1>1. FileOK /\ met \in BOOLEAN
  BY DEF SettingsIInv, ReqsOK
<1>2. PICK sites \in Readings :
        /\ Len(sites) <= MaxDicts
        /\ dicts' = sites /\ lists' = <<[i \in 1..Len(sites) |-> i]>> /\ current' = 1
        /\ sreq' = [r \in SettingReqs |-> Quiet] /\ crossed' = (yaml.state = "mixed")
        /\ UNCHANGED <<yaml, met>>
  BY DEF LoadYaml
<1>3. sites \in Seq(Site) /\ Len(sites) <= MaxDicts /\ Len(sites) \in Nat
      /\ (yaml.state # "mixed" => sites = yaml.sites)
  BY <1>1, <1>2, ReadingsAre
<1>4. /\ dicts' = sites /\ lists' = <<[i \in 1..Len(sites) |-> i]>> /\ current' = 1
      /\ UNCHANGED <<yaml, met>>
  BY <1>2
<1>5. TreeOK' /\ Listed(current)' = sites /\ Len(lists') = 1
  <2>1. PICK ls : ls = lists'
    OBVIOUS
  <2>2. /\ ls \in Seq(Seq(1..MaxDicts)) /\ DOMAIN ls = {1} /\ Len(ls) = 1
        /\ ToSet(ls[1]) = DOMAIN sites /\ Distinct(ls[1])
        /\ AllListed(ls, sites)
    <3>1. HoldAll(ls, sites)
      BY <1>4, <2>1 DEF HoldAll
    <3> QED BY <1>3, <3>1, LoadedLists
  <2> QED BY <1>3, <1>4, <2>1, <2>2 DEF TreeOK, Listed, AllListed
<1>6. \A r \in SettingReqs : sreq'[r] = Quiet
  BY <1>2
<1>7. Undone("add")' = 0 /\ Undone("remove")' = 0
  <2>1. {q \in SettingReqs : sreq'[q].want.op = "add"} = {}
    BY <1>6, QuietShape
  <2>2. {q \in SettingReqs : sreq'[q].want.op = "remove"} = {}
    BY <1>6, QuietShape
  <2> QED BY <2>1, <2>2, FS_EmptySet DEF Undone
<1>8. RoomOK'
  BY <1>3, <1>4, <1>5, <1>7, SettingsBounds DEF RoomOK
<1>9. ReqsOK' /\ Aligned'
  <2>1. sreq' \in [SettingReqs -> SRequests]
    BY <1>2, QuietShape
  <2>2. crossed' \in BOOLEAN
    BY <1>2
  <2> QED BY <1>1, <1>4, <1>6, <2>1, <2>2, QuietShape DEF ReqsOK, Aligned
<1>10. FileOK'
  BY <1>1, <1>4 DEF FileOK
<1>11. Filed'
  BY <1>2, <1>3, <1>4, <1>5, <1>6, QuietShape DEF Filed
<1> QED BY <1>5, <1>8, <1>9, <1>10, <1>11 DEF SettingsIInv

\* Every step keeps the invariant.
LEMMA SettingsNextInv == SettingsIInv /\ [SettingsNext]_settingVars => SettingsIInv'
<1> SUFFICES ASSUME SettingsIInv, [SettingsNext]_settingVars PROVE SettingsIInv'
  OBVIOUS
<1>1. CASE UNCHANGED settingVars
  BY <1>1 DEF settingVars, SettingsIInv, TreeOK, FileOK, RoomOK, ReqsOK, Aligned, Filed, Undone,
              Decided, DomainsOf, Without, Listed, Settled, Represented
<1>2. CASE LoadYaml
  BY <1>2, LoadYamlInv
<1>3. ASSUME NEW r \in SettingReqs,
             \/ Act(r) \/ PutBack(r) \/ Replace(r)
             \/ OpenYaml(r) \/ DumpYaml(r) \/ CloseYaml(r)
      PROVE  SettingsIInv'
  BY <1>3, ActInv, PutBackInv, ReplaceInv, OpenYamlInv, DumpYamlInv, CloseYamlInv
<1>4. ASSUME NEW r \in SettingReqs, NEW w \in Wants,
             \/ AddSourceSite(r, w) \/ RemoveSourceSite(r, w)
             \/ SaveSiteCredentials(r, w) \/ SetDestination(r, w)
      PROVE  SettingsIInv'
  BY <1>4, DecisionsInv
<1> QED BY <1>1, <1>2, <1>3, <1>4 DEF SettingsNext

\* The invariant holds throughout.
LEMMA SettingsInvariant == SettingsSpec => []SettingsIInv
BY SettingsInitInv, SettingsNextInv, PTL DEF SettingsSpec

\* config.py, routes.py: dictionaries, lists of them, the file and the requests
\* have their types, within their bounds, for any domains and requests.
THEOREM SettingsTypeCorrect == SettingsSpec => []SettingsTypeOK
<1>1. ASSUME SettingsIInv PROVE SettingsTypeOK
  <2>1. Len(dicts) \in Nat /\ Len(dicts) <= MaxDicts
    BY <1>1, UndoneNat, SettingsBounds DEF SettingsIInv, TreeOK, RoomOK
  <2> QED BY <1>1, <2>1 DEF SettingsIInv, TreeOK, FileOK, Files, ReqsOK, SRequests, SettingsTypeOK
<1> QED BY <1>1, SettingsInvariant, PTL

-----------------------------------------------------------------------------
(* Sites stay listed *)

StayStep ==
    \A d \in SiteDomains :
         ~met' /\ (d \in DomainsOf(current)) # (d \in DomainsOf(current)') =>
            \/ LoadYaml /\ Unsettled
            \/ \E r \in SettingReqs :
                  /\ IF d \in DomainsOf(current) THEN Replace(r)
                                                ELSE Act(r) /\ sreq[r].want.op = "add"
                  /\ sreq[r].want.domain = d

\* A change in place brings the site that is to be added, and nothing else.
LEMMA ActStays ==
    ASSUME SettingsIInv, NEW r \in SettingReqs, Act(r), ~met', NEW d \in SiteDomains,
           (d \in DomainsOf(current)) # (d \in DomainsOf(current)')
    PROVE  d \notin DomainsOf(current) /\ sreq[r].want.domain = d /\ sreq[r].want.op = "add"
<1>1. /\ sreq[r].at = "decided" /\ Edit(sreq[r]) /\ UNCHANGED current /\ ~met /\ Decided(r)
      /\ sreq[r].want.op \in {"add", "credentials", "destination"}
  BY DEF SettingsIInv, ReqsOK, Act, Edit
<1>2. sreq[r].list = current /\ current \in DOMAIN lists
  BY <1>1 DEF SettingsIInv, Aligned, Decided
<1>3. CASE sreq[r].want.op = "add"
  <2>1. DomainsOf(current)' = DomainsOf(current) \cup {sreq[r].want.domain}
    BY <1>1, <1>2, <1>3, AddChange
  <2> QED BY <1>3, <2>1
<1>4. CASE sreq[r].want.op \in {"credentials", "destination"}
  <2>1. PICK k : k = current
    OBVIOUS
  <2>2. DomainsOf(k)' = DomainsOf(k)
    BY <1>1, <1>2, <1>4, <2>1, OtherChange
  <2>3. DomainsOf(current)' = DomainsOf(current)
    BY <1>1, <2>1, <2>2 DEF DomainsOf
  <2> QED BY <2>3
<1> QED BY <1>1, <1>3, <1>4

\* A removal takes the site that is to be removed, and nothing else.
LEMMA ReplaceStays ==
    ASSUME SettingsIInv, NEW r \in SettingReqs, Replace(r), ~met', NEW d \in SiteDomains,
           (d \in DomainsOf(current)) # (d \in DomainsOf(current)')
    PROVE  d \in DomainsOf(current) /\ sreq[r].want.domain = d
<1>1. sreq[r].at = "decided" /\ sreq[r].want.op = "remove" /\ ~met
  BY DEF Replace
<1>2. PICK e : e = sreq[r].want.domain
  OBVIOUS
<1>3. ToSet(sreq[r].new) = Without(current, e)
  BY <1>1, <1>2 DEF SettingsIInv, Aligned
<1>4. DomainsOf(current)' = {dicts[i].domain : i \in ToSet(sreq[r].new)}
  BY <1>1, RemoveChange
<1>5. DomainsOf(current)' = DomainsOf(current) \ {e}
  BY <1>3, <1>4 DEF Without, DomainsOf
<1> QED BY <1>2, <1>5

\* What is put back is the list in use, unless a removal has come in between.
LEMMA PutBackStays ==
    ASSUME SettingsIInv, NEW r \in SettingReqs, PutBack(r), ~met'
    PROVE  DomainsOf(current)' = DomainsOf(current)
<1>1. current' = current /\ UNCHANGED <<dicts, lists>>
  BY DEF PutBack, SettingsIInv, Aligned
<1> QED BY <1>1 DEF DomainsOf

\* A restart finds the sites of the tree, when all is settled.
LEMMA LoadStays ==
    ASSUME SettingsIInv, LoadYaml, ~Unsettled
    PROVE  DomainsOf(current)' = DomainsOf(current)
<1>1. ~crossed /\ \A r \in SettingReqs : Settled(r)
  BY DEF Unsettled, Settled
<1>3. yaml.state # "mixed" /\ yaml.sites = Listed(current)
  BY <1>1 DEF SettingsIInv, Filed
<1>4. PICK sites \in Readings :
        Len(sites) <= MaxDicts /\ dicts' = sites /\ lists' = <<[i \in 1..Len(sites) |-> i]>> /\ current' = 1
  BY DEF LoadYaml
<1>5. sites \in Seq(Site) /\ sites = Listed(current)
  BY <1>3, ReadingsAre DEF SettingsIInv
<1>6. PICK ls : ls = lists'
  OBVIOUS
<1>7. dicts' = sites /\ HoldAll(ls, sites) /\ current' = 1
  BY <1>4, <1>6 DEF HoldAll
<1>8. ToSet(ls[1]) = DOMAIN sites
  BY <1>4, <1>5, <1>7, LoadedLists
<1>9. DomainsOf(current)' = {sites[i].domain : i \in DOMAIN sites}
  BY <1>6, <1>7, <1>8 DEF DomainsOf
<1>10. DomainsOf(current) = {sites[i].domain : i \in DOMAIN sites}
  BY <1>5, ListedDomains DEF SettingsIInv
<1> QED BY <1>9, <1>10

\* routes.py:1419,1429: for any domains and number of requests, as long as no
\* removal has met another request, a step that changes whether a site is in
\* the settings is that of a request that adds or removes it, or a restart after
\* a request was killed in mid-save or saves had overlapped.
THEOREM SitesAreKept == SettingsSpec => SitesStay
<1>1. SettingsIInv /\ [SettingsNext]_settingVars => [StayStep]_settingVars
  <2> SUFFICES ASSUME SettingsIInv, SettingsNext, NEW d \in SiteDomains, ~met',
                      (d \in DomainsOf(current)) # (d \in DomainsOf(current)')
               PROVE  \/ LoadYaml /\ Unsettled
                      \/ \E r \in SettingReqs :
                            /\ IF d \in DomainsOf(current) THEN Replace(r)
                                                          ELSE Act(r) /\ sreq[r].want.op = "add"
                            /\ sreq[r].want.domain = d
    BY DEF StayStep
  <2>1. CASE UNCHANGED <<dicts, lists, current>>
    BY <2>1 DEF DomainsOf
  <2>2. ASSUME NEW r \in SettingReqs, Act(r)
        PROVE  d \notin DomainsOf(current) /\ sreq[r].want.domain = d /\ sreq[r].want.op = "add"
    BY <2>2, ActStays
  <2>3. ASSUME NEW r \in SettingReqs, Replace(r)
        PROVE  d \in DomainsOf(current) /\ sreq[r].want.domain = d
    BY <2>3, ReplaceStays
  <2>4. ASSUME NEW r \in SettingReqs, PutBack(r) PROVE FALSE
    BY <2>4, PutBackStays
  <2>5. CASE LoadYaml
    BY <2>5, LoadStays
  <2> QED BY <2>1, <2>2, <2>3, <2>4, <2>5
      DEF SettingsNext, AddSourceSite, RemoveSourceSite, SaveSiteCredentials, SetDestination,
          Decide, OpenYaml, DumpYaml, CloseYaml
<1> QED BY <1>1, SettingsInvariant, PTL DEF SettingsSpec, SitesStay, StayStep

(* The comparison pages *)

\* models.py: active products are products and active listings listings, every
\* listing belongs to a product and says what a scan may have found.
THEOREM ViewsTypeCorrect == ViewsSpec => []ViewsTypeOK
<1>1. ViewsInit => ViewsTypeOK
  <2> SUFFICES ASSUME ViewsInit PROVE ViewsTypeOK
      OBVIOUS
  <2>1. ASSUME NEW l \in Offers PROVE says[l] \in Contents[l]
    <3>1. says[l] = CHOOSE c \in Contents[l] : TRUE
      BY DEF ViewsInit
    <3> QED BY <3>1, ViewsAssumption
  <2>2. offerOf \in [Offers -> Products]
    BY DEF ViewsInit
  <2> QED BY <2>1, <2>2 DEF ViewsInit, ViewsTypeOK
<1>2. ViewsTypeOK /\ [ViewsNext]_viewVars => ViewsTypeOK'
  <2> SUFFICES ASSUME ViewsTypeOK, [ViewsNext]_viewVars PROVE ViewsTypeOK'
      OBVIOUS
  <2>1. ASSUME NEW l \in Offers, NEW c \in Contents[l], Rescan(l, c) PROVE ViewsTypeOK'
    <3>1. \A k \in Offers : says'[k] \in {c, says[k]} /\ (k = l \/ says'[k] = says[k])
      BY <2>1 DEF Rescan
    <3>2. \A k \in Offers : says'[k] \in Contents[k]
      BY <2>1, <3>1 DEF ViewsTypeOK
    <3> QED BY <2>1, <3>2 DEF Rescan, ViewsTypeOK
  <2>2. ASSUME NEW l \in Offers, Unlist(l) PROVE ViewsTypeOK'
    BY <2>2 DEF Unlist, ViewsTypeOK
  <2>3. ASSUME NEW l \in Offers, NEW p \in Products, Move(l, p) PROVE ViewsTypeOK'
    BY <2>3 DEF Move, ViewsTypeOK
  <2>4. ASSUME NEW p \in Products, Retire(p) \/ Revive(p) PROVE ViewsTypeOK'
    BY <2>4 DEF Retire, Revive, ViewsTypeOK
  <2>5. CASE UNCHANGED viewVars
    BY <2>5 DEF viewVars, ViewsTypeOK
  <2> QED BY <2>1, <2>2, <2>3, <2>4, <2>5 DEF ViewsNext
<1> QED BY <1>1, <1>2, PTL DEF ViewsSpec

\* How many of S are before p.
Before(S, p) == Cardinality({other \in S : other < p})

\* The places of a finite set's numbers are counted from 0.
LEMMA Ranks ==
    ASSUME NEW S \in SUBSET Nat, IsFiniteSet(S)
    PROVE  /\ Cardinality(S) \in Nat
           /\ \A p \in S : Before(S, p) \in 0..(Cardinality(S) - 1)
           /\ \A p, r \in S : p < r => Before(S, p) < Before(S, r)
           /\ \A i \in 0..(Cardinality(S) - 1) : \E p \in S : Before(S, p) = i
<1>1. Cardinality(S) \in Nat
  BY FS_CardinalityType
<1>2. ASSUME NEW T \in SUBSET S
      PROVE  IsFiniteSet(T) /\ Cardinality(T) \in Nat /\ Cardinality(T) <= Cardinality(S)
  BY FS_Subset, FS_CardinalityType
<1>3. ASSUME NEW p \in S, NEW T \in SUBSET S, p \notin T
      PROVE  Cardinality(T \cup {p}) = Cardinality(T) + 1
  BY <1>2, <1>3, FS_AddElement
<1>4. ASSUME NEW p \in S PROVE Before(S, p) \in 0..(Cardinality(S) - 1)
  <2>1. PICK T : T = {other \in S : other < p}
    OBVIOUS
  <2>2. T \in SUBSET S /\ p \notin T /\ T \cup {p} \in SUBSET S
    BY <2>1
  <2>3. Cardinality(T) + 1 <= Cardinality(S) /\ Cardinality(T) \in Nat
    <3>1. Cardinality(T \cup {p}) = Cardinality(T) + 1
      BY <2>2, <1>3
    <3>2. Cardinality(T \cup {p}) <= Cardinality(S) /\ Cardinality(T) \in Nat
      BY <2>2, <1>2
    <3> QED BY <3>1, <3>2
  <2> QED BY <1>1, <2>1, <2>3 DEF Before
<1>5. ASSUME NEW p \in S, NEW r \in S, p < r PROVE Before(S, p) < Before(S, r)
  <2>1. PICK T, U : T = {other \in S : other < p} /\ U = {other \in S : other < r}
    OBVIOUS
  <2>2. T \in SUBSET S /\ p \notin T /\ U \in SUBSET S /\ T \cup {p} \in SUBSET U
    <3>1. T \in SUBSET S /\ p \notin T /\ U \in SUBSET S /\ p \in U
      BY <1>5, <2>1
    <3>2. ASSUME NEW o \in T PROVE o \in U
      <4>1. o \in S /\ o < p
        BY <2>1
      <4>2. o < r
        BY <1>5, <4>1
      <4> QED BY <2>1, <4>1, <4>2
    <3> QED BY <3>1, <3>2
  <2>3. Cardinality(T \cup {p}) = Cardinality(T) + 1 /\ Cardinality(T) \in Nat
    BY <2>2, <1>2, <1>3
  <2>4. Cardinality(T \cup {p}) <= Cardinality(U) /\ Cardinality(U) \in Nat
    BY <2>2, <1>2, FS_Subset
  <2> QED BY <2>1, <2>3, <2>4 DEF Before
<1>6. ASSUME NEW i \in 0..(Cardinality(S) - 1) PROVE \E p \in S : Before(S, p) = i
  <2>1. PICK R : R = 0..(Cardinality(S) - 1)
    OBVIOUS
  <2>2. IsFiniteSet(R) /\ Cardinality(R) = Cardinality(S)
    <3>1. 0 \in Int /\ Cardinality(S) - 1 \in Int
      BY <1>1
    <3>2. /\ IsFiniteSet(0..(Cardinality(S) - 1))
          /\ Cardinality(0..(Cardinality(S) - 1)) =
                IF 0 > Cardinality(S) - 1 THEN 0 ELSE Cardinality(S) - 1 - 0 + 1
      BY <3>1, FS_Interval
    <3> QED BY <1>1, <2>1, <3>2
  <2>3. PICK f : f = [p \in S |-> Before(S, p)]
    OBVIOUS
  <2>4. f \in [S -> R]
    BY <1>4, <2>1, <2>3
  <2>5. \A p, r \in S : f[p] = f[r] => p = r
    <3> SUFFICES ASSUME NEW p \in S, NEW r \in S, f[p] = f[r], p # r PROVE FALSE
        OBVIOUS
    <3>1. PICK m, n : m = Before(S, p) /\ n = Before(S, r)
      OBVIOUS
    <3>2. m = n /\ m \in Nat
      BY <1>1, <1>4, <2>3, <3>1
    <3>3. (p < r => m < n) /\ (r < p => n < m)
      BY <1>5, <3>1
    <3> QED BY <3>2, <3>3
  <2>6. f \in Injection(S, R)
    BY <2>4, <2>5 DEF Injection, IsInjective
  <2>7. f \in Surjection(S, R)
    BY <2>2, <2>6, FS_Injection
  <2>8. PICK p \in S : f[p] = i
    BY <2>1, <2>7 DEF Surjection
  <2> QED BY <2>3, <2>8
<1> QED BY <1>1, <1>4, <1>5, <1>6

\* Products in their order: each of them once, rising.
LEMMA InOrderIs ==
    ASSUME NEW S \in SUBSET Nat, IsFiniteSet(S)
    PROVE  /\ InOrder(S) \in Seq(S) /\ Len(InOrder(S)) = Cardinality(S)
           /\ Cardinality(S) \in Nat
           /\ \A p \in S : \E i \in 1..Cardinality(S) : InOrder(S)[i] = p
           /\ \A i, j \in 1..Cardinality(S) : i < j => InOrder(S)[i] < InOrder(S)[j]
<1>1. PICK n : n = Cardinality(S) /\ n \in Nat
  BY Ranks
<1>2. PICK s : s = InOrder(S)
  OBVIOUS
<1>3. ASSUME NEW i \in 1..n PROVE s[i] \in S /\ Before(S, s[i]) = i - 1
  <2>1. i - 1 \in 0..(n - 1)
    BY <1>1
  <2>2. \E p \in S : Before(S, p) = i - 1
    BY <1>1, <2>1, Ranks
  <2>3. s[i] = CHOOSE p \in S : Before(S, p) = i - 1
    BY <1>1, <1>2, <1>3 DEF InOrder, Before
  <2> QED BY <2>2, <2>3
<1>4. s = [i \in 1..n |-> s[i]]
  <2>1. PICK e : e = [i \in 1..n |-> CHOOSE p \in S : Cardinality({other \in S : other < p}) = i - 1]
    OBVIOUS
  <2>2. s = e
    BY <1>1, <1>2, <2>1 DEF InOrder
  <2>3. e = [i \in 1..n |-> e[i]]
    BY <2>1
  <2> QED BY <2>2, <2>3
<1>5. s \in Seq(S) /\ Len(s) = n
  <2>1. s \in [1..n -> S]
    BY <1>3, <1>4
  <2> QED BY <1>1, <2>1
<1>6. ASSUME NEW p \in S, NEW r \in S, Before(S, p) = Before(S, r) PROVE p = r
  <2>1. Before(S, p) \in Nat /\ Before(S, r) \in Nat
    BY <1>1, Ranks
  <2>2. (p < r => Before(S, p) < Before(S, r)) /\ (r < p => Before(S, r) < Before(S, p))
    BY Ranks
  <2> QED BY <1>6, <2>1, <2>2
<1>7. ASSUME NEW p \in S PROVE \E i \in 1..n : s[i] = p
  <2>1. Before(S, p) \in 0..(n - 1)
    BY <1>1, Ranks
  <2>2. PICK i \in 1..n : i = Before(S, p) + 1
    BY <1>1, <2>1
  <2>3. s[i] \in S /\ Before(S, s[i]) = Before(S, p)
    BY <1>3, <2>1, <2>2
  <2> QED BY <1>6, <2>3
<1>8. ASSUME NEW i \in 1..n, NEW j \in 1..n, i < j PROVE s[i] < s[j]
  <2>1. s[i] \in S /\ s[j] \in S /\ Before(S, s[i]) = i - 1 /\ Before(S, s[j]) = j - 1
    BY <1>3
  <2>2. PICK p, r : p = s[i] /\ r = s[j]
    OBVIOUS
  <2>3. r < p => Before(S, r) < Before(S, p)
    BY <2>1, <2>2, Ranks
  <2>4. PICK m, k : m = Before(S, p) /\ k = Before(S, r)
    OBVIOUS
  <2>5. m = i - 1 /\ k = j - 1 /\ (r < p => k < m)
    BY <2>1, <2>2, <2>3, <2>4
  <2>6. ~(r < p) /\ p # r
    <3>1. ~(k < m) /\ k # m
      BY <1>8, <2>5
    <3>2. p = r => m = k
      BY <2>4
    <3> QED BY <2>5, <3>1, <3>2
  <2>7. p \in Nat /\ r \in Nat
    BY <2>1, <2>2
  <2>8. p < r
    BY <2>6, <2>7
  <2> QED BY <2>2, <2>8
<1> QED BY <1>1, <1>2, <1>5, <1>7, <1>8

\* What FlattenSeq makes of the first m of some sequences.
Joined(pages, f, i) == IF i = 1 THEN pages[i] ELSE f[i - 1] \o pages[i]
IsJoining(pages, f, m) == f = [i \in 1..m |-> Joined(pages, f, i)]

\* There is a function that FlattenSeq describes: the least length without one
\* would have one.
LEMMA JoiningExists ==
    ASSUME NEW pages, NEW n \in Nat
    PROVE  \E f : IsJoining(pages, f, n)
<1> DEFINE Bad == {m \in 0..n : ~\E f : IsJoining(pages, f, m)}
<1> SUFFICES ASSUME Bad # {} PROVE FALSE
  OBVIOUS
<1>1. PICK m \in Bad : \A j \in Bad : m <= j
  <2>1. Bad \in SUBSET Nat
    OBVIOUS
  <2> HIDE DEF Bad
  <2> QED BY <2>1, LeastOf
<1>2. m \in 0..n /\ ~\E f : IsJoining(pages, f, m)
  OBVIOUS
<1>3. CASE m = 0
  <2>1. PICK f : f = [i \in 1..0 |-> <<>>]
    OBVIOUS
  <2>2. PICK g : g = [i \in 1..0 |-> Joined(pages, f, i)]
    OBVIOUS
  <2>3. f = g
    BY <2>1, <2>2
  <2>4. IsJoining(pages, f, 0)
    BY <2>2, <2>3 DEF IsJoining
  <2> QED BY <1>2, <1>3, <2>4
<1>4. CASE m # 0
  <2>1. m - 1 \in 0..n /\ m - 1 \notin Bad
    BY <1>1, <1>2, <1>4
  <2>2. PICK f : IsJoining(pages, f, m - 1)
    BY <2>1
  <2>3. PICK x : x = Joined(pages, f, m)
    OBVIOUS
  <2>4. PICK g : g = [i \in 1..m |-> IF i = m THEN x ELSE f[i]]
    OBVIOUS
  <2>5. ASSUME NEW i \in 1..m PROVE g[i] = Joined(pages, g, i)
    <3>1. i # 1 => g[i - 1] = f[i - 1]
      BY <1>2, <2>4
    <3>2. CASE i = m
      <4>1. g[i] = Joined(pages, f, i)
        BY <2>3, <2>4, <3>2
      <4> QED BY <3>1, <4>1 DEF Joined
    <3>3. CASE i # m
      <4>1. g[i] = f[i] /\ i \in 1..(m - 1)
        BY <1>2, <2>4, <3>3
      <4>2. f[i] = Joined(pages, f, i)
        BY <2>2, <4>1 DEF IsJoining
      <4> QED BY <3>1, <4>1, <4>2 DEF Joined
    <3> QED BY <3>2, <3>3
  <2>6. IsJoining(pages, g, m)
    <3>1. g = [i \in 1..m |-> g[i]]
      BY <2>4
    <3>2. g = [i \in 1..m |-> Joined(pages, g, i)]
      BY <2>5, <3>1, Zenon
    <3> QED BY <3>2 DEF IsJoining
  <2> QED BY <1>2, <2>6
<1> QED BY <1>3, <1>4

\* FlattenSeq unfolds as it is written.
LEMMA FlattenIs ==
    ASSUME NEW pages, NEW n \in Nat, n # 0, Len(pages) = n
    PROVE  \E f : IsJoining(pages, f, n) /\ FlattenSeq(pages) = f[n]
<1>1. PICK f : f = CHOOSE g : IsJoining(pages, g, n)
  OBVIOUS
<1>2. IsJoining(pages, f, n)
  BY <1>1, JoiningExists, Zenon
<1>3. FlattenSeq(pages) = f[n]
  BY <1>1, Zenon DEF FlattenSeq, IsJoining, Joined
<1> QED BY <1>2, <1>3

\* Where the i-th page of k elements ends, in a list of size elements.
EndOf(i, k, size) == IF i * k < size THEN i * k ELSE size

\* Cut into pages and put together a list is what it was.
LEMMA PagesJoin ==
    ASSUME NEW S, NEW s \in Seq(S), NEW k \in Nat \ {0}, NEW n \in Nat \ {0}, n * k >= Len(s),
           NEW pages,
           pages = [i \in 1..n |-> SubSeq(s, (i - 1) * k + 1, EndOf(i, k, Len(s)))]
    PROVE  FlattenSeq(pages) = s
<1>1. PICK f : IsJoining(pages, f, n) /\ FlattenSeq(pages) = f[n]
  <2>1. Len(pages) = n
    OBVIOUS
  <2> QED BY <2>1, FlattenIs, Zenon
<1> DEFINE RightUpTo(i) == f[i] = SubSeq(s, 1, EndOf(i, k, Len(s)))
           Bad == {i \in 1..n : ~RightUpTo(i)}
<1>2. \A i \in 1..n : f[i] = Joined(pages, f, i)
  BY <1>1 DEF IsJoining
<1>3. Bad = {}
  <2> SUFFICES ASSUME Bad # {} PROVE FALSE
      OBVIOUS
  <2>1. PICK i \in Bad : \A j \in Bad : i <= j
    <3>1. Bad \in SUBSET Nat
      OBVIOUS
    <3> HIDE DEF Bad
    <3> QED BY <3>1, LeastOf
  <2>2. i \in 1..n /\ ~RightUpTo(i)
    OBVIOUS
  <2>3. pages[i] = SubSeq(s, (i - 1) * k + 1, EndOf(i, k, Len(s)))
    BY <2>2
  <2>4. CASE i = 1
    <3>1. (i - 1) * k + 1 = 1
      BY <2>4
    <3>2. f[i] = pages[i]
      BY <1>2, <2>2, <2>4 DEF Joined
    <3> QED BY <2>2, <2>3, <3>1, <3>2
  <2>5. CASE i # 1
    <3>1. i - 1 \in 1..n /\ i - 1 \notin Bad
      BY <2>1, <2>2, <2>5
    <3>2. f[i - 1] = SubSeq(s, 1, EndOf(i - 1, k, Len(s)))
      BY <3>1
    <3>3. f[i] = f[i - 1] \o pages[i]
      BY <1>2, <2>2, <2>5 DEF Joined
    <3>4. PICK a, size : a = (i - 1) * k /\ size = Len(s)
      OBVIOUS
    <3>5. a \in Nat /\ i * k = a + k /\ size \in Nat
      BY <2>2, <3>4
    <3>6. CASE a < size
      <4>1. EndOf(i - 1, k, size) = a
        BY <3>4, <3>6 DEF EndOf
      <4>2. PICK b : b = EndOf(i, k, size)
        OBVIOUS
      <4>3. b \in a..size /\ a \in 0..size
        BY <3>5, <3>6, <4>2 DEF EndOf
      <4>4. SubSeq(s, 1, a) \o SubSeq(s, a + 1, b) = SubSeq(s, 1, b)
        <5>1. 1 \in 1..(Len(s) + 1) /\ a \in (1 - 1)..Len(s) /\ b \in a..Len(s)
          BY <3>4, <3>5, <4>3
        <5> QED BY <5>1, ConcatAdjacentSubSeq
      <4> QED BY <2>2, <2>3, <3>2, <3>3, <3>4, <4>1, <4>2, <4>4
    <3>7. CASE ~(a < size)
      <4>1. EndOf(i - 1, k, size) = size /\ EndOf(i, k, size) = size
        BY <3>4, <3>5, <3>7 DEF EndOf
      <4>2. pages[i] = <<>>
        <5>1. a + 1 \in Int /\ size \in Int /\ size < a + 1
          BY <3>5, <3>7
        <5>2. SubSeq(s, a + 1, size) = <<>>
          BY <5>1, SubSeqEmpty
        <5> QED BY <2>3, <3>4, <4>1, <5>2
      <4>3. f[i - 1] \in Seq(S)
        <5>1. f[i - 1] = s
          BY <3>2, <3>4, <4>1, SubSeqFull
        <5> QED BY <5>1
      <4>4. f[i] = f[i - 1]
        BY <3>3, <4>2, <4>3, ConcatEmptySeq
      <4> QED BY <2>2, <3>2, <3>4, <4>1, <4>4
    <3> QED BY <3>6, <3>7, <3>5
  <2> QED BY <2>4, <2>5
<1>4. RightUpTo(n)
  BY <1>3
<1>5. EndOf(n, k, Len(s)) = Len(s)
  BY DEF EndOf
<1> QED BY <1>1, <1>4, <1>5, SubSeqFull

\* Which products a query is about.
LEMMA MatchedAre ==
    ASSUME ViewsTypeOK, NEW S \in SUBSET onSale
    PROVE  /\ S \in SUBSET Nat /\ IsFiniteSet(S) /\ Cardinality(S) \in Nat
           /\ \A p \in S : p \in Products
<1>1. S \in SUBSET Products
  BY DEF ViewsTypeOK
<1>2. IsFiniteSet(S)
  BY <1>1, ViewsAssumption, FS_Subset
<1> QED BY <1>1, <1>2, ViewsAssumption, FS_CardinalityType

\* The full pass leaves a page as the light pass has cut it.
LEMMA PageStays ==
    ASSUME ViewsTypeOK, NEW q, NEW n \in Nat \ {0}
    PROVE  PageOf(q, n) = SubSeq(Answer(q), (n - 1) * PerPage + 1, EndOf(n, PerPage, Total(q)))
<1>1. PICK S : S = Matched(q)
  OBVIOUS
<1>2. S \in SUBSET onSale
  BY <1>1 DEF Matched, LightPass, Selected
<1>3. q.diffs => \A p \in S : StoreDiffs(p, Compared(q)) # {}
  BY <1>1 DEF Matched, Filtered, LightPass
<1>4. PICK s : s = Answer(q)
  OBVIOUS
<1>5. s \in Seq(S)
  BY <1>1, <1>2, <1>4, MatchedAre, InOrderIs DEF Answer
<1>6. PICK T : T = {p \in Products : q.diffs => StoreDiffs(p, Compared(q)) # {}}
  OBVIOUS
<1>7. S \subseteq T
  BY <1>2, <1>3, <1>6, MatchedAre
<1>8. PICK page : page = OnPage(q, n)
  OBVIOUS
<1>9. page = SubSeq(s, (n - 1) * PerPage + 1, EndOf(n, PerPage, Len(s)))
  BY <1>4, <1>8 DEF OnPage, Total, EndOf
<1>10. page \in Seq(S)
  <2>1. PICK a, b : a = (n - 1) * PerPage + 1 /\ b = EndOf(n, PerPage, Len(s))
    OBVIOUS
  <2>2. a \in Nat \ {0} /\ b \in Int /\ b <= Len(s)
    <3>1. Len(s) \in Nat /\ n * PerPage \in Nat /\ (n - 1) * PerPage \in Nat
      BY <1>5, ViewsAssumption
    <3> QED BY <2>1, <3>1 DEF EndOf
  <2>3. \A i \in a..b : s[i] \in S
    BY <1>5, <2>2
  <2> QED BY <1>9, <2>1, <2>2, <2>3, SubSeqProperties
<1>11. ToSet(page) \subseteq T
  BY <1>7, <1>10 DEF ToSet
<1>12. Only(page, T) = page
  BY <1>10, <1>11, OnlyIs
<1> QED BY <1>4, <1>6, <1>8, <1>9, <1>12 DEF PageOf, Total

\* routes.py:423,540: for any catalogue, any query and any page length, the
\* pages put together are the answer.
THEOREM PagesCover == ViewsSpec => []PagesCoverOnce
<1>1. ASSUME ViewsTypeOK, NEW q \in Queries
      PROVE  FlattenSeq([n \in 1..LastPage(q) |-> PageOf(q, n)]) = Answer(q)
  <2>1. PICK s, k, n : s = Answer(q) /\ k = PerPage /\ n = LastPage(q)
    OBVIOUS
  <2>2. PICK S : S = Matched(q)
    OBVIOUS
  <2>3. s \in Seq(S)
    <3>1. S \in SUBSET onSale
      BY <2>2 DEF Matched, LightPass, Selected
    <3> QED BY <1>1, <2>1, <2>2, <3>1, MatchedAre, InOrderIs DEF Answer
  <2>4. k \in Nat \ {0} /\ Len(s) \in Nat
    BY <2>1, <2>3, ViewsAssumption
  <2>5. n \in Nat \ {0} /\ n * k >= Len(s)
    <3>1. n = IF Len(s) = 0 THEN 1 ELSE (Len(s) + k - 1) \div k
      BY <2>1 DEF LastPage, Total
    <3>2. CASE Len(s) = 0
      BY <2>4, <3>1, <3>2
    <3>3. CASE Len(s) # 0
      <4>1. PICK a : a = Len(s) + k - 1
        OBVIOUS
      <4>2. a \in Nat /\ a >= k
        BY <2>4, <3>3, <4>1
      <4>3. a \div k \in Nat /\ a < (a \div k) * k + k
        BY <2>4, <4>2
      <4>4. n = a \div k /\ n \in Nat
        BY <3>1, <3>3, <4>1, <4>3
      <4>5. n * k \in Nat /\ a < n * k + k
        BY <2>4, <4>3, <4>4
      <4>6. n * k >= Len(s)
        BY <2>4, <4>1, <4>5
      <4>7. n # 0
        BY <2>4, <3>3, <4>5, <4>2
      <4> QED BY <4>4, <4>6, <4>7
    <3> QED BY <3>2, <3>3
  <2>6. PICK pages : pages = [i \in 1..n |-> PageOf(q, i)]
    OBVIOUS
  <2>7. \A i \in 1..n : PageOf(q, i) = SubSeq(s, (i - 1) * k + 1, EndOf(i, k, Len(s)))
    <3>1. \A i \in 1..n : i \in Nat \ {0}
      BY <2>5
    <3> QED BY <1>1, <2>1, <3>1, PageStays DEF Total
  <2>8. pages = [i \in 1..n |-> SubSeq(s, (i - 1) * k + 1, EndOf(i, k, Len(s)))]
    BY <2>6, <2>7
  <2>9. FlattenSeq(pages) = s
    BY <2>3, <2>4, <2>5, <2>8, PagesJoin, Zenon
  <2> QED BY <2>1, <2>6, <2>9
<1>2. ViewsTypeOK => PagesCoverOnce
  BY <1>1, Zenon DEF PagesCoverOnce
<1> QED BY <1>2, ViewsTypeCorrect, PTL

\* More than one of two things is known if they differ and both are; `nothing'
\* is what stands for nothing.
LEMMA TwoKnown ==
    ASSUME NEW a, NEW b, NEW nothing
    PROVE  Cardinality({a, b} \ nothing) > 1 <=> a # b /\ a \notin nothing /\ b \notin nothing
<1>1. CASE a # b /\ a \notin nothing /\ b \notin nothing
  <2>1. {a, b} \ nothing = {a} \cup {b}
    BY <1>1
  <2>2. Cardinality({a} \cup {b}) = 2
    <3>1. IsFiniteSet({a}) /\ Cardinality({a}) = 1 /\ b \notin {a}
      BY <1>1, FS_Singleton
    <3> QED BY <3>1, FS_AddElement
  <2> QED BY <1>1, <2>1, <2>2
<1>2. CASE ~(a # b /\ a \notin nothing /\ b \notin nothing)
  <2>1. PICK T : T = {a, b} \ nothing
    OBVIOUS
  <2>2. T = {} \/ T = {a} \/ T = {b}
    BY <1>2, <2>1
  <2>3. Cardinality(T) = 0 \/ Cardinality(T) = 1
    BY <2>2, FS_Singleton, FS_EmptySet
  <2> QED BY <1>2, <2>1, <2>3
<1> QED BY <1>1, <1>2

\* Of one thing no more than one is known.
LEMMA OneKnown ==
    ASSUME NEW a, NEW nothing
    PROVE  ~(Cardinality({a} \ nothing) > 1)
<1>1. Cardinality({a} \ nothing) = 0 \/ Cardinality({a} \ nothing) = 1
  <2>1. {a} \ nothing = {} \/ {a} \ nothing = {a}
    OBVIOUS
  <2> QED BY <2>1, FS_Singleton, FS_EmptySet
<1> QED BY <1>1

\* A text differs between two listings if it is not the same in lower case.
LEMMA TextOfTwo ==
    ASSUME NEW a, NEW b, NEW f
    PROVE  TextDiffers(f, {a, b}) <=> Normal[a[f]] # Normal[b[f]]
<1>1. PICK m, n : m = Normal[a[f]] /\ n = Normal[b[f]]
  OBVIOUS
<1>2. {Normal[c[f]] : c \in {a, b}} = {m, n}
  BY <1>1
<1>3. Cardinality({m, n} \ {None}) > 1 <=> m # n /\ m # None /\ n # None
  BY TwoKnown
<1>4. TextDiffers(f, {a, b}) <=>
        Cardinality({m, n} \ {None}) > 1 \/ ({m, n} \ {None} # {} /\ None \in {m, n})
  BY <1>2 DEF TextDiffers
<1> QED BY <1>1, <1>3, <1>4

\* Store Compare finds what differs between two stores that both carry p.
LEMMA BothCarry ==
    ASSUME NEW p, NEW s \in CompareStores, NEW t \in CompareStores,
           Carries(p, s), Carries(p, t),
           NEW a, NEW b, a = LatestAt(p, s), b = LatestAt(p, t)
    PROVE  StoreDiffs(p, {s, t}) # {} <=>
             \/ Normal[a.text] # Normal[b.text]
             \/ Normal[a.category] # Normal[b.category]
             \/ a.price # b.price /\ {a.price, b.price} \cap Priceless = {}
<1>1. PICK listings : listings = {LatestAt(p, x) : x \in Carriers(p) \cap {s, t}}
  OBVIOUS
<1>2. listings = {a, b}
  <2>1. Carriers(p) \cap {s, t} = {s, t}
    BY DEF Carriers
  <2> QED BY <1>1, <2>1
<1>3. PICK prices : prices = {c.price : c \in listings} \ Priceless
  OBVIOUS
<1>4. Cardinality(prices) > 1 <=> a.price # b.price /\ {a.price, b.price} \cap Priceless = {}
  <2>1. prices = {a.price, b.price} \ Priceless
    BY <1>2, <1>3
  <2>2. PICK v, w : v = a.price /\ w = b.price
    OBVIOUS
  <2>3. Cardinality({v, w} \ Priceless) > 1 <=> v # w /\ v \notin Priceless /\ w \notin Priceless
    BY TwoKnown
  <2> QED BY <2>1, <2>2, <2>3
<1>5. StoreDiffs(p, {s, t}) = {f \in {"text", "category"} : TextDiffers(f, listings)}
                                \cup {f \in {"price"} : Cardinality(prices) > 1}
  BY <1>1, <1>3 DEF StoreDiffs
<1>6. StoreDiffs(p, {s, t}) # {} <=> \/ TextDiffers("text", listings)
                                    \/ TextDiffers("category", listings)
                                    \/ Cardinality(prices) > 1
  BY <1>5
<1>7. /\ TextDiffers("text", listings) <=> Normal[a["text"]] # Normal[b["text"]]
      /\ TextDiffers("category", listings) <=> Normal[a["category"]] # Normal[b["category"]]
  BY <1>2, TextOfTwo
<1> QED BY <1>4, <1>6, <1>7

\* Between two stores of which one carries p nothing differs.
LEMMA OneCarries ==
    ASSUME NEW p, NEW s \in CompareStores, NEW pair, s \in pair, Carries(p, s),
           \A x \in pair : Carries(p, x) => x = s
    PROVE  StoreDiffs(p, pair) = {}
<1>1. PICK listings, a : /\ listings = {LatestAt(p, x) : x \in Carriers(p) \cap pair}
                         /\ a = LatestAt(p, s)
  OBVIOUS
<1>2. listings = {a, a}
  <2>1. Carriers(p) \cap pair = {s}
    BY DEF Carriers
  <2> QED BY <1>1, <2>1
<1>3. ~TextDiffers("text", listings) /\ ~TextDiffers("category", listings)
  BY <1>2, TextOfTwo
<1>4. PICK prices : prices = {c.price : c \in listings} \ Priceless
  OBVIOUS
<1>5. ~(Cardinality(prices) > 1)
  <2>1. prices = {a.price} \ Priceless
    BY <1>2, <1>4
  <2> QED BY <2>1, OneKnown
<1>6. StoreDiffs(p, pair) = {f \in {"text", "category"} : TextDiffers(f, listings)}
                              \cup {f \in {"price"} : Cardinality(prices) > 1}
  BY <1>1, <1>4 DEF StoreDiffs
<1> QED BY <1>3, <1>5, <1>6

\* What is missing at one store, and what is extra, by either page.
LEMMA MissingAgreement ==
    ASSUME ViewsTypeOK, NEW s \in CompareStores, NEW t \in CompareStores
    PROVE  MissingAgrees(s, t)
<1>1. s # None /\ t # None
  BY ViewsAssumption
<1>2. ASSUME NEW x \in {s, t},
             NEW q, q = [pair |-> {s, t}, source |-> None, missing |-> x, diffs |-> FALSE]
      PROVE  LightPass(q) = {p \in onSale : (Carries(p, s) \/ Carries(p, t)) /\ ~Carries(p, x)}
  BY <1>1, <1>2 DEF LightPass, Selected
<1>3. SoRMissing(s, t) =
        LightPass([pair |-> {s, t}, source |-> None, missing |-> t, diffs |-> FALSE])
  <2>1. PICK q : q = [pair |-> {s, t}, source |-> None, missing |-> t, diffs |-> FALSE]
    OBVIOUS
  <2>2. LightPass(q) = {p \in onSale : (Carries(p, s) \/ Carries(p, t)) /\ ~Carries(p, t)}
    BY <1>2, <2>1
  <2> QED BY <2>1, <2>2 DEF SoRMissing
<1>4. SoRExtra(s, t) =
        LightPass([pair |-> {s, t}, source |-> None, missing |-> s, diffs |-> FALSE])
  <2>1. PICK q : q = [pair |-> {s, t}, source |-> None, missing |-> s, diffs |-> FALSE]
    OBVIOUS
  <2>2. LightPass(q) = {p \in onSale : (Carries(p, s) \/ Carries(p, t)) /\ ~Carries(p, s)}
    BY <1>2, <2>1
  <2> QED BY <2>1, <2>2 DEF SoRExtra
<1> QED BY <1>3, <1>4 DEF MissingAgrees

\* More than one value is known of a field that two stores tell differently.
LEMMA DomainTold ==
    ASSUME NEW p, NEW s \in CompareStores, NEW t \in CompareStores, s # t,
           Carries(p, s), Carries(p, t), NEW f \in {"text", "price"},
           LatestAt(p, s)[f] # LatestAt(p, t)[f],
           None \notin {LatestAt(p, s)[f], LatestAt(p, t)[f]}
    PROVE  Cardinality(Carriers(p)) >= 2 /\ f \in DomainDiffs(p)
<1>1. IsFiniteSet(Carriers(p))
  <2>1. IsFiniteSet({StoreOf[l] : l \in Offers})
    <3>1. IsFiniteSet(Offers)
      BY ViewsAssumption
    <3>2. PICK g, R : g = [l \in Offers |-> StoreOf[l]] /\ R = {StoreOf[l] : l \in Offers}
      OBVIOUS
    <3>3. g \in Surjection(Offers, R)
      BY <3>2 DEF Surjection
    <3> QED BY <3>1, <3>2, <3>3, FS_Surjection
  <2>2. IsFiniteSet(CompareStores)
    BY <2>1, ViewsAssumption, FS_Union DEF CompareStores
  <2>3. Carriers(p) \in SUBSET CompareStores
    BY DEF Carriers
  <2> QED BY <2>2, <2>3, FS_Subset
<1>2. {s, t} \subseteq Carriers(p)
  BY DEF Carriers
<1>3. Cardinality(Carriers(p)) >= 2
  <2>1. {s, t} \ {} = {s, t}
    OBVIOUS
  <2>2. Cardinality({s, t} \ {}) > 1
    BY TwoKnown
  <2>3. Cardinality({s, t}) <= Cardinality(Carriers(p)) /\ Cardinality(Carriers(p)) \in Nat
    BY <1>1, <1>2, FS_Subset, FS_CardinalityType
  <2>4. Cardinality({s, t}) \in Nat
    BY <1>1, <1>2, FS_Subset, FS_CardinalityType
  <2> QED BY <2>1, <2>2, <2>3, <2>4
<1>4. PICK V : V = {LatestAt(p, x)[f] : x \in Carriers(p)}
  OBVIOUS
<1>5. IsFiniteSet(V)
  <2>1. PICK g : g = [x \in Carriers(p) |-> LatestAt(p, x)[f]]
    OBVIOUS
  <2>2. g \in Surjection(Carriers(p), V)
    BY <1>4, <2>1 DEF Surjection
  <2> QED BY <1>1, <2>2, FS_Surjection
<1>6. PICK a, b : a = LatestAt(p, s)[f] /\ b = LatestAt(p, t)[f]
  OBVIOUS
<1>7. {a, b} \ {None} \in SUBSET (V \ {None}) /\ a # b /\ a # None /\ b # None
  BY <1>2, <1>4, <1>6
<1>8. Cardinality(V \ {None}) > 1
  <2>1. IsFiniteSet(V \ {None})
    BY <1>5, FS_Difference
  <2>2. Cardinality({a, b} \ {None}) > 1
    <3>1. a \notin {None} /\ b \notin {None} /\ a # b
      BY <1>7
    <3> QED BY <3>1, TwoKnown
  <2>3. /\ Cardinality({a, b} \ {None}) <= Cardinality(V \ {None})
        /\ Cardinality({a, b} \ {None}) \in Nat /\ Cardinality(V \ {None}) \in Nat
    BY <1>7, <2>1, FS_Subset, FS_CardinalityType
  <2> QED BY <2>2, <2>3
<1> QED BY <1>3, <1>4, <1>8 DEF DomainDiffs

\* Fields that System of Record finds different are written differently.
LEMMA SoRTold ==
    ASSUME NEW p, NEW s, NEW t, NEW f \in SoRDiffs(p, s, t)
    PROVE  f \in {"text", "price"} /\ LatestAt(p, s)[f] # LatestAt(p, t)[f]
BY DEF SoRDiffs, Normed

\* What System of Record finds different between two stores that both carry p.
LEMMA SoRFinds ==
    ASSUME NEW p, NEW s, NEW t, NEW a, NEW b, a = LatestAt(p, s), b = LatestAt(p, t)
    PROVE  /\ "text" \in SoRDiffs(p, s, t) <=> Normal[a.text] # Normal[b.text]
           /\ "price" \in SoRDiffs(p, s, t) <=> Cents[a.price] # Cents[b.price]
           /\ SoRDiffs(p, s, t) \subseteq {"text", "price"}
BY DEF SoRDiffs, Normed

\* What differs, by the three pages.
LEMMA DifferingAgreement ==
    ASSUME NEW s \in CompareStores, NEW t \in CompareStores, s # t
    PROVE  DifferingAgrees(s, t)
<1> DEFINE recategorised(p) == Normal[LatestAt(p, s).category] # Normal[LatestAt(p, t).category]
           priced(p) == {LatestAt(p, s).price, LatestAt(p, t).price} \cap Priceless = {}
           repriced(p) == LatestAt(p, s).price # LatestAt(p, t).price
<1>1. PICK q, compared, both :
        /\ q = [pair |-> {s, t}, source |-> None, missing |-> None, diffs |-> TRUE]
        /\ compared = LightPass(q)
        /\ both = {p \in onSale : Carries(p, s) /\ Carries(p, t)}
  OBVIOUS
<1>2. compared = {p \in onSale : /\ Carries(p, s) \/ Carries(p, t)
                                 /\ StoreDiffs(p, {s, t}) # {}}
  BY <1>1 DEF LightPass, Selected, Compared
<1>3. compared \subseteq both
  <2>1. ASSUME NEW p, Carries(p, s), ~Carries(p, t) PROVE StoreDiffs(p, {s, t}) = {}
    <3>1. \A x \in {s, t} : Carries(p, x) => x = s
      BY <2>1
    <3> QED BY <2>1, <3>1, OneCarries
  <2>2. ASSUME NEW p, Carries(p, t), ~Carries(p, s) PROVE StoreDiffs(p, {s, t}) = {}
    <3>1. \A x \in {s, t} : Carries(p, x) => x = t
      BY <2>2
    <3> QED BY <2>2, <3>1, OneCarries
  <2> QED BY <1>1, <1>2, <2>1, <2>2
<1>4. ASSUME NEW p \in both
      PROVE  /\ p \in compared <=> \/ "text" \in SoRDiffs(p, s, t)
                                   \/ recategorised(p)
                                   \/ repriced(p) /\ priced(p)
             /\ p \in SoRDiffering(s, t) <=> SoRDiffs(p, s, t) # {}
             /\ SoRDiffs(p, s, t) \subseteq {"text", "price"}
             /\ "price" \in SoRDiffs(p, s, t) => repriced(p)
  <2>1. PICK a, b : a = LatestAt(p, s) /\ b = LatestAt(p, t)
    OBVIOUS
  <2>2. p \in onSale /\ Carries(p, s) /\ Carries(p, t)
    BY <1>1
  <2>3. p \in compared <=> \/ Normal[a.text] # Normal[b.text]
                           \/ Normal[a.category] # Normal[b.category]
                           \/ a.price # b.price /\ {a.price, b.price} \cap Priceless = {}
    BY <1>2, <2>1, <2>2, BothCarry
  <2>4. p \in SoRDiffering(s, t) <=> SoRDiffs(p, s, t) # {}
    BY <2>2 DEF SoRDiffering, SaysElse
  <2>5. /\ "text" \in SoRDiffs(p, s, t) <=> Normal[a.text] # Normal[b.text]
        /\ "price" \in SoRDiffs(p, s, t) <=> Cents[a.price] # Cents[b.price]
        /\ SoRDiffs(p, s, t) \subseteq {"text", "price"}
    BY <2>1, SoRFinds
  <2> QED BY <2>1, <2>3, <2>4, <2>5
<1>5. compared \ SoRDiffering(s, t) =
        {p \in both : ~SaysElse(p, s, t) /\ (recategorised(p) \/ (priced(p) /\ repriced(p)))}
  <2>1. \A p \in both : ~SaysElse(p, s, t) <=> SoRDiffs(p, s, t) = {}
    BY DEF SaysElse
  <2> HIDE DEF recategorised, priced, repriced
  <2> QED BY <1>3, <1>4, <2>1
<1>6. SoRDiffering(s, t) \ compared =
        {p \in both : SoRDiffs(p, s, t) = {"price"} /\ ~priced(p) /\ ~recategorised(p)}
  <2>1. SoRDiffering(s, t) \subseteq both
    BY <1>1 DEF SoRDiffering
  <2> HIDE DEF recategorised, priced, repriced
  <2>2. ASSUME NEW p \in both
        PROVE  p \in SoRDiffering(s, t) /\ p \notin compared <=>
                 SoRDiffs(p, s, t) = {"price"} /\ ~priced(p) /\ ~recategorised(p)
    BY <1>4
  <2> QED BY <2>1, <2>2
<1>7. ASSUME NEW p \in both, NEW f \in SoRDiffs(p, s, t),
             None \notin {LatestAt(p, s)[f], LatestAt(p, t)[f]}
      PROVE  p \in DomainComparison /\ f \in DomainDiffs(p)
  <2>1. p \in onSale /\ Carries(p, s) /\ Carries(p, t)
    BY <1>1
  <2>2. f \in {"text", "price"} /\ LatestAt(p, s)[f] # LatestAt(p, t)[f]
    BY SoRTold
  <2>3. Cardinality(Carriers(p)) >= 2 /\ f \in DomainDiffs(p)
    BY <1>7, <2>1, <2>2, DomainTold
  <2> QED BY <2>1, <2>3 DEF DomainComparison
<1> QED BY <1>1, <1>5, <1>6, <1>7 DEF DifferingAgrees

\* What may be the same after all: the scorer gives 5 to what is disqualified,
\* and no store that has one of the two has the other.
LEMMA AlikeAgreement ==
    ASSUME ViewsTypeOK, NEW s \in CompareStores, NEW t \in CompareStores
    PROVE  ProposedAreAlike(s, t)
<1> SUFFICES ASSUME NEW p \in Products, NEW c \in Products, <<p, c>> \in FuzzyPairs(s, t, 60)
             PROVE  /\ p # c
                    /\ \A f \in {"model", "sku"} :
                          Facts[p][f] = Facts[c][f] \/ None \in {Facts[p][f], Facts[c][f]}
                    /\ {p, c} \cap {z \in Products : {s, t} \subseteq Carriers(z)} = {}
  BY DEF ProposedAreAlike
<1>1. p \in SoRMissing(s, t) /\ c \in SoRExtra(s, t) /\ c \in Acceptable(p, s, t, 60)
  BY DEF FuzzyPairs
<1>2. Confidence(Facts[p], Facts[c]) >= 60
  BY <1>1 DEF Acceptable
<1>3. ~Disqualified(Facts[p], Facts[c])
  <2>1. Disqualified(Facts[p], Facts[c]) => Confidence(Facts[p], Facts[c]) = 5
    BY DEF Confidence
  <2> QED BY <1>2, <2>1
<1>4. Carries(p, s) /\ ~Carries(p, t) /\ Carries(c, t) /\ ~Carries(c, s)
  BY <1>1 DEF SoRMissing, SoRExtra
<1>5. p # c /\ t \notin Carriers(p) /\ s \notin Carriers(c)
  BY <1>4 DEF Carriers
<1>6. \A f \in {"model", "sku"} :
         Facts[p][f] = Facts[c][f] \/ None \in {Facts[p][f], Facts[c][f]}
  BY <1>3 DEF Disqualified, Both
<1> QED BY <1>5, <1>6

\* A number of the summary, and the list behind it.
LEMMA SummaryAgreement ==
    ASSUME ViewsTypeOK, NEW s \in Columns
    PROVE  SummaryDrillsDown(s)
<1>1. PICK q : q = [pair |-> {}, source |-> None, missing |-> s, diffs |-> FALSE]
  OBVIOUS
<1>2. PICK here : here = {p \in onSale : Carries(p, s)}
  OBVIOUS
<1>3. Matched(q) = onSale \ here
  <2>1. s # None
    BY ViewsAssumption DEF CompareStores
  <2> QED BY <1>1, <1>2, <2>1 DEF Matched, Filtered, LightPass, Selected
<1>4. IsFiniteSet(onSale) /\ Cardinality(onSale) \in Nat
  BY MatchedAre
<1>5. Total(q) = Cardinality(onSale \ here)
  <2>1. onSale \ here \in SUBSET Nat /\ IsFiniteSet(onSale \ here)
    BY <1>2, MatchedAre
  <2> QED BY <1>3, <2>1, InOrderIs DEF Total, Answer
<1>6. /\ here \cap onSale = here /\ Catalogued \cap onSale = Catalogued
      /\ onSale \cap here = here /\ onSale \cap Catalogued = Catalogued
  BY <1>2 DEF Catalogued
<1>7. /\ Cardinality(onSale \ here) = Cardinality(onSale) - Cardinality(here)
      /\ Cardinality(onSale \ Catalogued) = Cardinality(onSale) - Cardinality(Catalogued)
  <2>1. ASSUME NEW T PROVE Cardinality(onSale \ T) = Cardinality(onSale) - Cardinality(onSale \cap T)
    BY <1>4, FS_Difference
  <2>2. Cardinality(onSale \ here) = Cardinality(onSale) - Cardinality(onSale \cap here)
    BY <2>1
  <2>3. Cardinality(onSale \ Catalogued) = Cardinality(onSale) - Cardinality(onSale \cap Catalogued)
    BY <2>1
  <2> QED BY <1>6, <2>2, <2>3
<1>8. Present(s) = Cardinality(here) /\ SummaryMissing(s) = Cardinality(Catalogued) - Cardinality(here)
  BY <1>2 DEF Present, SummaryMissing
<1>9. Cardinality(here) \in Nat /\ Cardinality(Catalogued) \in Nat
  <2>1. here \in SUBSET onSale /\ Catalogued \in SUBSET onSale
    BY <1>2 DEF Catalogued
  <2> QED BY <2>1, MatchedAre
<1>10. Total(q) = SummaryMissing(s) + Cardinality(onSale \ Catalogued)
  BY <1>4, <1>5, <1>7, <1>8, <1>9
<1> QED BY <1>1, <1>10 DEF SummaryDrillsDown

\* routes.py:470,579,1719,1942,1991: for any catalogue, whatever scans, merges
\* and edits make of it, Store Compare, its summary, System of Record, its fuzzy
\* pairs and Domain Comparison say the same of any two stores, but for what only
\* Store Compare looks at (the category, prices less than a cent apart) or does
\* not take for a price (0).
THEOREM PagesTellTheSame == ViewsSpec => []PagesAgree
<1>1. ViewsTypeOK => PagesAgree
  BY MissingAgreement, DifferingAgreement, AlikeAgreement, SummaryAgreement DEF PagesAgree
<1> QED BY <1>1, ViewsTypeCorrect, PTL

-----------------------------------------------------------------------------
(* The server *)

LEMMA FirstStates ==
    ASSUME ServerInit
    PROVE  /\ SchedInit /\ TokenInit /\ SettingsInit /\ BcInit
           /\ CrawlInit /\ ViewsInit /\ PriceInit /\ HooksInit
BY DEF ServerInit

\* Nothing moves: no part does.
LEMMA Stutters ==
    ASSUME UNCHANGED serverVars
    PROVE  /\ UNCHANGED schedVars /\ UNCHANGED tokenVars /\ UNCHANGED settingVars
           /\ UNCHANGED bcVars /\ UNCHANGED crawlVars /\ UNCHANGED viewVars
           /\ UNCHANGED priceVars /\ UNCHANGED hookVars
BY DEF serverVars

\* A step of the server is a step of the part in focus, the others stand still.
LEMMA Steps ==
    ASSUME [ServerNext]_serverVars
    PROVE  /\ [SchedNext]_schedVars /\ [TokenNext]_tokenVars
           /\ [SettingsNext]_settingVars /\ [BcNext]_bcVars
           /\ [CrawlNext]_crawlVars /\ [ViewsNext]_viewVars
           /\ [PriceNext]_priceVars /\ [HooksNext]_hookVars
<1>1. CASE UNCHANGED serverVars
  BY <1>1, Stutters
<1>2. CASE ServerNext
  BY <1>2 DEF ServerNext, Rest
<1> QED BY <1>1, <1>2

\* app.py: the parts run in one process and none reads or writes what another
\* one keeps, so each of them behaves as if it were alone.
THEOREM PartsAreUndisturbed ==
    ServerSpec => /\ SchedSpec /\ TokenSpec /\ SettingsSpec /\ BcSpec
                  /\ CrawlSpec /\ ViewsSpec /\ PriceSpec /\ HooksSpec
BY FirstStates, Steps, PTL
   DEF ServerSpec, SchedSpec, TokenSpec, SettingsSpec, BcSpec, CrawlSpec, ViewsSpec,
       PriceSpec, HooksSpec

\* app.py, as a whole: whatever part moves, every part holds what its variables
\* are meant to hold.
THEOREM ServerTypeCorrect == ServerSpec => []ServerTypeOK
<1>1. ServerSpec => [](focus \in Parts)
  <2>1. ServerInit => focus \in Parts
    BY DEF ServerInit
  <2>2. focus \in Parts /\ [ServerNext]_serverVars => (focus \in Parts)'
    BY DEF ServerNext, serverVars
  <2> QED BY <2>1, <2>2, PTL DEF ServerSpec
<1>2. ServerSpec => [](/\ SchedTypeOK /\ TokenTypeOK /\ SettingsTypeOK /\ BcTypeOK
                       /\ CrawlTypeOK /\ ViewsTypeOK /\ PriceTypeOK /\ HooksTypeOK)
  BY PartsAreUndisturbed, SchedTypeCorrect, TokenTypeCorrect, SettingsTypeCorrect,
     BcTypeCorrect, CrawlTypeCorrect, ViewsTypeCorrect, PriceTypeCorrect,
     HooksTypeCorrect, PTL
<1> QED BY <1>1, <1>2, PTL DEF ServerTypeOK

\* The server's registry follows its table of jobs, its requests get tokens that
\* serve, its broadcasts reach the sockets that stay open, its crawls are complete
\* and count every product, the pages that compare stores agree and show every
\* product once, its canonical prices are real and follow the system of record,
\* and its webhooks are neither lost nor doubled, under the conditions each of
\* these properties states and whatever the server's other parts do in between.
THEOREM ServerKeepsItsWord ==
    ServerSpec => [](/\ RegistryFollowsTable
                     /\ TokenServes
                     /\ ReachesTheOpen
                     /\ WholeSiteSeen
                     /\ EveryUrlCounted
                     /\ PagesAgree
                     /\ PagesCoverOnce
                     /\ CanonicalIsReal
                     /\ SoRDriftBounded
                     /\ NoWebhookLost
                     /\ NoDuplicate)
BY PartsAreUndisturbed, RegistrySound, TokensServe, BroadcastsReach, CrawlsAreComplete,
   UrlsAreCounted, PagesTellTheSame, PagesCover, PricesAreReal, SoRPricesHold,
   WebhooksKept, NoSecondWebhook, PTL

\* A source site comes and goes in the server's settings with the requests that
\* want it to, as long as no removal has met another request, or with a restart
\* that finds a save cut short or overlapped, whatever its other parts do in
\* between.
THEOREM ServerKeepsItsSites == ServerSpec => SitesStay
BY PartsAreUndisturbed, SitesAreKept
=============================================================================
