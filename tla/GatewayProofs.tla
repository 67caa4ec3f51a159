--------------------------- MODULE GatewayProofs ----------------------------
(***************************************************************************)
(* The safety properties of Gateway, for any repositories, budgets, times  *)
(* to live, number of retries and places in the semaphore: one inductive   *)
(* invariant, and what follows from it; another for the order of requests. *)
(***************************************************************************)
EXTENDS Gateway, FiniteSetTheorems, TLAPS

\* The requests of a listing and those for metadata are never made together: a
\* group is made ready when nothing is under way.
Staged ==
  /\ stage # "metadata" => \A r \in Repos : pc[r] = "off"
  /\ stage \in {"idle", "metadata"} => pc[Listing] = "off"

\* What is left of the budget is still allowed.
Solvent == used + remaining <= allowance

\* The ETag in a cache is of the facts beside it.
EtagOfFacts == \A r \in Repos : cache[r].etag = cache[r].facts /\ saved[r].etag = saved[r].facts

\* Between two checks there is the saved cache and no other.
Loaded == stage = "idle" => cache = saved /\ \A r \in Repos : said[r] = None

Kept ==
  /\ TypeOK
  /\ Staged
  /\ Solvent
  /\ ConcurrencyKept
  /\ BlockReported
  /\ CacheTruthful /\ EtagOfFacts /\ Loaded

-----------------------------------------------------------------------------
(* Numbers, requests and cache entries *)

\* What the constants are.
LEMMA Constants ==
  /\ TokenBudget \in Nat /\ AnonymousBudget \in Nat /\ AnonymousBudget <= TokenBudget
  /\ AnonymousTTL \in Nat /\ MaxRetries \in Nat /\ Concurrency \in Nat \ {0}
  /\ Repos \subseteq Requests /\ Listing \in Requests /\ Listing \notin Repos
  /\ None \notin Versions
BY GatewayAssumption DEF Requests, Listing

\* A budget is at most that of a check with a token.
LEMMA BudgetType == Budget(HasToken) \in 0..TokenBudget /\ AnonymousBudget \in 0..TokenBudget
BY Constants, GatewayAssumption DEF Budget

\* Which requests are under way is a finite set.
LEMMA UnderWayFinite == IsFiniteSet(UnderWay) /\ Cardinality(UnderWay) \in Nat
<1>1. IsFiniteSet(Repos \cup {Listing})
  BY GatewayAssumption, FS_AddElement
<1>2. UnderWay \subseteq Repos \cup {Listing}
  BY DEF UnderWay, Requests
<1> QED
  BY <1>1, <1>2, FS_Subset, FS_CardinalityType

\* A request that starts takes a place in that set, one that ends leaves it, and
\* whoever goes on between its attempts keeps it.
LEMMA UnderWayGrows ==
  ASSUME NEW r \in Requests, pc \in [Requests -> {"off", "waiting", "flying", "asleep"}],
         pc[r] \in {"off", "waiting"}, pc' = [pc EXCEPT ![r] = "flying"]
  PROVE  Cardinality(UnderWay') = Cardinality(UnderWay) + 1
<1>1. UnderWay' = UnderWay \cup {r} /\ r \notin UnderWay
  BY DEF UnderWay
<1> QED
  BY <1>1, UnderWayFinite, FS_AddElement

\* One that ends leaves it.
LEMMA UnderWayShrinks ==
  ASSUME NEW r \in Requests, pc \in [Requests -> {"off", "waiting", "flying", "asleep"}],
         pc[r] = "flying", pc' = [pc EXCEPT ![r] = "off"]
  PROVE  /\ Cardinality(UnderWay') = Cardinality(UnderWay) - 1
         /\ Cardinality(UnderWay) > 0
<1>1. UnderWay' = UnderWay \ {r} /\ r \in UnderWay
  BY DEF UnderWay
<1>2. Cardinality(UnderWay) # 0
  BY <1>1, UnderWayFinite, FS_EmptySet
<1>3. Cardinality(UnderWay \ {r}) = Cardinality(UnderWay) - 1
  BY <1>1, UnderWayFinite, FS_RemoveElement
<1> QED
  BY <1>1, <1>2, <1>3, UnderWayFinite

\* Whoever is under way before a move and after it stays in the set.
LEMMA UnderWayStays ==
  ASSUME NEW r \in Requests, pc \in [Requests -> {"off", "waiting", "flying", "asleep"}],
         NEW where \in {"off", "waiting", "flying", "asleep"},
         pc[r] \in {"off", "waiting"} <=> where \in {"off", "waiting"},
         pc' = [pc EXCEPT ![r] = where]
  PROVE  UnderWay' = UnderWay
BY DEF UnderWay

\* An older entry, or one that has been confirmed or replaced, is an entry.
LEMMA AgedEntry ==
  ASSUME NEW c \in Entries, NEW time \in 0..AnonymousTTL
  PROVE  /\ Aged(c, time) \in Entries
         /\ Aged(c, time).facts = c.facts /\ Aged(c, time).etag = c.etag
BY Constants DEF Entries, Aged, Lesser, Unknown

\* An entry that has been confirmed or replaced is of the version of the answer.
LEMMA RefreshedEntry ==
  ASSUME NEW c \in Entries, c.etag = c.facts, NEW version \in Versions
  PROVE  /\ Refreshed(c, version) \in Entries
         /\ Refreshed(c, version).facts = version
         /\ Refreshed(c, version).etag = version
BY Constants DEF Entries, Refreshed

-----------------------------------------------------------------------------
(* The steps *)

\* Before the first check nothing is asked, used or cached.
LEMMA KeptInit == Init => Kept
<1> SUFFICES ASSUME Init PROVE Kept
  OBVIOUS
<1>1. UnderWay = {}
  BY DEF Init, UnderWay
<1>2. ConcurrencyKept
  BY <1>1, Constants, FS_EmptySet DEF Init, ConcurrencyKept
<1>3. NoFacts \in Entries
  BY DEF NoFacts, Entries
<1>4. TypeOK
  <2>1. /\ remaining \in 0..TokenBudget /\ used \in 0..TokenBudget
        /\ allowance \in 0..TokenBudget /\ free \in 0..Concurrency
    BY Constants DEF Init
  <2>2. tries \in [Requests -> 0..MaxRetries]
    <3>1. 0 \in 0..MaxRetries
      BY Constants
    <3> QED
      BY <3>1 DEF Init
  <2>3. carries \in [Requests -> BOOLEAN] /\ token_mode \in BOOLEAN /\ blocked \in BOOLEAN
    BY Zenon DEF Init
  <2>4. /\ {cache, saved} \subseteq [Repos -> Entries]
        /\ {said, told} \subseteq [Repos -> Versions \cup {None}]
    BY <1>3 DEF Init
  <2>5. /\ stage \in {"idle", "lists", "metadata", "search"} /\ rate \in Statuses
        /\ pc \in [Requests -> {"off", "waiting", "flying", "asleep"}]
        /\ later \subseteq Repos /\ urgent \subseteq Repos
    BY DEF Init, Statuses
  <2> QED
    BY <2>1, <2>2, <2>3, <2>4, <2>5 DEF TypeOK
<1> QED
  BY <1>2, <1>4, Constants
  DEF Init, Kept, Staged, Solvent, BlockReported, CacheTruthful, Latest, EtagOfFacts, Loaded,
      NoFacts

\* A step of a check that leaves the caches alone.
LEMMA CacheStays ==
  ASSUME Kept, UNCHANGED <<cache, saved, said, told>>, stage' = "idle" => stage = "idle"
  PROVE  CacheTruthful' /\ EtagOfFacts' /\ Loaded'
BY DEF Kept, CacheTruthful, Latest, EtagOfFacts, Loaded

\* A check begins with its whole budget; the cache grows older.
LEMMA BeginRunStep == ASSUME Kept, BeginRun PROVE Kept'
<1> USE DEF Kept
<1>1. /\ \A r \in Repos : saved'[r].facts = saved[r].facts /\ saved'[r].etag = saved[r].etag
      /\ saved' \in [Repos -> Entries] /\ cache' = saved'
  <2>1. PICK time \in 0..AnonymousTTL : saved' = [r \in Repos |-> Aged(saved[r], time)]
    BY DEF BeginRun
  <2>2. \A r \in Repos : saved[r] \in Entries
    BY DEF TypeOK
  <2>3. cache' = saved'
    BY DEF BeginRun
  <2> QED
    BY <2>1, <2>2, <2>3, AgedEntry
<1>2. CacheTruthful' /\ EtagOfFacts' /\ Loaded'
  BY <1>1 DEF BeginRun, CacheTruthful, Latest, EtagOfFacts, Loaded
<1>3. TypeOK'
  <2>1. /\ remaining' \in 0..TokenBudget /\ allowance' \in 0..TokenBudget
        /\ used' \in 0..TokenBudget
    BY BudgetType, Constants DEF BeginRun
  <2>2. token_mode' \in BOOLEAN /\ blocked' \in BOOLEAN
    BY GatewayAssumption, Zenon DEF BeginRun
  <2>3. /\ stage' \in {"idle", "lists", "metadata", "search"} /\ rate' \in Statuses
        /\ urgent' \subseteq Repos
    BY DEF BeginRun, Statuses
  <2>4. UNCHANGED <<free, pc, carries, tries, later, said, told>>
    BY DEF BeginRun, calls
  <2> QED
    BY <1>1, <2>1, <2>2, <2>3, <2>4 DEF TypeOK
<1>4. Staged' /\ ConcurrencyKept'
  BY DEF BeginRun, Staged, ConcurrencyKept, UnderWay, calls
<1>5. Solvent' /\ BlockReported'
  BY BudgetType, Constants DEF BeginRun, Solvent, BlockReported
<1> QED
  BY <1>2, <1>3, <1>4, <1>5

\* A group is made ready while nothing is under way.
LEMMA GroupsStep ==
  ASSUME Kept, NEW first \in SUBSET Repos, NEW second \in SUBSET Repos,
         \A r \in Requests : pc[r] = "off", Groups(first, second),
         UNCHANGED <<free, carries, tries>>
  PROVE  /\ pc' \in [Requests -> {"off", "waiting", "flying", "asleep"}]
         /\ pc'[Listing] = "off" /\ later' \in SUBSET Repos
         /\ ConcurrencyKept'
<1>1. UnderWay' = UnderWay
  BY DEF Groups, UnderWay
<1> QED
  BY <1>1, Constants DEF Kept, Groups, ConcurrencyKept

\* The urgent requests are made ready.
LEMMA EnrichStep == ASSUME Kept, Enrich PROVE Kept'
<1> USE DEF Kept
<1>1. \A r \in Requests : pc[r] = "off"
  BY DEF Enrich, Staged, Requests
<1>2. PICK first \in SUBSET Repos, second \in SUBSET Repos :
        urgent' = first /\ Groups(first, second)
  BY DEF Enrich
<1>3. /\ pc' \in [Requests -> {"off", "waiting", "flying", "asleep"}]
      /\ pc'[Listing] = "off" /\ later' \in SUBSET Repos
      /\ ConcurrencyKept'
  BY <1>1, <1>2, GroupsStep DEF Enrich
<1>4. TypeOK' /\ Staged'
  BY <1>2, <1>3 DEF Enrich, TypeOK, Staged, budget
<1> QED
  BY <1>3, <1>4, CacheStays DEF Enrich, Solvent, BlockReported, budget

\* Then the others.
LEMMA NextGroupStep == ASSUME Kept, NextGroup PROVE Kept'
<1> USE DEF Kept
<1>1. \A r \in Requests : pc[r] = "off"
  BY DEF NextGroup, GroupDone, Staged, Requests
<1>2. later \in SUBSET Repos
  BY DEF TypeOK
<1>3. /\ pc' \in [Requests -> {"off", "waiting", "flying", "asleep"}]
      /\ pc'[Listing] = "off" /\ later' \in SUBSET Repos
      /\ ConcurrencyKept'
  BY <1>1, <1>2, GroupsStep DEF NextGroup
<1>4. TypeOK' /\ Staged'
  BY <1>3 DEF NextGroup, GroupDone, TypeOK, Staged, budget, history
<1> QED
  BY <1>3, <1>4, CacheStays DEF NextGroup, Solvent, BlockReported, budget, history

\* The metadata is complete, or given up.
LEMMA SearchStep == ASSUME Kept, Search PROVE Kept'
<1> USE DEF Kept
<1>1. TypeOK' /\ Staged'
  BY DEF Search, GroupDone, TypeOK, Staged, budget, calls, history
<1> QED
  BY <1>1, CacheStays
  DEF Search, Solvent, BlockReported, ConcurrencyKept, UnderWay, budget, calls, history

\* A check that is over has said nothing; what is on record is a version or none.
LEMMA OverStep ==
  ASSUME Kept, Over
  PROVE  /\ stage' = "idle" /\ urgent' \subseteq Repos
         /\ said' \in [Repos -> Versions \cup {None}] /\ \A r \in Repos : said'[r] = None
         /\ [r \in Repos |-> Latest(r)] \in [Repos -> Versions \cup {None}]
BY DEF Over, Kept, TypeOK, Latest

\* The check ends and its cache is saved.
LEMMA EndCheckStep == ASSUME Kept, EndCheck PROVE Kept'
<1> USE DEF Kept
<1>1. TypeOK' /\ Staged'
  BY OverStep DEF EndCheck, TypeOK, Staged, budget, calls
<1>2. CacheTruthful' /\ EtagOfFacts' /\ Loaded'
  BY OverStep DEF EndCheck, CacheTruthful, Latest, EtagOfFacts, Loaded
<1> QED
  BY <1>1, <1>2
  DEF EndCheck, Solvent, BlockReported, ConcurrencyKept, UnderWay, budget, calls

\* The check is lost: nobody is in the semaphore, and the cache is the saved one.
LEMMA AbandonStep == ASSUME Kept, Abandon PROVE Kept'
<1> USE DEF Kept
<1>1. ConcurrencyKept' /\ Staged'
  <2>1. UnderWay' = {}
    BY DEF Abandon, UnderWay
  <2>2. ConcurrencyKept'
    BY <2>1, Constants, FS_EmptySet DEF Abandon, ConcurrencyKept
  <2> QED
    BY <2>2, Constants DEF Abandon, Staged
<1>2. CacheTruthful' /\ EtagOfFacts' /\ Loaded'
  BY OverStep DEF Abandon, CacheTruthful, Latest, EtagOfFacts, Loaded
<1>3. TypeOK'
  <2>1. /\ free' \in 0..Concurrency /\ tries' \in [Requests -> 0..MaxRetries]
        /\ pc' \in [Requests -> {"off", "waiting", "flying", "asleep"}]
        /\ later' \subseteq Repos
    BY Constants DEF Abandon
  <2>2. carries' \in [Requests -> BOOLEAN]
    BY Zenon DEF Abandon
  <2>3. UNCHANGED <<token_mode, remaining, used, blocked, rate, saved, told, allowance>>
        /\ cache' = saved
    BY DEF Abandon, budget
  <2> QED
    BY <2>1, <2>2, <2>3, OverStep DEF Abandon, TypeOK
<1>4. Solvent' /\ BlockReported'
  BY DEF Abandon, Solvent, BlockReported, budget
<1> QED
  BY <1>1, <1>2, <1>3, <1>4

\* The semaphore and the budget pay for the request that passes.
LEMMA PassStep ==
  ASSUME Kept, NEW r \in Requests, pc[r] \in {"off", "waiting"}, Pass(r),
         r \in Repos => stage = "metadata", r = Listing => stage \in {"lists", "search"},
         UNCHANGED <<stage, later, cache, saved, said, told, allowance>>
  PROVE  Kept'
<1> USE DEF Kept
<1>1. ConcurrencyKept' /\ free' \in 0..Concurrency
  <2>1. Cardinality(UnderWay') = Cardinality(UnderWay) + 1
    BY UnderWayGrows DEF Pass, TypeOK
  <2> QED
    BY <2>1, UnderWayFinite, Constants DEF Pass, ConcurrencyKept, TypeOK
<1>2. Solvent' /\ used' \in 0..TokenBudget /\ remaining' \in 0..TokenBudget
  BY Constants DEF Pass, MayPass, Solvent, TypeOK
<1>3. TypeOK'
  BY <1>1, <1>2 DEF Pass, TypeOK
<1>4. Staged'
  BY Constants DEF Pass, Staged, TypeOK
<1>5. BlockReported'
  BY DEF Pass, BlockReported
<1> QED
  BY <1>1, <1>2, <1>3, <1>4, <1>5, CacheStays

\* A request that is refused, or goes on between two attempts, stays in or out of
\* the semaphore.
LEMMA MoveStep ==
  ASSUME Kept, NEW r \in Requests, NEW where \in {"off", "flying", "asleep"},
         pc[r] # "off",
         pc[r] = "waiting" <=> where = "off",
         pc' = [pc EXCEPT ![r] = where],
         carries' \in [Requests -> BOOLEAN], tries' \in [Requests -> 0..MaxRetries],
         UNCHANGED <<stage, budget, free, later, cache, saved, history>>
  PROVE  Kept'
<1> USE DEF Kept
<1>1. UnderWay' = UnderWay
  <2>1. pc[r] \in {"off", "waiting"} <=> where \in {"off", "waiting"}
    BY DEF TypeOK
  <2> QED
    BY <2>1, UnderWayStays DEF TypeOK
<1>2. TypeOK'
  BY DEF TypeOK, budget, history
<1>3. Staged'
  BY Constants DEF Staged, TypeOK
<1> QED
  BY <1>1, <1>2, <1>3, CacheStays
  DEF Solvent, BlockReported, ConcurrencyKept, budget, history

\* What Return does, to whoever it happens.
LEMMA ReturnStep ==
  ASSUME Kept, NEW r \in Requests, Return(r), UNCHANGED <<stage, later>>
  PROVE  /\ ConcurrencyKept' /\ Staged'
         /\ free' \in 0..Concurrency
         /\ pc' \in [Requests -> {"off", "waiting", "flying", "asleep"}]
         /\ carries' \in [Requests -> BOOLEAN] /\ tries' \in [Requests -> 0..MaxRetries]
<1> USE DEF Kept
<1>1. Cardinality(UnderWay') = Cardinality(UnderWay) - 1 /\ Cardinality(UnderWay) > 0
  BY UnderWayShrinks DEF Return, TypeOK
<1>2. ConcurrencyKept' /\ free' \in 0..Concurrency
  BY <1>1, UnderWayFinite, Constants DEF Return, ConcurrencyKept, TypeOK
<1>3. Staged'
  BY Constants DEF Return, Staged, TypeOK
<1> QED
  BY <1>2, <1>3, Constants DEF Return, TypeOK

\* What a refused token takes away of the budget is more than what it takes away
\* of the allowance.
LEMMA RecordStep ==
  ASSUME Kept, NEW class \in {"ok", "auth_failed", "rate_limited", "permission_denied", "http_error"},
         Record(class),
         allowance' = IF token_mode /\ class = "auth_failed" /\ ~blocked
                      THEN Greater(AnonymousBudget, used) ELSE allowance
  PROVE  /\ Solvent' /\ BlockReported'
         /\ token_mode' \in BOOLEAN /\ blocked' \in BOOLEAN /\ rate' \in Statuses
         /\ remaining' \in 0..TokenBudget /\ used' \in 0..TokenBudget
         /\ allowance' \in 0..TokenBudget
<1> USE DEF Kept
<1>1. /\ used \in Nat /\ remaining \in Nat /\ allowance \in Nat
      /\ used <= TokenBudget /\ remaining <= TokenBudget /\ allowance <= TokenBudget
      /\ used + remaining <= allowance
  BY Constants DEF TypeOK, Solvent
<1>2. CASE blocked \/ class # "auth_failed"
  <2>1. remaining' = remaining /\ used' = used /\ allowance' = allowance
    BY <1>2 DEF Record
  <2>2. token_mode' \in BOOLEAN /\ blocked' \in BOOLEAN
    BY Zenon DEF Record, TypeOK
  <2>3. rate' \in Statuses /\ BlockReported'
    <3>1. CASE blocked
      BY <3>1 DEF Record, TypeOK, BlockReported
    <3>2. CASE ~blocked
      BY <1>2, <3>2 DEF Record, TypeOK, BlockReported, Statuses
    <3> QED
      BY <3>1, <3>2
  <2> QED
    BY <1>1, <2>1, <2>2, <2>3, Constants DEF Solvent
<1>3. CASE ~blocked /\ class = "auth_failed"
  <2>1. remaining' = Lesser(remaining, Greater(0, AnonymousBudget - used)) /\ used' = used
    BY <1>3 DEF Record
  <2>2. remaining' \in Nat /\ remaining' <= remaining
    BY <1>1, <2>1, Constants DEF Lesser, Greater
  <2>3. used + remaining' <= allowance'
    BY <1>1, <1>3, <2>1, Constants DEF Lesser, Greater
  <2>4. allowance' \in Nat /\ allowance' <= TokenBudget
    BY <1>1, <1>3, Constants DEF Greater
  <2>5. token_mode' \in BOOLEAN /\ blocked' \in BOOLEAN
    BY <1>3, Zenon DEF Record
  <2>6. rate' \in Statuses /\ BlockReported'
    BY <1>3 DEF Record, BlockReported, Statuses
  <2>7. /\ Solvent' /\ remaining' \in 0..TokenBudget /\ used' \in 0..TokenBudget
        /\ allowance' \in 0..TokenBudget
    BY <1>1, <2>1, <2>2, <2>3, <2>4, Constants DEF Solvent
  <2> QED
    BY <2>5, <2>6, <2>7
<1> QED
  BY <1>2, <1>3

\* The cache takes the version of the answer, or nothing.
LEMMA EnterStep ==
  ASSUME Kept, NEW r \in Requests, NEW class, Enter(r, class), stage # "idle",
         UNCHANGED <<stage, saved, told>>
  PROVE  /\ CacheTruthful' /\ EtagOfFacts' /\ Loaded'
         /\ cache' \in [Repos -> Entries]
         /\ said' \in [Repos -> Versions \cup {None}]
<1> USE DEF Kept
<1>0. cache \in [Repos -> Entries] /\ said \in [Repos -> Versions \cup {None}]
  BY DEF TypeOK
<1>1. CASE UNCHANGED <<cache, said>>
  BY <1>0, <1>1, CacheStays
<1>2. CASE /\ class = "ok" /\ r \in Repos
           /\ \E version \in Versions :
                /\ cache' = [cache EXCEPT ![r] = Refreshed(@, version)]
                /\ said' = [said EXCEPT ![r] = version]
  <2>1. PICK version \in Versions :
          /\ cache' = [cache EXCEPT ![r] = Refreshed(cache[r], version)]
          /\ said' = [said EXCEPT ![r] = version]
    BY <1>2
  <2>2. cache[r] \in Entries /\ cache[r].etag = cache[r].facts
    BY <1>0, <1>2 DEF EtagOfFacts
  <2>3. /\ Refreshed(cache[r], version) \in Entries
        /\ Refreshed(cache[r], version).facts = version
        /\ Refreshed(cache[r], version).etag = version
    BY <2>2, RefreshedEntry
  <2> DEFINE entry == Refreshed(cache[r], version)
  <2> HIDE DEF entry
  <2>4. cache' = [cache EXCEPT ![r] = entry] /\ entry \in Entries
        /\ entry.facts = version /\ entry.etag = version
    BY <2>1, <2>3 DEF entry
  <2>5. version # None
    BY Constants
  <2> QED
    BY <1>0, <1>2, <2>1, <2>4, <2>5 DEF CacheTruthful, Latest, EtagOfFacts, Loaded
<1> QED
  BY <1>1, <1>2 DEF Enter

\* An answer: the request returns, the answer is recorded and cached.
LEMMA AnswerStep ==
  ASSUME Kept, NEW r \in Requests, NEW class \in Classes(r), Answer(r, class)
  PROVE  Kept'
<1>1. class \in {"ok", "auth_failed", "rate_limited", "permission_denied", "http_error"}
  BY DEF Classes
<1>2. /\ ConcurrencyKept' /\ Staged'
      /\ free' \in 0..Concurrency
      /\ pc' \in [Requests -> {"off", "waiting", "flying", "asleep"}]
      /\ carries' \in [Requests -> BOOLEAN] /\ tries' \in [Requests -> 0..MaxRetries]
  BY ReturnStep DEF Answer
<1>3. /\ Solvent' /\ BlockReported'
      /\ token_mode' \in BOOLEAN /\ blocked' \in BOOLEAN /\ rate' \in Statuses
      /\ remaining' \in 0..TokenBudget /\ used' \in 0..TokenBudget
      /\ allowance' \in 0..TokenBudget
  BY <1>1, RecordStep DEF Answer
<1>4. /\ CacheTruthful' /\ EtagOfFacts' /\ Loaded'
      /\ cache' \in [Repos -> Entries]
      /\ said' \in [Repos -> Versions \cup {None}]
  <2>1. stage # "idle"
    BY Constants DEF Kept, Staged, Answer, Return, Requests
  <2> QED
    BY <2>1, EnterStep DEF Answer
<1>5. TypeOK'
  BY <1>2, <1>3, <1>4 DEF Kept, TypeOK, Answer
<1> QED
  BY <1>2, <1>3, <1>4, <1>5 DEF Kept

\* A request that ends without an answer.
LEMMA RaiseStep == ASSUME Kept, NEW r \in Requests, Raise(r) PROVE Kept'
<1> USE DEF Kept
<1>1. /\ ConcurrencyKept' /\ Staged'
      /\ free' \in 0..Concurrency
      /\ pc' \in [Requests -> {"off", "waiting", "flying", "asleep"}]
      /\ carries' \in [Requests -> BOOLEAN] /\ tries' \in [Requests -> 0..MaxRetries]
  BY ReturnStep DEF Raise
<1>2. TypeOK'
  BY <1>1 DEF Raise, TypeOK, budget, history
<1> QED
  BY <1>1, <1>2, CacheStays DEF Raise, Solvent, BlockReported, budget, history

\* Every step keeps the invariant.
LEMMA KeptStep == Kept /\ [Next]_vars => Kept'
<1> SUFFICES ASSUME Kept, [Next]_vars PROVE Kept'
  OBVIOUS
<1>0. TypeOK /\ Staged
  BY DEF Kept
<1>1. CASE BeginRun
  BY <1>1, BeginRunStep
<1>2. CASE Enrich
  BY <1>2, EnrichStep
<1>3. CASE NextGroup
  BY <1>3, NextGroupStep
<1>4. CASE Search
  BY <1>4, SearchStep
<1>5. CASE EndCheck
  BY <1>5, EndCheckStep
<1>6. CASE Page
  BY <1>6, PassStep, Constants DEF Page
<1>7. ASSUME NEW r \in Repos, PassRepo(r) PROVE Kept'
  <2>1. stage = "metadata" /\ r # Listing /\ pc[r] = "waiting" /\ r \in Requests
    BY <1>0, <1>7, Constants DEF PassRepo, NextWaiter, Staged
  <2> QED
    BY <1>7, <2>1, PassStep DEF PassRepo
<1>8. ASSUME NEW r \in Repos, Refuse(r) PROVE Kept'
  BY <1>0, <1>8, MoveStep, Constants DEF Refuse, NextWaiter, TypeOK
<1>9. ASSUME NEW r \in Requests, Retry(r) PROVE Kept'
  <2>1. tries' \in [Requests -> 0..MaxRetries]
    BY <1>0, <1>9, Constants DEF Retry, TypeOK
  <2> QED
    BY <1>0, <1>9, <2>1, MoveStep DEF Retry, TypeOK
<1>10. ASSUME NEW r \in Requests, Again(r) PROVE Kept'
  BY <1>0, <1>10, MoveStep DEF Again, TypeOK
<1>11. ASSUME NEW r \in Requests, Raise(r) PROVE Kept'
  BY <1>11, RaiseStep
<1>12. ASSUME NEW r \in Requests, NEW class \in Classes(r), Answer(r, class) PROVE Kept'
  BY <1>12, AnswerStep
<1>13. CASE UNCHANGED vars
  BY <1>13
  DEF Kept, vars, budget, calls, history, TypeOK, Staged, Solvent, ConcurrencyKept, UnderWay,
      BlockReported, CacheTruthful, Latest, EtagOfFacts, Loaded
<1>14. CASE Abandon
  BY <1>14, AbandonStep
<1> QED
  BY <1>14, <1>1, <1>2, <1>3, <1>4, <1>5, <1>6, <1>7, <1>8, <1>9, <1>10, <1>11, <1>12, <1>13
  DEF Next, Work, CheckStep, CallStep, RepoStep

-----------------------------------------------------------------------------
(* The results *)

\* The variables keep their types, whatever the budgets and the repositories.
THEOREM GatewayTypeCorrect == Spec => []TypeOK
<1>1. Kept => TypeOK
  BY DEF Kept
<1> QED
  BY <1>1, KeptInit, KeptStep, PTL DEF Spec

\* GitHubGateway.get and _record_response: no check makes more requests than its
\* budget, with a token that is refused at any moment, in any of the requests.
THEOREM WithinBudget == Spec => []BudgetKept
<1>1. Kept => BudgetKept
  BY DEF Kept, TypeOK, Solvent, BudgetKept
<1> QED
  BY <1>1, KeptInit, KeptStep, PTL DEF Spec

\* The semaphore: never more requests under way than it has places, and no place
\* lost, for any number of repositories and retries.
THEOREM PlacesKept == Spec => []ConcurrencyKept
<1>1. Kept => ConcurrencyKept
  BY DEF Kept
<1> QED
  BY <1>1, KeptInit, KeptStep, PTL DEF Spec

\* _record_response: a rate limit stays in the report of its check.
THEOREM RateLimitReported == Spec => []BlockReported
<1>1. Kept => BlockReported
  BY DEF Kept
<1> QED
  BY <1>1, KeptInit, KeptStep, PTL DEF Spec

\* _refresh_one, load and the save at the end: the facts in a cache are those that
\* GitHub gave or confirmed last in the checks whose state it holds, for any
\* sequence of changes, answers and checks, and whichever of these are cancelled or
\* fail to save.
THEOREM CacheConfirmed == Spec => []CacheTruthful
<1>1. Kept => CacheTruthful
  BY DEF Kept
<1> QED
  BY <1>1, KeptInit, KeptStep, PTL DEF Spec

-----------------------------------------------------------------------------
(* The order of the requests, and the token *)

Waiting == {r \in Repos : pc[r] = "waiting"}

\* While the check may make requests, the urgent ones are those that wait: the group
\* is the first, and nobody passed who does not belong to it.
Urgency ==
  MayPass /\ urgent # {} => stage = "metadata" /\ urgent = Waiting

\* A request under way goes on or ends, and gives the budget nothing back.
LEMMA CallKeeps ==
  ASSUME Kept, NEW r \in Requests, CallStep(r)
  PROVE  /\ UNCHANGED <<stage, urgent, used>>
         /\ Waiting' = Waiting
         /\ MayPass' => MayPass
<1>1. pc \in [Requests -> {"off", "waiting", "flying", "asleep"}] /\ Repos \subseteq Requests
  BY Constants DEF Kept, TypeOK
<1>2. pc[r] # "waiting" /\ \E where \in {"off", "flying", "asleep"} : pc' = [pc EXCEPT ![r] = where]
  BY DEF CallStep, Retry, Again, Raise, Answer, Return
<1>3. Waiting' = Waiting
  BY <1>1, <1>2 DEF Waiting
<1>4. CASE Retry(r) \/ Again(r) \/ Raise(r)
  BY <1>3, <1>4 DEF Retry, Again, Raise, budget, history, MayPass
<1>5. ASSUME NEW class \in Classes(r), Answer(r, class)
      PROVE  UNCHANGED <<stage, urgent, used>> /\ (MayPass' => MayPass)
  <2>1. UNCHANGED <<stage, urgent, used>>
    BY <1>5 DEF Answer, Record
  <2>2. CASE blocked
    <3>1. blocked' = blocked
      BY <1>5, <2>2 DEF Answer, Record
    <3> QED
      BY <2>1, <2>2, <3>1 DEF MayPass
  <2>3. CASE ~blocked
    <3>1. used \in Nat /\ remaining \in Nat
      BY Constants DEF Kept, TypeOK
    <3>2. remaining' \in Nat /\ remaining' <= remaining
      BY <1>5, <2>3, <3>1, Constants DEF Answer, Record, Lesser, Greater
    <3> QED
      BY <2>1, <2>3, <3>1, <3>2 DEF MayPass
  <2> QED
    BY <2>1, <2>2, <2>3
<1> QED
  BY <1>3, <1>4, <1>5 DEF CallStep

\* A request passes: only in the search and the lists it is not one for metadata.
LEMMA PassKeeps ==
  ASSUME Kept, Urgency, NEW r \in Requests, Pass(r), UNCHANGED stage,
         \/ r = Listing /\ stage # "metadata"
         \/ r \in Repos /\ pc[r] = "waiting"
  PROVE  /\ Urgency'
         /\ stage # "lists" => urgent = {} \/ urgent' # urgent
<1>1. pc \in [Requests -> {"off", "waiting", "flying", "asleep"}] /\ Repos \subseteq Requests
  BY Constants DEF Kept, TypeOK
<1>2. MayPass /\ urgent' = urgent \ {r} /\ pc' = [pc EXCEPT ![r] = "flying"]
  BY DEF Pass
<1>3. CASE urgent = {}
  BY <1>2, <1>3 DEF Urgency
<1>4. CASE urgent # {}
  <2>1. stage = "metadata" /\ urgent = Waiting /\ r \in Repos /\ pc[r] = "waiting"
    BY <1>2, <1>4 DEF Urgency
  <2>2. r \in urgent /\ Waiting' = Waiting \ {r}
    BY <1>1, <1>2, <2>1 DEF Waiting
  <2> QED
    BY <1>2, <2>1, <2>2 DEF Urgency
<1> QED
  BY <1>3, <1>4

\* It holds at first, and every step keeps it.
LEMMA UrgencyInit == Init => Urgency
BY DEF Init, Urgency

\* What every step does to it, and what it lets a step do.
LEMMA UrgencyStep ==
  ASSUME Kept, Urgency, [Next]_vars
  PROVE  /\ Urgency'
         /\ used' > used /\ stage # "lists" => urgent = {} \/ urgent' # urgent
<1>0. used \in Nat /\ ~(used > used) /\ ~(0 > used)
  BY Constants DEF Kept, TypeOK
<1>1. CASE BeginRun
  <2>1. urgent' = {} /\ used' = 0
    BY <1>1 DEF BeginRun
  <2>2. Urgency'
    BY <2>1 DEF Urgency
  <2>3. ~(used' > used)
    BY <1>0, <2>1
  <2> QED
    BY <2>2, <2>3
<1>2. CASE Enrich
  <2>1. PICK first \in SUBSET Repos, second \in SUBSET Repos :
          urgent' = first /\ Groups(first, second)
    BY <1>2 DEF Enrich
  <2>2. Waiting' = urgent' /\ stage' = "metadata" /\ used' = used
    BY <1>2, <2>1, Constants DEF Enrich, Groups, Waiting, budget
  <2> QED
    BY <1>0, <2>2 DEF Urgency
<1>3. CASE NextGroup \/ Search
  <2>1. Waiting = {} /\ UNCHANGED <<used, blocked, remaining, urgent>>
    BY <1>3 DEF NextGroup, Search, GroupDone, Waiting, budget, history
  <2> QED
    BY <1>0, <2>1 DEF Urgency, MayPass
<1>4. CASE EndCheck \/ Abandon
  BY <1>0, <1>4 DEF EndCheck, Abandon, Over, Urgency, budget
<1>5. CASE Page
  <2>1. Pass(Listing) /\ stage # "metadata" /\ UNCHANGED stage
    BY <1>5 DEF Page
  <2>2. PICK r \in Requests : r = Listing /\ Pass(r)
    BY <2>1, Constants
  <2>3. Urgency' /\ (stage # "lists" => urgent = {} \/ urgent' # urgent)
    BY <2>1, <2>2, PassKeeps
  <2> QED
    BY <2>3
<1>6. ASSUME NEW r \in Repos, PassRepo(r)
      PROVE  /\ Urgency'
             /\ stage # "lists" => urgent = {} \/ urgent' # urgent
  <2>1. Pass(r) /\ pc[r] = "waiting" /\ r \in Requests /\ UNCHANGED stage
    BY <1>6, Constants DEF PassRepo, NextWaiter
  <2> QED
    BY <2>1, PassKeeps
<1>7. ASSUME NEW r \in Repos, Refuse(r) PROVE Urgency' /\ used' = used
  BY <1>7 DEF Refuse, Urgency, MayPass, budget
<1>8. ASSUME NEW r \in Requests, CallStep(r) PROVE Urgency' /\ used' = used
  BY <1>8, CallKeeps DEF Urgency
<1>9. CASE UNCHANGED vars
  <2>1. UNCHANGED <<stage, used, remaining, blocked, urgent, pc>>
    BY <1>9 DEF vars, budget, calls, history
  <2> QED
    BY <1>0, <2>1 DEF Urgency, Waiting, MayPass
<1> QED
  BY <1>0, <1>1, <1>2, <1>3, <1>4, <1>5, <1>6, <1>7, <1>8, <1>9
  DEF Next, Work, CheckStep, RepoStep

\* DESIGN.md:122, the order of value: no request for other metadata or for the search
\* is made before each urgent one was, for any repositories, budgets and answers; the
\* semaphore's order among the waiters cannot break it.
THEOREM UrgentOnesFirst == Spec => UrgentFirst
<1>1. Kept /\ Urgency /\ [Next]_vars => Kept' /\ Urgency'
  BY KeptStep, UrgencyStep
<1>2. Kept /\ Urgency /\ [Next]_vars
        => [used' > used /\ stage # "lists" => urgent = {} \/ urgent' # urgent]_vars
  BY UrgencyStep
<1> QED
  BY <1>1, <1>2, KeptInit, UrgencyInit, PTL DEF Spec, UrgentFirst

\* FSD.md:460: once it is on record that the token was refused, no attempt that
\* begins carries it, however many retries of older requests are still asleep.
THEOREM TokenNotSentAgain == Spec => TokenStops
<1> DEFINE Stops == \A r \in Requests :
                      pc'[r] = "flying" /\ pc[r] # "flying" /\ ~token_mode => ~carries'[r]
<1>1. Kept /\ [Next]_vars => [Stops]_vars
  <2> SUFFICES ASSUME Kept, Next, ~token_mode PROVE Stops
    BY DEF Kept
  <2>0. /\ pc \in [Requests -> {"off", "waiting", "flying", "asleep"}]
        /\ carries \in [Requests -> BOOLEAN]
    BY DEF Kept, TypeOK
  <2>1. CASE BeginRun \/ Search \/ EndCheck \/ Abandon
    BY <2>1 DEF BeginRun, Search, EndCheck, Abandon, calls
  <2>2. CASE Enrich \/ NextGroup
    <3>1. \A r \in Requests : pc'[r] \in {"off", "waiting"}
      BY <2>2 DEF Enrich, NextGroup, Groups
    <3> QED
      BY <3>1
  <2>3. ASSUME NEW r \in Requests, Pass(r) \/ Again(r) PROVE Stops
    <3>1. carries' = [carries EXCEPT ![r] = token_mode] /\ pc' = [pc EXCEPT ![r] = "flying"]
      BY <2>3 DEF Pass, Again
    <3> QED
      BY <2>0, <3>1
  <2>4. ASSUME NEW r \in Requests, pc' = [pc EXCEPT ![r] = "off"] \/ pc' = [pc EXCEPT ![r] = "asleep"]
        PROVE  Stops
    BY <2>0, <2>4
  <2>5. CASE Page
    BY <2>3, <2>5, Constants DEF Page
  <2>6. ASSUME NEW r \in Repos, RepoStep(r) PROVE Stops
    BY <2>3, <2>4, <2>6, Constants DEF RepoStep, PassRepo, Refuse
  <2>7. ASSUME NEW r \in Requests, CallStep(r) PROVE Stops
    BY <2>3, <2>4, <2>7 DEF CallStep, Retry, Raise, Answer, Return
  <2> HIDE DEF Stops
  <2> QED
    BY <2>1, <2>2, <2>5, <2>6, <2>7 DEF Next, Work, CheckStep
<1> QED
  BY <1>1, KeptInit, KeptStep, PTL DEF Spec, TokenStops
=============================================================================
