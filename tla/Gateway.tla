------------------------------- MODULE Gateway -------------------------------
(***************************************************************************)
(* The requests that a check makes to GitHub (github.py, http.py): the     *)
(* budget of a check, two requests at a time, the retries under them, what *)
(* a refused token or a rate limit does to the requests still to come, and *)
(* the cache of repository metadata with its ETags, over any number of     *)
(* checks.  The cache is part of the state that a check loads and, if it   *)
(* comes to its end, saves; a check that is cancelled, or whose save       *)
(* fails, takes its answers with it and the next one starts from the older *)
(* cache.  A listing of a source or of the search is one request after the *)
(* other; the metadata of repositories is asked for all at once, the       *)
(* urgent ones (with an event in this check) before the rest.  A step runs *)
(* from one await to the next: _budget_lock is never held over one.        *)
(***************************************************************************)
EXTENDS Integers, FiniteSets

CONSTANTS
  Repos,            \* repositories, numbered in the order of their ids
  Versions,         \* what GitHub may say of a repository; its ETag tells which
  None,             \* no version
  HasToken,         \* github_token is set
  TokenBudget,      \* TOKEN_BUDGET
  AnonymousBudget,  \* ANONYMOUS_BUDGET
  TokenTTL,         \* TOKEN_TTL, in units of time
  AnonymousTTL,     \* ANONYMOUS_TTL
  Concurrency,      \* of the semaphore
  MaxRetries        \* max_retries of the HTTP client

ASSUME GatewayAssumption ==
  /\ Repos \subseteq Nat \ {0} /\ IsFiniteSet(Repos)
  /\ None \notin Versions
  /\ HasToken \in BOOLEAN
  /\ {TokenBudget, AnonymousBudget, TokenTTL, AnonymousTTL, MaxRetries} \subseteq Nat
  /\ AnonymousBudget <= TokenBudget /\ TokenTTL <= AnonymousTTL
  /\ Concurrency \in Nat \ {0}

Listing  == 0                    \* the request for a page of a listing
Requests == Repos \cup {Listing}
Unknown  == -1                   \* no such time, no such number

VARIABLES
  stage,       \* how far the check is
  token_mode,  \* and auth.enabled, which changes along with it
  remaining,   \* requests left of the budget
  used,        \* requests made
  blocked,     \* a rate limit was answered
  rate,        \* rate_limit.status
  free,        \* the semaphore's value
  pc,          \* of each request: "off", "waiting", "flying" or "asleep"
  carries,     \* its present attempt carries the token
  tries,       \* its retries so far
  later,       \* repositories to be asked about after the urgent ones
  cache,       \* github.repos of the check: the facts, their ETag and their age
  saved,       \* github.repos of the state file
  said,        \* history: what GitHub said last of each repository in this check
  told,        \* history: and in the checks whose state was saved
  urgent,      \* history: the urgent ones it has still to ask about
  allowance    \* history: how many requests it may make

budget  == <<token_mode, remaining, used, blocked, rate>>
calls   == <<free, pc, carries, tries>>
history == <<said, told, urgent, allowance>>
vars    == <<stage, budget, calls, later, cache, saved, history>>

Budget(token) == IF token THEN TokenBudget ELSE AnonymousBudget
Lesser(x, y)  == IF x <= y THEN x ELSE y
Greater(x, y) == IF x >= y THEN x ELSE y

NoFacts == [facts |-> None, etag |-> None, age |-> Unknown]

-----------------------------------------------------------------------------
(* A check *)

\* Ages stop to matter, and to grow, at the longer time to live.
Aged(c, time) ==
  IF c.age = Unknown THEN c ELSE [c EXCEPT !.age = Lesser(@ + time, AnonymousTTL)]

\* load and begin_run.  Time passes between two checks, a check itself is short:
\* what is saved has grown older by the time it is loaded.
BeginRun ==
  /\ stage = "idle"
  /\ stage' = "lists"
  /\ token_mode' = HasToken
  /\ remaining' = Budget(HasToken)
  /\ used' = 0 /\ blocked' = FALSE
  /\ rate' = "unknown"
  /\ \E time \in 0..AnonymousTTL : saved' = [r \in Repos |-> Aged(saved[r], time)]
  /\ cache' = saved'
  /\ urgent' = {} /\ allowance' = Budget(HasToken)
  /\ UNCHANGED <<calls, later, said, told>>

Fresh(r) == LET age == cache[r].age IN
  age # Unknown /\ age < (IF token_mode THEN TokenTTL ELSE AnonymousTTL)

\* Variant of Groups: the urgent ones come last.
GroupsSwapped(first, second) ==
  /\ pc' = [r \in Requests |-> IF r \in second THEN "waiting" ELSE "off"]
  /\ later' = first

\* _refresh_group, for one group and then for the other.
Groups(first, second) ==
  /\ pc' = [r \in Requests |-> IF r \in first THEN "waiting" ELSE "off"]
  /\ later' = second

\* enrich: which of the listed repositories it asks about, and in which order.
Enrich ==
  /\ stage = "lists" /\ pc[Listing] = "off"
  /\ stage' = "metadata"
  /\ \E listed \in SUBSET Repos :
       LET wanted == {r \in listed : ~Fresh(r)} IN
       \E events \in SUBSET wanted :
         /\ urgent' = events
         /\ Groups(events, wanted \ events)
  /\ UNCHANGED <<budget, free, carries, tries, cache, saved, said, told, allowance>>

GroupDone == stage = "metadata" /\ \A r \in Repos : pc[r] = "off"

NextGroup ==
  /\ GroupDone /\ later # {}
  /\ Groups(later, {})
  /\ UNCHANGED <<stage, budget, free, carries, tries, cache, saved, history>>

Search ==
  /\ GroupDone /\ later = {}
  /\ stage' = "search"
  /\ UNCHANGED <<budget, calls, later, cache, saved, history>>

\* What is on record of r: what this check was told, or else an earlier one.
Latest(r) == IF said[r] = None THEN told[r] ELSE said[r]

Over ==
  /\ stage' = "idle"
  /\ urgent' = {} /\ said' = [r \in Repos |-> None]

\* The check is over and its save took effect.
EndCheck ==
  /\ stage = "search" /\ pc[Listing] = "off"
  /\ Over
  /\ saved' = cache
  /\ told' = [r \in Repos |-> Latest(r)]
  /\ UNCHANGED <<budget, calls, later, cache, allowance>>

\* Variant of Abandon: the next check finds the cache of this one.
AbandonKept ==
  /\ stage # "idle"
  /\ Over
  /\ free' = Concurrency
  /\ pc' = [r \in Requests |-> "off"]
  /\ carries' = [r \in Requests |-> FALSE]
  /\ tries' = [r \in Requests |-> 0]
  /\ later' = {}
  /\ saved' = cache
  /\ UNCHANGED <<budget, cache, told, allowance>>

\* It is cancelled, at any await, or fails, its save at the end included: every
\* request leaves the semaphore and the answers are lost with the state.
Abandon ==
  /\ stage # "idle"
  /\ Over
  /\ free' = Concurrency
  /\ pc' = [r \in Requests |-> "off"]
  /\ carries' = [r \in Requests |-> FALSE]
  /\ tries' = [r \in Requests |-> 0]
  /\ later' = {}
  /\ cache' = saved
  /\ UNCHANGED <<budget, saved, told, allowance>>

-----------------------------------------------------------------------------
(* get: the semaphore and the budget *)

MayPass == ~blocked /\ remaining > 0

\* Variant of Pass: the semaphore is not taken.
PassAtOnce(r) ==
  /\ MayPass
  /\ remaining' = remaining - 1 /\ used' = used + 1
  /\ urgent' = urgent \ {r}
  /\ pc' = [pc EXCEPT ![r] = "flying"]
  /\ carries' = [carries EXCEPT ![r] = token_mode]
  /\ UNCHANGED <<token_mode, blocked, rate, free, tries>>

\* The request is counted and its first attempt made, with the token if there
\* is one that was not refused.
Pass(r) ==
  /\ free > 0 /\ MayPass
  /\ remaining' = remaining - 1 /\ used' = used + 1
  /\ urgent' = urgent \ {r}
  /\ free' = free - 1
  /\ pc' = [pc EXCEPT ![r] = "flying"]
  /\ carries' = [carries EXCEPT ![r] = token_mode]
  /\ UNCHANGED <<token_mode, blocked, rate, tries>>

\* A page of a listing; one that is refused fails its source and no more.
Page ==
  /\ stage \in {"lists", "search"} /\ pc[Listing] = "off"
  /\ Pass(Listing)
  /\ UNCHANGED <<stage, later, cache, saved, said, told, allowance>>

\* Waiters get the semaphore in the order they asked for it.
NextWaiter(r) == pc[r] = "waiting" /\ \A q \in Repos : pc[q] = "waiting" => r <= q

PassRepo(r) ==
  /\ NextWaiter(r)
  /\ Pass(r)
  /\ UNCHANGED <<stage, later, cache, saved, said, told, allowance>>

\* It leaves the semaphore as it found it, and the cache entry as it was.
Refuse(r) ==
  /\ NextWaiter(r)
  /\ free > 0 /\ ~MayPass
  /\ pc' = [pc EXCEPT ![r] = "off"]
  /\ UNCHANGED <<stage, budget, free, carries, tries, later, cache, saved, history>>

-----------------------------------------------------------------------------
(* The attempts of a request *)

\* Variant of Retry: retries are not counted.
RetryForEver(r) ==
  /\ pc[r] = "flying"
  /\ pc' = [pc EXCEPT ![r] = "asleep"]
  /\ UNCHANGED <<stage, budget, free, carries, tries, later, cache, saved, history>>

\* A network error, 408, 429 or 5xx: the attempt is repeated after a while.
Retry(r) ==
  /\ pc[r] = "flying" /\ tries[r] < MaxRetries
  /\ tries' = [tries EXCEPT ![r] = @ + 1]
  /\ pc' = [pc EXCEPT ![r] = "asleep"]
  /\ UNCHANGED <<stage, budget, free, carries, later, cache, saved, history>>

\* Variant of Again: the token is put in once for all attempts.
AgainAsBefore(r) ==
  /\ pc[r] = "asleep"
  /\ pc' = [pc EXCEPT ![r] = "flying"]
  /\ UNCHANGED <<stage, budget, free, carries, tries, later, cache, saved, history>>

\* The token is put in under the retries, for each attempt.
Again(r) ==
  /\ pc[r] = "asleep"
  /\ pc' = [pc EXCEPT ![r] = "flying"]
  /\ carries' = [carries EXCEPT ![r] = token_mode]
  /\ UNCHANGED <<stage, budget, free, tries, later, cache, saved, history>>

\* The request is over and leaves the semaphore.
Return(r) ==
  /\ pc[r] = "flying"
  /\ free' = free + 1
  /\ pc' = [pc EXCEPT ![r] = "off"]
  /\ carries' = [carries EXCEPT ![r] = FALSE]
  /\ tries' = [tries EXCEPT ![r] = 0]

\* Variant of Raise: the semaphore is left twice.
RaiseTwice(r) ==
  /\ pc[r] = "flying"
  /\ free' = free + 2
  /\ pc' = [pc EXCEPT ![r] = "off"]
  /\ carries' = [carries EXCEPT ![r] = FALSE]
  /\ tries' = [tries EXCEPT ![r] = 0]
  /\ UNCHANGED <<stage, budget, later, cache, saved, history>>

\* A timeout, a lost connection, a body that is too large: no answer is recorded
\* and the cache keeps its facts.
Raise(r) ==
  /\ Return(r)
  /\ UNCHANGED <<stage, budget, later, cache, saved, history>>

\* classify_github_response; only an attempt with the token is answered 401.
Classes(r) ==
  {"ok", "rate_limited", "permission_denied", "http_error"}
    \cup (IF carries[r] THEN {"auth_failed"} ELSE {})

\* Variant of Record: the budget does not shrink.
RecordUnshrunk(class) ==
  /\ UNCHANGED <<remaining, used>>
  /\ token_mode' = (token_mode /\ (blocked \/ class # "auth_failed"))
  /\ blocked' = (blocked \/ class = "rate_limited")
  /\ rate' = IF \/ blocked \/ class = "http_error"
                \/ class = "ok" /\ rate = "auth_failed"
             THEN rate ELSE class

\* _record_response.
Record(class) ==
  /\ UNCHANGED used
  /\ IF blocked
     THEN UNCHANGED <<token_mode, remaining, blocked, rate>>
     ELSE /\ token_mode' = (token_mode /\ class # "auth_failed")
          /\ remaining' = IF class = "auth_failed"
                          THEN Lesser(remaining, Greater(0, AnonymousBudget - used))
                          ELSE remaining
          /\ blocked' = (class = "rate_limited")
          /\ rate' = IF \/ class = "http_error"
                        \/ class = "ok" /\ rate = "auth_failed"
                     THEN rate ELSE class

\* Variant of Refreshed: the first ETag is kept.
RefreshedOnce(c, version) ==
  [facts |-> IF c.etag = version THEN c.facts ELSE version,
   etag  |-> IF c.etag = None THEN version ELSE c.etag,
   age   |-> 0]

\* _refresh_one on a 304 (the ETag sent is the version's) or a 200.
Refreshed(c, version) ==
  [facts |-> IF c.etag = version THEN c.facts ELSE version,
   etag  |-> version,
   age   |-> 0]

\* What the answer does to the cache: nothing unless it is a 304, or a 200 that
\* can be read.
Enter(r, class) ==
  \/ UNCHANGED <<cache, said>>
  \/ /\ class = "ok" /\ r \in Repos
     /\ \E version \in Versions :
          /\ cache' = [cache EXCEPT ![r] = Refreshed(@, version)]
          /\ said' = [said EXCEPT ![r] = version]

Answer(r, class) ==
  /\ Return(r)
  /\ Record(class)
  /\ Enter(r, class)
  /\ allowance' = IF token_mode /\ class = "auth_failed" /\ ~blocked
                  THEN Greater(AnonymousBudget, used) ELSE allowance
  /\ UNCHANGED <<stage, later, saved, told, urgent>>

-----------------------------------------------------------------------------
(* The specification *)

Init ==
  /\ stage = "idle"
  /\ token_mode = FALSE /\ remaining = AnonymousBudget /\ used = 0
  /\ blocked = FALSE /\ rate = "unknown"
  /\ free = Concurrency
  /\ pc = [r \in Requests |-> "off"]
  /\ carries = [r \in Requests |-> FALSE]
  /\ tries = [r \in Requests |-> 0]
  /\ later = {}
  /\ cache = [r \in Repos |-> NoFacts]
  /\ saved = cache
  /\ said = [r \in Repos |-> None] /\ told = said
  /\ urgent = {} /\ allowance = AnonymousBudget

CheckStep == Enrich \/ NextGroup \/ Search \/ EndCheck \/ Page

CallStep(r) ==
  \/ Retry(r) \/ Again(r) \/ Raise(r)
  \/ \E class \in Classes(r) : Answer(r, class)

RepoStep(r) == PassRepo(r) \/ Refuse(r)

Work == CheckStep \/ (\E r \in Requests : CallStep(r)) \/ \E r \in Repos : RepoStep(r)

Next == BeginRun \/ Work \/ Abandon

Spec == Init /\ [][Next]_vars

\* An attempt ends, by its timeout if not by an answer; a wait between two
\* attempts is 60 seconds at most; what the event loop can run, it runs.
FairSpec == Spec /\ WF_vars(Work)

-----------------------------------------------------------------------------
(* Properties *)

Statuses == {"unknown", "ok", "auth_failed", "rate_limited", "permission_denied"}

Entries == [facts : Versions \cup {None}, etag : Versions \cup {None},
            age : 0..AnonymousTTL \cup {Unknown}]

\* The variables hold what the code can put there.
TypeOK ==
  /\ stage \in {"idle", "lists", "metadata", "search"}
  /\ token_mode \in BOOLEAN /\ blocked \in BOOLEAN /\ rate \in Statuses
  /\ remaining \in 0..TokenBudget /\ used \in 0..TokenBudget
  /\ free \in 0..Concurrency
  /\ pc \in [Requests -> {"off", "waiting", "flying", "asleep"}]
  /\ carries \in [Requests -> BOOLEAN] /\ tries \in [Requests -> 0..MaxRetries]
  /\ later \subseteq Repos /\ urgent \subseteq Repos
  /\ {cache, saved} \subseteq [Repos -> Entries]
  /\ {said, told} \subseteq [Repos -> Versions \cup {None}]
  /\ allowance \in 0..TokenBudget

\* FSD.md:446 and DESIGN.md:122: a check makes no more requests than its mode's
\* budget, and once the token is refused no more than an anonymous one may have,
\* unless it had made them already: whatever is in flight at that moment.
BudgetKept == used <= allowance

UnderWay == {r \in Requests : pc[r] \in {"flying", "asleep"}}

\* FSD.md:445: at most two requests are under way, the waits between their
\* attempts included; and no place in the semaphore is ever lost.
ConcurrencyKept == Cardinality(UnderWay) + free = Concurrency

\* The status says "rate limited" from the moment a rate limit was answered to the
\* end of the check, whatever the request still in flight is answered.
BlockReported == blocked <=> rate = "rate_limited"

\* What the saved cache holds of a repository is what GitHub said last of it in a
\* check whose state was saved, and the cache of a check is that or what the check
\* itself was told: an answer without a body confirms these facts and no others,
\* however often GitHub's facts change and change back, and whichever checks are
\* lost with the ETags they had seen.
CacheTruthful ==
  \A r \in Repos : saved[r].facts = told[r] /\ cache[r].facts = Latest(r)

\* DESIGN.md:122, the order of value: no request for other metadata or for the
\* search is made in a check before each urgent one was; those that the budget
\* does not reach are the least valuable.
UrgentFirst ==
  [][used' > used /\ stage # "lists" => urgent = {} \/ urgent' # urgent]_vars

\* FSD.md:460: once it is on record that the token was refused, no attempt that
\* begins carries it, a retry of a request that was made before included.
TokenStops ==
  [][\A r \in Requests :
       pc'[r] = "flying" /\ pc[r] # "flying" /\ ~token_mode => ~carries'[r]]_vars

\* A check that has begun ends: no request waits for ever for the semaphore or for
\* a budget that is used up.
ChecksEnd == stage # "idle" ~> stage = "idle"
=============================================================================
