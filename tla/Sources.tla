------------------------------- MODULE Sources -------------------------------
(***************************************************************************)
(* One source and its fetcher, check after check: IssuesFetcher            *)
(* (sources/issues.py), GitHubSearchFetcher (sources/github_search.py) or  *)
(* MarketFetcher (sources/market.py), and what WatcherService keeps of the *)
(* result (service.py).  Catalog takes the result of a fetch as given;     *)
(* here is what a result that calls itself complete says of the listing.   *)
(*                                                                         *)
(* The service behind the source is not part of the program: its listing   *)
(* changes while the fetcher waits for an answer, so that the pages of one *)
(* fetch show it at different times.  A record is what the fetcher can     *)
(* tell apart of it: whether it is a plugin, and its version.              *)
(***************************************************************************)
EXTENDS Integers, FiniteSets, Sequences, SequencesExt

CONSTANTS
  Kinds,       \* the kinds of source considered
  Ids,         \* bound: issue numbers, repository ids or slugs
  PerPage,     \* records on a page (100)
  MaxPages,    \* MAX_ISSUE_PAGES (20), MAX_SEARCH_PAGES (2)
  Tolerance,   \* of so many records one may be rejected (20, or 5 percent)
  MaxChanges,  \* bound: changes of the listing
  MaxFaults    \* bound: requests that fail and results that are not saved

ASSUME SourcesAssumption ==
  /\ Kinds \subseteq {"issues", "search", "market"}
  /\ PerPage \in Nat \ {0} /\ MaxPages \in Nat \ {0} /\ Tolerance \in Nat
  /\ MaxChanges \in Nat /\ MaxFaults \in Nat
  /\ IsFiniteSet(Ids) /\ Ids = 1..Cardinality(Ids)

VARIABLES
  kind,      \* which source this is
  listing,   \* what each endpoint of the service lists, in its order
  changes,   \* history: changes of the listing so far
  faults,    \* history: faults so far
  saved,     \* SourceState.snapshots: the last complete answer of each endpoint
  heard,     \* SourceState.observations
  page,      \* the page that is asked for; 0 when no fetch is under way
  at,        \* the endpoint that is asked
  got,       \* the observations so far
  count,     \* received, candidates and rejected records, declared total
  sound,     \* no duplicate, record or total has spoilt the result yet
  etag,      \* the ETag of the first response
  outcome,   \* history: how the last fetch ended
  shown,     \* history: what the answers of this fetch said last of each plugin
  kept,      \* history: plugins listed at its endpoint ever since this fetch began
  shifted    \* history: records moved up to a page that was read already

service == <<listing, changes>>
store == <<saved, heard>>
reading == <<page, at, got, count, sound, etag>>
history == <<outcome, shown, kept, shifted>>
vars == <<kind, service, faults, store, reading, history>>

-----------------------------------------------------------------------------
(* The service *)

\* A market has a fallback; its endpoints list what they like.
Main == "main"
Raw == "raw"
Endpoints == {Main, Raw}
Used == IF kind = "market" THEN Endpoints ELSE {Main}

\* A record is a plugin; or it is malformed; or something else, which the
\* listing of issues (a pull request) and the search (a fork, an archived
\* repository, another name) hold as well; or the code cannot put up with it.
Sorts ==
  CASE kind = "market" -> {"plugin", "malformed", "fatal"}
    [] kind = "issues" -> {"plugin", "malformed", "other", "fatal"}
    [] kind = "search" -> {"plugin", "malformed", "other"}

\* ver is the change that made the record what it is; stamp is its updated_at,
\* which two changes in one second share.
Record(id, sort, ver, stamp) == [id |-> id, sort |-> sort, ver |-> ver, stamp |-> stamp]

Listed(e) == Range(listing[e])
IdsOf(e) == {r.id : r \in Listed(e)}
Plugins(records) == {r \in records : r.sort = "plugin"}
Observations(records) ==
  [i \in {r.id : r \in Plugins(records)} |-> CHOOSE r \in Plugins(records) : r.id = i]

\* What f says, and of the plugins it does not know, what g says.
Over(f, g) == [i \in DOMAIN f \cup DOMAIN g |-> IF i \in DOMAIN f THEN f[i] ELSE g[i]]

\* Page n of a listing; the market is one page.
Page(e, n) ==
  IF kind = "market" THEN listing[e]
  ELSE SubSeq(listing[e], (n - 1) * PerPage + 1,
              IF n * PerPage <= Len(listing[e]) THEN n * PerPage ELSE Len(listing[e]))

\* The ETag of the first page stands for its body; the search says in it how
\* many results there are, the listing of issues does not.
NoTag == [body |-> <<>>, total |-> -1]
Tag(e) == [body |-> Page(e, 1), total |-> IF kind = "search" THEN Len(listing[e]) ELSE 0]

\* A listing changes.  A fetch under way remembers what that does to it; after
\* the end of a fetch its history is over.
Change(e, list, left, moved) ==
  /\ changes < MaxChanges
  /\ changes' = changes + 1
  /\ listing' = [listing EXCEPT ![e] = list]
  /\ IF page # 0
       THEN /\ kept' = IF e = at THEN kept \ left ELSE kept
            /\ shifted' = (shifted \/ (e = at /\ moved))
            /\ UNCHANGED <<outcome, shown>>
       ELSE outcome' = "none" /\ shown' = <<>> /\ kept' = {} /\ shifted' = FALSE
  /\ UNCHANGED <<kind, faults, store, reading>>

\* A repository that is new is the first result, which are sorted by their last
\* update; an issue can be given its label when it is old.
Appear(e, id, sort, pos) ==
  /\ id \notin IdsOf(e)
  /\ pos = 1 \/ kind = "issues"
  /\ LET new == Record(id, sort, changes + 1, changes + 1) IN
     Change(e, InsertAt(listing[e], pos, new), {}, FALSE)

\* An issue loses its label or is transferred, a repository is deleted.
Disappear(e, pos) == Change(e, RemoveAt(listing[e], pos), {listing[e][pos].id}, TRUE)

\* Records change in their place, and in the search move to the first.
Edit(e, pos, sort, stamp) ==
  LET old == listing[e][pos]
      new == Record(old.id, sort, changes + 1, stamp)
      left == IF sort = "plugin" THEN {} ELSE {old.id}
      unnoticed == \E r \in Listed(e) \cup {new} : r.sort = "other"
  IN /\ stamp \in IF kind = "issues" THEN {old.stamp, changes + 1} ELSE {changes + 1}
     /\ IF kind = "search"
          THEN Change(e, <<new>> \o RemoveAt(listing[e], pos), left, unnoticed)
          ELSE Change(e, [listing[e] EXCEPT ![pos] = new], left, FALSE)

ServiceStep ==
  \E e \in Used :
    \/ \E id \in Ids, sort \in Sorts, pos \in 1..(Len(listing[e]) + 1) : Appear(e, id, sort, pos)
    \/ \E pos \in 1..Len(listing[e]) :
         \/ Disappear(e, pos)
         \/ \E sort \in Sorts, stamp \in 0..MaxChanges : Edit(e, pos, sort, stamp)

-----------------------------------------------------------------------------
(* Fetching *)

Nothing == <<>>     \* no observations
Unread == [seen |-> 0, rejected |-> 0, total |-> -1]
NoSnapshot == [pages |-> 0, etag |-> NoTag, obs |-> Nothing]

ClearReading ==
  page' = 0 /\ at' = Main /\ got' = Nothing /\ count' = Unread /\ sound' = TRUE /\ etag' = NoTag

\* A fetch begins with a request for the first page of an endpoint.
Ask(e) ==
  /\ page' = 1 /\ at' = e
  /\ got' = Nothing /\ count' = Unread /\ sound' = TRUE /\ etag' = NoTag
  /\ kept' = DOMAIN Observations(Listed(e))
  /\ outcome' = "none" /\ shown' = Nothing /\ shifted' = FALSE

Begin ==
  /\ page = 0
  /\ Ask(Main)
  /\ UNCHANGED <<kind, service, faults, store>>

\* Variant: the snapshot of a result that is not modified has no pages.
PagesAsFetched(n) == n

\* pages_fetched of a snapshot; a result that was not modified has none.
PagesKept(n) == IF n = 0 THEN 1 ELSE n

\* WatcherService._run, a complete result: it takes the place of what its endpoint
\* answered before, and of what the source said before.
Complete(obs, pages, tag, showing) ==
  /\ saved' = [saved EXCEPT ![at] = [pages |-> PagesKept(pages), etag |-> tag, obs |-> obs]]
  /\ heard' = obs
  /\ outcome' = "whole" /\ shown' = showing
  /\ ClearReading
  /\ UNCHANGED <<kept, shifted>>

\* Variant: the state remembers the ETag of an answer it did not keep.
KeepNothingButTag ==
  /\ saved' = IF page > 1 THEN [saved EXCEPT ![at].etag = etag, ![at].pages = 1] ELSE saved
  /\ UNCHANGED heard

\* WatcherService._run, any other result: the source keeps what it had.
KeepOld == UNCHANGED store

\* The fetch ends without a complete result.
Partial ==
  /\ outcome' = "partial"
  /\ KeepOld
  /\ ClearReading
  /\ shown' = Nothing /\ kept' = {} /\ shifted' = FALSE

\* _incomplete, _failure.  MarketFetcher.fetch then asks the other endpoint.
Incomplete ==
  IF kind = "market" /\ at = Main THEN Ask(Raw) /\ UNCHANGED store ELSE Partial

\* Variant: every snapshot makes a request conditional.
AnySnapshot(e) == saved[e].pages >= 1

\* conditional_snapshot: the ETag of a first page says nothing of the others.
\* The market's snapshots have one page.
Conditional(e) == saved[e].pages = 1

\* _select_duplicate: of two versions of an issue the later.
SelectDuplicate(old, new) == IF new.stamp > old.stamp THEN new ELSE old
Conflict(old, new) == old # new /\ old.stamp = new.stamp

\* The status is 304: the first page is what the snapshot was made of.
NotModified ==
  /\ page = 1 /\ Conditional(at) /\ saved[at].etag = Tag(at)
  /\ Complete(saved[at].obs, 0, saved[at].etag, Observations(Range(Page(at, 1))))
  /\ UNCHANGED <<kind, service, faults>>

\* A record whose repository urlsplit refuses (normalize_github_repo), or without
\* key and repository (fallback_canonical_id), makes the fetcher raise.
Fatal(records) == \E r \in records : r.sort = "fatal"

\* A request that is answered with a page of the listing as it is now.
Answer(k) ==
  /\ kind = k /\ page # 0
  /\ ~(page = 1 /\ Conditional(at) /\ saved[at].etag = Tag(at))

\* What a page does to the reading when another one follows.
ReadOn(observed, counted, unspoilt, showing) ==
  /\ page' = page + 1
  /\ got' = observed /\ count' = counted /\ sound' = unspoilt /\ shown' = showing
  /\ etag' = IF page = 1 THEN Tag(at) ELSE etag
  /\ UNCHANGED <<store, at, outcome, kept, shifted>>

\* first_response's ETag.
FirstTag == IF page = 1 THEN Tag(at) ELSE etag

\* Variant: at the page limit the listing counts as read.
LastPageLimited(more) == ~more \/ page = MaxPages
\* The answer has no next Link.
LastPage(more) == ~more

\* rejected / candidates <= MAX_REJECTED_RATIO
Tolerated(rejected, candidates) == rejected * Tolerance <= candidates

\* IssuesFetcher.fetch, one round of its loop.
IssuesPage ==
  /\ Answer("issues")
  /\ LET body == Range(Page(at, page))
         new == Observations(body)
         again == DOMAIN new \cap DOMAIN got
         observed == Over([i \in again |-> SelectDuplicate(got[i], new[i])], Over(got, new))
         unspoilt == sound /\ ~\E i \in again : Conflict(got[i], new[i])
         counted == [count EXCEPT
           !.seen = @ + Cardinality({r \in body : r.sort # "other"}),
           !.rejected = @ + Cardinality({r \in body : r.sort = "malformed"})]
         more == Len(listing[at]) > page * PerPage
     IN    \/ Fatal(body) /\ Partial
           \/ /\ ~Fatal(body) /\ LastPage(more)
              /\ unspoilt /\ Tolerated(counted.rejected, counted.seen)
              /\ Complete(observed, page, FirstTag, Over(new, shown))
           \/ /\ ~Fatal(body) /\ LastPage(more)
              /\ ~(unspoilt /\ Tolerated(counted.rejected, counted.seen))
              /\ Incomplete
           \/ /\ ~Fatal(body) /\ ~LastPage(more) /\ page < MaxPages
              /\ ReadOn(observed, counted, unspoilt, Over(new, shown))
           \/ /\ ~Fatal(body) /\ ~LastPage(more) /\ page >= MaxPages   \* _safe_next_url refuses
              /\ Incomplete
  /\ UNCHANGED <<kind, service, faults>>

\* total_count is the same on all pages.
SameTotal(total) == count.total \in {-1, total}

\* GitHubSearchFetcher.fetch, one round of its loop and what follows the last.
SearchPage ==
  /\ Answer("search")
  /\ LET body == Range(Page(at, page))
         new == Observations(body)
         total == Len(listing[at])
         declared == IF count.total = -1 THEN total ELSE count.total
         counted == [count EXCEPT !.seen = @ + Cardinality(body), !.total = declared]
         unspoilt == /\ sound
                     /\ SameTotal(total)
                     /\ \A r \in body : r.sort # "malformed"
                     /\ DOMAIN new \cap DOMAIN got = {}
         short == Cardinality(body) < PerPage
         last == counted.seen >= total \/ short \/ page = MaxPages
         whole == /\ unspoilt
                  /\ counted.seen >= total \/ ~short
                  /\ counted.seen >= declared
                  /\ declared <= MaxPages * PerPage
     IN    \/ last /\ whole /\ Complete(Over(got, new), page, FirstTag, Over(new, shown))
           \/ last /\ ~whole /\ Incomplete
           \/ ~last /\ ReadOn(Over(got, new), counted, unspoilt, Over(new, shown))
  /\ UNCHANGED <<kind, service, faults>>

\* MarketFetcher._request and _parse.  It does not raise for a record without key
\* that has a repository; then the schema refuses the result when it is saved.
MarketAnswer ==
  /\ Answer("market")
  /\ LET body == Range(Page(at, 1))
         new == Observations(body)
         rejected == Cardinality({r \in body : r.sort = "malformed"})
         whole == (DOMAIN new # {} \/ Fatal(body)) /\ Tolerated(rejected, Cardinality(body))
     IN    \/ Fatal(body) /\ Partial
           \/ whole /\ ~Fatal(body) /\ Complete(new, 1, Tag(at), new)
           \/ ~whole /\ Incomplete
  /\ UNCHANGED <<kind, service, faults>>

\* The request fails, its answer is no success or not what was asked for (the
\* search's incomplete_results included), or the check does not come to its save.
Fault ==
  /\ page # 0
  /\ faults < MaxFaults
  /\ faults' = faults + 1
  /\ Incomplete
  /\ UNCHANGED <<kind, service>>

-----------------------------------------------------------------------------

\* The sources list what they like before the first check; the fallback is a copy
\* of the market, or empty.
Listings ==
  UNION {{[i \in 1..n |-> Record(i, sorts[i], 0, 0)] :
            sorts \in {s \in [1..n -> Sorts] : Cardinality({i \in 1..n : s[i] # "plugin"}) <= 1}} :
           n \in 0..Cardinality(Ids)}

Init ==
  /\ kind \in Kinds
  /\ \E list \in Listings : listing \in [Endpoints -> {list, <<>>}] /\ listing[Main] = list
  /\ kind # "market" => listing[Raw] = <<>>
  /\ changes = 0 /\ faults = 0
  /\ saved = [e \in Endpoints |-> NoSnapshot] /\ heard = Nothing
  /\ page = 0 /\ at = Main /\ got = Nothing
  /\ count = Unread /\ sound = TRUE /\ etag = NoTag
  /\ outcome = "none" /\ shown = Nothing /\ kept = {} /\ shifted = FALSE

FetchStep == NotModified \/ IssuesPage \/ SearchPage \/ MarketAnswer

Next == Begin \/ FetchStep \/ Fault \/ ServiceStep

Spec == Init /\ [][Next]_vars

\* The scheduler checks for ever, and every request is answered or fails.
FairSpec == Spec /\ WF_vars(Begin) /\ WF_vars(FetchStep)

-----------------------------------------------------------------------------
(* Properties *)

Records == [id : Ids, sort : {"plugin", "malformed", "other", "fatal"},
            ver : 0..MaxChanges, stamp : 0..MaxChanges]

IsObservations(f) ==
  /\ DOMAIN f \subseteq Ids
  /\ \A i \in DOMAIN f : f[i] \in Plugins(Records) /\ f[i].id = i

\* The variables hold what the code can put there; an endpoint has a snapshot
\* exactly if it was ever read completely.
TypeOK ==
  /\ kind \in Kinds
  /\ \A e \in Endpoints : /\ Listed(e) \subseteq Records
                          /\ Cardinality(IdsOf(e)) = Len(listing[e])
                          /\ saved[e].pages \in 0..MaxPages
                          /\ IsObservations(saved[e].obs)
                          /\ saved[e].pages = 0 <=> saved[e] = NoSnapshot
  /\ IsObservations(heard) /\ IsObservations(got) /\ IsObservations(shown)
  /\ page \in 0..MaxPages /\ at \in Used
  /\ sound \in BOOLEAN /\ shifted \in BOOLEAN
  /\ outcome \in {"none", "whole", "partial"}
  /\ kept \subseteq Ids

\* The first page is full and has not changed since all issues were on it.
HiddenTail ==
  /\ kind = "issues" /\ Conditional(Main)
  /\ saved[Main].etag = Tag(Main) /\ Len(listing[Main]) > PerPage

\* FSD.md:179, "complete": a result that calls itself complete has every plugin
\* that was listed from the beginning of the fetch to its end, however the
\* listing grew and its records changed between the pages.  The exceptions are
\* those the code cannot tell: something left the listing, or moved in the
\* search past a result that does not count; or a second page of issues came up
\* behind a first one that is as it was.
Covers ==
  outcome = "whole" /\ ~shifted /\ ~HiddenTail => kept \subseteq DOMAIN heard

\* A complete result has of each plugin exactly what the answers of this fetch,
\* of this endpoint, said last of it (a 304 says what the first page is): no
\* record of an earlier fetch, of the other endpoint or of an earlier page is
\* passed off as the present one.
Grounded == outcome = "whole" => heard = shown

\* The endpoint's listing can be read completely, if it stays as it is.
Readable(e) ==
  LET malformed == Cardinality({r \in Listed(e) : r.sort = "malformed"})
      candidates == Cardinality({r \in Listed(e) : r.sort # "other"})
  IN /\ ~Fatal(Listed(e))
     /\ kind = "issues" => Len(listing[e]) <= MaxPages * PerPage /\ Tolerated(malformed, candidates)
     /\ kind = "search" => Len(listing[e]) <= MaxPages * PerPage /\ malformed = 0
     /\ kind = "market" => Plugins(Listed(e)) # {} /\ Tolerated(malformed, candidates)

\* When the listing has stopped to change and requests to fail, the source comes
\* to hold what is listed, whatever half-read results, ETags and fallbacks came
\* before, unless the listing is beyond what can be read at all: one record that
\* makes the fetcher raise is enough, and then the fallback is not asked either.
UpToDate ==
  \/ heard = Observations(Listed(Main))
  \/ /\ ~Readable(Main)
     /\ kind = "market" /\ ~Fatal(Listed(Main)) /\ Readable(Raw) => heard = Observations(Listed(Raw))
  \/ HiddenTail
Converges == <>[]UpToDate
=============================================================================
