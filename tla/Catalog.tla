------------------------------ MODULE Catalog -------------------------------
(***************************************************************************)
(* What a check does to the catalog of plugins between the load of the     *)
(* state and its save (service.py, merge.py, detect.py, github.py): it     *)
(* fetches the sources, merges their listings by priority, asks GitHub     *)
(* whether repositories are archived, fetches the search results, merges   *)
(* again, detects changes and puts them into batches.  The lock of Service *)
(* keeps everybody else from the state meanwhile, and nothing of it is     *)
(* saved before the end: a check that stops on its way leaves the disk as  *)
(* it was.  Delivery is the subject of Outbox: here a batch only exists.   *)
(*                                                                         *)
(* A source is its priority: 0 the market, 1 the collection issue, 2 the   *)
(* publishing issues, 3 the search.  A plugin's id is a number, a          *)
(* repository's ("github:") or, above those, one that stands for a record  *)
(* without a repository ("source:").  There are three substantive fields:  *)
(* the archived flag, the repository's URL, a text that stands for others. *)
(***************************************************************************)
EXTENDS Integers, FiniteSets, Paging

CONSTANTS
  Enabled,   \* enabled_sources
  Repos,     \* bound: repositories
  Records,   \* bound: records of a source (slugs, issues, search results)
  Texts,     \* bound: values of the text
  Flags,     \* bound: values of the archived flag in the market
  Targets,   \* valid_targets: where it is announced
  MaxItems,  \* events in a message or on a card
  Cards,     \* enable_image_card
  Metadata,  \* include_star_count: whether GitHub is asked at all
  MaxNews    \* bound: listed records and answers that ever differ from before

Market == 0
Search == 3
Sources == 0..3
Unsourced == 4   \* no SourceEvidence for a field

ASSUME CatalogAssumption ==
  /\ Enabled \subseteq Sources
  /\ Repos \in Nat \ {0} /\ Records \in Nat \ {0} /\ Texts \in Nat
  /\ Flags \subseteq 0..2
  /\ MaxItems \in Nat \ {0} /\ MaxNews \in Nat
  /\ Cards \in BOOLEAN /\ Metadata \in BOOLEAN

Empty == 0       \* None, "" or ()
No == 1
Yes == 2
Known == 1
Fields == {"text", "archived", "repo_url"}
Contents == [text : 0..Texts, archived : {Empty, No, Yes}, repo_url : {Empty, Known}]

RepoIds == 1..Repos
Fallback(s, r) == Repos + s * Records + r
FallbackIds == {Fallback(s, r) : s \in Sources \ {Search}, r \in 1..Records}
Ids == RepoIds \cup FallbackIds

\* What record r of source s can look like.  Only the market knows the flag of
\* any repository; the search finds repositories that are not archived.
Observations(s, r) ==
  {o \in [id : RepoIds \cup {Fallback(s, r)}, val : Contents] :
     /\ o.val.repo_url = (IF o.id \in RepoIds THEN Known ELSE Empty)
     /\ CASE s = Market -> o.val.archived \in Flags
          [] s = Search -> o.val.archived = No /\ o.id \in RepoIds
          [] OTHER      -> o.val.archived = Empty}

\* The snapshots a complete fetch can return.
Listings ==
  [s \in Sources |->
     UNION {{l \in [R -> UNION {Observations(s, r) : r \in R}] :
               \A r \in R : l[r] \in Observations(s, r)} : R \in SUBSET (1..Records)}]

VARIABLES
  disk,      \* the saved state
  mem,       \* the state that the running check works on
  pc,        \* how far the check is
  successful, \* some source was fetched with success
  baseline,  \* baseline_sources: those heard for the first time
  prev       \* previous_plugins, resolved

vars == <<disk, mem, pc, successful, baseline, prev>>

NoPlugins == [i \in {} |-> Empty]

Blank ==
  [listing     |-> [s \in Sources |-> NoPlugins],  \* observations of each source
   established |-> {},                             \* baseline_established
   aliases     |-> NoPlugins,                      \* id_aliases
   plugins     |-> NoPlugins,
   cache       |-> [g \in RepoIds |-> Empty],      \* archived, as GitHub answered
   outbox      |-> {},
   news        |-> 0]

\* What f says, and of what it does not know, what g says.
Over(f, g) == [i \in DOMAIN f \cup DOMAIN g |-> IF i \in DOMAIN f THEN f[i] ELSE g[i]]

-----------------------------------------------------------------------------
(* Fetching *)

\* Variant: an alias is kept for every id that changes.
RecordAliasesAll(s, aliases, old, new) ==
  LET moved == {r \in DOMAIN old \cap DOMAIN new : old[r].id # new[r].id} IN
  Over([i \in {old[r].id : r \in moved} |-> new[CHOOSE r \in moved : old[r].id = i].id],
       aliases)

\* _record_aliases: a record that had no repository before now has one.
RecordAliases(s, aliases, old, new) ==
  LET moved == {r \in DOMAIN old \cap DOMAIN new :
                  old[r].id \in FallbackIds /\ new[r].id \in RepoIds}
      at(i) == CHOOSE r \in moved : Fallback(s, r) = i
  IN Over([i \in {Fallback(s, r) : r \in moved} |-> new[at(i)].id], aliases)

Differing(old, new) ==
  Cardinality({r \in 1..Records :
     /\ r \in DOMAIN old \cup DOMAIN new
     /\ r \notin DOMAIN old \/ r \notin DOMAIN new \/ old[r] # new[r]})

\* A complete result replaces what the source listed; after any other result,
\* and when the source is disabled or has no fetcher, the old listing stays.
FetchSource(s) ==
  \/ UNCHANGED <<mem, successful, baseline>>
  \/ /\ s \in Enabled
     /\ successful' = TRUE
     /\ baseline' = IF s \in mem.established THEN baseline ELSE baseline \cup {s}
     /\ \E new \in Listings[s] :
          LET old == mem.listing[s]
              cost == mem.news + Differing(old, new)
          IN /\ cost <= MaxNews
             /\ mem' = [mem EXCEPT !.aliases = RecordAliases(s, @, old, new),
                                   !.listing[s] = new,
                                   !.established = @ \cup {s},
                                   !.news = cost]

-----------------------------------------------------------------------------
(* Merging *)

\* _resolve_alias: an alias leads to a repository, which has none.
Resolve(i, aliases) == IF i \in DOMAIN aliases THEN aliases[i] ELSE i

\* The observations of a plugin, as <<source, record>>.
Observed(i, st) ==
  UNION {{<<s, r>> : r \in {q \in DOMAIN st.listing[s] :
                             Resolve(st.listing[s][q].id, st.aliases) = i}} : s \in Sources}

Before(o, p) == o[1] < p[1] \/ (o[1] = p[1] /\ o[2] <= p[2])

\* Among the observations "seen" of a plugin, those that have a value for the
\* field, and the first of them.
Candidates(f, seen, st) == {o \in seen : st.listing[o[1]][o[2]].val[f] # Empty}
Best(f, seen, st) ==
  LET valued == Candidates(f, seen, st) IN
  CHOOSE o \in valued : \A p \in valued : Before(o, p)

\* Variant: a source yields to itself.
KeepsPreviousOrEqual(f, seen, st, before) ==
  \/ Candidates(f, seen, st) = {}
  \/ before.val[f] # Empty /\ before.from[f] <= Best(f, seen, st)[1]

\* _select_field gives None: no observation has a value, or the previous one
\* came from a source that ranks higher.
KeepsPrevious(f, seen, st, before) ==
  \/ Candidates(f, seen, st) = {}
  \/ before.val[f] # Empty /\ before.from[f] < Best(f, seen, st)[1]

NoRecord == [val |-> [f \in Fields |-> Empty], from |-> [f \in Fields |-> Unsourced], kinds |-> {}]

\* _merge_evidence, of which only the kinds of source matter: it never forgets.
Kinds(seen, before) == before.kinds \cup {o[1] : o \in seen}

\* merge_sources for one plugin.
MergedRecord(i, st, old) ==
  LET before == IF i \in DOMAIN old THEN old[i] ELSE NoRecord
      seen   == Observed(i, st)
      kept   == {f \in Fields : KeepsPrevious(f, seen, st, before)}
      best(f) == Best(f, seen, st)
  IN [val   |-> [f \in Fields |-> IF f \in kept THEN before.val[f]
                                  ELSE st.listing[best(f)[1]][best(f)[2]].val[f]],
      from  |-> [f \in Fields |-> IF f \in kept THEN before.from[f] ELSE best(f)[1]],
      kinds |-> Kinds(seen, before)]

\* merge_sources: what no source lists any more is dropped.
MergeSources(st, old) ==
  [i \in {j \in Ids : Observed(j, st) # {}} |-> MergedRecord(i, st, old)]

\* Variant: the plugins keep the ids they had.
ResolveNothing(plugins, aliases) == plugins

\* _resolve_previous_plugins: the records that now have one id become one; each
\* field comes from the source that ranks highest, then from the repository's.
ResolvePrevious(plugins, aliases) ==
  LET group(i) == {j \in DOMAIN plugins : Resolve(j, aliases) = i}
      valued(f, i) == {j \in group(i) : plugins[j].val[f] # Empty}
      first(f, i) == CHOOSE j \in valued(f, i) : \A k \in valued(f, i) :
                       Before(<<plugins[j].from[f], j>>, <<plugins[k].from[f], k>>)
  IN [i \in {Resolve(j, aliases) : j \in DOMAIN plugins} |->
       [val   |-> [f \in Fields |-> IF valued(f, i) = {} THEN Empty
                                    ELSE plugins[first(f, i)].val[f]],
        from  |-> [f \in Fields |-> IF valued(f, i) = {} THEN Unsourced
                                    ELSE plugins[first(f, i)].from[f]],
        kinds |-> UNION {plugins[j].kinds : j \in group(i)}]]

\* GitHubMetadataService.apply_cache: the answer overrides the sources' flag and
\* leaves field_sources alone.
ApplyCache(plugins, cache) ==
  [i \in DOMAIN plugins |->
     IF Metadata /\ i \in RepoIds /\ cache[i] # Empty
       THEN [plugins[i] EXCEPT !.val.archived = cache[i]]
       ELSE plugins[i]]

\* GitHubMetadataService.enrich: any part of the repositories is answered for;
\* the others are fresh, fail, or meet the end of the request budget.
Answers(plugins) ==
  UNION {[A -> {No, Yes}] : A \in SUBSET (IF Metadata THEN DOMAIN plugins \cap RepoIds ELSE {})}

-----------------------------------------------------------------------------
(* Detecting *)

\* What the id of an event is made of; old is empty for a plugin that is new.
Event(i, old, now) == [id |-> i, old |-> old, now |-> now]
Discovered(e) == e.old = {}

\* detect_changes
DetectChanges(old, now) ==
  {Event(i, {}, now[i].val) : i \in DOMAIN now \ DOMAIN old}
    \cup {Event(i, {old[i].val}, now[i].val) :
            i \in {j \in DOMAIN now \cap DOMAIN old : now[j].val # old[j].val}}

\* Variant: one source that is new silences a plugin that others have listed.
SilenceAny(events, plugins) ==
  {e \in events : ~(Discovered(e) /\ plugins[e.id].kinds \cap baseline # {})}

\* _filter_silent_baselines.
Audible(events, plugins) ==
  {e \in events : ~(Discovered(e) /\ plugins[e.id].kinds \subseteq baseline)}

\* sorted(events): the discovered first, then by id.
Position(e, events) ==
  Cardinality({d \in events :
     \/ Discovered(d) /\ ~Discovered(e)
     \/ Discovered(d) = Discovered(e) /\ d.id <= e.id})

\* create_batches: the events of a page are in order, so their set tells the page.
CreateBatches(events) ==
  LET n == Cardinality(events)
      page(e) == IF Cards THEN PageOf(Position(e, events), n, MaxItems)
                 ELSE ChunkOf(Position(e, events), n, MaxItems)
      total == PageCount(n, MaxItems)
  IN IF Targets = {} THEN {}
     ELSE {[events |-> {e \in events : page(e) = k}, page |-> k, of |-> total,
            targets |-> Targets] : k \in 1..total}

-----------------------------------------------------------------------------
(* The check *)

Init ==
  /\ disk = Blank /\ mem = Blank
  /\ pc = "idle"
  /\ successful = FALSE /\ baseline = {}
  /\ prev = NoPlugins

Idle ==
  /\ pc' = "idle"
  /\ successful' = FALSE /\ baseline' = {}
  /\ prev' = NoPlugins

Fetch(at, s, next) ==
  /\ pc = at
  /\ pc' = next
  /\ FetchSource(s)
  /\ UNCHANGED <<disk, prev>>

\* The first fetch begins the check, on the state as it was loaded.
FetchCollection == Fetch("idle", 1, "legacy")
FetchLegacy     == Fetch("legacy", 2, "market")
FetchMarket     == Fetch("market", Market, "merge")

\* The first merge, and what GitHub answers about the repositories in it.
MergeAndEnrich ==
  /\ pc = "merge"
  /\ pc' = "search"
  /\ prev' = ResolvePrevious(mem.plugins, mem.aliases)
  /\ LET merged == MergeSources(mem, prev') IN
     \E answers \in Answers(merged) :
       LET cache == Over(answers, mem.cache)
           cost == mem.news + Cardinality({g \in RepoIds : cache[g] # mem.cache[g]})
       IN /\ cost <= MaxNews
          /\ mem' = [mem EXCEPT !.cache = cache,
                                !.plugins = ApplyCache(merged, cache),
                                !.news = cost]
  /\ UNCHANGED <<disk, successful, baseline>>

FetchSearch == Fetch("search", Search, "detect")

\* Variant: a check that hears no source leaves the catalog as it was.
RemergedIfHeard ==
  IF successful THEN ApplyCache(MergeSources(mem, mem.plugins), mem.cache) ELSE disk.plugins

\* After the search, all is merged again over the first merge.
Remerged ==
  IF Search \in Enabled
    THEN ApplyCache(MergeSources(mem, mem.plugins), mem.cache)
    ELSE mem.plugins

\* No event unless some source was heard.
Events(plugins) ==
  IF ~successful THEN {} ELSE Audible(DetectChanges(prev, plugins), plugins)

\* No await in the rest of the check changes the state: the new batches and the
\* catalog are saved at once.
DetectAndSave ==
  /\ pc = "detect"
  /\ LET plugins == Remerged
         batches == CreateBatches(Events(plugins))
     IN /\ mem' = [mem EXCEPT !.plugins = plugins, !.outbox = @ \cup batches]
        /\ disk' = mem'
  /\ Idle

\* The check is cancelled, the program stops, or the save fails and has not
\* replaced the file.
Abandon ==
  /\ pc # "idle"
  /\ mem' = disk
  /\ Idle
  /\ UNCHANGED disk

Next ==
  \/ FetchCollection \/ FetchLegacy \/ FetchMarket
  \/ MergeAndEnrich \/ FetchSearch
  \/ DetectAndSave
  \/ Abandon

Spec == Init /\ [][Next]_vars

-----------------------------------------------------------------------------
(* Properties *)

PluginRecords ==
  [val : Contents, from : [Fields -> Sources \cup {Unsourced}], kinds : SUBSET Sources]

EventRecords == [id : Ids, old : {{}} \cup {{c} : c \in Contents}, now : Contents]

StateOK(st) ==
  /\ \A s \in Sources : st.listing[s] \in Listings[s]
  /\ st.established \subseteq Enabled
  /\ DOMAIN st.aliases \subseteq FallbackIds
  /\ \A i \in DOMAIN st.aliases : st.aliases[i] \in RepoIds
  /\ DOMAIN st.plugins \subseteq Ids
  /\ \A i \in DOMAIN st.plugins : st.plugins[i] \in PluginRecords
  /\ st.cache \in [RepoIds -> {Empty, No, Yes}]
  /\ \A b \in st.outbox : /\ \A e \in b.events : e \in EventRecords
                          /\ b.page \in 1..b.of
                          /\ b.targets = Targets
  /\ st.news \in 0..MaxNews

\* The state on the disk and the one a check works on are well formed: in
\* particular an alias always leads from a record's id to a repository's, so
\* that _resolve_alias needs one step.
TypeOK ==
  /\ StateOK(disk) /\ StateOK(mem)
  /\ pc \in {"idle", "legacy", "market", "merge", "search", "detect"}
  /\ successful \in BOOLEAN /\ baseline \subseteq Enabled
  /\ \A i \in DOMAIN prev : prev[i] \in PluginRecords

\* The flag that is known of a plugin beside what the sources say.
Answered(f, i, st) == f = "archived" /\ Metadata /\ i \in RepoIds /\ st.cache[i] # Empty

\* merge_sources against its contract (DESIGN.md, field priority): the saved
\* catalog holds exactly the plugins that some source lists; no value comes from
\* a source that ranks below one that has a value; and when the best source has
\* one, that is the value, whatever was merged before and in however many
\* checks it was built up, except for the flag that GitHub has answered for.
CatalogFaithful == pc = "idle" =>
  /\ DOMAIN disk.plugins = {i \in Ids : Observed(i, disk) # {}}
  /\ \A i \in DOMAIN disk.plugins, f \in Fields :
       LET p == disk.plugins[i]
           seen == Observed(i, disk)
           o == Best(f, seen, disk)
       IN /\ Candidates(f, seen, disk) # {} =>
               /\ p.from[f] <= o[1]
               /\ p.from[f] = o[1] /\ ~Answered(f, i, disk) =>
                    p.val[f] = disk.listing[o[1]][o[2]].val[f]
          /\ Answered(f, i, disk) => p.val[f] = disk.cache[i]

\* The contents an id had on the disk before, under any id that is now an alias of it.
Former(i) == {disk.plugins[j].val : j \in {k \in DOMAIN disk.plugins : Resolve(k, disk'.aliases) = i}}

\* The batches a check adds.
NewEvents == UNION {b.events : b \in disk'.outbox \ disk.outbox}

\* The listing of a plugin by a source that was known before this check.
ListedByKnown(i) == \E o \in Observed(i, disk') : o[1] \in disk.established

\* No change is lost between the catalog and the outbox: whatever a check saves
\* of a plugin is what was saved before, or is announced to the targets in a
\* batch saved with it, or is new and listed only by sources that were never
\* heard before.  A check that hears no source and one without targets keep
\* silent.  (service.py: one save for catalog and outbox; FSD.md:285.)
NothingMissed ==
  [][(disk' # disk /\ Targets # {} /\ successful) =>
       \A i \in DOMAIN disk'.plugins :
         LET now == disk'.plugins[i].val
         IN \/ \A f \in Fields : \E c \in Former(i) : c[f] = now[f]
            \/ Former(i) = {} /\ ~ListedByKnown(i)
            \/ \E b \in disk'.outbox : \E e \in b.events :
                 b.targets = Targets /\ e.id = i /\ e.now = now]_vars

\* FSD.md:276-285, silent baselines: a plugin is announced as discovered only if
\* it was not in the catalog under any id and a source that was heard before
\* this check lists it now and did not list it before.
BaselineSilent ==
  [][\A e \in NewEvents : Discovered(e) =>
       /\ Former(e.id) = {}
       /\ \E o \in Observed(e.id, disk') :
            o[1] \in disk.established /\ o \notin Observed(e.id, disk)]_vars

\* An update is announced only if something was learnt of that plugin in this
\* check: a source lists it in another way (what it is, or was until now, by an
\* alias included), or GitHub's answer about it is another.  Merging over,
\* priorities, aliases and the second merge make no change of their own
\* (DESIGN.md:43).
UpdatesGrounded ==
  [][\A e \in NewEvents : ~Discovered(e) =>
       \/ \E s \in Sources : \E r \in 1..Records :
            LET was == r \in DOMAIN disk.listing[s]
                is  == r \in DOMAIN disk'.listing[s]
            IN /\ \/ was /\ Resolve(disk.listing[s][r].id, disk'.aliases) = e.id
                  \/ was /\ Resolve(disk.listing[s][r].id, disk.aliases) = e.id
                  \/ is /\ Resolve(disk'.listing[s][r].id, disk'.aliases) = e.id
               /\ ~(was /\ is /\ disk.listing[s][r] = disk'.listing[s][r])
       \/ e.id \in RepoIds /\ disk'.cache[e.id] # disk.cache[e.id]]_vars

\* A check in which every source lists what it listed before, and in which
\* GitHub's answers are the known ones or, first asked, that the repository is
\* not archived, announces nothing.  (FSD.md:693, FSD.md:512.)
QuietWhenUnchanged ==
  [][(/\ disk'.listing = disk.listing
      /\ \A g \in RepoIds : \/ disk'.cache[g] = disk.cache[g]
                            \/ disk.cache[g] = Empty /\ disk'.cache[g] = No)
     => disk'.outbox = disk.outbox]_vars
=============================================================================
