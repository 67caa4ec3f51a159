---------------------------- MODULE CatalogProofs ---------------------------
(***************************************************************************)
(* Results on Catalog, for any number of repositories, records, texts and  *)
(* changes, any sources that are enabled and any targets.                  *)
(***************************************************************************)
EXTENDS Catalog, PagingProofs, FiniteSetTheorems, WellFoundedInduction, TLAPS

-----------------------------------------------------------------------------
(* The first of several *)

\* A set of numbers has a least one.
LEMMA NatMin ==
  ASSUME NEW T, T \subseteq Nat, T # {}
  PROVE  \E x \in T : \A y \in T : x <= y
<1> DEFINE R == OpToRel(<, Nat)
<1>1. IsWellFoundedOn(R, Nat)
  BY NatLessThanWellFounded
<1>2. \A x, y \in Nat : y < x => <<y, x>> \in R
  BY DEF OpToRel
<1> HIDE DEF R
<1>3. PICK x \in T : \A y \in T : ~(<<y, x>> \in R)
  BY <1>1, WFMin
<1>4. ASSUME NEW y \in T PROVE x <= y
  <2>1. x \in Nat /\ y \in Nat /\ ~(y < x)
    BY <1>2, <1>3
  <2> QED
    BY <2>1
<1> QED
  BY <1>4

\* A set of pairs of numbers has a first one.
LEMMA LexMin ==
  ASSUME NEW T, T \subseteq Nat \X Nat, T # {}
  PROVE  \E x \in T : \A y \in T : Before(x, y)
<1>1. PICK a \in {x[1] : x \in T} : \A b \in {x[1] : x \in T} : a <= b
  <2>1. {x[1] : x \in T} \subseteq Nat /\ {x[1] : x \in T} # {}
    OBVIOUS
  <2> QED
    BY <2>1, NatMin
<1> DEFINE U == {x \in T : x[1] = a}
<1>2. PICK c \in {x[2] : x \in U} : \A b \in {x[2] : x \in U} : c <= b
  <2>1. {x[2] : x \in U} \subseteq Nat /\ {x[2] : x \in U} # {}
    OBVIOUS
  <2> QED
    BY <2>1, NatMin
<1>3. PICK x \in U : x[2] = c
  OBVIOUS
<1>4. ASSUME NEW y \in T PROVE Before(x, y)
  <2>1. a <= y[1] /\ a \in Nat /\ y[1] \in Nat /\ c \in Nat /\ y[2] \in Nat
    BY <1>1, <1>2
  <2>2. CASE y[1] = a
    BY <1>2, <1>3, <2>1, <2>2 DEF Before
  <2>3. CASE y[1] # a
    BY <1>3, <2>1, <2>3 DEF Before
  <2> QED
    BY <2>2, <2>3
<1> QED
  BY <1>3, <1>4

-----------------------------------------------------------------------------
(* The types *)

Lists ==
  {l \in [Sources -> UNION {Listings[s] : s \in Sources}] : \A s \in Sources : l[s] \in Listings[s]}
Aliases == UNION {[A -> RepoIds] : A \in SUBSET FallbackIds}
Catalogs == UNION {[A -> PluginRecords] : A \in SUBSET Ids}
Caches == [RepoIds -> {Empty, No, Yes}]
Batches ==
  {b \in [events : SUBSET EventRecords, page : Nat, of : Nat, targets : {Targets}] :
     b.page \in 1..b.of}

States ==
  [listing : Lists, established : SUBSET Enabled, aliases : Aliases, plugins : Catalogs,
   cache : Caches, outbox : SUBSET Batches, news : 0..MaxNews]

\* What the constants are; the ids of the records that have no repository begin
\* where those of the repositories end.
LEMMA Constants ==
  /\ Repos \in Nat \ {0} /\ Records \in Nat \ {0} /\ MaxItems \in Nat \ {0} /\ MaxNews \in Nat
  /\ Enabled \subseteq Sources /\ Sources \subseteq Nat /\ Search \in Sources
  /\ RepoIds \subseteq Nat /\ FallbackIds \subseteq Nat
  /\ RepoIds \cap FallbackIds = {} /\ Ids = RepoIds \cup FallbackIds
<1>1. \A s \in Sources, r \in 1..Records : Fallback(s, r) \in Nat /\ Fallback(s, r) > Repos
  <2> TAKE s \in Sources, r \in 1..Records
  <2>1. s * Records \in Nat
    BY CatalogAssumption DEF Sources
  <2> QED
    BY <2>1, CatalogAssumption DEF Fallback
<1> QED
  BY <1>1, CatalogAssumption DEF Sources, Search, RepoIds, FallbackIds, Ids

\* No two records share one.
LEMMA FallbackInjective ==
  ASSUME NEW s \in Sources, NEW r \in 1..Records, NEW t \in Sources, NEW q \in 1..Records,
         Fallback(s, r) = Fallback(t, q)
  PROVE  s = t /\ r = q
<1>1. s * Records + r = t * Records + q
  <2>1. s * Records \in Nat /\ t * Records \in Nat
    BY CatalogAssumption DEF Sources
  <2> QED
    BY <2>1, CatalogAssumption DEF Fallback
<1>2. ASSUME NEW a \in Sources, NEW b \in Sources, a < b
      PROVE  b * Records >= a * Records + Records
  BY <1>2, CatalogAssumption DEF Sources
<1>3. s * Records \in Nat /\ t * Records \in Nat
  BY CatalogAssumption DEF Sources
<1>4. ~(s < t) /\ ~(t < s)
  BY <1>1, <1>2, <1>3, CatalogAssumption
<1> QED
  BY <1>1, <1>3, <1>4, CatalogAssumption DEF Sources

\* A record of a listing.
LEMMA ListingFacts ==
  ASSUME NEW s \in Sources, NEW l \in Listings[s]
  PROVE  /\ DOMAIN l \subseteq 1..Records
         /\ \A r \in DOMAIN l :
              /\ l[r].id \in Ids /\ l[r].val \in Contents
              /\ l[r].id \in FallbackIds => l[r].id = Fallback(s, r)
              /\ s = Search => l[r].id \in RepoIds
<1>1. PICK R \in SUBSET (1..Records) :
        l \in {k \in [R -> UNION {Observations(s, r) : r \in R}] :
                 \A r \in R : k[r] \in Observations(s, r)}
  BY DEF Listings
<1>2. DOMAIN l = R /\ \A r \in R : l[r] \in Observations(s, r)
  BY <1>1
<1>3. ASSUME NEW r \in R
      PROVE  /\ l[r].id \in Ids /\ l[r].val \in Contents
             /\ l[r].id \in FallbackIds => l[r].id = Fallback(s, r)
             /\ s = Search => l[r].id \in RepoIds
  <2>1. l[r] \in [id : RepoIds \cup {Fallback(s, r)}, val : Contents]
    BY <1>2 DEF Observations
  <2>2. s = Search => l[r].id \in RepoIds
    BY <1>2 DEF Observations, Search, Market
  <2>3. s # Search => Fallback(s, r) \in FallbackIds
    BY DEF FallbackIds
  <2> QED
    BY <2>1, <2>2, <2>3, Constants
<1> QED
  BY <1>2, <1>3

\* A plugin of the catalog.
LEMMA CatalogFacts ==
  ASSUME NEW c \in Catalogs
  PROVE  DOMAIN c \subseteq Ids /\ \A i \in DOMAIN c : c[i] \in PluginRecords
BY DEF Catalogs

\* An alias leads from a record to a repository.
LEMMA AliasFacts ==
  ASSUME NEW a \in Aliases
  PROVE  /\ DOMAIN a \subseteq FallbackIds /\ \A i \in DOMAIN a : a[i] \in RepoIds
         /\ \A i \in Ids : Resolve(i, a) \in Ids /\ Resolve(i, a) \notin DOMAIN a
         /\ \A i \in RepoIds : Resolve(i, a) = i
<1>1. DOMAIN a \subseteq FallbackIds /\ \A i \in DOMAIN a : a[i] \in RepoIds
  BY DEF Aliases
<1> QED
  BY <1>1, Constants DEF Resolve

\* The conjuncts of TypeOK.
LEMMA StateFacts == ASSUME NEW st \in States PROVE StateOK(st)
<1>1. /\ st.listing \in Lists /\ st.established \subseteq Enabled /\ st.aliases \in Aliases
      /\ st.plugins \in Catalogs /\ st.cache \in Caches /\ st.outbox \subseteq Batches
      /\ st.news \in 0..MaxNews
  BY DEF States
<1>2. \A b \in st.outbox : /\ \A e \in b.events : e \in EventRecords
                          /\ b.page \in 1..b.of
                          /\ b.targets = Targets
  BY <1>1 DEF Batches
<1>3. \A s \in Sources : st.listing[s] \in Listings[s]
  BY <1>1 DEF Lists
<1> QED
  BY <1>1, <1>2, <1>3, CatalogFacts, AliasFacts DEF StateOK, Caches

-----------------------------------------------------------------------------
(* Merging *)

\* What a merge reads of a state: the listings and the aliases.
Readable(st) == st.listing \in Lists /\ st.aliases \in Aliases

\* The observations of a plugin are records of the sources.
LEMMA ObservedFacts ==
  ASSUME NEW st, Readable(st), NEW i
  PROVE  /\ Observed(i, st) \subseteq Sources \X (1..Records)
         /\ \A s \in Sources, r \in 1..Records :
              <<s, r>> \in Observed(i, st)
                <=> r \in DOMAIN st.listing[s] /\ Resolve(st.listing[s][r].id, st.aliases) = i
         /\ Observed(i, st) # {} => i \in Ids /\ i \notin DOMAIN st.aliases
<1>1. \A s \in Sources : st.listing[s] \in Listings[s]
  BY DEF Readable, Lists
<1>2. Observed(i, st) \subseteq Sources \X (1..Records)
  BY <1>1, ListingFacts DEF Observed
<1>3. ASSUME NEW s \in Sources, NEW r \in 1..Records
      PROVE  <<s, r>> \in Observed(i, st)
               <=> r \in DOMAIN st.listing[s] /\ Resolve(st.listing[s][r].id, st.aliases) = i
  BY DEF Observed
<1>4. Observed(i, st) # {} => i \in Ids /\ i \notin DOMAIN st.aliases
  <2> SUFFICES ASSUME Observed(i, st) # {} PROVE i \in Ids /\ i \notin DOMAIN st.aliases
    OBVIOUS
  <2>1. PICK s \in Sources, r \in 1..Records : <<s, r>> \in Observed(i, st)
    BY <1>2
  <2>2. st.listing[s][r].id \in Ids /\ Resolve(st.listing[s][r].id, st.aliases) = i
    BY <1>1, <1>3, <2>1, ListingFacts
  <2> QED
    BY <2>2, AliasFacts DEF Readable
<1> QED
  BY <1>2, <1>3, <1>4

\* The best observation is one of the candidates.
LEMMA BestFacts ==
  ASSUME NEW st, Readable(st), NEW i, NEW f \in Fields,
         Candidates(f, Observed(i, st), st) # {}
  PROVE  LET o == Best(f, Observed(i, st), st) IN
         /\ o \in Observed(i, st) /\ o \in Candidates(f, Observed(i, st), st)
         /\ o[1] \in Sources /\ o[2] \in 1..Records /\ o = <<o[1], o[2]>>
         /\ o[2] \in DOMAIN st.listing[o[1]]
         /\ st.listing[o[1]][o[2]].val \in Contents
         /\ st.listing[o[1]][o[2]].val[f] # Empty
<1> DEFINE T == Candidates(f, Observed(i, st), st)
<1>1. T \subseteq Observed(i, st) /\ Observed(i, st) \subseteq Sources \X (1..Records)
  BY ObservedFacts DEF Candidates
<1>2. T \subseteq Nat \X Nat
  <2> HIDE DEF T
  <2>1. \A x \in T : x \in Sources \X (1..Records)
    BY <1>1
  <2>2. \A a \in Sources, b \in 1..Records : <<a, b>> \in Nat \X Nat
    BY Constants
  <2>3. \A x \in T : x \in Nat \X Nat
    BY <2>1, <2>2
  <2> QED
    BY <2>3
<1>3. \E x \in T : \A y \in T : Before(x, y)
  BY <1>2, LexMin
<1>4. Best(f, Observed(i, st), st) \in T
  BY <1>3 DEF Best
<1> DEFINE o == Best(f, Observed(i, st), st)
<1> HIDE DEF o
<1>5. o \in T
  BY <1>4 DEF o
<1>6. o[1] \in Sources /\ o[2] \in 1..Records /\ o = <<o[1], o[2]>>
  BY <1>1, <1>5
<1>7. o[2] \in DOMAIN st.listing[o[1]]
  BY <1>1, <1>5, <1>6, ObservedFacts
<1>8. st.listing[o[1]] \in Listings[o[1]]
  BY <1>6 DEF Readable, Lists
<1>9. st.listing[o[1]][o[2]].val \in Contents
  BY <1>6, <1>7, <1>8, ListingFacts
<1>10. st.listing[o[1]][o[2]].val[f] # Empty
  BY <1>5 DEF Candidates
<1> QED
  BY <1>1, <1>5, <1>6, <1>7, <1>9, <1>10 DEF o

\* The record a plugin had before a merge, if any.
Earlier(i, old) == IF i \in DOMAIN old THEN old[i] ELSE NoRecord

\* It is a record.
LEMMA EarlierFacts ==
  ASSUME NEW old \in Catalogs, NEW i
  PROVE  Earlier(i, old) \in PluginRecords
<1>1. NoRecord \in PluginRecords
  <2>1. 0 \in 0..Texts
    BY CatalogAssumption
  <2>2. NoRecord.val \in Contents
    BY <2>1 DEF NoRecord, Contents, Fields, Empty
  <2>3. NoRecord.from \in [Fields -> Sources \cup {Unsourced}]
    BY DEF NoRecord
  <2> QED
    BY <2>2, <2>3 DEF NoRecord, PluginRecords
<1> QED
  BY <1>1, CatalogFacts DEF Earlier

\* What a merge makes of a field, and of the kinds.
LEMMA MergedFacts ==
  ASSUME NEW st, NEW old, NEW i
  PROVE  LET m == MergedRecord(i, st, old)
             seen == Observed(i, st)
             before == Earlier(i, old)
         IN /\ \A f \in Fields :
                 IF KeepsPrevious(f, seen, st, before)
                   THEN m.val[f] = before.val[f] /\ m.from[f] = before.from[f]
                   ELSE LET o == Best(f, seen, st) IN
                        m.val[f] = st.listing[o[1]][o[2]].val[f] /\ m.from[f] = o[1]
            /\ m.kinds = before.kinds \cup {o[1] : o \in seen}
BY DEF MergedRecord, Earlier, Kinds

\* A merged record is a record.
LEMMA MergedTyped ==
  ASSUME NEW st, Readable(st), NEW old \in Catalogs, NEW i
  PROVE  MergedRecord(i, st, old) \in PluginRecords
<1> DEFINE before == Earlier(i, old)
           seen == Observed(i, st)
           kept(f) == KeepsPrevious(f, seen, st, before)
           best(f) == Best(f, seen, st)
           v(f) == IF kept(f) THEN before.val[f] ELSE st.listing[best(f)[1]][best(f)[2]].val[f]
           w(f) == IF kept(f) THEN before.from[f] ELSE best(f)[1]
           k == Kinds(seen, before)
<1>1. before \in PluginRecords
  BY EarlierFacts
<1>2. \A f \in Fields : ~kept(f) => /\ best(f)[1] \in Sources
                                    /\ st.listing[best(f)[1]][best(f)[2]].val \in Contents
  BY BestFacts DEF KeepsPrevious
<1>3. MergedRecord(i, st, old) = [val |-> [f \in Fields |-> v(f)],
                                  from |-> [f \in Fields |-> w(f)], kinds |-> k]
  BY DEF MergedRecord, Earlier
<1>4. k \subseteq Sources
  BY <1>1, ObservedFacts DEF Kinds, PluginRecords
<1> HIDE DEF before, seen, kept, best, k
<1>5. v("text") \in 0..Texts /\ v("archived") \in {Empty, No, Yes} /\ v("repo_url") \in {Empty, Known}
  <2>1. /\ before.val.text \in 0..Texts /\ before.val.archived \in {Empty, No, Yes}
        /\ before.val.repo_url \in {Empty, Known}
    BY <1>1 DEF PluginRecords, Contents
  <2> QED
    BY <1>2, <2>1 DEF Contents, Fields
<1>6. \A f \in Fields : w(f) \in Sources \cup {Unsourced}
  <2>1. \A f \in Fields : before.from[f] \in Sources \cup {Unsourced}
    BY <1>1 DEF PluginRecords
  <2> QED
    BY <1>2, <2>1
<1> HIDE DEF v, w
<1>7. [f \in Fields |-> v(f)] \in Contents
  BY <1>5 DEF Contents, Fields
<1>8. [f \in Fields |-> w(f)] \in [Fields -> Sources \cup {Unsourced}]
  BY <1>6
<1> QED
  BY <1>3, <1>4, <1>7, <1>8 DEF PluginRecords

\* A merge gives a catalog, of the plugins that somebody lists.
LEMMA MergeTyped ==
  ASSUME NEW st, Readable(st), NEW old \in Catalogs
  PROVE  /\ MergeSources(st, old) \in Catalogs
         /\ DOMAIN MergeSources(st, old) = {i \in Ids : Observed(i, st) # {}}
         /\ \A i \in DOMAIN MergeSources(st, old) :
              MergeSources(st, old)[i] = MergedRecord(i, st, old)
<1> DEFINE D == {i \in Ids : Observed(i, st) # {}}
<1>1. MergeSources(st, old) = [i \in D |-> MergedRecord(i, st, old)]
  BY DEF MergeSources
<1>2. \A i \in D : MergedRecord(i, st, old) \in PluginRecords
  BY MergedTyped
<1> HIDE DEF D
<1>3. D \in SUBSET Ids
  BY DEF D
<1>4. MergeSources(st, old) \in [D -> PluginRecords]
  BY <1>1, <1>2
<1> QED
  BY <1>1, <1>3, <1>4 DEF Catalogs, D

\* Two states with the same listings and aliases are merged to the same.
LEMMA MergeSame ==
  ASSUME NEW st, NEW su, st.listing = su.listing, st.aliases = su.aliases, NEW old
  PROVE  /\ \A i : Observed(i, st) = Observed(i, su)
         /\ MergeSources(st, old) = MergeSources(su, old)
<1>1. ASSUME NEW i PROVE Observed(i, st) = Observed(i, su)
  BY DEF Observed
<1>2. ASSUME NEW f, NEW seen PROVE Candidates(f, seen, st) = Candidates(f, seen, su)
  BY DEF Candidates
<1>3. ASSUME NEW f, NEW seen PROVE Best(f, seen, st) = Best(f, seen, su)
  BY <1>2 DEF Best
<1>4. ASSUME NEW f, NEW seen, NEW before
      PROVE  KeepsPrevious(f, seen, st, before) <=> KeepsPrevious(f, seen, su, before)
  BY <1>2, <1>3 DEF KeepsPrevious
<1>5. ASSUME NEW i PROVE MergedRecord(i, st, old) = MergedRecord(i, su, old)
  BY <1>1, <1>3, <1>4 DEF MergedRecord
<1> QED
  BY <1>1, <1>5 DEF MergeSources

-----------------------------------------------------------------------------
(* What else a check is made of *)

\* The plugins that become one id.
Group(i, plugins, aliases) == {j \in DOMAIN plugins : Resolve(j, aliases) = i}

\* Each field of a resolved record is that of one of those, if any has a value.
Resolved(p, plugins, aliases) ==
  /\ p \in Catalogs
  /\ DOMAIN p = {Resolve(j, aliases) : j \in DOMAIN plugins}
  /\ \A i \in DOMAIN p : \A f \in Fields :
       \/ /\ p[i].val[f] = Empty /\ p[i].from[f] = Unsourced
          /\ \A j \in Group(i, plugins, aliases) : plugins[j].val[f] = Empty
       \/ /\ p[i].val[f] # Empty
          /\ \E j \in Group(i, plugins, aliases) :
               plugins[j].val[f] = p[i].val[f] /\ plugins[j].from[f] = p[i].from[f]

\* The records as they are resolved are so.
LEMMA ResolvedFacts ==
  ASSUME NEW plugins \in Catalogs, NEW aliases \in Aliases,
         NEW p, p = ResolvePrevious(plugins, aliases)
  PROVE  Resolved(p, plugins, aliases)
<1> DEFINE group(i) == Group(i, plugins, aliases)
           valued(f, i) == {j \in group(i) : plugins[j].val[f] # Empty}
           first(f, i) == CHOOSE j \in valued(f, i) : \A k \in valued(f, i) :
                            Before(<<plugins[j].from[f], j>>, <<plugins[k].from[f], k>>)
           v(f, i) == IF valued(f, i) = {} THEN Empty ELSE plugins[first(f, i)].val[f]
           w(f, i) == IF valued(f, i) = {} THEN Unsourced ELSE plugins[first(f, i)].from[f]
           k(i) == UNION {plugins[j].kinds : j \in group(i)}
           D == {Resolve(j, aliases) : j \in DOMAIN plugins}
           rec(i) == [val |-> [f \in Fields |-> v(f, i)], from |-> [f \in Fields |-> w(f, i)],
                      kinds |-> k(i)]
<1>1. p = [i \in D |-> rec(i)]
  BY DEF ResolvePrevious, Group
<1>2. \A j \in DOMAIN plugins : j \in Ids /\ plugins[j] \in PluginRecords
  BY CatalogFacts
<1>3. ASSUME NEW i \in D, NEW f \in Fields, valued(f, i) # {}
      PROVE  first(f, i) \in valued(f, i)
  <2> DEFINE T == {<<plugins[j].from[f], j>> : j \in valued(f, i)}
  <2>1. \A j \in valued(f, i) : plugins[j].from[f] \in Nat /\ j \in Nat
    <3>1. \A j \in valued(f, i) : plugins[j].from[f] \in Sources \cup {Unsourced} /\ j \in Ids
      BY <1>2 DEF Group, PluginRecords
    <3>2. Ids \subseteq Nat /\ Sources \cup {Unsourced} \subseteq Nat
      BY Constants DEF Unsourced
    <3> HIDE DEF valued
    <3> QED
      BY <3>1, <3>2
  <2>2. T \subseteq Nat \X Nat /\ T # {}
    <3> HIDE DEF valued
    <3>1. \A x \in T : x \in Nat \X Nat
      BY <2>1
    <3>2. T # {}
      BY <1>3
    <3> QED
      BY <3>1, <3>2
  <2>3. PICK x \in T : \A y \in T : Before(x, y)
    <3> HIDE DEF T
    <3> QED
      BY <2>2, LexMin
  <2>4. PICK j \in valued(f, i) : x = <<plugins[j].from[f], j>>
    OBVIOUS
  <2>5. \A m \in valued(f, i) : Before(<<plugins[j].from[f], j>>, <<plugins[m].from[f], m>>)
    BY <2>3, <2>4
  <2> HIDE DEF valued, T
  <2> QED
    BY <2>4, <2>5
<1>4. \A i \in D : group(i) # {} /\ group(i) \subseteq DOMAIN plugins
  BY DEF Group
<1>5. D \subseteq Ids
  BY <1>2, AliasFacts
<1>6. ASSUME NEW i \in D
      PROVE  rec(i) \in PluginRecords
  <2>1. ASSUME NEW f \in Fields, NEW S, 0 \in S, \A j \in DOMAIN plugins : plugins[j].val[f] \in S
        PROVE  v(f, i) \in S
    <3> HIDE DEF first, group
    <3> QED
      BY <1>3, <1>4, <2>1 DEF Empty
  <2>2. v("text", i) \in 0..Texts
    <3>1. 0 \in 0..Texts /\ \A j \in DOMAIN plugins : plugins[j].val["text"] \in 0..Texts
      BY <1>2, CatalogAssumption DEF PluginRecords, Contents
    <3> HIDE DEF v
    <3> QED
      BY <2>1, <3>1 DEF Fields
  <2>3. v("archived", i) \in {Empty, No, Yes}
    <3>1. /\ 0 \in {Empty, No, Yes}
          /\ \A j \in DOMAIN plugins : plugins[j].val["archived"] \in {Empty, No, Yes}
      BY <1>2 DEF PluginRecords, Contents, Empty
    <3> HIDE DEF v
    <3> QED
      BY <2>1, <3>1 DEF Fields
  <2>4. v("repo_url", i) \in {Empty, Known}
    <3>1. /\ 0 \in {Empty, Known}
          /\ \A j \in DOMAIN plugins : plugins[j].val["repo_url"] \in {Empty, Known}
      BY <1>2 DEF PluginRecords, Contents, Empty
    <3> HIDE DEF v
    <3> QED
      BY <2>1, <3>1 DEF Fields
  <2>5. \A f \in Fields : w(f, i) \in Sources \cup {Unsourced}
    <3>1. \A j \in DOMAIN plugins, f \in Fields : plugins[j].from[f] \in Sources \cup {Unsourced}
      BY <1>2 DEF PluginRecords
    <3> HIDE DEF first, group
    <3> QED
      BY <1>3, <1>4, <3>1
  <2>6. k(i) \subseteq Sources
    BY <1>2, <1>4 DEF PluginRecords
  <2> HIDE DEF v, w, k
  <2>7. [f \in Fields |-> v(f, i)] \in Contents
    BY <2>2, <2>3, <2>4 DEF Contents, Fields
  <2>8. [f \in Fields |-> w(f, i)] \in [Fields -> Sources \cup {Unsourced}]
    BY <2>5
  <2> QED
    BY <2>6, <2>7, <2>8 DEF PluginRecords
<1>7. p \in Catalogs /\ DOMAIN p = D
  <2> HIDE DEF rec, D
  <2>1. [i \in D |-> rec(i)] \in [D -> PluginRecords]
    BY <1>6
  <2> QED
    BY <1>1, <1>5, <2>1 DEF Catalogs
<1>8. ASSUME NEW i \in D, NEW f \in Fields
      PROVE  /\ valued(f, i) = {} => /\ p[i].val[f] = Empty /\ p[i].from[f] = Unsourced
                                     /\ \A j \in group(i) : plugins[j].val[f] = Empty
             /\ valued(f, i) # {} => /\ p[i].val[f] # Empty
                                     /\ \E j \in group(i) : /\ plugins[j].val[f] = p[i].val[f]
                                                            /\ plugins[j].from[f] = p[i].from[f]
  <2>1. p[i].val[f] = v(f, i) /\ p[i].from[f] = w(f, i)
    <3> HIDE DEF v, w, D
    <3> QED
      BY <1>1
  <2>2. \A j \in group(i) : plugins[j].val[f] # Empty => j \in valued(f, i)
    OBVIOUS
  <2> HIDE DEF first, group
  <2> QED
    BY <1>3, <2>1, <2>2
<1> HIDE DEF valued
<1> QED
  BY <1>7, <1>8 DEF Resolved

\* Which flag GitHub's answer overrides.
Overridden(f, i, cache) == f = "archived" /\ Metadata /\ i \in RepoIds /\ cache[i] # Empty

\* GitHub's answers change that and nothing else.
LEMMA CachedFacts ==
  ASSUME NEW plugins \in Catalogs, NEW cache \in Caches
  PROVE  LET p == ApplyCache(plugins, cache) IN
         /\ p \in Catalogs /\ DOMAIN p = DOMAIN plugins
         /\ \A i \in DOMAIN p :
              /\ p[i].from = plugins[i].from /\ p[i].kinds = plugins[i].kinds
              /\ \A f \in Fields : p[i].val[f] = IF Overridden(f, i, cache) THEN cache[i]
                                                ELSE plugins[i].val[f]
<1> DEFINE p == ApplyCache(plugins, cache)
<1>1. DOMAIN p = DOMAIN plugins /\ DOMAIN plugins \in SUBSET Ids
  BY CatalogFacts DEF ApplyCache
<1>2. ASSUME NEW i \in DOMAIN plugins
      PROVE  /\ p[i] \in PluginRecords
             /\ p[i].from = plugins[i].from /\ p[i].kinds = plugins[i].kinds
             /\ \A f \in Fields : p[i].val[f] = IF Overridden(f, i, cache) THEN cache[i]
                                               ELSE plugins[i].val[f]
  <2>1. plugins[i] \in PluginRecords
    BY CatalogFacts
  <2>2. CASE Metadata /\ i \in RepoIds /\ cache[i] # Empty
    <3>1. p[i] = [plugins[i] EXCEPT !.val.archived = cache[i]]
      BY <2>2 DEF ApplyCache
    <3>2. cache[i] \in {Empty, No, Yes}
      BY <2>2 DEF Caches
    <3> QED
      BY <2>1, <2>2, <3>1, <3>2 DEF PluginRecords, Contents, Fields, Overridden
  <2>3. CASE ~(Metadata /\ i \in RepoIds /\ cache[i] # Empty)
    BY <2>1, <2>3 DEF ApplyCache, Overridden
  <2> QED
    BY <2>2, <2>3
<1>3. p = [i \in DOMAIN plugins |-> p[i]]
  BY DEF ApplyCache
<1> HIDE DEF p
<1>4. p \in [DOMAIN plugins -> PluginRecords]
  BY <1>2, <1>3
<1>5. p \in Catalogs
  BY <1>1, <1>4 DEF Catalogs
<1> QED
  BY <1>1, <1>2, <1>5 DEF p

\* A new alias leads from what a record was to what it is.
Recorded(a, s, aliases, old, new) ==
  /\ a \in Aliases /\ DOMAIN aliases \subseteq DOMAIN a
  /\ \A x \in DOMAIN a :
       \/ x \in DOMAIN aliases /\ a[x] = aliases[x]
       \/ \E r \in DOMAIN old \cap DOMAIN new :
            x = Fallback(s, r) /\ old[r].id = x /\ new[r].id = a[x]
  /\ s = Search => a = aliases

\* The aliases as they are recorded are so.
LEMMA RecordedFacts ==
  ASSUME NEW s \in Sources, NEW aliases \in Aliases,
         NEW old \in Listings[s], NEW new \in Listings[s],
         NEW a, a = RecordAliases(s, aliases, old, new)
  PROVE  Recorded(a, s, aliases, old, new)
<1> DEFINE moved == {r \in DOMAIN old \cap DOMAIN new :
                       old[r].id \in FallbackIds /\ new[r].id \in RepoIds}
           M == {Fallback(s, r) : r \in moved}
           at(x) == CHOOSE r \in moved : Fallback(s, r) = x
           g == [x \in M |-> new[at(x)].id]
<1>1. a = Over(g, aliases)
  BY DEF RecordAliases
<1>2. /\ \A r \in moved : Fallback(s, r) \in FallbackIds /\ old[r].id = Fallback(s, r)
      /\ s = Search => moved = {}
  <2>1. \A r \in moved : old[r].id = Fallback(s, r) /\ old[r].id \in FallbackIds
    BY ListingFacts
  <2>2. s = Search => \A r \in DOMAIN old : old[r].id \in RepoIds
    BY ListingFacts
  <2> QED
    BY <2>1, <2>2, Constants
<1>3. \A x \in M : at(x) \in moved /\ Fallback(s, at(x)) = x
  OBVIOUS
<1>4. /\ DOMAIN aliases \subseteq FallbackIds /\ \A x \in DOMAIN aliases : aliases[x] \in RepoIds
      /\ aliases = [x \in DOMAIN aliases |-> aliases[x]]
  BY DEF Aliases
<1> DEFINE value(x) == IF x \in M THEN new[at(x)].id ELSE aliases[x]
<1>5. a = [x \in M \cup DOMAIN aliases |-> value(x)]
  <2> HIDE DEF M, at
  <2> QED
    BY <1>1 DEF Over
<1>6. \A x \in M \cup DOMAIN aliases : value(x) \in RepoIds
  <2>1. \A x \in M : new[at(x)].id \in RepoIds
    BY <1>3
  <2> HIDE DEF M, at
  <2> QED
    BY <1>4, <2>1
<1>7. M \cup DOMAIN aliases \in SUBSET FallbackIds
  BY <1>2, <1>4
<1>8. a \in Aliases
  <2> HIDE DEF value, M
  <2>1. a \in [M \cup DOMAIN aliases -> RepoIds]
    BY <1>5, <1>6
  <2> QED
    BY <1>7, <2>1 DEF Aliases
<1>9. ASSUME NEW x \in M \cup DOMAIN aliases
      PROVE  \/ x \in DOMAIN aliases /\ a[x] = aliases[x]
             \/ \E r \in DOMAIN old \cap DOMAIN new :
                  x = Fallback(s, r) /\ old[r].id = x /\ new[r].id = a[x]
  <2>1. a[x] = value(x)
    <3> HIDE DEF value, M
    <3> QED
      BY <1>5
  <2>2. CASE x \in M
    <3>1. at(x) \in moved /\ Fallback(s, at(x)) = x /\ old[at(x)].id = x /\ new[at(x)].id = a[x]
      <4> HIDE DEF at, moved
      <4> QED
        BY <1>2, <1>3, <2>1, <2>2
    <3> HIDE DEF at
    <3> QED
      BY <3>1
  <2>3. CASE x \notin M
    BY <2>1, <2>3
  <2> QED
    BY <2>2, <2>3
<1>10. s = Search => a = aliases
  <2> SUFFICES ASSUME s = Search PROVE a = aliases
    OBVIOUS
  <2>1. M = {}
    BY <1>2
  <2> HIDE DEF M
  <2> QED
    BY <1>4, <1>5, <2>1
<1>11. DOMAIN a = M \cup DOMAIN aliases
  <2> HIDE DEF M, value
  <2> QED
    BY <1>5
<1> HIDE DEF M
<1> QED
  BY <1>8, <1>9, <1>10, <1>11 DEF Recorded

\* There are finitely many ids, and so finitely many things with an id of their own.
LEMMA FinitelyMany ==
  ASSUME NEW E, \A e \in E : e.id \in Ids, \A d, e \in E : d.id = e.id => d = e
  PROVE  IsFiniteSet(E)
<1>1. IsFiniteSet(Ids)
  <2>1. \A s \in Sources, r \in 1..Records : Fallback(s, r) \in 0..(Repos + 4 * Records)
    <3> TAKE s \in Sources, r \in 1..Records
    <3>1. s * Records \in 0..(3 * Records)
      BY CatalogAssumption DEF Sources
    <3> QED
      BY <3>1, CatalogAssumption DEF Fallback
  <2>2. Ids \in SUBSET (0..(Repos + 4 * Records))
    BY <2>1, CatalogAssumption DEF Ids, RepoIds, FallbackIds
  <2>3. IsFiniteSet(0..(Repos + 4 * Records))
    BY FS_Interval, CatalogAssumption
  <2> QED
    BY <2>2, <2>3, FS_Subset
<1> DEFINE f == [e \in E |-> e.id]
<1>2. f \in Injection(E, Ids)
  BY DEF Injection, IsInjective
<1> QED
  BY <1>1, <1>2, FS_Injection

\* The events of a check are one for each plugin that is new or has changed.
Detected(E, old, now) ==
  /\ E \subseteq EventRecords
  /\ \A e \in E : /\ e.id \in DOMAIN now /\ e.now = now[e.id].val
                  /\ Discovered(e) => e.id \notin DOMAIN old
                  /\ ~Discovered(e) => e.id \in DOMAIN old /\ e.now # old[e.id].val
  /\ \A d, e \in E : d.id = e.id => d = e
  /\ \A i \in DOMAIN now : i \notin DOMAIN old => \E e \in E : e.id = i
  /\ \A i \in DOMAIN now :
       i \in DOMAIN old /\ now[i].val # old[i].val => \E e \in E : e.id = i

\* The events as they are detected are so.
LEMMA DetectedFacts ==
  ASSUME NEW old, NEW now \in Catalogs, \A i \in DOMAIN old : old[i] \in PluginRecords
  PROVE  Detected(DetectChanges(old, now), old, now)
<1> DEFINE A == {Event(i, {}, now[i].val) : i \in DOMAIN now \ DOMAIN old}
           B == {Event(i, {old[i].val}, now[i].val) :
                   i \in {j \in DOMAIN now \cap DOMAIN old : now[j].val # old[j].val}}
<1>1. DetectChanges(old, now) = A \cup B
  BY DEF DetectChanges
<1>2. \A i \in DOMAIN now : i \in Ids /\ now[i].val \in Contents
  BY CatalogFacts DEF PluginRecords
<1>3. \A i \in DOMAIN old : old[i].val \in Contents
  BY DEF PluginRecords
<1>4. \A e \in A : /\ e \in EventRecords /\ e.id \in DOMAIN now \ DOMAIN old
                   /\ e.now = now[e.id].val /\ Discovered(e)
                   /\ e = Event(e.id, {}, now[e.id].val)
  BY <1>2 DEF Event, EventRecords, Discovered
<1>5. \A e \in B : /\ e \in EventRecords /\ e.id \in DOMAIN now \cap DOMAIN old
                   /\ e.now = now[e.id].val /\ ~Discovered(e) /\ e.now # old[e.id].val
                   /\ e = Event(e.id, {old[e.id].val}, now[e.id].val)
  BY <1>2, <1>3 DEF Event, EventRecords, Discovered
<1>6. \A i \in DOMAIN now : i \notin DOMAIN old => \E e \in A : e.id = i
  <2>1. \A i \in DOMAIN now : i \notin DOMAIN old => Event(i, {}, now[i].val) \in A
    OBVIOUS
  <2>2. \A i, o, c : Event(i, o, c).id = i
    BY DEF Event
  <2> HIDE DEF A
  <2> QED
    BY <2>1, <2>2
<1>7. \A i \in DOMAIN now : i \in DOMAIN old /\ now[i].val # old[i].val => \E e \in B : e.id = i
  <2>1. \A i \in DOMAIN now : i \in DOMAIN old /\ now[i].val # old[i].val
                              => Event(i, {old[i].val}, now[i].val) \in B
    OBVIOUS
  <2>2. \A i, o, c : Event(i, o, c).id = i
    BY DEF Event
  <2> HIDE DEF B
  <2> QED
    BY <2>1, <2>2
<1> HIDE DEF A, B
<1>8. \A e \in A \cup B :
        /\ e.id \in DOMAIN now /\ e.now = now[e.id].val
        /\ Discovered(e) => e.id \notin DOMAIN old
        /\ ~Discovered(e) => e.id \in DOMAIN old /\ e.now # old[e.id].val
  BY <1>4, <1>5
<1>9. \A d, e \in A \cup B : d.id = e.id => d = e
  <2>1. \A d, e \in A : d.id = e.id => d = e
    BY <1>4
  <2>2. \A d, e \in B : d.id = e.id => d = e
    BY <1>5
  <2>3. \A d \in A, e \in B : d.id # e.id
    BY <1>4, <1>5
  <2> QED
    BY <2>1, <2>2, <2>3
<1>10. A \cup B \subseteq EventRecords
  BY <1>4, <1>5
<1> QED
  <2> DEFINE U == A \cup B
  <2>1. \A i \in DOMAIN now : i \notin DOMAIN old => \E e \in U : e.id = i
    BY <1>6
  <2>2. \A i \in DOMAIN now :
          i \in DOMAIN old /\ now[i].val # old[i].val => \E e \in U : e.id = i
    BY <1>7
  <2>3. Detected(U, old, now)
    <3> HIDE DEF U
    <3> QED
      BY <1>8, <1>9, <1>10, <2>1, <2>2 DEF Detected, U
  <2> QED
    BY <1>1, <2>3

\* Every event is in one of the batches, and nothing else is.
LEMMA BatchesFacts ==
  ASSUME NEW E \in SUBSET EventRecords, \A d, e \in E : d.id = e.id => d = e
  PROVE  /\ CreateBatches(E) \subseteq Batches
         /\ \A b \in CreateBatches(E) : b.events \subseteq E
         /\ Targets # {} =>
              \A e \in E : \E b \in CreateBatches(E) : e \in b.events /\ b.targets = Targets
<1> DEFINE n == Cardinality(E)
           page(e) == IF Cards THEN PageOf(Position(e, E), n, MaxItems)
                      ELSE ChunkOf(Position(e, E), n, MaxItems)
           total == PageCount(n, MaxItems)
           batch(k) == [events |-> {e \in E : page(e) = k}, page |-> k, of |-> total,
                        targets |-> Targets]
<1>1. CreateBatches(E) = IF Targets = {} THEN {} ELSE {batch(k) : k \in 1..total}
  BY DEF CreateBatches
<1>2. IsFiniteSet(E) /\ n \in Nat
  BY FinitelyMany, FS_CardinalityType DEF EventRecords
<1>3. total \in Nat
  <2>1. n + MaxItems - 1 \in Nat /\ MaxItems \in Nat \ {0}
    BY <1>2, Constants
  <2> HIDE DEF n
  <2> QED
    BY <2>1, DivMod DEF PageCount
<1>4. ASSUME NEW e \in E PROVE page(e) \in 1..total
  <2> DEFINE P == {d \in E : \/ Discovered(d) /\ ~Discovered(e)
                             \/ Discovered(d) = Discovered(e) /\ d.id <= e.id}
  <2>1. Position(e, E) = Cardinality(P)
    BY DEF Position
  <2>2. e \in P
    <3>1. e.id \in Nat
      BY Constants DEF EventRecords
    <3> QED
      BY <3>1
  <2>3. P \in SUBSET E
    OBVIOUS
  <2> HIDE DEF P
  <2>4. IsFiniteSet(P) /\ Cardinality(P) \in Nat /\ Cardinality(P) <= n
    BY <1>2, <2>3, FS_Subset, FS_CardinalityType
  <2>5. Cardinality(P) # 0
    BY <2>2, <2>4, FS_EmptySet
  <2>6. Position(e, E) \in 1..n /\ n \in Nat \ {0} /\ MaxItems \in Nat \ {0}
    BY <1>2, <2>1, <2>4, <2>5, Constants
  <2> HIDE DEF n
  <2>7. PageOf(Position(e, E), n, MaxItems) \in 1..total
    BY <2>6, PagesPartition
  <2>8. ChunkOf(Position(e, E), n, MaxItems) \in 1..total
    BY <2>6, ChunksFit
  <2> QED
    BY <2>7, <2>8
<1> HIDE DEF page, total
<1>5. \A k \in 1..total : batch(k) \in Batches /\ batch(k).events \subseteq E
  <2> TAKE k \in 1..total
  <2>1. k \in Nat /\ batch(k).page \in 1..batch(k).of
    BY <1>3
  <2> QED
    BY <1>3, <2>1 DEF Batches
<1>6. \A e \in E : batch(page(e)).targets = Targets /\ e \in batch(page(e)).events
  OBVIOUS
<1> HIDE DEF batch
<1> QED
  BY <1>1, <1>4, <1>5, <1>6

-----------------------------------------------------------------------------
(* The inductive invariant *)

\* What merge_sources promises of the record p of plugin i, by the listings and aliases
\* of st and GitHub's answers; a field without a value comes from nowhere.
FaithfulRecord(p, i, st, cache) ==
  \A f \in Fields :
    LET seen == Observed(i, st)
        o == Best(f, seen, st)
    IN /\ Candidates(f, seen, st) # {} =>
            /\ p.from[f] <= o[1]
            /\ p.from[f] = o[1] /\ ~Overridden(f, i, cache) =>
                 p.val[f] = st.listing[o[1]][o[2]].val[f]
       /\ Overridden(f, i, cache) => p.val[f] = cache[i]
       /\ p.val[f] = Empty => p.from[f] = Unsourced

FaithfulTo(p, st, cache) ==
  /\ DOMAIN p = {i \in Ids : Observed(i, st) # {}}
  /\ \A i \in DOMAIN p : FaithfulRecord(p[i], i, st, cache)

Typed ==
  /\ disk \in States /\ mem \in States /\ prev \in Catalogs
  /\ pc \in {"idle", "legacy", "market", "merge", "search", "detect"}
  /\ successful \in BOOLEAN /\ baseline \subseteq Enabled

\* The sources that the check has still to fetch.
NotYet(s) ==
  \/ pc = "idle"
  \/ pc = "legacy" /\ s # 1
  \/ pc = "market" /\ s \in {Market, Search}
  \/ pc \in {"merge", "search"} /\ s = Search

\* What a check has not come to is as it was.
Framed ==
  /\ pc = "idle" => mem = disk /\ baseline = {}
  /\ mem.outbox = disk.outbox
  /\ pc \in {"idle", "legacy", "market", "merge"} =>
       mem.plugins = disk.plugins /\ mem.cache = disk.cache
  /\ \A s \in Sources : NotYet(s) \/ s \notin Enabled => mem.listing[s] = disk.listing[s]

\* The sources of this check's baseline had never been heard, and had nothing.
Heard ==
  /\ mem.established = disk.established \cup baseline
  /\ baseline \cap disk.established = {}
  /\ \A s \in Sources : /\ DOMAIN disk.listing[s] # {} => s \in disk.established
                        /\ DOMAIN mem.listing[s] # {} => s \in mem.established

\* An alias that is new or another is of a record that this check has found with a
\* repository, and that the last one had found without.
MovedTo(s, r, x) ==
  /\ x = Fallback(s, r)
  /\ r \in DOMAIN disk.listing[s] /\ disk.listing[s][r].id = x
  /\ r \in DOMAIN mem.listing[s] /\ mem.listing[s][r].id = mem.aliases[x]

Moved ==
  /\ DOMAIN disk.aliases \subseteq DOMAIN mem.aliases
  /\ \A x \in DOMAIN mem.aliases :
       \/ x \in DOMAIN disk.aliases /\ mem.aliases[x] = disk.aliases[x]
       \/ \E s \in Sources, r \in 1..Records : MovedTo(s, r, x)

\* What the first merge was made of.
AtFirst ==
  [listing |-> [mem.listing EXCEPT ![Search] = disk.listing[Search]], aliases |-> mem.aliases]

\* After it the check has the plugins as they were before, under the ids they have
\* now, and as the first merge and GitHub's answers make them.
Merged ==
  pc \in {"search", "detect"} =>
    /\ prev = ResolvePrevious(disk.plugins, mem.aliases)
    /\ mem.plugins = ApplyCache(MergeSources(AtFirst, prev), mem.cache)

Consistent ==
  /\ Typed /\ Framed /\ Heard /\ Moved /\ Merged
  /\ FaithfulTo(disk.plugins, disk, disk.cache)

-----------------------------------------------------------------------------
(* It is inductive *)

\* A merge keeps the promise.
LEMMA MergeFaithful ==
  ASSUME NEW st, Readable(st), NEW old \in Catalogs, NEW cache \in Caches,
         \A i \in DOMAIN old, f \in Fields : old[i].val[f] = Empty => old[i].from[f] = Unsourced
  PROVE  FaithfulTo(ApplyCache(MergeSources(st, old), cache), st, cache)
<1> DEFINE m == MergeSources(st, old)
           p == ApplyCache(m, cache)
<1>1. /\ m \in Catalogs
      /\ DOMAIN m = {i \in Ids : Observed(i, st) # {}}
      /\ \A i \in DOMAIN m : m[i] = MergedRecord(i, st, old)
  BY MergeTyped
<1> HIDE DEF m
<1>2. /\ DOMAIN p = DOMAIN m
      /\ \A i \in DOMAIN p :
           /\ p[i].from = m[i].from
           /\ \A f \in Fields : p[i].val[f] = IF Overridden(f, i, cache) THEN cache[i]
                                             ELSE m[i].val[f]
  BY <1>1, CachedFacts
<1> HIDE DEF p
<1>3. ASSUME NEW i \in DOMAIN p, NEW f \in Fields
      PROVE  LET seen == Observed(i, st)
                 o == Best(f, seen, st)
             IN /\ Candidates(f, seen, st) # {} =>
                     /\ p[i].from[f] <= o[1]
                     /\ p[i].from[f] = o[1] /\ ~Overridden(f, i, cache) =>
                          p[i].val[f] = st.listing[o[1]][o[2]].val[f]
                /\ Overridden(f, i, cache) => p[i].val[f] = cache[i]
                /\ p[i].val[f] = Empty => p[i].from[f] = Unsourced
  <2> DEFINE seen == Observed(i, st)
             o == Best(f, seen, st)
             before == Earlier(i, old)
  <2>1. /\ p[i].from[f] = m[i].from[f]
        /\ p[i].val[f] = IF Overridden(f, i, cache) THEN cache[i] ELSE m[i].val[f]
    BY <1>2
  <2>2. IF KeepsPrevious(f, seen, st, before)
          THEN m[i].val[f] = before.val[f] /\ m[i].from[f] = before.from[f]
          ELSE m[i].val[f] = st.listing[o[1]][o[2]].val[f] /\ m[i].from[f] = o[1]
    BY <1>1, <1>2, MergedFacts
  <2>3. before.val[f] = Empty => before.from[f] = Unsourced
    BY DEF Earlier, NoRecord
  <2>4. before.from[f] \in Nat
    <3>1. before.from[f] \in Sources \cup {Unsourced}
      BY EarlierFacts DEF PluginRecords
    <3>2. Sources \cup {Unsourced} \subseteq Nat
      BY Constants DEF Unsourced
    <3> HIDE DEF before
    <3> QED
      BY <3>1, <3>2
  <2>5. Candidates(f, seen, st) # {} =>
          o[1] \in Nat /\ st.listing[o[1]][o[2]].val[f] # Empty
    BY BestFacts, Constants
  <2>6. Overridden(f, i, cache) => cache[i] # Empty
    BY DEF Overridden
  <2> HIDE DEF before
  <2>7. KeepsPrevious(f, seen, st, before)
          <=> \/ Candidates(f, seen, st) = {}
              \/ before.val[f] # Empty /\ before.from[f] < o[1]
    BY DEF KeepsPrevious
  <2> DEFINE C == Candidates(f, seen, st)
             kept == KeepsPrevious(f, seen, st, before)
             v == st.listing[o[1]][o[2]].val[f]
             over == Overridden(f, i, cache)
  <2> HIDE DEF seen, o, C, v, kept, over
  <2>8. CASE kept
    <3>1. m[i].val[f] = before.val[f] /\ m[i].from[f] = before.from[f]
      BY <2>2, <2>8 DEF kept
    <3>2. C # {} => before.from[f] < o[1]
      BY <2>7, <2>8 DEF C, kept
    <3>3. C # {} => o[1] \in Nat
      BY <2>5 DEF C
    <3>4. C # {} => p[i].from[f] <= o[1] /\ p[i].from[f] # o[1]
      BY <2>1, <2>4, <3>1, <3>2, <3>3
    <3>5. /\ over => p[i].val[f] = cache[i]
          /\ p[i].val[f] = Empty => p[i].from[f] = Unsourced
      BY <2>1, <2>3, <2>6, <3>1 DEF over
    <3> QED
      BY <3>4, <3>5 DEF C, over, seen, o
  <2>9. CASE ~kept
    <3>1. m[i].val[f] = v /\ m[i].from[f] = o[1] /\ v # Empty /\ o[1] \in Nat
      BY <2>2, <2>5, <2>7, <2>9 DEF kept, C, v
    <3>2. p[i].from[f] <= o[1] /\ (~over => p[i].val[f] = v)
      BY <2>1, <3>1 DEF over
    <3>3. /\ over => p[i].val[f] = cache[i]
          /\ p[i].val[f] = Empty => p[i].from[f] = Unsourced
      BY <2>1, <2>6, <3>1 DEF over
    <3> QED
      BY <3>2, <3>3 DEF C, v, over, seen, o
  <2> QED
    BY <2>8, <2>9
<1>4. DOMAIN p = {i \in Ids : Observed(i, st) # {}}
  BY <1>1, <1>2
<1>5. FaithfulTo(p, st, cache)
  BY <1>3, <1>4 DEF FaithfulTo, FaithfulRecord
<1> QED
  BY <1>5 DEF p, m

\* A state is one that can be merged.
LEMMA StateReadable == ASSUME NEW st \in States PROVE Readable(st)
BY DEF States, Readable

\* Before the first check there is nothing.
LEMMA ConsistentInit == Init => Consistent
<1> SUFFICES ASSUME Init PROVE Consistent
  OBVIOUS
<1>1. DOMAIN NoPlugins = {}
  BY DEF NoPlugins
<1>2. \A s \in Sources : NoPlugins \in Listings[s]
  <2> TAKE s \in Sources
  <2>1. {} \in SUBSET (1..Records)
    OBVIOUS
  <2>2. NoPlugins \in [{} -> UNION {Observations(s, r) : r \in {}}]
    BY DEF NoPlugins
  <2> QED
    BY <1>1, <2>1, <2>2 DEF Listings
<1>3. NoPlugins \in Aliases /\ NoPlugins \in Catalogs
  <2>1. NoPlugins \in [{} -> RepoIds] /\ NoPlugins \in [{} -> PluginRecords]
    BY DEF NoPlugins
  <2> QED
    BY <2>1 DEF Aliases, Catalogs
<1>4. Blank \in States
  <2>1. [s \in Sources |-> NoPlugins] \in Lists
    BY <1>2 DEF Lists
  <2>2. [g \in RepoIds |-> Empty] \in Caches
    BY DEF Caches
  <2>3. 0 \in 0..MaxNews
    BY Constants
  <2> HIDE DEF NoPlugins
  <2> QED
    BY <1>3, <2>1, <2>2, <2>3 DEF Blank, States
<1>5. /\ disk = Blank /\ mem = Blank /\ pc = "idle" /\ successful = FALSE /\ baseline = {}
      /\ prev = NoPlugins
  BY DEF Init
<1>6. /\ \A s \in Sources : Blank.listing[s] = NoPlugins
      /\ Blank.established = {} /\ Blank.aliases = NoPlugins /\ Blank.plugins = NoPlugins
  BY DEF Blank
<1>7. Typed
  BY <1>3, <1>4, <1>5 DEF Typed
<1>8. Framed /\ Heard /\ Moved /\ Merged
  BY <1>1, <1>5, <1>6 DEF Framed, Heard, Moved, Merged
<1>9. FaithfulTo(disk.plugins, disk, disk.cache)
  <2>1. \A i \in Ids : Observed(i, disk) = {}
    BY <1>1, <1>5, <1>6 DEF Observed
  <2> QED
    BY <1>1, <1>5, <1>6, <2>1 DEF FaithfulTo
<1> QED
  BY <1>7, <1>8, <1>9 DEF Consistent

\* The listings that may differ are counted.
LEMMA DifferingNat == ASSUME NEW old, NEW new PROVE Differing(old, new) \in Nat
<1> DEFINE D == {r \in 1..Records :
                   /\ r \in DOMAIN old \cup DOMAIN new
                   /\ r \notin DOMAIN old \/ r \notin DOMAIN new \/ old[r] # new[r]}
<1>1. IsFiniteSet(1..Records) /\ D \subseteq 1..Records
  BY Constants, FS_Interval
<1> HIDE DEF D
<1>2. Cardinality(D) \in Nat
  BY <1>1, FS_Subset, FS_CardinalityType
<1> QED
  BY <1>2 DEF Differing, D

\* The fetches, in their order.
Fetches(at, s, next) ==
  \/ at = "idle" /\ s = 1 /\ next = "legacy"
  \/ at = "legacy" /\ s = 2 /\ next = "market"
  \/ at = "market" /\ s = Market /\ next = "merge"
  \/ at = "search" /\ s = Search /\ next = "detect"

\* A fetch keeps it: a source is fetched once in a check, so that what it listed is
\* what is on the disk, and the search moves no record.
LEMMA FetchKeeps ==
  ASSUME Consistent, NEW at, NEW s, NEW next, Fetches(at, s, next), Fetch(at, s, next)
  PROVE  Consistent'
<1>1. /\ pc = at /\ pc' = next /\ disk' = disk /\ prev' = prev /\ FetchSource(s)
      /\ Typed /\ Framed /\ Heard /\ Moved /\ Merged
      /\ FaithfulTo(disk.plugins, disk, disk.cache)
  BY DEF Fetch, Consistent
<1>2. s \in Sources /\ NotYet(s)
  BY <1>1 DEF Fetches, NotYet, Sources, Search, Market
<1>3. \A t \in Sources : NotYet(t)' => NotYet(t) /\ t # s
  BY <1>1 DEF Fetches, NotYet, Sources, Search, Market
<1>4. /\ pc' \in {"legacy", "market", "merge", "detect"}
      /\ pc' \in {"legacy", "market", "merge"} => pc \in {"idle", "legacy", "market"}
      /\ pc' = "detect" => pc = "search" /\ s = Search
  BY <1>1 DEF Fetches
<1>5. FaithfulTo(disk.plugins, disk, disk.cache)'
  BY <1>1
<1>6. CASE UNCHANGED <<mem, successful, baseline>>
  <2>1. Typed'
    BY <1>1, <1>4, <1>6 DEF Typed
  <2>2. Framed'
    BY <1>1, <1>3, <1>4, <1>6 DEF Framed
  <2>3. Heard' /\ Moved'
    BY <1>1, <1>6 DEF Heard, Moved, MovedTo
  <2>4. Merged'
    BY <1>1, <1>4, <1>6 DEF Merged, AtFirst
  <2> QED
    BY <1>5, <2>1, <2>2, <2>3, <2>4 DEF Consistent
<1>7. CASE ~UNCHANGED <<mem, successful, baseline>>
  <2>1. /\ s \in Enabled /\ successful' = TRUE
        /\ baseline' = IF s \in mem.established THEN baseline ELSE baseline \cup {s}
    BY <1>1, <1>7 DEF FetchSource
  <2>2. PICK new \in Listings[s] :
          LET old == mem.listing[s]
              cost == mem.news + Differing(old, new)
          IN /\ cost <= MaxNews
             /\ mem' = [mem EXCEPT !.aliases = RecordAliases(s, @, old, new),
                                   !.listing[s] = new,
                                   !.established = @ \cup {s},
                                   !.news = cost]
    BY <1>1, <1>7 DEF FetchSource
  <2>3. mem \in States /\ disk \in States
    BY <1>1 DEF Typed
  <2>4. mem.listing \in Lists /\ mem.aliases \in Aliases /\ mem.news \in 0..MaxNews
    BY <2>3 DEF States
  <2> DEFINE old == mem.listing[s]
             cost == mem.news + Differing(old, new)
  <2>5. old \in Listings[s] /\ old = disk.listing[s]
    BY <1>1, <1>2, <2>4 DEF Framed, Lists
  <2>6a. PICK moved : moved = RecordAliases(s, mem.aliases, old, new)
    OBVIOUS
  <2>6. /\ moved \in Aliases /\ DOMAIN mem.aliases \subseteq DOMAIN moved
        /\ \A x \in DOMAIN moved :
             \/ x \in DOMAIN mem.aliases /\ moved[x] = mem.aliases[x]
             \/ \E r \in DOMAIN old \cap DOMAIN new :
                  x = Fallback(s, r) /\ old[r].id = x /\ new[r].id = moved[x]
        /\ s = Search => moved = mem.aliases
    <3>1. Recorded(moved, s, mem.aliases, old, new)
      BY <1>2, <2>2, <2>4, <2>5, <2>6a, RecordedFacts
    <3> QED
      BY <3>1 DEF Recorded
  <2>7. cost \in 0..MaxNews
    <3>1. Differing(old, new) \in Nat /\ mem.news \in Nat /\ cost <= MaxNews /\ MaxNews \in Nat
      BY <2>2, <2>4, DifferingNat, Constants
    <3> QED
      BY <3>1
  <2>8. /\ mem'.aliases = moved /\ mem'.listing = [mem.listing EXCEPT ![s] = new]
        /\ mem'.established = mem.established \cup {s} /\ mem'.news = cost
        /\ mem'.plugins = mem.plugins /\ mem'.cache = mem.cache /\ mem'.outbox = mem.outbox
        /\ mem' = [listing |-> mem'.listing, established |-> mem'.established,
                   aliases |-> mem'.aliases, plugins |-> mem'.plugins, cache |-> mem'.cache,
                   outbox |-> mem'.outbox, news |-> mem'.news]
    BY <2>2, <2>3, <2>6a DEF States
  <2> HIDE DEF cost
  <2>9. mem'.listing \in Lists
    <3> DEFINE l == mem'.listing
    <3>1. l \in [Sources -> UNION {Listings[t] : t \in Sources}]
      BY <1>2, <2>2, <2>4, <2>8 DEF Lists
    <3>2. \A t \in Sources : l[t] \in Listings[t]
      BY <1>2, <2>2, <2>4, <2>8 DEF Lists
    <3> HIDE DEF l
    <3>3. l \in Lists
      BY <3>1, <3>2 DEF Lists
    <3> QED
      BY <3>3 DEF l
  <2>10. \A t \in Sources : mem'.listing[t] = IF t = s THEN new ELSE mem.listing[t]
    BY <2>4, <2>8 DEF Lists
  <2>11. mem' \in States
    <3>1. /\ mem'.established \in SUBSET Enabled /\ mem'.aliases \in Aliases
          /\ mem'.plugins \in Catalogs /\ mem'.cache \in Caches
          /\ mem'.outbox \in SUBSET Batches /\ mem'.news \in 0..MaxNews
      BY <2>1, <2>3, <2>6, <2>7, <2>8 DEF States
    <3> QED
      BY <2>8, <2>9, <3>1 DEF States
  <2>12. Typed'
    BY <1>1, <1>4, <2>1, <2>11 DEF Typed
  <2>13. Framed'
    BY <1>1, <1>3, <1>4, <2>1, <2>8, <2>10 DEF Framed
  <2>14. Heard'
    <3>1. /\ mem'.established = disk'.established \cup baseline'
          /\ baseline' \cap disk'.established = {}
      BY <1>1, <2>1, <2>8 DEF Heard
    <3>2. \A t \in Sources : DOMAIN mem'.listing[t] # {} => t \in mem'.established
      BY <1>1, <2>8, <2>10 DEF Heard
    <3> QED
      BY <1>1, <3>1, <3>2 DEF Heard
  <2>15. Moved'
    <3>1. ASSUME NEW x \in DOMAIN mem'.aliases
          PROVE  \/ x \in DOMAIN disk.aliases /\ mem'.aliases[x] = disk.aliases[x]
                 \/ \E t \in Sources, r \in 1..Records : MovedTo(t, r, x)'
      <4>1. CASE x \in DOMAIN mem.aliases /\ moved[x] = mem.aliases[x]
        <5>1. CASE x \in DOMAIN disk.aliases /\ mem.aliases[x] = disk.aliases[x]
          BY <2>8, <4>1, <5>1
        <5>2. CASE \E t \in Sources, r \in 1..Records : MovedTo(t, r, x)
          <6>1. PICK t \in Sources, r \in 1..Records : MovedTo(t, r, x)
            BY <5>2
          <6>2. t # s
            <7>1. x \in FallbackIds /\ mem.aliases[x] \in RepoIds
              BY <2>4, <4>1, AliasFacts
            <7>2. x # mem.aliases[x]
              BY <7>1, Constants
            <7> QED
              BY <2>5, <6>1, <7>2 DEF MovedTo
          <6>3. MovedTo(t, r, x)'
            BY <1>1, <2>8, <2>10, <4>1, <6>1, <6>2 DEF MovedTo
          <6> QED
            BY <6>3
        <5> QED
          BY <1>1, <4>1, <5>1, <5>2 DEF Moved
      <4>2. CASE \E r \in DOMAIN old \cap DOMAIN new :
                   x = Fallback(s, r) /\ old[r].id = x /\ new[r].id = moved[x]
        <5>1. PICK r \in DOMAIN old \cap DOMAIN new :
                x = Fallback(s, r) /\ old[r].id = x /\ new[r].id = moved[x]
          BY <4>2
        <5>2. r \in 1..Records
          BY <1>2, <2>5, <5>1, ListingFacts
        <5>3. MovedTo(s, r, x)'
          BY <1>1, <1>2, <2>5, <2>8, <2>10, <5>1 DEF MovedTo
        <5> QED
          BY <1>2, <5>2, <5>3
      <4> QED
        BY <2>6, <2>8, <4>1, <4>2
    <3>2. DOMAIN disk.aliases \subseteq DOMAIN mem'.aliases
      BY <1>1, <2>6, <2>8 DEF Moved
    <3> QED
      BY <1>1, <3>1, <3>2 DEF Moved
  <2>16. Merged'
    <3> SUFFICES ASSUME pc' = "detect" PROVE Merged'
      BY <1>4 DEF Merged
    <3>1. pc = "search" /\ s = Search /\ mem'.aliases = mem.aliases
      BY <1>4, <2>6, <2>8
    <3>2. AtFirst' = AtFirst
      <4>1. [mem'.listing EXCEPT ![Search] = disk.listing[Search]]
              = [mem.listing EXCEPT ![Search] = disk.listing[Search]]
        BY <2>4, <2>8, <3>1 DEF Lists
      <4> QED
        BY <1>1, <3>1, <4>1 DEF AtFirst
    <3> QED
      BY <1>1, <2>8, <3>1, <3>2 DEF Merged
  <2> QED
    BY <1>5, <2>12, <2>13, <2>14, <2>15, <2>16 DEF Consistent
<1> QED
  BY <1>6, <1>7

\* What is read of two states with the same listings and aliases is the same.
LEMMA ReadSame ==
  ASSUME NEW st, NEW su, st.listing = su.listing, st.aliases = su.aliases
  PROVE  /\ \A i : Observed(i, st) = Observed(i, su)
         /\ \A f, seen : Candidates(f, seen, st) = Candidates(f, seen, su)
         /\ \A f, seen : Best(f, seen, st) = Best(f, seen, su)
         /\ \A p, cache : FaithfulTo(p, st, cache) => FaithfulTo(p, su, cache)
<1>1. ASSUME NEW i PROVE Observed(i, st) = Observed(i, su)
  BY DEF Observed
<1>2. ASSUME NEW f, NEW seen PROVE Candidates(f, seen, st) = Candidates(f, seen, su)
  BY DEF Candidates
<1>3. ASSUME NEW f, NEW seen PROVE Best(f, seen, st) = Best(f, seen, su)
  BY <1>2 DEF Best
<1>4. ASSUME NEW p, NEW cache, FaithfulTo(p, st, cache) PROVE FaithfulTo(p, su, cache)
  <2>1. \A i, r : FaithfulRecord(r, i, st, cache) => FaithfulRecord(r, i, su, cache)
    BY <1>1, <1>2, <1>3 DEF FaithfulRecord
  <2> QED
    BY <1>1, <1>4, <2>1 DEF FaithfulTo
<1> QED
  BY <1>1, <1>2, <1>3, <1>4

\* Before the search is heard, the first merge reads what there is.
LEMMA AtFirstFacts ==
  ASSUME mem \in States, disk \in States
  PROVE  /\ Readable(AtFirst)
         /\ AtFirst.aliases = mem.aliases
         /\ \A s \in Sources : AtFirst.listing[s] = IF s = Search THEN disk.listing[s]
                                                    ELSE mem.listing[s]
         /\ mem.listing[Search] = disk.listing[Search] => AtFirst.listing = mem.listing
<1> DEFINE l == [mem.listing EXCEPT ![Search] = disk.listing[Search]]
<1>1. AtFirst.listing = l /\ AtFirst.aliases = mem.aliases
  BY DEF AtFirst
<1>2. /\ mem.listing \in [Sources -> UNION {Listings[s] : s \in Sources}]
      /\ disk.listing \in [Sources -> UNION {Listings[s] : s \in Sources}]
      /\ \A s \in Sources : mem.listing[s] \in Listings[s] /\ disk.listing[s] \in Listings[s]
      /\ mem.aliases \in Aliases
  BY DEF States, Lists
<1>3. \A s \in Sources : l[s] = IF s = Search THEN disk.listing[s] ELSE mem.listing[s]
  BY <1>2
<1>4. l \in [Sources -> UNION {Listings[s] : s \in Sources}]
  BY <1>2
<1>5. mem.listing[Search] = disk.listing[Search] => l = mem.listing
  BY <1>2
<1>6. \A s \in Sources : l[s] \in Listings[s]
  BY <1>2, <1>3
<1> HIDE DEF l
<1>7. l \in Lists
  BY <1>4, <1>6 DEF Lists
<1> QED
  BY <1>1, <1>2, <1>3, <1>5, <1>7 DEF Readable

\* The first merge keeps it.
LEMMA MergeKeeps == ASSUME Consistent, MergeAndEnrich PROVE Consistent'
<1>1. /\ pc = "merge" /\ pc' = "search" /\ UNCHANGED <<disk, successful, baseline>>
      /\ prev' = ResolvePrevious(mem.plugins, mem.aliases)
      /\ Typed /\ Framed /\ Heard /\ Moved
      /\ FaithfulTo(disk.plugins, disk, disk.cache)
  BY DEF MergeAndEnrich, Consistent
<1> DEFINE merged == MergeSources(mem, prev')
<1>2. PICK answers \in Answers(merged) :
        LET cache == Over(answers, mem.cache)
            cost == mem.news + Cardinality({g \in RepoIds : cache[g] # mem.cache[g]})
        IN /\ cost <= MaxNews
           /\ mem' = [mem EXCEPT !.cache = cache,
                                 !.plugins = ApplyCache(merged, cache),
                                 !.news = cost]
  BY DEF MergeAndEnrich
<1>3. /\ mem \in States /\ disk \in States
      /\ mem.plugins = disk.plugins /\ mem.listing[Search] = disk.listing[Search]
  BY <1>1, Constants DEF Typed, Framed, NotYet
<1>4. /\ mem.plugins \in Catalogs /\ mem.aliases \in Aliases /\ mem.cache \in Caches
      /\ mem.news \in 0..MaxNews /\ Readable(mem)
  BY <1>3, StateReadable DEF States
<1>5. prev' \in Catalogs
  BY <1>1, <1>4, ResolvedFacts DEF Resolved
<1>6. merged \in Catalogs
  BY <1>4, <1>5, MergeTyped
<1> DEFINE cache == Over(answers, mem.cache)
           cost == mem.news + Cardinality({g \in RepoIds : cache[g] # mem.cache[g]})
<1> HIDE DEF merged
<1>7. cache \in Caches
  <2>1. PICK A \in SUBSET RepoIds : answers \in [A -> {No, Yes}]
    BY DEF Answers
  <2>2. cache = [g \in A \cup RepoIds |-> IF g \in A THEN answers[g] ELSE mem.cache[g]]
    BY <1>4, <2>1 DEF Over, Caches
  <2>3. A \cup RepoIds = RepoIds
    BY <2>1
  <2>4. \A g \in RepoIds : (IF g \in A THEN answers[g] ELSE mem.cache[g]) \in {Empty, No, Yes}
    BY <1>4, <2>1 DEF Caches
  <2> HIDE DEF cache
  <2> QED
    BY <2>2, <2>3, <2>4 DEF Caches
<1> HIDE DEF cache
<1>8. cost \in 0..MaxNews
  <2>1. {g \in RepoIds : cache[g] # mem.cache[g]} \subseteq RepoIds
    OBVIOUS
  <2>2. IsFiniteSet(RepoIds)
    BY Constants, FS_Interval DEF RepoIds
  <2>3. Cardinality({g \in RepoIds : cache[g] # mem.cache[g]}) \in Nat
    BY <2>1, <2>2, FS_Subset, FS_CardinalityType
  <2>4. cost <= MaxNews
    BY <1>2 DEF cache
  <2> QED
    BY <1>4, <2>3, <2>4, Constants
<1>9. ApplyCache(merged, cache) \in Catalogs
  BY <1>6, <1>7, CachedFacts
<1>10. /\ mem'.cache = cache /\ mem'.plugins = ApplyCache(merged, cache) /\ mem'.news = cost
       /\ mem'.listing = mem.listing /\ mem'.established = mem.established
       /\ mem'.aliases = mem.aliases /\ mem'.outbox = mem.outbox
       /\ mem' = [mem EXCEPT !.cache = mem'.cache, !.plugins = mem'.plugins, !.news = mem'.news]
  BY <1>2, <1>3 DEF States, cache
<1> HIDE DEF cost
<1>11. mem' \in States
  BY <1>3, <1>7, <1>8, <1>9, <1>10 DEF States
<1>12. Typed'
  BY <1>1, <1>5, <1>11 DEF Typed
<1>13. Framed' /\ Heard'
  BY <1>1, <1>10 DEF Framed, Heard, NotYet
<1>14. Moved'
  BY <1>1, <1>10 DEF Moved, MovedTo
<1>15. Merged'
  <2>1. AtFirst'.listing = mem.listing /\ AtFirst'.aliases = mem.aliases
    BY <1>1, <1>3, <1>10, AtFirstFacts DEF AtFirst
  <2>2. MergeSources(AtFirst', prev') = merged
    BY <2>1, MergeSame DEF merged
  <2> QED
    BY <1>1, <1>3, <1>10, <2>2 DEF Merged
<1>16. FaithfulTo(disk.plugins, disk, disk.cache)'
  BY <1>1
<1> QED
  BY <1>12, <1>13, <1>14, <1>15, <1>16 DEF Consistent

\* What a check has in hand when it has merged for the last time.
LEMMA RemergedFacts ==
  ASSUME Consistent, pc = "detect"
  PROVE  /\ mem \in States /\ disk \in States /\ prev \in Catalogs
         /\ disk.plugins \in Catalogs /\ mem.aliases \in Aliases
         /\ Resolved(prev, disk.plugins, mem.aliases)
         /\ mem.plugins \in Catalogs /\ Remerged \in Catalogs
         /\ FaithfulTo(mem.plugins, AtFirst, mem.cache)
         /\ FaithfulTo(Remerged, mem, mem.cache)
<1>1. /\ mem \in States /\ disk \in States /\ prev \in Catalogs
      /\ prev = ResolvePrevious(disk.plugins, mem.aliases)
      /\ mem.plugins = ApplyCache(MergeSources(AtFirst, prev), mem.cache)
      /\ Search \notin Enabled => mem.listing[Search] = disk.listing[Search]
  BY Constants DEF Consistent, Typed, Merged, Framed
<1>2. /\ disk.plugins \in Catalogs /\ mem.plugins \in Catalogs /\ mem.aliases \in Aliases
      /\ mem.cache \in Caches /\ Readable(mem)
  BY <1>1, StateReadable DEF States
<1>2a. Resolved(prev, disk.plugins, mem.aliases)
  BY <1>1, <1>2, ResolvedFacts
<1>3. \A i \in DOMAIN prev, f \in Fields : prev[i].val[f] = Empty => prev[i].from[f] = Unsourced
  BY <1>2a DEF Resolved
<1>4. FaithfulTo(mem.plugins, AtFirst, mem.cache)
  BY <1>1, <1>2, <1>3, AtFirstFacts, MergeFaithful
<1>5. CASE Search \in Enabled
  <2>1. Remerged = ApplyCache(MergeSources(mem, mem.plugins), mem.cache)
    BY <1>5 DEF Remerged
  <2>2. Remerged \in Catalogs
    BY <1>2, <2>1, MergeTyped, CachedFacts
  <2>3. \A i \in DOMAIN mem.plugins, f \in Fields :
          mem.plugins[i].val[f] = Empty => mem.plugins[i].from[f] = Unsourced
    BY <1>4 DEF FaithfulTo, FaithfulRecord
  <2>4. FaithfulTo(Remerged, mem, mem.cache)
    BY <1>2, <2>1, <2>3, MergeFaithful
  <2> QED
    BY <1>1, <1>2, <1>2a, <1>4, <2>2, <2>4
<1>6. CASE Search \notin Enabled
  <2>1. Remerged = mem.plugins
    BY <1>6 DEF Remerged
  <2>2. AtFirst.listing = mem.listing /\ AtFirst.aliases = mem.aliases
    BY <1>1, <1>6, AtFirstFacts
  <2>3. FaithfulTo(Remerged, mem, mem.cache)
    BY <1>4, <2>1, <2>2, ReadSame
  <2> QED
    BY <1>1, <1>2, <1>2a, <1>4, <2>1, <2>3
<1> QED
  BY <1>5, <1>6

\* The events of a check, and their batches.
LEMMA EventsFacts ==
  ASSUME Consistent, pc = "detect"
  PROVE  LET E == Events(Remerged) IN
         /\ Detected(DetectChanges(prev, Remerged), prev, Remerged)
         /\ E \in SUBSET EventRecords /\ E \subseteq DetectChanges(prev, Remerged)
         /\ \A d, e \in E : d.id = e.id => d = e
         /\ \A e \in DetectChanges(prev, Remerged) :
              e \notin E => \/ ~successful
                            \/ Discovered(e) /\ Remerged[e.id].kinds \subseteq baseline
         /\ \A e \in E : successful /\ ~(Discovered(e) /\ Remerged[e.id].kinds \subseteq baseline)
<1>1. prev \in Catalogs /\ Remerged \in Catalogs /\ \A i \in DOMAIN prev : prev[i] \in PluginRecords
  BY RemergedFacts, CatalogFacts
<1> DEFINE D == DetectChanges(prev, Remerged)
<1>1a. Detected(D, prev, Remerged)
  BY <1>1, DetectedFacts
<1>2. D \subseteq EventRecords /\ \A d, e \in D : d.id = e.id => d = e
  BY <1>1a DEF Detected
<1> HIDE DEF D
<1>3. Events(Remerged) = IF ~successful THEN {}
                         ELSE {e \in D : ~(Discovered(e) /\ Remerged[e.id].kinds \subseteq baseline)}
  BY DEF Events, Audible, D
<1> QED
  BY <1>1a, <1>2, <1>3 DEF D

\* The save keeps it.
LEMMA SaveKeeps == ASSUME Consistent, DetectAndSave PROVE Consistent'
<1> DEFINE batches == CreateBatches(Events(Remerged))
<1>1. /\ pc = "detect" /\ disk' = mem' /\ pc' = "idle" /\ successful' = FALSE /\ baseline' = {}
      /\ prev' = NoPlugins
      /\ mem' = [mem EXCEPT !.plugins = Remerged, !.outbox = @ \cup batches]
      /\ Typed /\ Framed /\ Heard
  BY DEF DetectAndSave, Idle, Consistent
<1>2. mem \in States /\ Remerged \in Catalogs /\ FaithfulTo(Remerged, mem, mem.cache)
  BY <1>1, RemergedFacts
<1>3. batches \subseteq Batches
  BY <1>1, EventsFacts, BatchesFacts
<1> HIDE DEF batches
<1>4. /\ mem'.plugins = Remerged /\ mem'.outbox = mem.outbox \cup batches
      /\ mem'.listing = mem.listing /\ mem'.aliases = mem.aliases /\ mem'.cache = mem.cache
      /\ mem'.established = mem.established
  BY <1>1, <1>2 DEF States
<1>5. mem' \in States
  <2>1. mem.outbox \cup batches \in SUBSET Batches
    BY <1>2, <1>3 DEF States
  <2> QED
    BY <1>1, <1>2, <2>1 DEF States
<1>6. NoPlugins \in Catalogs
  <2>1. NoPlugins \in [{} -> PluginRecords]
    BY DEF NoPlugins
  <2> QED
    BY <2>1 DEF Catalogs
<1>7. Typed'
  BY <1>1, <1>5, <1>6 DEF Typed
<1>8. Framed' /\ Heard' /\ Moved' /\ Merged'
  <2>1. Framed'
    BY <1>1 DEF Framed
  <2>2. Heard'
    BY <1>1, <1>4 DEF Heard
  <2>3. Moved'
    BY <1>1 DEF Moved
  <2>4. Merged'
    BY <1>1 DEF Merged
  <2> QED
    BY <2>1, <2>2, <2>3, <2>4
<1>9. FaithfulTo(mem'.plugins, mem', mem'.cache)
  BY <1>2, <1>4, ReadSame
<1> QED
  BY <1>1, <1>7, <1>8, <1>9 DEF Consistent

\* So does a check that stops on its way.
LEMMA AbandonKeeps == ASSUME Consistent, Abandon PROVE Consistent'
<1>1. /\ disk' = disk /\ mem' = disk /\ pc' = "idle" /\ successful' = FALSE /\ baseline' = {}
      /\ prev' = NoPlugins
      /\ Typed /\ Heard /\ FaithfulTo(disk.plugins, disk, disk.cache)
  BY DEF Abandon, Idle, Consistent
<1>2. NoPlugins \in Catalogs
  <2>1. NoPlugins \in [{} -> PluginRecords]
    BY DEF NoPlugins
  <2> QED
    BY <2>1 DEF Catalogs
<1>3. Typed'
  BY <1>1, <1>2 DEF Typed
<1>4. Framed' /\ Heard' /\ Moved' /\ Merged'
  <2>1. Framed'
    BY <1>1 DEF Framed
  <2>2. Heard'
    BY <1>1 DEF Heard
  <2>3. Moved'
    BY <1>1 DEF Moved
  <2>4. Merged'
    BY <1>1 DEF Merged
  <2> QED
    BY <2>1, <2>2, <2>3, <2>4
<1>5. FaithfulTo(disk.plugins, disk, disk.cache)'
  BY <1>1
<1> QED
  BY <1>3, <1>4, <1>5 DEF Consistent

\* And so does every step.
LEMMA ConsistentStep == Consistent /\ [Next]_vars => Consistent'
<1> SUFFICES ASSUME Consistent, [Next]_vars PROVE Consistent'
  OBVIOUS
<1>1. CASE FetchCollection
  BY <1>1, FetchKeeps DEF FetchCollection, Fetches
<1>2. CASE FetchLegacy
  BY <1>2, FetchKeeps DEF FetchLegacy, Fetches
<1>3. CASE FetchMarket
  BY <1>3, FetchKeeps DEF FetchMarket, Fetches
<1>4. CASE MergeAndEnrich
  BY <1>4, MergeKeeps
<1>5. CASE FetchSearch
  BY <1>5, FetchKeeps DEF FetchSearch, Fetches
<1>6. CASE DetectAndSave
  BY <1>6, SaveKeeps
<1>7. CASE Abandon
  BY <1>7, AbandonKeeps
<1>8. CASE UNCHANGED vars
  <2>1. Typed' /\ Framed'
    BY <1>8 DEF vars, Consistent, Typed, Framed, NotYet
  <2>2. Heard' /\ Moved'
    BY <1>8 DEF vars, Consistent, Heard, Moved, MovedTo
  <2>3. Merged'
    BY <1>8 DEF vars, Consistent, Merged, AtFirst
  <2>4. FaithfulTo(disk.plugins, disk, disk.cache)'
    BY <1>8 DEF vars, Consistent
  <2> QED
    BY <2>1, <2>2, <2>3, <2>4 DEF Consistent
<1> QED
  BY <1>1, <1>2, <1>3, <1>4, <1>5, <1>6, <1>7, <1>8 DEF Next

\* The invariant holds in every state.
LEMMA AlwaysConsistent == Spec => []Consistent
BY ConsistentInit, ConsistentStep, PTL DEF Spec

-----------------------------------------------------------------------------
(* The theorems *)

\* What is on the disk and what a check works on are well formed: an alias always
\* leads from a record to a repository, so that _resolve_alias needs one step.
THEOREM CatalogTypes == Spec => []TypeOK
<1>1. Consistent => TypeOK
  <2> SUFFICES ASSUME Consistent PROVE TypeOK
    OBVIOUS
  <2>1. StateOK(disk) /\ StateOK(mem)
    BY StateFacts DEF Consistent, Typed
  <2>2. \A i \in DOMAIN prev : prev[i] \in PluginRecords
    BY CatalogFacts DEF Consistent, Typed
  <2> QED
    BY <2>1, <2>2 DEF TypeOK, Consistent, Typed
<1> QED
  BY <1>1, AlwaysConsistent, PTL

\* merge_sources keeps its contract: the saved catalog holds what some source lists,
\* and each field comes from a source that ranks as high as any that has a value.
THEOREM CatalogIsFaithful == Spec => []CatalogFaithful
<1>1. Consistent => CatalogFaithful
  <2> SUFFICES ASSUME FaithfulTo(disk.plugins, disk, disk.cache) PROVE CatalogFaithful
    BY DEF Consistent
  <2>1. \A f, i : Answered(f, i, disk) <=> Overridden(f, i, disk.cache)
    BY DEF Answered, Overridden
  <2> QED
    BY <2>1 DEF FaithfulTo, FaithfulRecord, CatalogFaithful
<1> QED
  BY <1>1, AlwaysConsistent, PTL

-----------------------------------------------------------------------------
(* What a check announces *)

\* Only the save changes what is on the disk, and it saves what the check has in hand.
LEMMA SavedFacts ==
  ASSUME Consistent, [Next]_vars, disk' # disk
  PROVE  /\ pc = "detect"
         /\ disk'.listing = mem.listing /\ disk'.aliases = mem.aliases
         /\ disk'.plugins = Remerged /\ disk'.cache = mem.cache
         /\ disk'.outbox = disk.outbox \cup CreateBatches(Events(Remerged))
<1>1. DetectAndSave
  BY DEF Next, vars, FetchCollection, FetchLegacy, FetchMarket, FetchSearch, Fetch,
         MergeAndEnrich, Abandon
<1>2. /\ pc = "detect" /\ disk' = mem'
      /\ mem' = [mem EXCEPT !.plugins = Remerged,
                            !.outbox = @ \cup CreateBatches(Events(Remerged))]
  BY <1>1 DEF DetectAndSave
<1>3. mem \in States /\ mem.outbox = disk.outbox
  BY DEF Consistent, Typed, Framed
<1> HIDE DEF Remerged
<1> QED
  BY <1>2, <1>3 DEF States

\* The sources that a saved plugin comes from are those that list it, and, if it is
\* new, no others than those that listed it at one of the two merges.
LEMMA KindsFacts ==
  ASSUME Consistent, pc = "detect", NEW i \in DOMAIN Remerged
  PROVE  /\ \A o \in Observed(i, mem) : o[1] \in Remerged[i].kinds
         /\ i \notin DOMAIN prev =>
              \A k \in Remerged[i].kinds :
                \E o \in Observed(i, mem) \cup Observed(i, AtFirst) : o[1] = k
<1>1. /\ mem \in States /\ disk \in States /\ prev \in Catalogs /\ mem.plugins \in Catalogs
      /\ Readable(mem) /\ Readable(AtFirst) /\ mem.cache \in Caches
      /\ mem.plugins = ApplyCache(MergeSources(AtFirst, prev), mem.cache)
  BY RemergedFacts, StateReadable, AtFirstFacts DEF Consistent, Merged, States
<1>2. ASSUME NEW st, Readable(st), NEW old \in Catalogs, NEW p,
             p = ApplyCache(MergeSources(st, old), mem.cache)
      PROVE  \A j \in DOMAIN p :
               p[j].kinds = Earlier(j, old).kinds \cup {o[1] : o \in Observed(j, st)}
  <2>1. \A j \in DOMAIN MergeSources(st, old) :
          MergeSources(st, old)[j].kinds
            = Earlier(j, old).kinds \cup {o[1] : o \in Observed(j, st)}
    <3>1. \A j \in DOMAIN MergeSources(st, old) :
            MergeSources(st, old)[j] = MergedRecord(j, st, old)
      BY <1>2, MergeTyped
    <3>2. \A j : MergedRecord(j, st, old).kinds
                  = Earlier(j, old).kinds \cup {o[1] : o \in Observed(j, st)}
      BY MergedFacts
    <3> QED
      BY <3>1, <3>2
  <2>2. MergeSources(st, old) \in Catalogs
    BY <1>2, MergeTyped
  <2> QED
    BY <1>1, <1>2, <2>1, <2>2, CachedFacts
<1>3. \A j \in DOMAIN mem.plugins :
        mem.plugins[j].kinds = Earlier(j, prev).kinds \cup {o[1] : o \in Observed(j, AtFirst)}
  BY <1>1, <1>2
<1>4. NoRecord.kinds = {}
  BY DEF NoRecord
<1>5. CASE Search \in Enabled
  <2>1. Remerged[i].kinds = Earlier(i, mem.plugins).kinds \cup {o[1] : o \in Observed(i, mem)}
    BY <1>1, <1>2, <1>5 DEF Remerged
  <2>2. i \notin DOMAIN prev => \A k \in Earlier(i, mem.plugins).kinds :
                                  \E o \in Observed(i, AtFirst) : o[1] = k
    BY <1>3, <1>4 DEF Earlier
  <2> HIDE DEF Remerged
  <2> QED
    BY <2>1, <2>2
<1>6. CASE Search \notin Enabled
  <2>1. mem.listing[Search] = disk.listing[Search]
    BY <1>6, Constants DEF Consistent, Framed
  <2>2. Observed(i, AtFirst) = Observed(i, mem)
    BY <1>1, <2>1, AtFirstFacts, ReadSame
  <2>3. Remerged[i].kinds = Earlier(i, prev).kinds \cup {o[1] : o \in Observed(i, mem)}
    BY <1>3, <1>6, <2>2 DEF Remerged
  <2>4. i \notin DOMAIN prev => Earlier(i, prev).kinds = {}
    BY <1>4 DEF Earlier
  <2> HIDE DEF Remerged
  <2> QED
    BY <2>3, <2>4
<1> QED
  BY <1>5, <1>6

\* Nothing is lost between the catalog and the outbox: what a check saves of a plugin
\* is what was saved before, or is announced in a batch saved with it, or is new and
\* listed only by sources that were never heard before.
THEOREM NothingIsMissed == Spec => NothingMissed
<1>1. ASSUME Consistent, [Next]_vars, disk' # disk, Targets # {}, successful,
             NEW i \in DOMAIN disk'.plugins
      PROVE  LET now == disk'.plugins[i].val
             IN \/ \A f \in Fields : \E c \in Former(i) : c[f] = now[f]
                \/ Former(i) = {} /\ ~ListedByKnown(i)
                \/ \E b \in disk'.outbox : \E e \in b.events :
                     b.targets = Targets /\ e.id = i /\ e.now = now
  <2> DEFINE E == Events(Remerged)
             D == DetectChanges(prev, Remerged)
             now == Remerged[i].val
             group == Group(i, disk.plugins, mem.aliases)
  <2>1. /\ pc = "detect" /\ i \in DOMAIN Remerged
        /\ disk'.listing = mem.listing /\ disk'.aliases = mem.aliases
        /\ disk'.plugins = Remerged /\ disk'.outbox = disk.outbox \cup CreateBatches(E)
    BY <1>1, SavedFacts
  <2>2. /\ mem \in States /\ disk \in States /\ prev \in Catalogs /\ Remerged \in Catalogs
        /\ disk.plugins \in Catalogs /\ mem.aliases \in Aliases
        /\ Resolved(prev, disk.plugins, mem.aliases)
        /\ \A j \in DOMAIN prev : prev[j] \in PluginRecords
    BY <1>1, <2>1, RemergedFacts, CatalogFacts DEF States
  <2>3. Former(i) = {disk.plugins[j].val : j \in group}
    BY <2>1 DEF Former, Group
  <2>4. /\ \A e \in D : /\ e.now = Remerged[e.id].val
                        /\ Discovered(e) => e.id \notin DOMAIN prev
        /\ i \notin DOMAIN prev => \E e \in D : e.id = i
        /\ i \in DOMAIN prev /\ now # prev[i].val => \E e \in D : e.id = i
    <3>1. Detected(D, prev, Remerged)
      BY <1>1, <2>1, EventsFacts
    <3> HIDE DEF D
    <3> QED
      BY <2>1, <3>1 DEF Detected
  <2>5. /\ \A e \in E : \E b \in CreateBatches(E) : e \in b.events /\ b.targets = Targets
        /\ \A e \in D : e \notin E => Discovered(e) /\ Remerged[e.id].kinds \subseteq baseline
    BY <1>1, <2>1, EventsFacts, BatchesFacts
  <2>6. DOMAIN prev = {Resolve(j, mem.aliases) : j \in DOMAIN disk.plugins}
    BY <2>2 DEF Resolved
  <2> HIDE DEF E, D
  <2>7. CASE i \in DOMAIN prev /\ now = prev[i].val
    <3>1. ASSUME NEW f \in Fields PROVE \E j \in group : disk.plugins[j].val[f] = now[f]
      <4>1. \E j \in group : TRUE
        BY <2>6, <2>7 DEF Group
      <4>2. \/ /\ prev[i].val[f] = Empty
               /\ \A j \in group : disk.plugins[j].val[f] = Empty
            \/ \E j \in group : disk.plugins[j].val[f] = prev[i].val[f]
        BY <2>2, <2>7 DEF Resolved
      <4> HIDE DEF group, now
      <4> QED
        BY <2>7, <4>1, <4>2
    <3> HIDE DEF group
    <3> QED
      BY <2>1, <2>3, <3>1
  <2>8. CASE \E e \in E : e.id = i
    <3>1. PICK e \in E : e.id = i
      BY <2>8
    <3>2. PICK b \in CreateBatches(E) : e \in b.events /\ b.targets = Targets
      BY <2>5
    <3>3. e \in D
      BY <1>1, <2>1, EventsFacts DEF E, D
    <3> QED
      BY <2>1, <2>4, <3>1, <3>2, <3>3
  <2>9. CASE i \notin DOMAIN prev /\ \A e \in E : e.id # i
    <3>1. Remerged[i].kinds \subseteq baseline
      BY <2>4, <2>5, <2>9
    <3>2. \A o \in Observed(i, mem) : o[1] \in Remerged[i].kinds
      BY <1>1, <2>1, KindsFacts
    <3>3. Observed(i, disk') = Observed(i, mem)
      BY <2>1, ReadSame
    <3>4. ~ListedByKnown(i)
      BY <1>1, <3>1, <3>2, <3>3 DEF ListedByKnown, Consistent, Heard
    <3>5. Former(i) = {}
      BY <2>3, <2>6, <2>9 DEF Group
    <3> QED
      BY <3>4, <3>5
  <2> QED
    BY <2>4, <2>5, <2>7, <2>8, <2>9
<1>2. Consistent /\ [Next]_vars =>
        ((disk' # disk /\ Targets # {} /\ successful) =>
           \A i \in DOMAIN disk'.plugins :
             LET now == disk'.plugins[i].val
             IN \/ \A f \in Fields : \E c \in Former(i) : c[f] = now[f]
                \/ Former(i) = {} /\ ~ListedByKnown(i)
                \/ \E b \in disk'.outbox : \E e \in b.events :
                     b.targets = Targets /\ e.id = i /\ e.now = now)
  BY <1>1
<1> QED
  BY <1>2, AlwaysConsistent, PTL DEF Spec, NothingMissed

\* The events that a step adds are those of the check that is saved.
LEMMA NewFacts ==
  ASSUME Consistent, [Next]_vars, NEW e \in NewEvents
  PROVE  /\ disk' # disk /\ pc = "detect"
         /\ e \in Events(Remerged) /\ e \in DetectChanges(prev, Remerged)
<1>1. PICK b \in disk'.outbox : b \notin disk.outbox /\ e \in b.events
  BY DEF NewEvents
<1>2. disk' # disk
  BY <1>1
<1>3. pc = "detect" /\ b \in CreateBatches(Events(Remerged))
  BY <1>1, <1>2, SavedFacts
<1> QED
  BY <1>1, <1>2, <1>3, EventsFacts, BatchesFacts

\* A plugin that was in the catalog and is listed still is no new one.
LEMMA StillKnown ==
  ASSUME Consistent, pc = "detect", NEW i, Observed(i, disk) # {}, i \notin DOMAIN mem.aliases
  PROVE  i \in DOMAIN prev /\ i \in DOMAIN disk.plugins
<1>1. i \in Ids
  BY StateReadable, ObservedFacts DEF Consistent, Typed
<1>2. i \in DOMAIN disk.plugins
  BY <1>1 DEF Consistent, FaithfulTo
<1>3. DOMAIN prev = {Resolve(j, mem.aliases) : j \in DOMAIN disk.plugins}
  BY RemergedFacts DEF Resolved
<1> QED
  BY <1>2, <1>3 DEF Resolve

\* Silent baselines: a plugin is announced as discovered only if it was not in the
\* catalog under any id and a source that was heard before this check lists it now and
\* did not list it before.
THEOREM BaselinesAreSilent == Spec => BaselineSilent
<1>1. ASSUME Consistent, [Next]_vars, NEW e \in NewEvents, Discovered(e)
      PROVE  /\ Former(e.id) = {}
             /\ \E o \in Observed(e.id, disk') :
                  o[1] \in disk.established /\ o \notin Observed(e.id, disk)
  <2> DEFINE i == e.id
  <2>1. /\ disk' # disk /\ pc = "detect"
        /\ e \in Events(Remerged) /\ e \in DetectChanges(prev, Remerged)
    BY <1>1, NewFacts
  <2>2. /\ mem \in States /\ disk \in States /\ prev \in Catalogs /\ Remerged \in Catalogs
        /\ disk.plugins \in Catalogs /\ mem.aliases \in Aliases
        /\ Resolved(prev, disk.plugins, mem.aliases)
        /\ \A j \in DOMAIN prev : prev[j] \in PluginRecords
        /\ Readable(mem) /\ Readable(disk) /\ Readable(AtFirst)
    BY <1>1, <2>1, RemergedFacts, CatalogFacts, StateReadable, AtFirstFacts DEF States
  <2>3. i \in DOMAIN Remerged /\ i \notin DOMAIN prev
    <3>1. Detected(DetectChanges(prev, Remerged), prev, Remerged)
      BY <1>1, <2>1, EventsFacts
    <3> QED
      BY <1>1, <2>1, <3>1 DEF Detected
  <2>4. disk'.listing = mem.listing /\ disk'.aliases = mem.aliases
    BY <1>1, <2>1, SavedFacts
  <2>5. DOMAIN prev = {Resolve(j, mem.aliases) : j \in DOMAIN disk.plugins}
    BY <2>2 DEF Resolved
  <2>6. Former(i) = {}
    BY <2>3, <2>4, <2>5 DEF Former
  <2>7. ~(Remerged[i].kinds \subseteq baseline)
    BY <1>1, <2>1, EventsFacts
  <2>8. PICK k \in Remerged[i].kinds : k \notin baseline
    BY <2>7
  <2>9. PICK first \in Observed(i, mem) \cup Observed(i, AtFirst) : first[1] = k
    BY <1>1, <2>1, <2>3, <2>8, KindsFacts
  <2>10. Observed(i, mem) # {}
    BY <1>1, <2>1, <2>3, RemergedFacts DEF FaithfulTo
  <2>11. i \notin DOMAIN mem.aliases
    BY <2>2, <2>10, ObservedFacts
  <2>12. Observed(i, disk) = {}
    BY <1>1, <2>1, <2>3, <2>11, StillKnown
  <2>13. first \in Observed(i, mem)
    <3>1. CASE first \in Observed(i, AtFirst)
      <4>1. PICK s \in Sources, r \in 1..Records : first = <<s, r>>
        BY <2>2, <3>1, ObservedFacts
      <4>2. r \in DOMAIN AtFirst.listing[s] /\ Resolve(AtFirst.listing[s][r].id, AtFirst.aliases) = i
        BY <2>2, <3>1, <4>1, ObservedFacts
      <4>3. s # Search
        <5> SUFFICES ASSUME s = Search PROVE FALSE
          OBVIOUS
        <5>1. /\ r \in DOMAIN disk.listing[s]
              /\ Resolve(disk.listing[s][r].id, mem.aliases) = i
          BY <2>2, <4>2, AtFirstFacts
        <5>2. disk.listing[s] \in Listings[s] /\ disk.aliases \in Aliases
          BY <2>2 DEF States, Lists
        <5>3. disk.listing[s][r].id \in RepoIds
          BY <5>1, <5>2, ListingFacts
        <5>4. Resolve(disk.listing[s][r].id, disk.aliases) = i
          BY <2>2, <5>1, <5>2, <5>3, AliasFacts
        <5>5. <<s, r>> \in Observed(i, disk)
          BY <2>2, <5>1, <5>4, ObservedFacts
        <5> QED
          BY <2>12, <5>5
      <4>4. AtFirst.listing[s] = mem.listing[s] /\ AtFirst.aliases = mem.aliases
        BY <2>2, <4>3, AtFirstFacts
      <4> QED
        BY <2>2, <4>1, <4>2, <4>4, ObservedFacts
    <3> QED
      BY <2>9, <3>1
  <2>14. k \in mem.established
    <3>1. PICK s \in Sources, r \in 1..Records : first = <<s, r>>
      BY <2>2, <2>13, ObservedFacts
    <3>2. r \in DOMAIN mem.listing[s] /\ k = s
      BY <2>2, <2>9, <2>13, <3>1, ObservedFacts
    <3> QED
      BY <1>1, <3>1, <3>2 DEF Consistent, Heard
  <2>15. k \in disk.established
    BY <1>1, <2>8, <2>14 DEF Consistent, Heard
  <2>16. first \in Observed(i, disk')
    BY <2>4, <2>13, ReadSame
  <2> QED
    BY <2>6, <2>9, <2>12, <2>15, <2>16
<1>2. Consistent /\ [Next]_vars =>
        \A e \in NewEvents : Discovered(e) =>
          /\ Former(e.id) = {}
          /\ \E o \in Observed(e.id, disk') :
               o[1] \in disk.established /\ o \notin Observed(e.id, disk)
  BY <1>1
<1> QED
  BY <1>2, AlwaysConsistent, PTL DEF Spec, BaselineSilent

\* A merge over a record that keeps the promise already leaves it alone.
LEMMA MergedAgain ==
  ASSUME NEW st, Readable(st), NEW old \in Catalogs, NEW cache \in Caches,
         NEW i \in Ids, i \in DOMAIN old, Observed(i, st) # {},
         FaithfulRecord(old[i], i, st, cache)
  PROVE  LET p == ApplyCache(MergeSources(st, old), cache) IN
         i \in DOMAIN p /\ \A f \in Fields : p[i].val[f] = old[i].val[f]
<1> DEFINE m == MergeSources(st, old)
           p == ApplyCache(m, cache)
<1>1. m \in Catalogs /\ i \in DOMAIN m /\ m[i] = MergedRecord(i, st, old)
  BY MergeTyped
<1>2. i \in DOMAIN p
  BY <1>1, CachedFacts
<1>3. \A f \in Fields : p[i].val[f] = IF Overridden(f, i, cache) THEN cache[i] ELSE m[i].val[f]
  BY <1>1, <1>2, CachedFacts
<1> HIDE DEF p
<1>4. old[i] = Earlier(i, old)
  BY DEF Earlier
<1>5. ASSUME NEW f \in Fields PROVE p[i].val[f] = old[i].val[f]
  <2> DEFINE seen == Observed(i, st)
             o == Best(f, seen, st)
  <2>1. /\ Candidates(f, seen, st) # {} =>
             /\ old[i].from[f] <= o[1]
             /\ old[i].from[f] = o[1] /\ ~Overridden(f, i, cache) =>
                  old[i].val[f] = st.listing[o[1]][o[2]].val[f]
        /\ Overridden(f, i, cache) => old[i].val[f] = cache[i]
        /\ old[i].val[f] = Empty => old[i].from[f] = Unsourced
    BY DEF FaithfulRecord
  <2>2. IF KeepsPrevious(f, seen, st, old[i])
          THEN m[i].val[f] = old[i].val[f]
          ELSE m[i].val[f] = st.listing[o[1]][o[2]].val[f]
    BY <1>1, <1>4, MergedFacts
  <2>3. Candidates(f, seen, st) # {} => o[1] \in Sources
    BY BestFacts
  <2>4. old[i].from[f] \in Sources \cup {Unsourced}
    BY CatalogFacts DEF PluginRecords
  <2>5. KeepsPrevious(f, seen, st, old[i])
          <=> \/ Candidates(f, seen, st) = {}
              \/ old[i].val[f] # Empty /\ old[i].from[f] < o[1]
    BY DEF KeepsPrevious
  <2> HIDE DEF seen, o, m
  <2>6. CASE KeepsPrevious(f, seen, st, old[i])
    BY <1>3, <2>1, <2>2, <2>6
  <2>7. CASE ~KeepsPrevious(f, seen, st, old[i])
    <3>1. Candidates(f, seen, st) # {} /\ ~(old[i].val[f] # Empty /\ old[i].from[f] < o[1])
      BY <2>5, <2>7
    <3>2. o[1] \in 0..3 /\ old[i].from[f] \in 0..4 /\ old[i].from[f] <= o[1]
      BY <2>1, <2>3, <2>4, <3>1 DEF Sources, Unsourced
    <3>3. old[i].val[f] # Empty
      BY <2>1, <3>2 DEF Unsourced
    <3>4. old[i].from[f] = o[1]
      BY <3>1, <3>2, <3>3
    <3> QED
      BY <1>3, <2>1, <2>2, <2>7, <3>1, <3>4
  <2> QED
    BY <2>6, <2>7
<1> QED
  BY <1>2, <1>5 DEF p

\* What it promises depends on the observations of the plugin and on the answer about
\* it, and on no other thing.
LEMMA FaithfulSame ==
  ASSUME NEW st, NEW su, NEW i, NEW cache, NEW other, NEW p,
         Readable(st), Observed(i, st) = Observed(i, su),
         \A o \in Observed(i, st) : st.listing[o[1]][o[2]] = su.listing[o[1]][o[2]],
         i \in RepoIds => cache[i] = other[i],
         FaithfulRecord(p, i, st, cache)
  PROVE  FaithfulRecord(p, i, su, other)
<1> DEFINE seen == Observed(i, st)
<1>1. \A f : Candidates(f, seen, st) = Candidates(f, seen, su)
  BY DEF Candidates
<1>2. \A f : Best(f, seen, st) = Best(f, seen, su)
  BY <1>1 DEF Best
<1>3. \A f \in Fields : Candidates(f, seen, st) # {} =>
        LET o == Best(f, seen, st) IN st.listing[o[1]][o[2]] = su.listing[o[1]][o[2]]
  BY BestFacts
<1>4. \A f : /\ Overridden(f, i, cache) <=> Overridden(f, i, other)
             /\ Overridden(f, i, cache) => cache[i] = other[i]
  BY DEF Overridden
<1>5. ASSUME NEW f \in Fields
      PROVE  LET o == Best(f, seen, su)
             IN /\ Candidates(f, seen, su) # {} =>
                     /\ p.from[f] <= o[1]
                     /\ p.from[f] = o[1] /\ ~Overridden(f, i, other) =>
                          p.val[f] = su.listing[o[1]][o[2]].val[f]
                /\ Overridden(f, i, other) => p.val[f] = other[i]
                /\ p.val[f] = Empty => p.from[f] = Unsourced
  <2> DEFINE o == Best(f, seen, st)
  <2>1. /\ Candidates(f, seen, st) # {} =>
             /\ p.from[f] <= o[1]
             /\ p.from[f] = o[1] /\ ~Overridden(f, i, cache) =>
                  p.val[f] = st.listing[o[1]][o[2]].val[f]
        /\ Overridden(f, i, cache) => p.val[f] = cache[i]
        /\ p.val[f] = Empty => p.from[f] = Unsourced
    BY DEF FaithfulRecord
  <2>2. Candidates(f, seen, st) # {} => st.listing[o[1]][o[2]] = su.listing[o[1]][o[2]]
    BY <1>3
  <2>3. Candidates(f, seen, st) = Candidates(f, seen, su) /\ o = Best(f, seen, su)
    BY <1>1, <1>2
  <2> HIDE DEF o, seen
  <2> QED
    BY <1>4, <2>1, <2>2, <2>3
<1> QED
  BY <1>5 DEF FaithfulRecord

\* The record r of source s concerns plugin i: it is listed as i, or was.
Concerns(s, r, i) ==
  \/ /\ r \in DOMAIN disk.listing[s]
     /\ \/ Resolve(disk.listing[s][r].id, mem.aliases) = i
        \/ Resolve(disk.listing[s][r].id, disk.aliases) = i
  \/ r \in DOMAIN mem.listing[s] /\ Resolve(mem.listing[s][r].id, mem.aliases) = i

\* It is listed now as it was.
Kept(s, r) ==
  /\ r \in DOMAIN disk.listing[s] /\ r \in DOMAIN mem.listing[s]
  /\ disk.listing[s][r] = mem.listing[s][r]

\* Nothing was learnt of plugin i.
NothingLearnt(i) ==
  /\ \A s \in Sources, r \in 1..Records : Concerns(s, r, i) => Kept(s, r)
  /\ i \in RepoIds => mem.cache[i] = disk.cache[i]

\* An id that leads from a record listed as it was leads where it led.
LEMMA KeptResolves ==
  ASSUME Consistent, NEW s \in Sources, NEW r \in 1..Records, Kept(s, r)
  PROVE  Resolve(disk.listing[s][r].id, mem.aliases) = Resolve(disk.listing[s][r].id, disk.aliases)
<1> DEFINE x == disk.listing[s][r].id
<1>1. /\ mem.aliases \in Aliases /\ disk.aliases \in Aliases /\ disk.listing[s] \in Listings[s]
      /\ mem.listing[s][r].id = x /\ r \in DOMAIN disk.listing[s] /\ Moved
  BY DEF Consistent, Typed, States, Lists, Kept
<1>2. x \in FallbackIds => x = Fallback(s, r)
  BY <1>1, ListingFacts
<1> HIDE DEF x
<1>3. CASE x \notin DOMAIN mem.aliases
  BY <1>1, <1>3 DEF Moved, Resolve, x
<1>4. CASE x \in DOMAIN mem.aliases
  <2>1. x \in FallbackIds /\ mem.aliases[x] \in RepoIds
    BY <1>1, <1>4, AliasFacts
  <2>2. x # mem.aliases[x]
    BY <2>1, Constants
  <2>3. ASSUME NEW t \in Sources, NEW q \in 1..Records, MovedTo(t, q, x) PROVE FALSE
    <3>1. t = s /\ q = r
      BY <1>2, <2>1, <2>3, FallbackInjective DEF MovedTo
    <3> QED
      BY <1>1, <2>2, <2>3, <3>1 DEF MovedTo
  <2>4. x \in DOMAIN disk.aliases /\ mem.aliases[x] = disk.aliases[x]
    BY <1>1, <1>4, <2>3 DEF Moved
  <2> QED
    BY <1>4, <2>4 DEF Resolve, x
<1> QED
  BY <1>3, <1>4

\* The plugin is then observed as it was, at both merges.
LEMMA ObservedAsBefore ==
  ASSUME Consistent, NEW i, NothingLearnt(i)
  PROVE  /\ Observed(i, mem) = Observed(i, disk) /\ Observed(i, AtFirst) = Observed(i, disk)
         /\ \A o \in Observed(i, disk) :
              /\ mem.listing[o[1]][o[2]] = disk.listing[o[1]][o[2]]
              /\ AtFirst.listing[o[1]][o[2]] = disk.listing[o[1]][o[2]]
<1>1. /\ mem \in States /\ disk \in States
      /\ Readable(mem) /\ Readable(disk) /\ Readable(AtFirst)
  BY StateReadable, AtFirstFacts DEF Consistent, Typed
<1>2. /\ AtFirst.aliases = mem.aliases
      /\ \A s \in Sources : AtFirst.listing[s] = IF s = Search THEN disk.listing[s]
                                                 ELSE mem.listing[s]
  BY <1>1, AtFirstFacts
<1>3. ASSUME NEW s \in Sources, NEW r \in 1..Records
      PROVE  /\ <<s, r>> \in Observed(i, mem) <=> <<s, r>> \in Observed(i, disk)
             /\ <<s, r>> \in Observed(i, AtFirst) <=> <<s, r>> \in Observed(i, disk)
             /\ <<s, r>> \in Observed(i, disk) => Kept(s, r)
  <2>1. /\ <<s, r>> \in Observed(i, mem) <=>
             r \in DOMAIN mem.listing[s] /\ Resolve(mem.listing[s][r].id, mem.aliases) = i
        /\ <<s, r>> \in Observed(i, disk) <=>
             r \in DOMAIN disk.listing[s] /\ Resolve(disk.listing[s][r].id, disk.aliases) = i
        /\ <<s, r>> \in Observed(i, AtFirst) <=>
             r \in DOMAIN AtFirst.listing[s] /\ Resolve(AtFirst.listing[s][r].id, mem.aliases) = i
    BY <1>1, <1>2, ObservedFacts
  <2>2. Concerns(s, r, i) => Kept(s, r)
    BY DEF NothingLearnt
  <2>3. Kept(s, r) => Resolve(disk.listing[s][r].id, mem.aliases)
                        = Resolve(disk.listing[s][r].id, disk.aliases)
    BY KeptResolves
  <2> QED
    BY <1>2, <2>1, <2>2, <2>3 DEF Concerns, Kept
<1>4. /\ Observed(i, mem) \subseteq Sources \X (1..Records)
      /\ Observed(i, disk) \subseteq Sources \X (1..Records)
      /\ Observed(i, AtFirst) \subseteq Sources \X (1..Records)
  BY <1>1, ObservedFacts
<1>5. \A o \in Observed(i, disk) : o[1] \in Sources /\ Kept(o[1], o[2])
  BY <1>3, <1>4
<1>6. \A o \in Observed(i, disk) : /\ mem.listing[o[1]][o[2]] = disk.listing[o[1]][o[2]]
                                   /\ AtFirst.listing[o[1]][o[2]] = disk.listing[o[1]][o[2]]
  BY <1>2, <1>5 DEF Kept
<1>7. Observed(i, mem) = Observed(i, disk) /\ Observed(i, AtFirst) = Observed(i, disk)
  BY <1>3, <1>4
<1> QED
  BY <1>6, <1>7

\* Nor did it come by another plugin.
LEMMA GroupAsBefore ==
  ASSUME Consistent, NEW i, NothingLearnt(i), Observed(i, disk) # {}
  PROVE  /\ i \in DOMAIN disk.plugins /\ i \in Ids
         /\ Group(i, disk.plugins, mem.aliases) = {i}
<1>1. /\ Readable(mem) /\ Readable(disk) /\ disk.plugins \in Catalogs /\ mem.aliases \in Aliases
      /\ FaithfulTo(disk.plugins, disk, disk.cache) /\ Moved
  BY StateReadable DEF Consistent, Typed, States
<1>2. i \in Ids /\ i \in DOMAIN disk.plugins
  BY <1>1, ObservedFacts DEF FaithfulTo
<1>3. i \notin DOMAIN mem.aliases
  BY <1>1, ObservedAsBefore, ObservedFacts
<1>4. ASSUME NEW j \in DOMAIN disk.plugins, Resolve(j, mem.aliases) = i, j # i PROVE FALSE
  <2>1. j \in DOMAIN mem.aliases /\ mem.aliases[j] = i
    BY <1>4 DEF Resolve
  <2>2. Observed(j, disk) # {}
    BY <1>1 DEF FaithfulTo
  <2>3. j \notin DOMAIN disk.aliases
    BY <1>1, <2>2, ObservedFacts
  <2>4. PICK s \in Sources, r \in 1..Records : MovedTo(s, r, j)
    BY <1>1, <2>1, <2>3 DEF Moved
  <2>5. Kept(s, r)
    BY <1>4, <2>4 DEF NothingLearnt, Concerns, MovedTo
  <2> QED
    BY <1>4, <2>1, <2>4, <2>5 DEF Kept, MovedTo
<1>5. Resolve(i, mem.aliases) = i
  BY <1>3 DEF Resolve
<1> QED
  BY <1>2, <1>4, <1>5 DEF Group

\* So that it is saved as it was.
LEMMA SavedAsBefore ==
  ASSUME Consistent, pc = "detect", NEW i \in DOMAIN Remerged, NothingLearnt(i)
  PROVE  i \in DOMAIN prev /\ Remerged[i].val = prev[i].val
<1>1. /\ mem \in States /\ disk \in States /\ prev \in Catalogs /\ disk.plugins \in Catalogs
      /\ mem.plugins \in Catalogs /\ Remerged \in Catalogs
      /\ mem.aliases \in Aliases /\ mem.cache \in Caches
      /\ Readable(mem) /\ Readable(disk) /\ Readable(AtFirst)
      /\ Resolved(prev, disk.plugins, mem.aliases)
      /\ mem.plugins = ApplyCache(MergeSources(AtFirst, prev), mem.cache)
      /\ FaithfulTo(disk.plugins, disk, disk.cache)
      /\ FaithfulTo(mem.plugins, AtFirst, mem.cache)
      /\ FaithfulTo(Remerged, mem, mem.cache)
  BY RemergedFacts, StateReadable, AtFirstFacts DEF Consistent, Merged, States
<1>2. /\ Observed(i, mem) = Observed(i, disk) /\ Observed(i, AtFirst) = Observed(i, disk)
      /\ \A o \in Observed(i, disk) :
           /\ mem.listing[o[1]][o[2]] = disk.listing[o[1]][o[2]]
           /\ AtFirst.listing[o[1]][o[2]] = disk.listing[o[1]][o[2]]
      /\ i \in RepoIds => mem.cache[i] = disk.cache[i]
  BY ObservedAsBefore DEF NothingLearnt
<1>3. Observed(i, disk) # {}
  BY <1>1, <1>2 DEF FaithfulTo
<1>4. i \in DOMAIN disk.plugins /\ i \in Ids /\ Group(i, disk.plugins, mem.aliases) = {i}
  BY <1>3, GroupAsBefore
<1>5. i \in DOMAIN prev
  <2>1. DOMAIN prev = {Resolve(j, mem.aliases) : j \in DOMAIN disk.plugins}
    BY <1>1 DEF Resolved
  <2> QED
    BY <1>4, <2>1 DEF Group
<1>6. FaithfulRecord(disk.plugins[i], i, disk, disk.cache)
  BY <1>1, <1>4 DEF FaithfulTo
<1>7. \A f \in Fields : /\ prev[i].val[f] = disk.plugins[i].val[f]
                        /\ prev[i].from[f] = disk.plugins[i].from[f]
  <2> TAKE f \in Fields
  <2>1. disk.plugins[i].val[f] = Empty => disk.plugins[i].from[f] = Unsourced
    BY <1>6 DEF FaithfulRecord
  <2>2. \/ /\ prev[i].val[f] = Empty /\ prev[i].from[f] = Unsourced
           /\ \A j \in {i} : disk.plugins[j].val[f] = Empty
        \/ \E j \in {i} : /\ disk.plugins[j].val[f] = prev[i].val[f]
                          /\ disk.plugins[j].from[f] = prev[i].from[f]
    <3> DEFINE group == Group(i, disk.plugins, mem.aliases)
    <3>1. \/ /\ prev[i].val[f] = Empty /\ prev[i].from[f] = Unsourced
             /\ \A j \in group : disk.plugins[j].val[f] = Empty
          \/ \E j \in group : /\ disk.plugins[j].val[f] = prev[i].val[f]
                              /\ disk.plugins[j].from[f] = prev[i].from[f]
      BY <1>1, <1>5 DEF Resolved
    <3> HIDE DEF group
    <3>2. group = {i}
      BY <1>4 DEF group
    <3> QED
      BY <3>1, <3>2
  <2> QED
    BY <2>1, <2>2
<1>8. FaithfulRecord(prev[i], i, disk, disk.cache)
  BY <1>6, <1>7 DEF FaithfulRecord
<1>9. FaithfulRecord(prev[i], i, AtFirst, mem.cache)
  BY <1>1, <1>2, <1>8, FaithfulSame
<1>10. i \in DOMAIN mem.plugins /\ \A f \in Fields : mem.plugins[i].val[f] = prev[i].val[f]
  BY <1>1, <1>2, <1>3, <1>4, <1>5, <1>9, MergedAgain
<1>11. FaithfulRecord(mem.plugins[i], i, mem, mem.cache)
  <2>1. FaithfulRecord(mem.plugins[i], i, AtFirst, mem.cache)
    BY <1>1, <1>10 DEF FaithfulTo
  <2> QED
    BY <1>1, <1>2, <2>1, FaithfulSame
<1>12. \A f \in Fields : Remerged[i].val[f] = mem.plugins[i].val[f]
  <2>1. CASE Search \in Enabled
    BY <1>1, <1>2, <1>3, <1>4, <1>10, <1>11, <2>1, MergedAgain DEF Remerged
  <2>2. CASE Search \notin Enabled
    BY <2>2 DEF Remerged
  <2> QED
    BY <2>1, <2>2
<1>13. Remerged[i].val \in Contents /\ prev[i].val \in Contents
  BY <1>1, <1>5, CatalogFacts DEF PluginRecords
<1>14. \A f \in Fields : Remerged[i].val[f] = prev[i].val[f]
  BY <1>10, <1>12
<1>15. ASSUME NEW v \in Contents, NEW w \in Contents, \A f \in Fields : v[f] = w[f]
       PROVE  v = w
  <2>1. v.text = w.text /\ v.archived = w.archived /\ v.repo_url = w.repo_url
    BY <1>15 DEF Fields
  <2> QED
    BY <2>1 DEF Contents
<1> QED
  BY <1>5, <1>13, <1>14, <1>15

\* An update is announced only if something was learnt of that plugin in this check: a
\* source lists it in another way, or GitHub's answer about it is another.
THEOREM UpdatesAreGrounded == Spec => UpdatesGrounded
<1>1. ASSUME Consistent, [Next]_vars, NEW e \in NewEvents, ~Discovered(e)
      PROVE  \/ \E s \in Sources : \E r \in 1..Records :
                  LET was == r \in DOMAIN disk.listing[s]
                      is  == r \in DOMAIN disk'.listing[s]
                  IN /\ \/ was /\ Resolve(disk.listing[s][r].id, disk'.aliases) = e.id
                        \/ was /\ Resolve(disk.listing[s][r].id, disk.aliases) = e.id
                        \/ is /\ Resolve(disk'.listing[s][r].id, disk'.aliases) = e.id
                     /\ ~(was /\ is /\ disk.listing[s][r] = disk'.listing[s][r])
             \/ e.id \in RepoIds /\ disk'.cache[e.id] # disk.cache[e.id]
  <2>1. /\ disk' # disk /\ pc = "detect" /\ e \in DetectChanges(prev, Remerged)
    BY <1>1, NewFacts
  <2>2. /\ prev \in Catalogs /\ Remerged \in Catalogs
        /\ \A j \in DOMAIN prev : prev[j] \in PluginRecords
    BY <1>1, <2>1, RemergedFacts, CatalogFacts
  <2>3. e.id \in DOMAIN Remerged /\ Remerged[e.id].val # prev[e.id].val
    <3>1. Detected(DetectChanges(prev, Remerged), prev, Remerged)
      BY <1>1, <2>1, EventsFacts
    <3> QED
      BY <1>1, <2>1, <3>1 DEF Detected
  <2>4. ~NothingLearnt(e.id)
    BY <1>1, <2>1, <2>3, SavedAsBefore
  <2>5. /\ disk'.listing = mem.listing /\ disk'.aliases = mem.aliases /\ disk'.cache = mem.cache
    BY <1>1, <2>1, SavedFacts
  <2> QED
    BY <2>4, <2>5 DEF NothingLearnt, Concerns, Kept
<1>2. Consistent /\ [Next]_vars =>
        \A e \in NewEvents : ~Discovered(e) =>
          \/ \E s \in Sources : \E r \in 1..Records :
               LET was == r \in DOMAIN disk.listing[s]
                   is  == r \in DOMAIN disk'.listing[s]
               IN /\ \/ was /\ Resolve(disk.listing[s][r].id, disk'.aliases) = e.id
                     \/ was /\ Resolve(disk.listing[s][r].id, disk.aliases) = e.id
                     \/ is /\ Resolve(disk'.listing[s][r].id, disk'.aliases) = e.id
                  /\ ~(was /\ is /\ disk.listing[s][r] = disk'.listing[s][r])
          \/ e.id \in RepoIds /\ disk'.cache[e.id] # disk.cache[e.id]
  BY <1>1
<1> QED
  BY <1>2, AlwaysConsistent, PTL DEF Spec, UpdatesGrounded
=============================================================================
