---------------------------- MODULE PagingProofs ----------------------------
(***************************************************************************)
(* What Paging promises for every number of events and every limit: each   *)
(* position is on one page, no page is empty or over the limit, and the    *)
(* sizes of the pages of cards differ by at most one.  And what Settings   *)
(* makes of every configuration: numbers that the other modules allow, and *)
(* pages that can be drawn.                                                *)
(***************************************************************************)
EXTENDS Paging, Settings, TLAPS

\* What a quotient and a remainder are.
LEMMA DivMod ==
  ASSUME NEW n \in Nat, NEW p \in Nat \ {0}
  PROVE  /\ n \div p \in Nat
         /\ n % p \in 0..(p - 1)
         /\ n = p * (n \div p) + (n % p)
  OBVIOUS

\* A step of one on a side of a product is a step of the other factor.
LEMMA MulStep ==
  ASSUME NEW a \in Int, NEW b \in Int, NEW p \in Nat, a < b
  PROVE  p * a + p <= p * b
  OBVIOUS

\* The page count is n over max, rounded up, and no page needs to be empty.
LEMMA PageCountBounds ==
  ASSUME NEW n \in Nat \ {0}, NEW max \in Nat \ {0}
  PROVE  LET P == PageCount(n, max) IN
         /\ P \in 1..n
         /\ n <= max * P
         /\ max * P < n + max
<1> DEFINE P == PageCount(n, max)
           r == (n + max - 1) % max
<1>1. /\ P \in Nat
      /\ r \in 0..(max - 1)
      /\ n + max - 1 = max * P + r
  <2>1. n + max - 1 \in Nat
    OBVIOUS
  <2> QED BY <2>1, DivMod, Zenon DEF PageCount
<1>2. n <= max * P /\ max * P < n + max
  <2> HIDE DEF P, r
  <2> QED BY <1>1
<1>3. P # 0
  <2> HIDE DEF P, r
  <2> QED BY <1>1
<1>4. P <= n
  <2> HIDE DEF P, r
  <2> SUFFICES ASSUME n < P PROVE FALSE
    BY <1>1
  <2>1. max * n + max <= max * P
    BY <1>1, MulStep
  <2>2. n <= max * n
    BY MulStep
  <2> QED BY <1>1, <1>2, <2>1, <2>2
<1> QED BY <1>1, <1>2, <1>3, <1>4

\* chunk_events: every event is on a page that there is, and page k holds the
\* events after the first (k - 1) * max, at most max of them.
THEOREM ChunksFit ==
  ASSUME NEW n \in Nat \ {0}, NEW max \in Nat \ {0}, NEW pos \in 1..n
  PROVE  LET k == ChunkOf(pos, n, max) IN
         /\ k \in 1..PageCount(n, max)
         /\ max * (k - 1) < pos
         /\ pos <= max * (k - 1) + max
<1> DEFINE q == (pos - 1) \div max
           P == PageCount(n, max)
<1>1. /\ q \in Nat
      /\ max * q <= pos - 1
      /\ pos - 1 < max * q + max
  <2>1. pos - 1 \in Nat
    OBVIOUS
  <2>2. /\ q \in Nat
        /\ (pos - 1) % max \in 0..(max - 1)
        /\ pos - 1 = max * q + ((pos - 1) % max)
    BY <2>1, DivMod, Zenon
  <2> HIDE DEF q
  <2> DEFINE r == (pos - 1) % max
  <2> HIDE DEF r
  <2> QED BY <2>2 DEF r
<1>2. P \in 1..n /\ n <= max * P
  BY PageCountBounds
<1>3. q < P
  <2> HIDE DEF q, P
  <2> SUFFICES ASSUME P <= q PROVE FALSE
    BY <1>1, <1>2
  <2>1. max * P <= max * q
    <3>1. CASE P = q
      BY <3>1, <1>1, <1>2
    <3>2. CASE P < q
      BY <3>2, <1>1, <1>2, MulStep
    <3> QED BY <3>1, <3>2, <1>1, <1>2
  <2> QED BY <1>1, <1>2, <2>1
<1>4. ChunkOf(pos, n, max) = q + 1
  BY DEF ChunkOf
<1> HIDE DEF q, P
<1>5. q + 1 - 1 = q
  BY <1>1
<1> QED BY <1>1, <1>2, <1>3, <1>4, <1>5 DEF P

\* The list that balanced_page_sizes returns: positive, within the limit, and
\* any two of its sizes differ by at most one.
THEOREM SizesBalanced ==
  ASSUME NEW n \in Nat \ {0}, NEW max \in Nat \ {0},
         NEW j \in 1..PageCount(n, max), NEW k \in 1..PageCount(n, max)
  PROVE  /\ PageSize(k, n, max) \in 1..max
         /\ PageSize(j, n, max) <= PageSize(k, n, max) + 1
<1> DEFINE P == PageCount(n, max)
           base == BaseSize(n, max)
           larger == LargerPages(n, max)
<1>1. /\ P \in 1..n
      /\ n <= max * P
  BY PageCountBounds
<1>2. /\ base \in Nat
      /\ larger \in 0..(P - 1)
      /\ n = P * base + larger
  <2>1. P \in Nat \ {0}
    BY <1>1
  <2> QED BY <2>1, DivMod, Zenon DEF BaseSize, LargerPages
<1>3. /\ PageSize(j, n, max) = base + (IF j <= larger THEN 1 ELSE 0)
      /\ PageSize(k, n, max) = base + (IF k <= larger THEN 1 ELSE 0)
  BY DEF PageSize
<1>4. j \in 1..P /\ k \in 1..P
  OBVIOUS
<1> HIDE DEF P, base, larger
<1>5. base # 0
  BY <1>1, <1>2
<1>6. base <= max /\ (larger > 0 => base < max)
  <2>1. CASE max < base
    <3>1. P * max + P <= P * base
      BY <2>1, <1>1, <1>2, MulStep
    <3> QED BY <3>1, <1>1, <1>2
  <2>2. CASE base = max /\ larger > 0
    BY <2>2, <1>1, <1>2
  <2> QED BY <2>1, <2>2, <1>2
<1> QED BY <1>2, <1>3, <1>4, <1>5, <1>6

\* partition_events_balanced: every event is on exactly one page, and on one
\* that there is.
THEOREM PagesPartition ==
  ASSUME NEW n \in Nat \ {0}, NEW max \in Nat \ {0}, NEW pos \in 1..n
  PROVE  \E page \in 1..PageCount(n, max) :
           /\ PageOf(pos, n, max) = page
           /\ PageStart(page, n, max) < pos
           /\ pos <= PageStart(page, n, max) + PageSize(page, n, max)
           /\ \A other \in 1..PageCount(n, max) :
                /\ PageStart(other, n, max) < pos
                /\ pos <= PageStart(other, n, max) + PageSize(other, n, max)
                => other = page
<1> DEFINE P == PageCount(n, max)
           base == BaseSize(n, max)
           larger == LargerPages(n, max)
           Start(p) == (p - 1) * base + (IF p - 1 <= larger THEN p - 1 ELSE larger)
           Size(p) == base + (IF p <= larger THEN 1 ELSE 0)
           Holds(p) == Start(p) < pos /\ pos <= Start(p) + Size(p)
<1>1. P \in 1..n
  BY PageCountBounds
<1>2. /\ base \in Nat
      /\ larger \in 0..(P - 1)
      /\ n = P * base + larger
  <2>1. P \in Nat \ {0}
    BY <1>1
  <2> QED BY <2>1, DivMod, Zenon DEF BaseSize, LargerPages
<1>3. \A p : /\ PageStart(p, n, max) = Start(p)
             /\ PageSize(p, n, max) = Size(p)
  BY DEF PageStart, PageSize
<1>4. PageOf(pos, n, max) = CHOOSE p \in 1..P : Holds(p)
  BY <1>3 DEF PageOf
<1> HIDE DEF P, base, larger
<1>5. base # 0
  BY <1>1, <1>2
<1>6. \A p, o \in 1..P : p < o => Start(p) + Size(p) <= Start(o)
  <2> SUFFICES ASSUME NEW p \in 1..P, NEW o \in 1..P, p < o
               PROVE  Start(p) + Size(p) <= Start(o)
    OBVIOUS
  <2>1. base * (p - 1) + base <= base * (o - 1)
    BY <1>2, MulStep
  <2> QED BY <2>1, <1>1, <1>2
<1>7. \E p \in 1..P : Holds(p)
  <2>1. CASE pos <= larger * (base + 1)
    <3> DEFINE q == (pos - 1) \div (base + 1)
               r == (pos - 1) % (base + 1)
    <3>1. /\ q \in Nat
          /\ r \in 0..((base + 1) - 1)
          /\ pos - 1 = (base + 1) * q + r
      <4>1. pos - 1 \in Nat /\ base + 1 \in Nat \ {0}
        BY <1>2
      <4> QED BY <4>1, DivMod, Zenon
    <3> HIDE DEF q, r
    <3>2. q < larger
      <4> SUFFICES ASSUME larger <= q PROVE FALSE
        BY <3>1, <1>2
      <4>1. (base + 1) * larger <= (base + 1) * q
        <5>1. CASE larger = q
          BY <5>1, <1>2, <3>1
        <5>2. CASE larger < q
          BY <5>2, <1>2, <3>1, MulStep
        <5> QED BY <5>1, <5>2, <1>2, <3>1
      <4> QED BY <4>1, <2>1, <3>1, <1>2
    <3>3. Start(q + 1) = q * base + q /\ Size(q + 1) = base + 1
      BY <3>1, <3>2, <1>2
    <3>4. Holds(q + 1)
      BY <3>1, <3>3, <1>2
    <3>5. q + 1 \in 1..P
      BY <3>1, <3>2, <1>1, <1>2
    <3> HIDE DEF Holds
    <3> QED BY <3>4, <3>5
  <2>2. CASE pos > larger * (base + 1)
    <3> DEFINE d == pos - 1 - larger * (base + 1)
               q == d \div base
               r == d % base
    <3>1. d \in Nat
      BY <2>2, <1>2
    <3>2. /\ q \in Nat
          /\ r \in 0..(base - 1)
          /\ d = base * q + r
      <4>1. base \in Nat \ {0}
        BY <1>2, <1>5
      <4> HIDE DEF d
      <4> QED BY <3>1, <4>1, DivMod, Zenon
    <3> HIDE DEF q, r
    <3>3. larger + q < P
      <4> SUFFICES ASSUME P - larger <= q PROVE FALSE
        BY <3>2, <1>1, <1>2
      <4>1. base * (P - larger) <= base * q
        <5>1. CASE P - larger = q
          BY <5>1, <1>1, <1>2, <3>2
        <5>2. CASE P - larger < q
          BY <5>2, <1>1, <1>2, <3>2, MulStep
        <5> QED BY <5>1, <5>2, <1>1, <1>2, <3>2
      <4>2. base * (P - larger) = base * P - base * larger
        BY <1>1, <1>2
      <4> QED BY <4>1, <4>2, <3>2, <1>1, <1>2
    <3> DEFINE w == larger + q + 1
    <3>4. w \in 1..P /\ w > larger
      BY <3>2, <3>3, <1>1, <1>2
    <3>5. Start(w) = (larger + q) * base + larger /\ Size(w) = base
      BY <3>2, <3>4, <1>2
    <3>6. (larger + q) * base = larger * base + q * base
      BY <3>2, <1>2
    <3>7. Start(w) + r = pos - 1
      BY <3>1, <3>2, <3>5, <3>6, <1>2
    <3>8. Start(w) \in Int
      BY <3>2, <3>5, <1>2
    <3>9. Holds(w)
      <4> HIDE DEF w, Start
      <4> QED BY <3>2, <3>5, <3>7, <3>8, <1>2
    <3> HIDE DEF w, Holds
    <3> QED BY <3>4, <3>9
  <2> QED BY <2>1, <2>2, <1>2
<1>8. PICK page \in 1..P : Holds(page) /\ PageOf(pos, n, max) = page
  BY <1>4, <1>7, Zenon
<1>9. ASSUME NEW other \in 1..P, Holds(other)
      PROVE  other = page
  <2>1. Start(other) \in Int /\ Size(other) \in Nat /\ Start(page) \in Int /\ Size(page) \in Nat
    BY <1>1, <1>2
  <2>2. other < page => Start(other) + Size(other) <= Start(page)
    BY <1>6
  <2>3. page < other => Start(page) + Size(page) <= Start(other)
    BY <1>6
  <2> HIDE DEF Start, Size
  <2> QED BY <1>1, <1>8, <1>9, <2>1, <2>2, <2>3
<1> QED BY <1>3, <1>8, <1>9, Zenon DEF P

\* A setting that is chosen from a set that holds its default is in that set,
\* whatever the configuration says.
LEMMA Allowed ==
  ASSUME NEW value, NEW default, NEW allowed, default \in allowed
  PROVE  AllowedValues(value, default, allowed) \in allowed
  BY DEF AllowedValues

\* The settings that the models have as constants are what the models assume of
\* them (ThrottleAssumption, CatalogAssumption), for every configuration; and a
\* wait for the gap between two images is shorter than their window of 60 seconds.
THEOREM SettingsFit ==
  ASSUME NEW config
  PROVE  LET runtime == ParseRuntimeConfig(config) IN
         /\ runtime.max_images_per_delivery \in Nat \ {0}
         /\ runtime.image_send_interval_seconds \in 0..59
         /\ ItemsPerPage(runtime) \in Nat \ {0}
         /\ {runtime.enable_image_card, runtime.include_star_count} \subseteq BOOLEAN
<1> DEFINE runtime == ParseRuntimeConfig(config)
<1>1. runtime.max_images_per_delivery \in 1..10
  <2>1. 2 \in 1..10
    OBVIOUS
  <2> QED BY <2>1, Allowed DEF ParseRuntimeConfig, IntRange
<1>2. runtime.image_send_interval_seconds \in 0..30
  <2>1. 2 \in 0..30
    OBVIOUS
  <2> QED BY <2>1, Allowed DEF ParseRuntimeConfig, IntRange
<1>3. runtime.max_items_per_push \in 1..50
  <2>1. 10 \in 1..50
    OBVIOUS
  <2> QED BY <2>1, Allowed DEF ParseRuntimeConfig, IntRange
<1>4. runtime.image_card_max_items \in {5, 10, 15}
  BY Allowed DEF ParseRuntimeConfig
<1>5. runtime.enable_image_card \in BOOLEAN /\ runtime.include_star_count \in BOOLEAN
  <2>1. \A v : \A d \in BOOLEAN : Bool(v, d) \in BOOLEAN
    BY Allowed, Zenon DEF Bool
  <2>2. /\ runtime.enable_image_card = Bool(config.enable_image_card, TRUE)
        /\ runtime.include_star_count = Bool(config.include_star_count, TRUE)
    BY DEF ParseRuntimeConfig
  <2> QED BY <2>1, <2>2, Zenon
<1> HIDE DEF runtime
<1>6. ItemsPerPage(runtime) \in 1..50
  BY <1>3, <1>4 DEF ItemsPerPage
<1> QED BY <1>1, <1>2, <1>5, <1>6 DEF runtime

\* create_batches never fails for a page: whatever the configuration, a page of a
\* card has at least one event and no more than build_card_payload accepts, and
\* they are drawn in at most five rows.
THEOREM CardsAccepted ==
  ASSUME NEW config, NEW n \in Nat \ {0},
         ParseRuntimeConfig(config).enable_image_card,
         NEW page \in 1..PageCount(n, ItemsPerPage(ParseRuntimeConfig(config)))
  PROVE  LET size == PageSize(page, n, ItemsPerPage(ParseRuntimeConfig(config))) IN
         /\ size \in 1..MaxItemsPerPage
         /\ Rows(size) \in 1..5
<1> DEFINE max == ItemsPerPage(ParseRuntimeConfig(config))
           size == PageSize(page, n, max)
<1>1. max \in {5, 10, 15}
  BY Allowed DEF ItemsPerPage, ParseRuntimeConfig
<1>2. size \in 1..max
  <2>1. page \in 1..PageCount(n, max)
    OBVIOUS
  <2> HIDE DEF max
  <2>2. max \in Nat \ {0}
    BY <1>1
  <2>3. PageSize(page, n, max) \in 1..max
    BY <2>1, <2>2, SizesBalanced, Zenon
  <2> QED BY <2>3 DEF size
<1> HIDE DEF size, max
<1>3. size \in 1..15
  BY <1>1, <1>2
<1>4. Rows(size) \in 1..5
  <2>1. CASE size <= 5
    BY <2>1, <1>3 DEF Rows, Columns
  <2>2. CASE size > 5 /\ size <= 10
    BY <2>2, <1>3 DEF Rows, Columns
  <2>3. CASE size > 10
    BY <2>3, <1>3 DEF Rows, Columns
  <2> QED BY <2>1, <2>2, <2>3, <1>3
<1> QED BY <1>3, <1>4 DEF MaxItemsPerPage, size, max
=============================================================================
