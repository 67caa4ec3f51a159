--------------------------- MODULE NotifierProofs ----------------------------
(***************************************************************************)
(* Results on Notifier, for any batches, test-push commands and number of  *)
(* targets: TypeOK, CardsUnmixed, CardForEach and ModeTruthful are         *)
(* invariants.  One inductive invariant, Coherent, gives all four.         *)
(***************************************************************************)
EXTENDS Notifier, TLAPS

-----------------------------------------------------------------------------
(* The inductive invariant *)

Busy(u) == pc[u] \notin {"idle", "done"}

\* A delivery that no other one overlaps, as far as beside is concerned.
Calm(u) == Busy(u) /\ u \notin beside

\* What a delivery is of, whatever else goes on.
Delivers ==
  /\ enabled => renderer
  /\ pc[Pass] # "done"
  /\ \A t \in Tests :
       /\ pc[t] # "idle" => batch[t] = IF enabled THEN TestCard ELSE TestText
       /\ pc[t] = "idle" => ~rendered[t]
       /\ pc[t] = "render" => enabled
  /\ \A u \in Users :
       /\ pc[u] = "render" => ~rendered[u] /\ HasCard(batch[u])
       /\ pc[u] = "image" => carried[u] # Nothing
       /\ pc[u] = "text" => carried[u] = Nothing

\* No pass is there while a calm test-push is, and the other way round.
Apart == \A t \in Tests : Busy(t) /\ Busy(Pass) => t \in beside /\ Pass \in beside

\* What the pass leaves in the notifier: a card may only be that of a test-push.
Cleared ==
  ~Busy(Pass) =>
    /\ image \in {Nothing, TestCard}
    /\ ~enabled => image = Nothing /\ ~attempted

\* A calm pass finds its own card there, once it is rendered.
PassCalm ==
  Calm(Pass) =>
    /\ image = IF rendered[Pass] THEN batch[Pass] ELSE Nothing
    /\ pc[Pass] = "image" => carried[Pass] = batch[Pass]
    /\ pc[Pass] = "text" => ~rendered[Pass] \/ refused[Pass]

\* So does a calm test-push, and a flag that tells the truth.
TestsCalm ==
  \A t \in Tests : Calm(t) =>
    /\ enabled => attempted
    /\ pc[t] = "image" => carried[t] = batch[t]
    /\ pc[t] = "text" => fallback[t] = enabled /\ (~rendered[t] \/ refused[t])

Coherent == TypeOK /\ Delivers /\ Apart /\ Cleared /\ PassCalm /\ TestsCalm /\ ModeTruthful

-----------------------------------------------------------------------------
(* Types *)

\* What the start of a send does to the fields of its user.
LEMMA StartSendTypes ==
  ASSUME TypeOK, NEW u \in Users, NEW card \in Batches \cup {Nothing}, NEW flag \in BOOLEAN,
         StartSend(u, card, flag)
  PROVE  /\ pc' \in [Users -> {"idle", "render", "image", "text", "done"}]
         /\ carried' \in [Users -> Batches \cup {Nothing}]
         /\ fallback' \in [Users -> BOOLEAN]
         /\ refused' \in [Users -> BOOLEAN]
<1>1. /\ pc \in [Users -> {"idle", "render", "image", "text", "done"}]
      /\ carried \in [Users -> Batches \cup {Nothing}]
      /\ fallback \in [Users -> BOOLEAN]
      /\ refused \in [Users -> BOOLEAN]
  BY DEF TypeOK
<1> QED
  BY <1>1 DEF StartSend

\* What comes after a send keeps the types.
LEMMA AfterSendTypes ==
  ASSUME TypeOK, NEW u \in Users, NEW reached \in Modes, AfterSend(u, reached),
         UNCHANGED <<config, batch, rendered, beside>>
  PROVE  TypeOK'
<1>0. /\ renderer' \in BOOLEAN /\ enabled' \in BOOLEAN /\ batch' \in [Users -> Batches]
      /\ rendered' \in [Users -> BOOLEAN] /\ beside' \subseteq Users
  BY DEF TypeOK, config
<1>1. CASE u = Pass /\ left[u] > 1
  <2>1. /\ left' = [left EXCEPT ![u] = @ - 1]
        /\ StartSend(u, image, attempted)
        /\ mode' = reached /\ UNCHANGED <<image, attempted, told>>
    BY <1>1, NotifierAssumption DEF AfterSend, TypeOK, Users
  <2>2. left' \in [Users -> 1..Targets]
    BY <1>1, <2>1, NotifierAssumption DEF TypeOK
  <2>3. image \in Batches \cup {Nothing} /\ attempted \in BOOLEAN
    BY DEF TypeOK
  <2>4. /\ pc' \in [Users -> {"idle", "render", "image", "text", "done"}]
        /\ carried' \in [Users -> Batches \cup {Nothing}]
        /\ fallback' \in [Users -> BOOLEAN]
        /\ refused' \in [Users -> BOOLEAN]
    BY <2>1, <2>3, StartSendTypes
  <2> QED
    BY <1>0, <2>1, <2>2, <2>3, <2>4 DEF TypeOK
<1>2. CASE (u = Pass /\ left[u] = 1) \/ u \in Tests
  <2>1. /\ pc' \in [Users -> {"idle", "render", "image", "text", "done"}]
        /\ UNCHANGED <<left, carried, fallback, refused>>
    BY <1>2, NotifierAssumption DEF AfterSend, TypeOK, Users
  <2>2. \/ Clear /\ UNCHANGED told
        \/ /\ mode' = reached /\ UNCHANGED <<image, attempted>>
           /\ told' = [told EXCEPT ![u] = reached]
    BY <1>2, NotifierAssumption DEF AfterSend
  <2>3. image' \in Batches \cup {Nothing} /\ mode' \in Modes \cup {Nothing}
    BY <2>2 DEF Clear, Reset, TypeOK
  <2>4. attempted' \in BOOLEAN
    BY <2>2 DEF Clear, Reset, TypeOK
  <2>5. told' \in [Users -> Modes \cup {Nothing}]
    BY <2>2 DEF TypeOK
  <2> QED
    BY <1>0, <2>1, <2>3, <2>4, <2>5 DEF TypeOK
<1>3. left[u] \in 1..Targets
  BY DEF TypeOK
<1> QED
  BY <1>1, <1>2, <1>3, NotifierAssumption DEF Users

\* So does prepare.
LEMMA PrepareTypes ==
  ASSUME TypeOK, NEW u \in Users, NEW b \in Batches, Prepare(u, b)
  PROVE  /\ pc' \in [Users -> {"idle", "render", "image", "text", "done"}]
         /\ carried' \in [Users -> Batches \cup {Nothing}]
         /\ fallback' \in [Users -> BOOLEAN]
         /\ refused' \in [Users -> BOOLEAN]
         /\ rendered' \in [Users -> BOOLEAN]
         /\ batch' \in [Users -> Batches]
         /\ image' = Nothing /\ attempted' \in BOOLEAN
<1>1. rendered' \in [Users -> BOOLEAN] /\ batch' \in [Users -> Batches]
  BY DEF Prepare, TypeOK
<1>2. CASE HasCard(b) /\ renderer
  BY <1>1, <1>2 DEF Prepare, TypeOK
<1>3. CASE ~(HasCard(b) /\ renderer)
  <2>1. Reset /\ StartSend(u, Nothing, FALSE)
    BY <1>3 DEF Prepare
  <2> QED
    BY <1>1, <2>1, StartSendTypes DEF Reset
<1> QED
  BY <1>2, <1>3

\* Every step keeps them.
LEMMA TypeStep == TypeOK /\ [Next]_vars => TypeOK'
<1> SUFFICES ASSUME TypeOK, [Next]_vars PROVE TypeOK'
  OBVIOUS
<1>0. /\ image \in Batches \cup {Nothing} /\ attempted \in BOOLEAN
      /\ \A u \in Users : batch[u] \in Batches
      /\ Pass \in Users /\ Tests \subseteq Users
  BY DEF TypeOK, Users
<1>1. CASE \E u \in Users : Render(u) \/ RenderFails(u)
  <2> PICK u \in Users : Render(u) \/ RenderFails(u)
    BY <1>1
  <2>1. \E card \in Batches \cup {Nothing} : StartSend(u, card, attempted)
    BY <1>0 DEF Render, RenderFails
  <2>2. /\ pc' \in [Users -> {"idle", "render", "image", "text", "done"}]
        /\ carried' \in [Users -> Batches \cup {Nothing}]
        /\ fallback' \in [Users -> BOOLEAN]
        /\ refused' \in [Users -> BOOLEAN]
    BY <1>0, <2>1, StartSendTypes
  <2>3. /\ image' \in Batches \cup {Nothing} /\ rendered' \in [Users -> BOOLEAN]
        /\ UNCHANGED <<renderer, enabled, attempted, mode, batch, left, told, beside>>
    BY <1>0 DEF Render, RenderFails, config, shared, TypeOK
  <2> QED
    BY <2>2, <2>3 DEF TypeOK
<1>2. CASE \E u \in Users : ImageTaken(u) \/ TextSent(u)
  BY <1>2, AfterSendTypes DEF ImageTaken, TextSent, Modes
<1>3. CASE \E u \in Users : ImageRefused(u)
  <2> PICK u \in Users : ImageRefused(u)
    BY <1>3
  <2>1. UNCHANGED <<config, shared, batch, left, told, rendered, beside>>
    BY DEF ImageRefused
  <2>2. /\ pc' \in [Users -> {"idle", "render", "image", "text", "done"}]
        /\ carried' \in [Users -> Batches \cup {Nothing}]
    BY DEF ImageRefused, TypeOK
  <2>3. fallback' \in [Users -> BOOLEAN]
    BY <1>0 DEF ImageRefused, TypeOK
  <2>4. refused' \in [Users -> BOOLEAN]
    BY DEF ImageRefused, TypeOK
  <2> QED
    BY <2>1, <2>2, <2>3, <2>4 DEF TypeOK, config, shared
<1>4. CASE \E t \in Tests : TestPush(t)
  <2> PICK t \in Tests : TestPush(t)
    BY <1>4
  <2>1. /\ mode' = Nothing /\ UNCHANGED <<renderer, enabled, left, told>>
        /\ beside' \subseteq Users
    BY <1>0 DEF TestPush, config, Begins, TypeOK
  <2>2. CASE enabled
    <3>1. Prepare(t, TestCard) /\ TestCard \in Batches
      BY <2>2 DEF TestPush, Batches
    <3> QED
      BY <1>0, <2>1, <3>1, PrepareTypes DEF TypeOK
  <2>3. CASE ~enabled
    <3>1. /\ StartSend(t, image, attempted) /\ UNCHANGED <<image, attempted, rendered>>
          /\ batch' = [batch EXCEPT ![t] = TestText] /\ TestText \in Batches
      BY <2>3 DEF TestPush, Batches
    <3>2. batch' \in [Users -> Batches]
      BY <3>1 DEF TypeOK
    <3>3. /\ pc' \in [Users -> {"idle", "render", "image", "text", "done"}]
          /\ carried' \in [Users -> Batches \cup {Nothing}]
          /\ fallback' \in [Users -> BOOLEAN]
          /\ refused' \in [Users -> BOOLEAN]
      BY <1>0, <3>1, StartSendTypes
    <3> QED
      BY <2>1, <3>1, <3>2, <3>3 DEF TypeOK
  <2> QED
    BY <2>2, <2>3
<1>5. CASE PassBatch
  <2>1. PICK b \in Cards \cup Texts : Prepare(Pass, b)
    BY <1>5 DEF PassBatch
  <2>2. b \in Batches
    BY DEF Batches
  <2>3. /\ UNCHANGED <<renderer, enabled, mode, told>> /\ beside' \subseteq Users
        /\ left' \in [Users -> 1..Targets]
    BY <1>0, <1>5 DEF PassBatch, config, Begins, TypeOK
  <2> QED
    BY <1>0, <2>1, <2>2, <2>3, PrepareTypes DEF TypeOK
<1>6. CASE PassCancelled
  <2>1. /\ pc' \in [Users -> {"idle", "render", "image", "text", "done"}]
        /\ image' = Nothing /\ attempted' = FALSE /\ mode' = Nothing
        /\ UNCHANGED <<config, sending, beside>>
    BY <1>0, <1>6 DEF PassCancelled, Clear, Reset, TypeOK
  <2> QED
    BY <2>1 DEF TypeOK, config, sending
<1>7. CASE UNCHANGED vars
  BY <1>7 DEF vars, config, shared, sending, TypeOK
<1> QED
  BY <1>1, <1>2, <1>3, <1>4, <1>5, <1>6, <1>7 DEF Next, PrepareStep, SendStep

-----------------------------------------------------------------------------
(* Coherence *)

\* It holds at the start.
LEMMA CoherentInit == Init => Coherent
<1> SUFFICES ASSUME Init PROVE Coherent
  OBVIOUS
<1>1. TypeOK
  <2>1. TestText \in Batches
    BY DEF Batches
  <2>2. renderer \in BOOLEAN /\ enabled \in BOOLEAN /\ attempted \in BOOLEAN
    BY DEF Init
  <2>3. left \in [Users -> 1..Targets]
    BY NotifierAssumption DEF Init
  <2> QED
    BY <2>1, <2>2, <2>3 DEF Init, TypeOK
<1>2. \A u \in Users : pc[u] = "idle" /\ ~rendered[u]
  BY DEF Init
<1>3. Pass \in Users /\ Tests \subseteq Users
  BY DEF Users
<1>4. Delivers
  <2>1. enabled => renderer
    BY DEF Init
  <2> QED
    BY <1>2, <1>3, <2>1 DEF Delivers
<1>5. Apart /\ PassCalm /\ TestsCalm
  BY <1>2, <1>3 DEF Apart, PassCalm, TestsCalm, Calm, Busy
<1>6. Cleared
  BY DEF Init, Cleared
<1>7. ModeTruthful
  BY <1>2, <1>3 DEF ModeTruthful
<1> QED
  BY <1>1, <1>4, <1>5, <1>6, <1>7 DEF Coherent

\* The end of a render keeps it.
LEMMA RenderStep ==
  ASSUME Coherent, NEW u \in Users, Render(u) \/ RenderFails(u), TypeOK'
  PROVE  Coherent'
<1> DEFINE card == IF Render(u) THEN batch[u] ELSE image
<1>0. /\ TypeOK /\ Delivers /\ Apart /\ Cleared /\ PassCalm /\ TestsCalm /\ ModeTruthful
      /\ Pass \in Users /\ Tests \subseteq Users /\ Pass \notin Tests
      /\ \A b \in Batches : b # Nothing
  BY NotifierAssumption DEF Coherent, Users, Batches
<1>1. /\ pc[u] = "render" /\ image' = card
      /\ StartSend(u, card, attempted)
      /\ rendered' \in {rendered, [rendered EXCEPT ![u] = TRUE]}
      /\ Render(u) => rendered' = [rendered EXCEPT ![u] = TRUE]
      /\ ~Render(u) => rendered' = rendered
      /\ UNCHANGED <<renderer, enabled, attempted, mode, batch, left, told, beside>>
  BY DEF Render, RenderFails, config, shared
<1>2. /\ pc'[u] = IF card # Nothing THEN "image" ELSE "text"
      /\ carried'[u] = card
      /\ fallback'[u] = attempted
      /\ refused'[u] = FALSE
      /\ rendered'[u] = IF Render(u) THEN TRUE ELSE rendered[u]
  BY <1>1 DEF StartSend, TypeOK, Coherent
<1>3. \A v \in Users \ {u} :
        /\ pc'[v] = pc[v] /\ carried'[v] = carried[v] /\ fallback'[v] = fallback[v]
        /\ refused'[v] = refused[v] /\ rendered'[v] = rendered[v]
  BY <1>1 DEF StartSend, TypeOK, Coherent
<1>4. batch[u] \in Batches /\ batch[u] # Nothing /\ ~rendered[u]
  BY <1>0, <1>1 DEF TypeOK, Delivers
<1>5. Busy(u) /\ Busy(u)' /\ \A v \in Users : Busy(v)' = Busy(v) /\ Calm(v)' = Calm(v)
  BY <1>1, <1>2, <1>3 DEF Busy, Calm
<1>6. Delivers'
  BY <1>0, <1>1, <1>2, <1>3, <1>4 DEF Delivers
<1>7. Apart'
  BY <1>0, <1>1, <1>5 DEF Apart
<1>8. ASSUME u \in Tests PROVE enabled /\ renderer /\ batch[u] = TestCard
  BY <1>0, <1>1, <1>8 DEF Delivers
<1>9. Cleared'
  <2>1. CASE u = Pass
    BY <1>5, <2>1 DEF Cleared
  <2>2. CASE u \in Tests
    <3>1. enabled' /\ batch[u] = TestCard
      BY <1>1, <1>8, <2>2
    <3>2. ~Busy(Pass) => image' \in {Nothing, TestCard}
      BY <1>0, <1>1, <3>1 DEF Cleared
    <3> QED
      BY <1>0, <1>5, <3>1, <3>2 DEF Cleared
  <2> QED
    BY <2>1, <2>2 DEF Users
<1>10. PassCalm'
  <2> SUFFICES ASSUME Calm(Pass), PassCalm PROVE PassCalm'
    BY <1>0, <1>5 DEF PassCalm
  <2>1. CASE u = Pass
    <3>1. image = Nothing
      BY <1>0, <1>4, <2>1 DEF PassCalm
    <3>2. card = IF Render(u) THEN batch[u] ELSE Nothing
      BY <3>1
    <3>3. CASE Render(u)
      BY <1>1, <1>2, <1>4, <2>1, <3>2, <3>3 DEF PassCalm
    <3>4. CASE ~Render(u)
      BY <1>1, <1>2, <1>4, <2>1, <3>2, <3>4 DEF PassCalm
    <3> QED
      BY <3>3, <3>4
  <2>2. CASE u \in Tests
    BY <1>0, <1>5, <2>2 DEF Apart, Calm
  <2> QED
    BY <2>1, <2>2 DEF Users
<1>11. TestsCalm'
  <2> SUFFICES ASSUME NEW t \in Tests, Calm(t)
               PROVE  /\ enabled' => attempted'
                      /\ pc'[t] = "image" => carried'[t] = batch'[t]
                      /\ pc'[t] = "text" =>
                           fallback'[t] = enabled' /\ (~rendered'[t] \/ refused'[t])
    BY <1>0, <1>5 DEF TestsCalm
  <2>1. u # Pass
    BY <1>0, <1>5 DEF Apart, Calm
  <2>2. enabled => attempted
    BY <1>0 DEF TestsCalm
  <2>3. CASE t = u
    <3>1. attempted = TRUE /\ enabled = TRUE /\ batch[u] = TestCard
      BY <1>0, <1>8, <2>2, <2>3 DEF TypeOK
    <3>2. image \in {Nothing, TestCard}
      BY <1>0, <2>3 DEF Apart, Calm, Cleared
    <3>3. card \in {Nothing, TestCard} /\ (Render(u) => card # Nothing)
      BY <1>4, <3>1, <3>2
    <3> HIDE DEF card
    <3>4. pc'[t] = "image" => carried'[t] = batch'[t]
      BY <1>0, <1>1, <1>2, <2>3, <3>1, <3>3
    <3>5. pc'[t] = "text" => fallback'[t] = TRUE /\ ~rendered'[t]
      BY <1>0, <1>1, <1>2, <1>4, <2>3, <3>1, <3>3
    <3> QED
      BY <1>1, <3>1, <3>4, <3>5
  <2>4. CASE t # u
    BY <1>0, <1>1, <1>3, <2>2, <2>4 DEF TestsCalm
  <2> QED
    BY <2>3, <2>4
<1>12. ModeTruthful'
  BY <1>0, <1>1, <1>2, <1>3 DEF ModeTruthful
<1> QED
  BY <1>6, <1>7, <1>9, <1>10, <1>11, <1>12 DEF Coherent

\* The pass leaves the notifier with nothing prepared: its delivery is over or
\* cancelled.
LEMMA PassLeaves ==
  ASSUME Coherent, TypeOK', pc[Pass] \in {"render", "image", "text"},
         pc' = [pc EXCEPT ![Pass] = "idle"], Clear,
         UNCHANGED <<config, batch, carried, fallback, told, rendered, refused, beside>>
  PROVE  Coherent'
<1>0. /\ TypeOK /\ Delivers /\ Apart /\ ModeTruthful
      /\ Pass \in Users /\ Tests \subseteq Users /\ Pass \notin Tests
  BY NotifierAssumption DEF Coherent, Users
<1>1. /\ pc'[Pass] = "idle" /\ \A v \in Users \ {Pass} : pc'[v] = pc[v]
      /\ image' = Nothing /\ attempted' = FALSE
      /\ UNCHANGED <<renderer, enabled, batch, carried, fallback, told, rendered, refused, beside>>
  BY <1>0 DEF TypeOK, Clear, Reset, config
<1>2. Busy(Pass) /\ ~Busy(Pass)' /\ \A v \in Users \ {Pass} : Busy(v)' = Busy(v)
  BY <1>1 DEF Busy
<1>3. Delivers'
  BY <1>0, <1>1 DEF Delivers
<1>4. Apart'
  BY <1>0, <1>1, <1>2 DEF Apart
<1>5. Cleared' /\ PassCalm'
  BY <1>1, <1>2 DEF Cleared, PassCalm, Calm
<1>6. TestsCalm'
  BY <1>0, <1>1, <1>2 DEF Apart, TestsCalm, Calm
<1>7. ModeTruthful'
  BY <1>0, <1>1 DEF ModeTruthful
<1> QED
  BY <1>3, <1>4, <1>5, <1>6, <1>7 DEF Coherent

\* So does the end of a send, which sets the mode to what was sent.
LEMMA SentStep ==
  ASSUME Coherent, TypeOK', NEW u \in Users, NEW reached \in Modes,
         pc[u] \in {"image", "text"},
         pc[u] = "image" => reached = "image",
         pc[u] = "text" => reached = IF fallback[u] THEN "text_fallback" ELSE "text",
         AfterSend(u, reached), UNCHANGED <<config, batch, rendered, beside>>
  PROVE  Coherent'
<1>0. /\ TypeOK /\ Delivers /\ Apart /\ Cleared /\ PassCalm /\ TestsCalm /\ ModeTruthful
      /\ Pass \in Users /\ Tests \subseteq Users /\ Pass \notin Tests
      /\ UNCHANGED <<renderer, enabled>>
  BY NotifierAssumption DEF Coherent, Users, config
<1>1. CASE u = Pass /\ left[u] > 1
  <2>1. /\ StartSend(Pass, image, attempted) /\ UNCHANGED <<image, attempted, told>>
    BY <1>0, <1>1 DEF AfterSend, TypeOK
  <2>2. /\ pc'[Pass] = IF image # Nothing THEN "image" ELSE "text"
        /\ carried'[Pass] = image
    BY <1>0, <2>1 DEF StartSend, TypeOK
  <2>3. \A t \in Tests :
          /\ pc'[t] = pc[t] /\ carried'[t] = carried[t] /\ fallback'[t] = fallback[t]
          /\ refused'[t] = refused[t]
    BY <1>0, <2>1 DEF StartSend, TypeOK
  <2>4. Busy(Pass) /\ Busy(Pass)' /\ \A t \in Tests : Busy(t)' = Busy(t)
    BY <1>1, <2>2, <2>3 DEF Busy
  <2>5. Delivers'
    <3>1. \A v \in Users : v = Pass \/ v \in Tests
      BY DEF Users
    <3>2. pc'[Pass] # "render" /\ pc'[Pass] # "done"
      BY <2>2
    <3>3. pc'[Pass] = "image" => carried'[Pass] # Nothing
      BY <2>2
    <3>4. pc'[Pass] = "text" => carried'[Pass] = Nothing
      BY <2>2
    <3> QED
      BY <1>0, <2>3, <3>1, <3>2, <3>3, <3>4 DEF Delivers
  <2>6. Apart' /\ Cleared'
    BY <1>0, <2>4 DEF Apart, Cleared
  <2>7. PassCalm'
    <3> SUFFICES ASSUME Calm(Pass) PROVE PassCalm'
      BY <2>4 DEF PassCalm, Calm
    <3>1. image = IF rendered[Pass] THEN batch[Pass] ELSE Nothing
      BY <1>0 DEF PassCalm
    <3>2. batch[Pass] # Nothing
      BY <1>0, NotifierAssumption DEF TypeOK, Batches
    <3> QED
      BY <2>1, <2>2, <3>1, <3>2 DEF PassCalm
  <2>8. TestsCalm'
    BY <1>0, <2>1, <2>3, <2>4 DEF TestsCalm, Calm
  <2>9. ModeTruthful'
    BY <1>0, <2>1, <2>3 DEF ModeTruthful
  <2> QED
    BY <2>5, <2>6, <2>7, <2>8, <2>9 DEF Coherent
<1>2. CASE u = Pass /\ left[u] = 1
  <2>1. /\ pc' = [pc EXCEPT ![Pass] = "idle"] /\ Clear
        /\ UNCHANGED <<carried, fallback, refused, told>>
    BY <1>0, <1>2 DEF AfterSend
  <2> QED
    BY <1>2, <2>1, PassLeaves
<1>3. CASE u \in Tests
  <2>1. /\ pc' = [pc EXCEPT ![u] = "done"]
        /\ told' = [told EXCEPT ![u] = reached]
        /\ UNCHANGED <<image, attempted, left, carried, fallback, refused>>
    BY <1>0, <1>3 DEF AfterSend
  <2>2. /\ pc'[u] = "done" /\ told'[u] = reached
        /\ \A v \in Users \ {u} : pc'[v] = pc[v] /\ told'[v] = told[v]
    BY <1>0, <2>1 DEF TypeOK
  <2>3. ~Busy(u)' /\ Busy(u) /\ \A v \in Users \ {u} : Busy(v)' = Busy(v)
    BY <2>2 DEF Busy
  <2>4. Delivers'
    BY <1>0, <1>3, <2>1, <2>2 DEF Delivers
  <2>5. Apart'
    BY <1>0, <1>3, <2>3 DEF Apart
  <2>6. Cleared' /\ PassCalm'
    BY <1>0, <1>3, <2>1, <2>2, <2>3 DEF Cleared, PassCalm, Calm
  <2>7. TestsCalm'
    <3> SUFFICES ASSUME NEW t \in Tests, Calm(t)'
                 PROVE  /\ enabled' => attempted'
                        /\ pc'[t] = "image" => carried'[t] = batch'[t]
                        /\ pc'[t] = "text" =>
                             fallback'[t] = enabled' /\ (~rendered'[t] \/ refused'[t])
      BY DEF TestsCalm
    <3>1. t # u /\ Calm(t) /\ pc'[t] = pc[t]
      BY <1>0, <2>2, <2>3 DEF Calm
    <3>2. UNCHANGED <<enabled, attempted, carried, batch, fallback, rendered, refused>>
      BY <1>0, <2>1
    <3> QED
      BY <1>0, <3>1, <3>2 DEF TestsCalm
  <2>8. ASSUME u \notin beside
        PROVE  reached = IF carried[u] # Nothing THEN "image"
                         ELSE IF batch[u] = TestCard THEN "text_fallback" ELSE "text"
    <3>1. Calm(u)
      BY <2>3, <2>8 DEF Calm
    <3>2. CASE pc[u] = "image"
      BY <1>0, <3>2 DEF Delivers
    <3>3. CASE pc[u] = "text"
      <4>1. carried[u] = Nothing /\ fallback[u] = enabled
        BY <1>0, <1>3, <3>1, <3>3 DEF Delivers, TestsCalm
      <4>2. (batch[u] = TestCard) <=> enabled
        BY <1>0, <1>3, <3>3, NotifierAssumption DEF Delivers
      <4> QED
        BY <3>3, <4>1, <4>2
    <3> QED
      BY <3>2, <3>3
  <2>9. ModeTruthful'
    BY <1>0, <1>3, <2>1, <2>2, <2>8 DEF ModeTruthful
  <2> QED
    BY <2>4, <2>5, <2>6, <2>7, <2>9 DEF Coherent
<1>4. left[u] > 1 \/ left[u] = 1
  BY <1>0 DEF TypeOK
<1> QED
  BY <1>1, <1>2, <1>3, <1>4 DEF Users

\* So does an image that is refused: the text that follows knows whether a card was
\* asked for.
LEMMA RefusedStep ==
  ASSUME Coherent, TypeOK', NEW u \in Users, ImageRefused(u)
  PROVE  Coherent'
<1>0. /\ TypeOK /\ Delivers /\ Apart /\ Cleared /\ PassCalm /\ TestsCalm /\ ModeTruthful
      /\ Pass \in Users /\ Tests \subseteq Users /\ Pass \notin Tests
  BY NotifierAssumption DEF Coherent, Users
<1>1. /\ pc[u] = "image" /\ pc'[u] = "text" /\ fallback'[u] = attempted
      /\ refused'[u] = TRUE /\ carried'[u] = Nothing
      /\ \A v \in Users \ {u} :
           /\ pc'[v] = pc[v] /\ carried'[v] = carried[v] /\ fallback'[v] = fallback[v]
           /\ refused'[v] = refused[v]
      /\ UNCHANGED <<renderer, enabled, image, attempted, batch, told, rendered, beside>>
  BY <1>0 DEF ImageRefused, TypeOK, config, shared
<1>2. \A v \in Users : Busy(v)' = Busy(v) /\ Calm(v)' = Calm(v)
  BY <1>1 DEF Busy, Calm
<1>3. Delivers'
  BY <1>0, <1>1 DEF Delivers
<1>4. Apart' /\ Cleared'
  BY <1>0, <1>1, <1>2 DEF Apart, Cleared
<1>5. PassCalm'
  BY <1>0, <1>1, <1>2 DEF PassCalm
<1>6. TestsCalm'
  <2> SUFFICES ASSUME NEW t \in Tests, Calm(t)
               PROVE  /\ enabled' => attempted'
                      /\ pc'[t] = "image" => carried'[t] = batch'[t]
                      /\ pc'[t] = "text" =>
                           fallback'[t] = enabled' /\ (~rendered'[t] \/ refused'[t])
    BY <1>0, <1>2 DEF TestsCalm
  <2>1. attempted = enabled
    <3>1. attempted \in BOOLEAN /\ enabled \in BOOLEAN
      BY <1>0 DEF TypeOK
    <3>2. enabled => attempted
      BY <1>0 DEF TestsCalm
    <3>3. ~enabled => ~attempted
      BY <1>0 DEF Apart, Calm, Cleared
    <3> QED
      BY <3>1, <3>2, <3>3
  <2>2. CASE t = u
    BY <1>1, <2>1, <2>2
  <2>3. CASE t # u
    BY <1>0, <1>1, <2>3 DEF TestsCalm
  <2> QED
    BY <2>2, <2>3
<1>7. ModeTruthful'
  BY <1>0, <1>1 DEF ModeTruthful
<1> QED
  BY <1>3, <1>4, <1>5, <1>6, <1>7 DEF Coherent


\* So does a test-push that begins, in the middle of a pass or not.
LEMMA TestPushStep ==
  ASSUME Coherent, TypeOK', NEW u \in Tests, TestPush(u)
  PROVE  Coherent'
<1>0. /\ TypeOK /\ Delivers /\ Apart /\ Cleared /\ PassCalm /\ TestsCalm /\ ModeTruthful
      /\ u \in Users /\ Pass \in Users /\ Tests \subseteq Users /\ Pass \notin Tests
  BY NotifierAssumption DEF Coherent, Users
<1>1. /\ pc[u] = "idle" /\ UNCHANGED <<renderer, enabled, left, told>>
      /\ Busy(Pass) => beside' = beside \cup {u, Pass}
      /\ ~Busy(Pass) => beside' = beside \ {u}
  BY <1>0 DEF TestPush, Begins, Busy, config
<1>2. /\ pc'[u] \notin {"idle", "done"}
      /\ batch'[u] = IF enabled THEN TestCard ELSE TestText
      /\ enabled =>
           /\ pc'[u] = "render" /\ image' = Nothing /\ attempted' = TRUE /\ ~rendered'[u]
      /\ ~enabled =>
           /\ pc'[u] = IF image # Nothing THEN "image" ELSE "text"
           /\ carried'[u] = image /\ fallback'[u] = attempted /\ rendered'[u] = rendered[u]
           /\ UNCHANGED <<image, attempted>>
  <2>1. CASE enabled
    <3>1. Prepare(u, TestCard) /\ HasCard(TestCard) /\ renderer
      BY <1>0, <2>1 DEF TestPush, HasCard, Delivers
    <3> QED
      BY <1>0, <2>1, <3>1 DEF Prepare, TypeOK
  <2>2. CASE ~enabled
    <3>1. /\ StartSend(u, image, attempted) /\ UNCHANGED <<image, attempted, rendered>>
          /\ batch' = [batch EXCEPT ![u] = TestText]
      BY <2>2 DEF TestPush
    <3> QED
      BY <1>0, <2>2, <3>1 DEF StartSend, TypeOK
  <2> QED
    BY <2>1, <2>2
<1>3. \A v \in Users \ {u} :
        /\ pc'[v] = pc[v] /\ carried'[v] = carried[v] /\ fallback'[v] = fallback[v]
        /\ refused'[v] = refused[v] /\ rendered'[v] = rendered[v] /\ batch'[v] = batch[v]
  <2>1. CASE enabled
    BY <1>0, <2>1 DEF TestPush, Prepare, Reset, StartSend, TypeOK
  <2>2. CASE ~enabled
    BY <1>0, <2>2 DEF TestPush, StartSend, TypeOK
  <2> QED
    BY <2>1, <2>2
<1>4. Busy(u)' /\ \A v \in Users \ {u} : Busy(v)' = Busy(v)
  BY <1>2, <1>3 DEF Busy
<1>5. Delivers'
  <2>1. \A t \in Tests :
          /\ pc'[t] # "idle" => batch'[t] = IF enabled' THEN TestCard ELSE TestText
          /\ pc'[t] = "idle" => ~rendered'[t]
          /\ pc'[t] = "render" => enabled'
    BY <1>0, <1>1, <1>2, <1>3 DEF Delivers
  <2>2. /\ pc'[u] = "render" => ~rendered'[u] /\ HasCard(batch'[u])
        /\ pc'[u] = "image" => carried'[u] # Nothing
        /\ pc'[u] = "text" => carried'[u] = Nothing
    BY <1>2 DEF HasCard
  <2>3. (enabled' => renderer') /\ pc'[Pass] # "done"
    BY <1>0, <1>1, <1>3 DEF Delivers
  <2>4. \A v \in Users \ {u} :
          /\ pc'[v] = "render" => ~rendered'[v] /\ HasCard(batch'[v])
          /\ pc'[v] = "image" => carried'[v] # Nothing
          /\ pc'[v] = "text" => carried'[v] = Nothing
    BY <1>0, <1>3 DEF Delivers
  <2> QED
    BY <2>1, <2>2, <2>3, <2>4 DEF Delivers
<1>6. Apart'
  BY <1>0, <1>1, <1>3, <1>4 DEF Apart
<1>7. Cleared'
  <2>1. CASE enabled
    BY <1>0, <1>1, <1>2, <1>4, <2>1 DEF Cleared
  <2>2. CASE ~enabled
    BY <1>0, <1>1, <1>2, <1>4, <2>2 DEF Cleared
  <2> QED
    BY <2>1, <2>2
<1>8. PassCalm'
  BY <1>0, <1>1, <1>4 DEF PassCalm, Calm
<1>9. TestsCalm'
  <2> SUFFICES ASSUME NEW t \in Tests, Calm(t)'
               PROVE  /\ enabled' => attempted'
                      /\ pc'[t] = "image" => carried'[t] = batch'[t]
                      /\ pc'[t] = "text" =>
                           fallback'[t] = enabled' /\ (~rendered'[t] \/ refused'[t])
    BY DEF TestsCalm
  <2>1. ~Busy(Pass)
    <3>1. CASE t = u
      BY <1>1, <3>1 DEF Calm
    <3>2. CASE t # u
      BY <1>0, <1>1, <1>4, <3>2 DEF Calm, Apart
    <3> QED
      BY <3>1, <3>2
  <2>2. enabled' => attempted'
    BY <1>1, <1>2
  <2>3. CASE t = u
    <3>1. CASE enabled
      BY <1>2, <2>2, <2>3, <3>1
    <3>2. CASE ~enabled
      <4>1. image = Nothing /\ attempted = FALSE /\ enabled = FALSE
        BY <1>0, <2>1, <3>2 DEF Cleared, TypeOK
      <4>2. pc'[t] = "text" /\ fallback'[t] = FALSE /\ ~rendered'[t]
        BY <1>0, <1>1, <1>2, <2>3, <4>1 DEF Delivers
      <4> QED
        BY <1>1, <4>1, <4>2
    <3> QED
      BY <3>1, <3>2
  <2>4. CASE t # u
    <3>1. Calm(t)
      BY <1>0, <1>1, <1>4, <2>1, <2>4 DEF Calm
    <3> QED
      BY <1>0, <1>1, <1>3, <2>2, <2>4, <3>1 DEF TestsCalm
  <2> QED
    BY <2>3, <2>4
<1>10. ModeTruthful'
  <2> SUFFICES ASSUME NEW t \in Tests \ beside', pc'[t] = "done"
               PROVE  told'[t] = IF carried'[t] # Nothing THEN "image"
                                 ELSE IF batch'[t] = TestCard THEN "text_fallback" ELSE "text"
    BY DEF ModeTruthful
  <2>1. t # u /\ t \notin beside
    BY <1>1, <1>2
  <2> QED
    BY <1>0, <1>1, <1>3, <2>1 DEF ModeTruthful
<1> QED
  BY <1>5, <1>6, <1>7, <1>8, <1>9, <1>10 DEF Coherent

\* So does a delivery of the pass that begins.
LEMMA PassBatchStep ==
  ASSUME Coherent, TypeOK', PassBatch
  PROVE  Coherent'
<1>0. /\ TypeOK /\ Delivers /\ Apart /\ ModeTruthful
      /\ Pass \in Users /\ Tests \subseteq Users /\ Pass \notin Tests
      /\ UNCHANGED <<renderer, enabled, told>>
  BY NotifierAssumption DEF Coherent, Users, PassBatch, config
<1>1. PICK b \in Cards \cup Texts : Prepare(Pass, b)
  BY DEF PassBatch
<1>2. /\ pc'[Pass] \in {"render", "text"} /\ image' = Nothing
      /\ rendered'[Pass] = FALSE /\ batch'[Pass] = b
      /\ pc'[Pass] = "render" => HasCard(b)
      /\ pc'[Pass] = "text" => carried'[Pass] = Nothing
  BY <1>0, <1>1 DEF Prepare, Reset, StartSend, TypeOK
<1>3. \A t \in Tests :
        /\ pc'[t] = pc[t] /\ carried'[t] = carried[t] /\ fallback'[t] = fallback[t]
        /\ refused'[t] = refused[t] /\ rendered'[t] = rendered[t] /\ batch'[t] = batch[t]
  <2> TAKE t \in Tests
  <2>0. t \in Users /\ t # Pass
    BY <1>0
  <2>1. rendered'[t] = rendered[t] /\ batch'[t] = batch[t]
    BY <1>0, <1>1, <2>0 DEF Prepare, TypeOK
  <2>2. CASE HasCard(b) /\ renderer
    <3>1. pc' = [pc EXCEPT ![Pass] = "render"] /\ UNCHANGED <<carried, fallback, refused>>
      BY <1>1, <2>2 DEF Prepare
    <3> QED
      BY <1>0, <2>0, <2>1, <3>1 DEF TypeOK
  <2>3. CASE ~(HasCard(b) /\ renderer)
    <3>1. StartSend(Pass, Nothing, FALSE)
      BY <1>1, <2>3 DEF Prepare
    <3> QED
      BY <1>0, <2>0, <2>1, <3>1 DEF StartSend, TypeOK
  <2> QED
    BY <2>2, <2>3
<1>4. Busy(Pass)' /\ \A t \in Tests : Busy(t)' = Busy(t)
  BY <1>2, <1>3 DEF Busy
<1>5. /\ \A t \in Tests : Busy(t) => t \in beside' /\ Pass \in beside'
      /\ beside \ {Pass} \subseteq beside'
  BY <1>0 DEF PassBatch, Begins, Busy
<1>6. Delivers'
  <2>1. \A v \in Users : v = Pass \/ v \in Tests
    BY DEF Users
  <2> QED
    BY <1>0, <1>2, <1>3, <2>1 DEF Delivers
<1>7. Apart' /\ Cleared' /\ TestsCalm'
  BY <1>4, <1>5 DEF Apart, Cleared, TestsCalm, Calm
<1>8. PassCalm'
  BY <1>2 DEF PassCalm
<1>9. ModeTruthful'
  BY <1>0, <1>3, <1>5 DEF ModeTruthful
<1> QED
  BY <1>6, <1>7, <1>8, <1>9 DEF Coherent

\* Every step keeps it.
LEMMA CoherentStep == Coherent /\ [Next]_vars => Coherent'
<1> SUFFICES ASSUME Coherent, [Next]_vars PROVE Coherent'
  OBVIOUS
<1>0. TypeOK'
  BY TypeStep DEF Coherent
<1>1. CASE \E u \in Users : PrepareStep(u)
  BY <1>0, <1>1, RenderStep DEF PrepareStep
<1>2. CASE \E u \in Users : SendStep(u)
  <2> PICK u \in Users : ImageTaken(u) \/ ImageRefused(u) \/ TextSent(u)
    BY <1>2 DEF SendStep
  <2>1. CASE ImageTaken(u)
    <3>1. "image" \in Modes
      BY DEF Modes
    <3> QED
      BY <1>0, <2>1, <3>1, SentStep DEF ImageTaken
  <2>2. CASE ImageRefused(u)
    BY <1>0, <2>2, RefusedStep
  <2>3. CASE TextSent(u)
    <3> DEFINE reached == IF fallback[u] THEN "text_fallback" ELSE "text"
    <3>1. reached \in Modes
      BY DEF Modes
    <3>2. pc[u] = "text" /\ AfterSend(u, reached) /\ UNCHANGED <<config, batch, rendered, beside>>
      BY <2>3 DEF TextSent
    <3> QED
      BY <1>0, <3>1, <3>2, SentStep
  <2> QED
    BY <2>1, <2>2, <2>3
<1>3. CASE \E t \in Tests : TestPush(t)
  BY <1>0, <1>3, TestPushStep
<1>4. CASE PassBatch
  BY <1>0, <1>4, PassBatchStep
<1>5. CASE PassCancelled
  BY <1>0, <1>5, PassLeaves DEF PassCancelled, sending
<1>6. CASE UNCHANGED vars
  BY <1>0, <1>6
  DEF vars, config, shared, sending, Coherent, Delivers, Apart, Cleared, PassCalm, TestsCalm,
      ModeTruthful, Calm, Busy
<1> QED
  BY <1>1, <1>2, <1>3, <1>4, <1>5, <1>6 DEF Next

-----------------------------------------------------------------------------
(* The theorems *)

\* The variables keep their types, for any batches and commands.
THEOREM NotifierTypes == Spec => []TypeOK
<1>1. Coherent => TypeOK
  BY DEF Coherent
<1> QED
  BY <1>1, CoherentInit, CoherentStep, PTL DEF Spec

\* A delivery that no other one overlaps sends its own card only, whatever earlier
\* deliveries, failed renders and cancellations left in AstrBotNotifier.
THEOREM OwnCardOnly == Spec => []CardsUnmixed
<1>1. Coherent => CardsUnmixed
  BY DEF Coherent, PassCalm, TestsCalm, CardsUnmixed, OwnCard, Calm, Busy, Users
<1> QED
  BY <1>1, CoherentInit, CoherentStep, PTL DEF Spec

\* The card that a batch was rendered to goes to each of its targets.
THEOREM EachGetsCard == Spec => []CardForEach
<1>1. Coherent => CardForEach
  BY DEF Coherent, PassCalm, TestsCalm, CardForEach, Calm, Busy, Users
<1> QED
  BY <1>1, CoherentInit, CoherentStep, PTL DEF Spec

\* The mode that test-push reports is the one its message was sent in, for any
\* number of test-pushes at once.
THEOREM ModeIsTold == Spec => []ModeTruthful
<1>1. Coherent => ModeTruthful
  BY DEF Coherent
<1> QED
  BY <1>1, CoherentInit, CoherentStep, PTL DEF Spec
=============================================================================
