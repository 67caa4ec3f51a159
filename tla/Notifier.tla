------------------------------ MODULE Notifier ------------------------------
(***************************************************************************)
(* AstrBotNotifier (astrbot_adapter.py) and those that use it: the         *)
(* delivery pass (outbox.py), which holds the service's lock, and          *)
(* test-push (main.py), which does not.  One notifier keeps one prepared   *)
(* card, one flag and one delivery mode for all of them.  A step runs from *)
(* one await to the next.                                                  *)
(***************************************************************************)
EXTENDS Integers

CONSTANTS
  Cards,     \* batches with a card
  Texts,     \* batches without one
  TestCard,  \* the batch that test-push builds with cards enabled
  TestText,  \* its message with cards disabled
  Tests,     \* test-push commands
  Pass,      \* the delivery pass
  Nothing,   \* no card, no mode
  Targets    \* bound: the eligible targets of a batch

Modes == {"image", "text_fallback", "text"}

\* The users differ, and so do the messages with a card from those without one.
ASSUME NotifierAssumption ==
  /\ Targets \in Nat \ {0}
  /\ Pass \notin Tests
  /\ (Texts \cup {TestText}) \cap (Cards \cup {TestCard}) = {}
  /\ Nothing \notin Cards \cup Texts \cup {TestCard, TestText} \cup Modes

Users   == Tests \cup {Pass}
Batches == Cards \cup Texts \cup {TestCard, TestText}

HasCard(b) == b \in Cards \cup {TestCard}

VARIABLES
  renderer,   \* html_render is there
  enabled,    \* so is enable_image_card: what test-push looks at
  image,      \* _pending_image_bytes: whose card it is
  attempted,  \* _prepare_attempted
  mode,       \* last_delivery_mode
  pc,         \* where each user is: "idle", "render", "image", "text" or "done"
  batch,      \* what it delivers
  left,       \* the targets that it still sends to, the present one included
  carried,    \* the card in the message under way
  fallback,   \* _is_fallback
  told,       \* the mode test-push reports
  rendered,   \* history: its render gave a card
  refused,    \* history: the platform did not take the image of this attempt
  beside      \* history: the users whose present delivery overlaps one of the
              \* pass and a test-push

config  == <<renderer, enabled>>
shared  == <<image, attempted, mode>>
sending == <<batch, left, carried, fallback, told, rendered, refused>>
vars    == <<config, shared, pc, sending, beside>>

-----------------------------------------------------------------------------
(* send *)

\* Up to its first await: what it sends depends on the card that is prepared now.
StartSend(u, card, flag) ==
  /\ pc' = [pc EXCEPT ![u] = IF card # Nothing THEN "image" ELSE "text"]
  /\ carried' = [carried EXCEPT ![u] = card]
  /\ fallback' = [fallback EXCEPT ![u] = flag]
  /\ refused' = [refused EXCEPT ![u] = FALSE]

\* Variant: only the flag is reset.
ResetFlag == image' = image /\ attempted' = FALSE

\* Variant: the flag is dropped with the card.
ResetUnset == image' = Nothing /\ attempted' = Nothing

\* What clear_prepared and the first lines of prepare have in common.
Reset == image' = Nothing /\ attempted' = FALSE

Clear == Reset /\ mode' = Nothing

\* send has set the mode and returns: a pass goes on to its next target or
\* clears the notifier; test-push reports the mode.
AfterSend(u, reached) ==
  \/ /\ u = Pass /\ left[u] > 1
     /\ left' = [left EXCEPT ![u] = @ - 1]
     /\ StartSend(u, image, attempted)
     /\ mode' = reached
     /\ UNCHANGED <<image, attempted, told>>
  \/ /\ u = Pass /\ left[u] = 1
     /\ pc' = [pc EXCEPT ![u] = "idle"]
     /\ Clear
     /\ UNCHANGED <<left, carried, fallback, refused, told>>
  \/ /\ u \in Tests
     /\ pc' = [pc EXCEPT ![u] = "done"]
     /\ told' = [told EXCEPT ![u] = reached]
     /\ mode' = reached
     /\ UNCHANGED <<image, attempted, left, carried, fallback, refused>>

ImageTaken(u) ==
  /\ pc[u] = "image"
  /\ AfterSend(u, "image")
  /\ UNCHANGED <<config, batch, rendered, beside>>

\* The platform refuses the image or raises: the text, in the same attempt.
ImageRefused(u) ==
  /\ pc[u] = "image"
  /\ pc' = [pc EXCEPT ![u] = "text"]
  /\ fallback' = [fallback EXCEPT ![u] = attempted]
  /\ refused' = [refused EXCEPT ![u] = TRUE]
  /\ carried' = [carried EXCEPT ![u] = Nothing]
  /\ UNCHANGED <<config, shared, batch, left, told, rendered, beside>>

\* Taken or not, the mode is set.
TextSent(u) ==
  /\ pc[u] = "text"
  /\ AfterSend(u, IF fallback[u] THEN "text_fallback" ELSE "text")
  /\ UNCHANGED <<config, batch, rendered, beside>>

-----------------------------------------------------------------------------
(* prepare *)

\* Variant: the flag is set only when there is a card.
PrepareUnmarked(u, b) ==
  /\ batch' = [batch EXCEPT ![u] = b]
  /\ rendered' = [rendered EXCEPT ![u] = FALSE]
  /\ Reset
  /\ IF HasCard(b) /\ renderer
       THEN pc' = [pc EXCEPT ![u] = "render"] /\ UNCHANGED <<carried, fallback, refused>>
       ELSE StartSend(u, Nothing, FALSE)

\* A batch without a card is sent at once; a card is rendered first, and the flag
\* is set before.
Prepare(u, b) ==
  /\ batch' = [batch EXCEPT ![u] = b]
  /\ rendered' = [rendered EXCEPT ![u] = FALSE]
  /\ IF HasCard(b) /\ renderer
       THEN /\ image' = Nothing /\ attempted' = TRUE
            /\ pc' = [pc EXCEPT ![u] = "render"]
            /\ UNCHANGED <<carried, fallback, refused>>
       ELSE Reset /\ StartSend(u, Nothing, FALSE)

\* Variant: the card is not kept for the other targets.
RenderOnce(u) ==
  /\ pc[u] = "render"
  /\ rendered' = [rendered EXCEPT ![u] = TRUE]
  /\ StartSend(u, batch[u], attempted)
  /\ UNCHANGED <<config, image, attempted, mode, batch, left, told, beside>>

\* The render gives a valid card; send starts without an await in between.
Render(u) ==
  /\ pc[u] = "render"
  /\ image' = batch[u]
  /\ rendered' = [rendered EXCEPT ![u] = TRUE]
  /\ StartSend(u, batch[u], attempted)
  /\ UNCHANGED <<config, attempted, mode, batch, left, told, beside>>

\* It times out, raises, or gives nothing that can be sent.
RenderFails(u) ==
  /\ pc[u] = "render"
  /\ StartSend(u, image, attempted)
  /\ UNCHANGED <<config, shared, batch, left, told, rendered, beside>>

-----------------------------------------------------------------------------
(* The users *)

\* A delivery of u begins; test-pushes do not harm each other.
Begins(u) ==
  LET under  == {v \in Users \ {u} : pc[v] \notin {"idle", "done"}}
      others == IF u = Pass THEN under ELSE under \cap {Pass} IN
  beside' = IF others = {} THEN beside \ {u} ELSE beside \cup others \cup {u}

\* deliver_pending takes the next batch and its eligible targets.
PassBatch ==
  /\ pc[Pass] = "idle"
  /\ \E b \in Cards \cup Texts : Prepare(Pass, b)
  /\ \E n \in 1..Targets : left' = [left EXCEPT ![Pass] = n]
  /\ Begins(Pass)
  /\ UNCHANGED <<config, mode, told>>

\* The drain loop is stopped, or a save between two sends raises.
PassCancelled ==
  /\ pc[Pass] \in {"render", "image", "text"}
  /\ pc' = [pc EXCEPT ![Pass] = "idle"]
  /\ Clear
  /\ UNCHANGED <<config, sending, beside>>

\* Without cards test-push sends without prepare.
TestPush(t) ==
  /\ pc[t] = "idle"
  /\ mode' = Nothing
  /\ Begins(t)
  /\ IF enabled
       THEN Prepare(t, TestCard)
       ELSE /\ batch' = [batch EXCEPT ![t] = TestText]
            /\ StartSend(t, image, attempted)
            /\ UNCHANGED <<image, attempted, rendered>>
  /\ UNCHANGED <<config, left, told>>

Init ==
  /\ renderer \in BOOLEAN /\ enabled \in {FALSE, renderer}
  /\ image = Nothing /\ attempted = FALSE /\ mode = Nothing
  /\ pc = [u \in Users |-> "idle"]
  /\ batch = [u \in Users |-> TestText]
  /\ left = [u \in Users |-> 1]
  /\ carried = [u \in Users |-> Nothing]
  /\ fallback = [u \in Users |-> FALSE]
  /\ told = [u \in Users |-> Nothing]
  /\ rendered = [u \in Users |-> FALSE]
  /\ refused = [u \in Users |-> FALSE]
  /\ beside = {}

SendStep(u)    == ImageTaken(u) \/ ImageRefused(u) \/ TextSent(u)
PrepareStep(u) == Render(u) \/ RenderFails(u)

Next ==
  \/ \E u \in Users : PrepareStep(u) \/ SendStep(u)
  \/ \E t \in Tests : TestPush(t)
  \/ PassBatch \/ PassCancelled

Spec == Init /\ [][Next]_vars

-----------------------------------------------------------------------------
(* Properties *)

\* The variables hold what the code can put there.
TypeOK ==
  /\ renderer \in BOOLEAN /\ enabled \in BOOLEAN /\ attempted \in BOOLEAN
  /\ image \in Batches \cup {Nothing} /\ mode \in Modes \cup {Nothing}
  /\ pc \in [Users -> {"idle", "render", "image", "text", "done"}]
  /\ batch \in [Users -> Batches] /\ left \in [Users -> 1..Targets]
  /\ carried \in [Users -> Batches \cup {Nothing}]
  /\ told \in [Users -> Modes \cup {Nothing}]
  /\ {fallback, rendered, refused} \subseteq [Users -> BOOLEAN]
  /\ beside \subseteq Users

\* A card goes to the targets of its own batch only: nobody else's card, and none
\* of an earlier batch, is sent in its place.  DESIGN.md says so of test-push, which
\* "sends its diagnostic message to the present group only".
OwnCard(u) == pc[u] = "image" => carried[u] = batch[u]
NeverMixed == \A u \in Users : OwnCard(u)

\* What the code does promise: that holds of a delivery of the pass that no
\* test-push overlaps, whatever earlier deliveries, failed renders and
\* cancellations left in the notifier.
CardsUnmixed == \A u \in Users \ beside : OwnCard(u)

\* A batch is rendered once for all its targets (DESIGN.md: the same bytes are
\* used again): each of them is sent the card, and text only when the platform
\* refused the card or there is none.
CardForEach ==
  \A u \in Users \ beside : pc[u] = "text" => ~rendered[u] \/ refused[u]

\* test-push reports the mode its message was really sent in: text_fallback
\* exactly when a card was asked for and text was sent; other test-pushes at the
\* same time change nothing in that, and a pass does only while it overlaps.
ModeTruthful ==
  \A t \in Tests \ beside : pc[t] = "done" =>
    told[t] = IF carried[t] # Nothing THEN "image"
              ELSE IF batch[t] = TestCard THEN "text_fallback"
              ELSE "text"
=============================================================================
