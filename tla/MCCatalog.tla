----------------------------- MODULE MCCatalog -----------------------------
(***************************************************************************)
(* Catalog for TLC, and for small inputs the functions around it: how the  *)
(* events of a check are cut into pages, what the text of a page tells of  *)
(* them, and what is made of the configuration.                            *)
(***************************************************************************)
EXTENDS Catalog, Settings, Message, TLC

On(page, n, max)    == {pos \in 1..n : PageOf(pos, n, max) = page}
Chunk(page, n, max) == {pos \in 1..n : ChunkOf(pos, n, max) = page}

\* Every position is on one page, no page is empty or holds more than max, pages
\* fill in order, and those of cards differ by at most one.
ASSUME PagesFit ==
  \A n \in 1..12, max \in 1..7 :
    LET pages == 1..PageCount(n, max) IN
    /\ \A pos \in 1..n : PageOf(pos, n, max) \in pages /\ ChunkOf(pos, n, max) \in pages
    /\ \A k \in pages :
         /\ Cardinality(On(k, n, max)) = PageSize(k, n, max)
         /\ Cardinality(Chunk(k, n, max)) \in 1..max
         /\ PageSize(k, n, max) \in 1..max
         /\ \A j \in pages : PageSize(j, n, max) - PageSize(k, n, max) <= 1
    /\ \A p, q \in 1..n : p < q =>
         /\ PageOf(p, n, max) <= PageOf(q, n, max)
         /\ ChunkOf(p, n, max) <= ChunkOf(q, n, max)
-----------------------------------------------------------------------------
\* A text within the limit, that tells all its events if they fit, and whose
\* events do not depend on the introduction.
ASSUME TextsFit ==
  \A n \in 0..4 : \A items \in [1..n -> {1, 3, 5}], max \in 4..12, intro \in 0..4 :
    LET head == 2
        notice == 2
        facts == FactsLength(items, head, notice, max)
        told == Told(items, head, max)
    IN /\ facts <= max
       /\ told = n <=> UpTo(n, items, head) <= max
       /\ \A k \in 0..n : Told(SubSeq(items, 1, k), head, max) = Smaller(k, told)
       /\ Introduced(intro, facts, max) => facts + intro < max

\* Ten events with the longest descriptions fit a text, but not the fifteen that
\* a card may hold: when such a card cannot be drawn or sent, its text tells ten,
\* and all fifteen count as sent.
ASSUME LongTexts ==
  LET paragraphs(n) == [k \in 1..n |-> 339]
  IN Told(paragraphs(10), 29, 3500) = 10 /\ Told(paragraphs(15), 29, 3500) = 10

\* Whatever the host does, the check has an introduction or goes on without one
\* and says why; the host is asked only if the introduction is wanted for events.
ASSUME IntroductionOptional ==
  \A enabled, service, origin \in BOOLEAN, events \in 0..1, provider \in {"", "p"},
     host \in {"blank", "raises", "q"}, text \in 0..3,
     call \in {"missing", "timeout", "err", "raises", "controls", "text"} :
    LET reply == Introduce(enabled, events, service, provider, origin, host, call, text, 2)
        asked == enabled /\ events > 0 /\ service /\ ProviderOf(provider, origin, host) # ""
    IN /\ reply.status = "success" <=> asked /\ call = "text" /\ text \in 1..2
       /\ reply.error_code = "none" <=> reply.status \in {"success", "disabled"}
       /\ asked => reply.status \in {"success", "fallback"}

-----------------------------------------------------------------------------
\* Each number that people may set is accepted within its range only, and a key
\* that is missing or holds something else gives its default.
ASSUME SettingsInRange ==
  LET Values == {{}} \cup {{n} : n \in -1..61 \cup {120, 121, 1440, 1441}}
      Names == {"poll_interval_minutes", "ai_timeout_seconds", "request_timeout_seconds",
                "max_items_per_push", "image_render_timeout_seconds", "image_card_max_items",
                "max_images_per_delivery", "image_send_interval_seconds"}
      Switches == {"enabled", "enable_ai_summary", "include_star_count", "enable_image_card"}
      Parsed(value, switch) ==
        ParseRuntimeConfig([n \in Names |-> value] @@ [n \in Switches |-> switch])
      default == Parsed({}, {})
  IN /\ \A value \in Values : \A n \in Names :
          LET got == Parsed(value, {})[n] IN value = {got} \/ got = default[n]
     /\ \A value \in Values, switch \in {{}, {TRUE}, {FALSE}} :
          LET runtime == Parsed(value, switch) IN
          /\ ItemsPerPage(runtime) \in 1..50
          /\ runtime.enable_image_card => ItemsPerPage(runtime) <= MaxItemsPerPage

\* A group that subscribes is a target, under its name without blanks; commands
\* that are repeated change nothing, and the configuration's targets stay.
ASSUME TargetsAgree ==
  LET Items == {NotString} \cup [text : {"g1", "g2", "blank", "too long"}, padded : BOOLEAN]
      Configured == {[list |-> FALSE, items |-> <<>>]}
                      \cup {[list |-> TRUE, items |-> <<i, j>>] : i, j \in Items}
  IN \A subscriptions \in SUBSET {"g1", "g2"}, origin \in Items \ {NotString} :
       \A on \in BOOLEAN :
         LET changed == UpdateSubscription(subscriptions, origin, on)
             again == UpdateSubscription(changed.to, origin, on)
         IN /\ again.to = changed.to
            /\ again.result \in {"already_subscribed", "already_unsubscribed", "invalid_origin"}
            /\ \A conf \in Configured :
                 LET merged == MergeTargets(conf, changed.to) IN
                 /\ merged.clean \subseteq {"g1", "g2"}
                 /\ ValidTarget(origin) =>
                      (origin.text \in merged.clean <=>
                         on \/ origin.text \in ValidateTargets(conf).clean)
                 /\ merged.invalid = 0 <=>
                      conf.list /\ \A k \in DOMAIN conf.items : ValidTarget(conf.items[k])
=============================================================================
