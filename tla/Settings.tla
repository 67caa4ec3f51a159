------------------------------ MODULE Settings ------------------------------
(***************************************************************************)
(* What the program makes of its configuration (config.py, main.py) and of *)
(* the names of push targets (validate_targets and merge_targets of        *)
(* outbox.py, subscriptions.py).  People edit both: a key may be missing   *)
(* or hold any JSON value.  A value is the set of what its type check lets *)
(* through, {n} for a number where one is wanted and {} for anything else. *)
(***************************************************************************)
EXTENDS Integers, FiniteSets, Sequences

-----------------------------------------------------------------------------
(* Settings *)

\* type(value) is int and value in allowed.
AllowedValues(value, default, allowed) ==
  IF value \cap allowed = {} THEN default ELSE CHOOSE n \in allowed : n \in value

IntRange(value, default, min, max) == AllowedValues(value, default, min..max)

Bool(value, default) == AllowedValues(value, default, BOOLEAN)

ParseRuntimeConfig(config) ==
  [enabled                      |-> Bool(config.enabled, FALSE),
   enable_ai_summary            |-> Bool(config.enable_ai_summary, FALSE),
   include_star_count           |-> Bool(config.include_star_count, TRUE),
   enable_image_card            |-> Bool(config.enable_image_card, TRUE),
   poll_interval_minutes        |-> IntRange(config.poll_interval_minutes, 30, 5, 1440),
   ai_timeout_seconds           |-> IntRange(config.ai_timeout_seconds, 60, 10, 120),
   request_timeout_seconds      |-> IntRange(config.request_timeout_seconds, 15, 5, 60),
   max_items_per_push           |-> IntRange(config.max_items_per_push, 10, 1, 50),
   image_render_timeout_seconds |-> IntRange(config.image_render_timeout_seconds, 8, 3, 20),
   image_card_max_items         |-> AllowedValues(config.image_card_max_items, 15, {5, 10, 15}),
   max_images_per_delivery      |-> IntRange(config.max_images_per_delivery, 2, 1, 10),
   image_send_interval_seconds  |-> IntRange(config.image_send_interval_seconds, 2, 0, 30)]

\* create_batches: the events of a card, or of a message.
ItemsPerPage(runtime) ==
  IF runtime.enable_image_card THEN runtime.image_card_max_items ELSE runtime.max_items_per_push

-----------------------------------------------------------------------------
(* Targets.  A string is its text without the blanks around it, and        *)
(* whether there were any; a text is a name, blank or too long.            *)

NotString == [text |-> "none", padded |-> FALSE]

ValidTarget(item) == item # NotString /\ item.text \notin {"blank", "too long"}

\* What is valid, and how many entries are not; all of it, if it is not a list.
ValidateTargets(targets) ==
  IF ~targets.list THEN [clean |-> {}, invalid |-> 1]
  ELSE LET valid == {k \in DOMAIN targets.items : ValidTarget(targets.items[k])}
       IN [clean   |-> {targets.items[k].text : k \in valid},
           invalid |-> Cardinality(DOMAIN targets.items \ valid)]

\* Subscriptions are saved as ValidateTargets leaves them.
MergeTargets(configured, subscriptions) ==
  [ValidateTargets(configured) EXCEPT !.clean = @ \cup subscriptions]

\* update_subscription, by an event of a group: the new subscriptions and its result.
UpdateSubscription(subscriptions, origin, subscribe) ==
  CASE ~ValidTarget(origin) -> [to |-> subscriptions, result |-> "invalid_origin"]
    [] ValidTarget(origin) /\ subscribe ->
         [to |-> subscriptions \cup {origin.text},
          result |-> IF origin.text \in subscriptions THEN "already_subscribed" ELSE "subscribed"]
    [] ValidTarget(origin) /\ ~subscribe ->
         [to |-> subscriptions \ {origin.text},
          result |-> IF origin.text \in subscriptions THEN "unsubscribed"
                     ELSE "already_unsubscribed"]
=============================================================================
