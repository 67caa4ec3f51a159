------------------------------- MODULE Schema -------------------------------
(***************************************************************************)
(* The strict schema of the state file (models.py): what from_dict accepts *)
(* of each kind of node, what the program puts there, and what reading     *)
(* makes of older files and of deliveries that have no attempt left.       *)
(* StateStore takes a file as one that reads or does not; this is why what *)
(* it saves reads, and what makes every save fail.                         *)
(*                                                                         *)
(* Of a JSON value only its kind is told apart.  A node of the file is its *)
(* class and the kinds of its fields; mappings of nodes are nodes beside   *)
(* it, whose identifying field is "key" if it is the key they are under.   *)
(***************************************************************************)
EXTENDS Integers, FiniteSets, Sequences, SequencesExt

-----------------------------------------------------------------------------
(* Kinds of values, and the checks of models.py *)

\* A string is empty, some text, the key of its node, or a name that the field's
\* enumeration lists (of an observation's source_kind, its source's own); an array
\* holds texts only, or something else as well.
JsonKinds == {"null", "empty", "text", "key", "name", "bool", "negative", "zero",
              "positive", "object", "texts", "array", "number"}

Str      == {"text", "key", "name"}              \* _str: not empty
Key      == {"key"}                              \* a str that is its node's key
Name     == {"name"}                             \* a str that an Enum lists
Integer  == {"negative", "zero", "positive"}     \* _int
Count    == {"zero", "positive"}                 \* an int, not negative
Positive == {"positive"}
Bool     == {"bool"}                             \* _bool
Strs     == {"texts"}                            \* _str_tuple
Object   == {"object"}                           \* _dict
Optional(kinds) == kinds \cup {"null"}           \* _optional_str, _int, _bool

\* Fields that are checked alike.
Fields(names, kinds) == [f \in names |-> kinds]

-----------------------------------------------------------------------------
(* What from_dict accepts of each class *)

SourceEvidence ==
  Fields({"source_kind"}, Name) @@ Fields({"source_record_id", "source_url", "observed_at"}, Str)

\* What an observation and the plugin merged of it have in common.
Facts ==
  Fields({"repo_url", "repo_owner", "repo_name", "display_name", "description", "author",
          "version", "astrbot_version", "market_status", "issue_state", "repo_updated_at"},
         Optional(Str))
    @@ Fields({"platforms", "tags", "issue_labels"}, Strs)
    @@ Fields({"stars", "forks"}, Optional(Integer))
    @@ Fields({"archived"}, Optional(Bool))

SourceObservation ==
  Facts @@ Fields({"source_kind"}, Name) @@ Fields({"source_record_id"}, Key)
    @@ Fields({"source_url", "observed_at", "fetched_from", "canonical_id", "observation_hash"}, Str)
    @@ Fields({"name"}, Optional(Str)) @@ Fields({"sparse"}, Bool)
    @@ Fields({"raw_excerpt"}, Object)

EndpointSnapshot ==
  Fields({"endpoint"}, Key) @@ Fields({"pages_fetched"}, Positive)
    @@ Fields({"etag", "last_modified"}, Optional(Str)) @@ Fields({"observations"}, Object)

SourceState ==
  Fields({"baseline_established", "complete"}, Bool)
    @@ Fields({"last_success_at", "error_code"}, Optional(Str))
    @@ Fields({"observations", "snapshots"}, Object)

PluginRecord ==
  Facts @@ Fields({"canonical_id"}, Key) @@ Fields({"name"}, Str)
    @@ Fields({"github_metadata_fetched_at", "github_metadata_status", "observed_at",
               "first_seen_at", "last_seen_at", "content_hash"}, Optional(Str))
    @@ Fields({"field_sources"}, Object) @@ Fields({"evidence"}, {"array"})

DeliveryTargetState ==
  Fields({"target"}, Key) @@ Fields({"status"}, Name) @@ Fields({"attempts"}, Count)
    @@ Fields({"last_error_code", "last_attempt_at", "next_retry_at"}, Optional(Str))

DeliveryBatch ==
  Fields({"batch_id"}, Key) @@ Fields({"event_ids"}, Strs)
    @@ Fields({"message", "created_at"}, Str) @@ Fields({"targets"}, Object)
    @@ Fields({"max_attempts"}, Positive) @@ Fields({"card_payload"}, Optional(Object))

ImageDeliveryWindow ==
  Fields({"window_started_at", "last_send_attempt_at"}, Optional(Str))
    @@ Fields({"used_attempts"}, Count)

GitHubRateLimitState ==
  Fields({"remaining"}, Optional(Count)) @@ Fields({"status"}, Name)
    @@ Fields({"reset_at", "error_code"}, Optional(Str))

GitHubRepoCache ==
  Fields({"canonical_id"}, Key) @@ Fields({"status"}, Name)
    @@ Fields({"stars", "forks"}, Optional(Count)) @@ Fields({"archived"}, Optional(Bool))
    @@ Fields({"etag", "repo_updated_at", "fetched_at", "error_code"}, Optional(Str))

Accepted ==
  [SourceEvidence |-> SourceEvidence, SourceObservation |-> SourceObservation,
   EndpointSnapshot |-> EndpointSnapshot, SourceState |-> SourceState,
   PluginRecord |-> PluginRecord, DeliveryTargetState |-> DeliveryTargetState,
   DeliveryBatch |-> DeliveryBatch, ImageDeliveryWindow |-> ImageDeliveryWindow,
   GitHubRateLimitState |-> GitHubRateLimitState, GitHubRepoCache |-> GitHubRepoCache]

\* Fields that came later, and what from_dict takes when they are not there.
LaterFields ==
  [PluginRecord |-> {"github_metadata_fetched_at", "github_metadata_status"},
   DeliveryTargetState |-> {"last_attempt_at"}, DeliveryBatch |-> {"card_payload"}]

Completed(class, node) ==
  IF class \in DOMAIN LaterFields
    THEN node @@ [f \in LaterFields[class] |-> "null"]
    ELSE node

\* A node as from_dict reads it: exactly the fields of its class (_required), each of
\* an accepted kind.
Reads(class, node) ==
  LET full == Completed(class, node) IN
  /\ DOMAIN full = DOMAIN Accepted[class]
  /\ \A f \in DOMAIN full : full[f] \in Accepted[class][f]

-----------------------------------------------------------------------------
(* What the program puts there *)

\* Kinds that stand in for those of Accepted, where what comes from outside is
\* checked less strictly: a market's key may be empty if its record names a
\* repository, headers are stored as they come, and so are GitHub's numbers and
\* its updated_at, which apply_cache hands on.
FromOutside ==
  [SourceObservation    |-> Fields({"source_record_id"}, {"key", "empty"}),
   SourceEvidence       |-> Fields({"source_record_id"}, {"text", "empty"}),
   PluginRecord         |-> Fields({"repo_updated_at"}, {"null", "empty", "text"}),
   EndpointSnapshot     |-> Fields({"etag", "last_modified"}, {"null", "empty", "text"}),
   GitHubRateLimitState |-> Fields({"remaining"}, Optional(Integer)),
   GitHubRepoCache      |-> Fields({"stars", "forks"}, Optional(Integer))
                              @@ Fields({"repo_updated_at"}, {"null", "empty", "text"})]

\* What to_dict writes: every other field is given a value of an accepted kind by
\* the code itself (sanitize_text, for one, gives no empty string).
Made(class) ==
  IF class \in DOMAIN FromOutside THEN FromOutside[class] @@ Accepted[class] ELSE Accepted[class]

\* One such value, and dumps raises in every save, whatever else a check has done.
Unsavable ==
  UNION {{<<c, f, k>> : k \in Made(c)[f] \ Accepted[c][f]} :
           <<c, f>> \in UNION {{c} \X (DOMAIN Accepted[c]) : c \in DOMAIN Accepted}}

-----------------------------------------------------------------------------
(* Older files *)

StateFields ==
  {"schema_version", "updated_at", "subscriptions", "sources", "plugins", "id_aliases",
   "github", "outbox", "image_delivery_windows", "last_run"}

\* The root of a file: its version, the names of its fields, and whether there is
\* anything in a github_cache.
Upgraded(root) ==
  LET windows == IF root.version = 1 THEN {"image_delivery_windows"} ELSE {}
      legacy == "github" \notin root.fields /\ "github_cache" \in root.fields
  IN [version |-> IF root.version = 1 THEN 2 ELSE root.version,
      fields  |-> (root.fields \ (IF legacy THEN {"github_cache"} ELSE {}))
                    \cup windows \cup (IF legacy THEN {"github"} ELSE {}),
      cached  |-> root.cached /\ ~legacy]

\* WatcherState.from_dict, as far as the root is concerned.
ReadsRoot(root) ==
  /\ root.version \in {1, 2}
  /\ root.cached => "github" \in root.fields
  /\ Upgraded(root).fields = StateFields

-----------------------------------------------------------------------------
(* Deliveries *)

\* DeliveryBatch.from_dict: a failed delivery that has no attempt left is over.
Settled(target, max) ==
  IF target.status = "failed" /\ target.attempts >= max
    THEN [target EXCEPT !.status = "exhausted", !.next_retry_at = "null"]
    ELSE target
=============================================================================
