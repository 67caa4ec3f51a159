---------------------------- MODULE MCStateStore -----------------------------
(***************************************************************************)
(* StateStore for TLC.  State 1 is one that an earlier run saved; the      *)
(* states 2, 3 and 4 are saved.  And the schema of what is in them, for    *)
(* every root that has or lacks any of its fields.                         *)
(***************************************************************************)
EXTENDS StateStore, Schema

Saves == 3
LastSaved == Saves + 1

\* The values of others that stop every save: of the kinds of value that Schema
\* tells apart, nothing else that a check brings in is refused.  (Text that cannot be
\* written as UTF-8, a lone surrogate, stops a save too; it is below these kinds.)
ASSUME OnlyTheseStopSaves ==
  Unsavable =
    {<<"SourceObservation", "source_record_id", "empty">>,
     <<"SourceEvidence", "source_record_id", "empty">>,
     <<"PluginRecord", "repo_updated_at", "empty">>,
     <<"EndpointSnapshot", "etag", "empty">>, <<"EndpointSnapshot", "last_modified", "empty">>,
     <<"GitHubRateLimitState", "remaining", "negative">>,
     <<"GitHubRepoCache", "stars", "negative">>, <<"GitHubRepoCache", "forks", "negative">>,
     <<"GitHubRepoCache", "repo_updated_at", "empty">>}

Roots == [version : 0..3, fields : SUBSET (StateFields \cup {"github_cache", "unknown"}),
          cached : BOOLEAN]

\* A file of version 1 or 2 reads, and what is saved after it reads as it is; an
\* unknown field, a missing one or another version is refused.
ASSUME FilesUpgrade ==
  \A root \in {r \in Roots : r.cached => "github_cache" \in r.fields} :
    /\ ReadsRoot(root) =>
         /\ ReadsRoot(Upgraded(root)) /\ Upgraded(Upgraded(root)) = Upgraded(root)
         /\ Upgraded(root).version = 2 /\ ~Upgraded(root).cached
    /\ "unknown" \in root.fields \/ root.version \notin {1, 2} => ~ReadsRoot(root)
    /\ root.fields = StateFields \ {"image_delivery_windows"} =>
         (ReadsRoot(root) <=> root.version = 1)

\* Of a class's fields exactly those that came later may be missing.
ASSUME LaterFieldsOnly ==
  \A c \in DOMAIN Accepted :
    LET node == [f \in DOMAIN Accepted[c] |-> CHOOSE k \in Accepted[c][f] : TRUE]
        later == IF c \in DOMAIN LaterFields THEN LaterFields[c] ELSE {}
        Without(f) == [g \in DOMAIN node \ {f} |-> node[g]]
    IN /\ Reads(c, node) /\ ~Reads(c, node @@ [f \in {"unknown"} |-> "null"])
       /\ \A f \in DOMAIN node : Reads(c, Without(f)) <=> f \in later

\* A delivery that was read can be tried or is over, and nothing else has changed.
ASSUME DeliveriesSettle ==
  \A t \in [status : {"pending", "sent", "failed", "exhausted"}, attempts : 0..4,
            next_retry_at : {"null", "text"}], max \in 1..3 :
    LET read == Settled(t, max) IN
    /\ read.status = "failed" => read.attempts < max
    /\ read # t => t.status = "failed" /\ read.status = "exhausted" /\ read.next_retry_at = "null"
    /\ read.attempts = t.attempts /\ Settled(read, max) = read
=============================================================================
