------------------------------ MODULE Message -------------------------------
(***************************************************************************)
(* What a message tells of the events of its page: render_summary          *)
(* (summary.py) and its introduction, written by a language model if one   *)
(* is at hand (ai.py, astrbot_adapter.py, create_batches in outbox.py).    *)
(* Of texts only the lengths matter here.                                  *)
(***************************************************************************)
EXTENDS Integers, Sequences, SequencesExt

Smaller(a, b) == IF a <= b THEN a ELSE b

-----------------------------------------------------------------------------
(* The facts.  items are the lengths of the paragraphs of the events, each *)
(* with the line break before it, head is that of the two lines above them *)
(* and max is MAX_MESSAGE_LENGTH.                                          *)

UpTo(k, items, head) == head + FoldSeq(+, 0, SubSeq(items, 1, k))

\* The events that are told: the loop ends at the first that does not fit.
Told(items, head, max) ==
  CHOOSE k \in 0..Len(items) :
    /\ k < Len(items) => UpTo(k + 1, items, head) > max
    /\ \A j \in 1..k : UpTo(j, items, head) <= max

\* If it does, a notice (this long) says so; what goes too far is cut off.
FactsLength(items, head, notice, max) ==
  LET k == Told(items, head, max)
  IN Smaller(max, UpTo(k, items, head) + (IF k < Len(items) THEN notice ELSE 0))

\* create_batches: an introduction that does not fit above the facts is left out.
Introduced(intro, facts, max) == intro > 0 /\ intro + 2 + facts <= max

-----------------------------------------------------------------------------
(* The introduction: AiIntroService.generate and AstrBotAiClient *)

Answer(status, code) == [status |-> status, error_code |-> code]

\* Which provider is asked: the configured one, or that of the first target's
\* chat, which the host may not know (blank) or fail to tell (raises).
ProviderOf(provider, origin, host) ==
  CASE provider # "" -> provider
    [] provider = "" /\ origin /\ host \notin {"blank", "raises"} -> host
    [] OTHER -> ""

\* What comes of the call, by what the host does: no such provider, no answer in
\* time, a response of role "err", any other exception, nothing but control
\* characters, or a text, which has this length when blanks are collapsed.
Generated(call, text, limit) ==
  CASE call = "missing" -> Answer("fallback", "ai_provider_not_found")
    [] call = "timeout" -> Answer("fallback", "ai_timeout")
    [] call = "err"     -> Answer("fallback", "ai_role_error")
    [] call = "raises"  -> Answer("fallback", "ai_exception")
    [] call = "controls" -> Answer("fallback", "ai_output_too_long")
    [] call = "text" /\ text = 0 -> Answer("fallback", "ai_empty_output")
    [] call = "text" /\ text > limit -> Answer("fallback", "ai_output_too_long")
    [] call = "text" /\ text \in 1..limit -> Answer("success", "none")

\* What the check reports (service.py): its own conditions come before those of
\* generate.
Introduce(enabled, events, service, provider, origin, host, call, text, limit) ==
  CASE ~enabled -> Answer("disabled", "none")
    [] enabled /\ events = 0 -> Answer("skipped", "ai_no_events")
    [] enabled /\ events > 0 /\ ~service -> Answer("fallback", "ai_unavailable")
    [] enabled /\ events > 0 /\ service ->
         IF provider = "" /\ ~origin THEN Answer("skipped", "ai_provider_not_found")
         ELSE IF ProviderOf(provider, origin, host) = "" THEN Answer("fallback", "ai_provider_not_found")
         ELSE Generated(call, text, limit)
=============================================================================
