------------------------------ MODULE Throttle ------------------------------
(***************************************************************************)
(* The pure timing rules of the outbox (market_watcher/outbox.py): the     *)
(* per-target image window, the minimum gap between two images, the retry  *)
(* back-off and the comparison of ISO timestamps as text.                  *)
(*                                                                         *)
(* Time is counted in ticks, TicksPerSecond of them in a second, and 0     *)
(* stands for a timestamp that is absent (None in the code).               *)
(***************************************************************************)
EXTENDS Integers

CONSTANTS
  MaxImages,      \* max_images_per_delivery: images per window and target
  Interval,       \* image_send_interval_seconds, in ticks
  Window,         \* IMAGE_WINDOW_SECONDS, in ticks
  TicksPerSecond  \* the resolution of the clock

ASSUME ThrottleAssumption ==
  /\ MaxImages \in Nat \ {0}
  /\ Interval \in Nat
  /\ Window \in Nat \ {0}
  /\ TicksPerSecond \in Nat \ {0}

Never == 0

(***************************************************************************)
(* ImageDeliveryWindow: when the window opened, the attempts it has used   *)
(* and the time of the last one.                                           *)
(***************************************************************************)
ImageWindow == [start : Nat, used : Nat, last : Nat]

FreshWindow == [start |-> Never, used |-> 0, last |-> Never]

Expired(w, at) == w.start = Never \/ at - w.start >= Window

\* Variant of WindowAllows: off by one.
WindowAllowsOneMore(w, at) == Expired(w, at) \/ w.used <= MaxImages

\* _window_allows: a new window, or room in the current one.
WindowAllows(w, at) == Expired(w, at) \/ w.used < MaxImages

\* The earliest time the gap after the last image allows another one.
GapEnd(w) == IF w.last = Never THEN Never ELSE w.last + Interval

\* Variant of ReserveSlot: a new window forgets the time of the image.
ReserveSlotTimeless(w, at) ==
  [start |-> IF Expired(w, at) THEN at ELSE w.start,
   used  |-> IF Expired(w, at) THEN 1 ELSE w.used + 1,
   last  |-> IF Expired(w, at) THEN Never ELSE at]

\* _reserve_slot: takes a slot before the image is handed to the platform.
ReserveSlot(w, at) ==
  [start |-> IF Expired(w, at) THEN at ELSE w.start,
   used  |-> IF Expired(w, at) THEN 1 ELSE w.used + 1,
   last  |-> at]

(***************************************************************************)
(* _retry_at: min(300, 2 ** (attempts - 1)) seconds after the attempt.     *)
(***************************************************************************)
Backoff(attempts) ==
  TicksPerSecond *
    (IF attempts \in 1..9
     THEN <<1, 2, 4, 8, 16, 32, 64, 128, 256>>[attempts] ELSE 300)

(***************************************************************************)
(* deliver_pending compares next_retry_at with now as STRINGS.  isoformat  *)
(* leaves out the fraction of a whole second, so "...:05Z" is compared     *)
(* with "...:05.5Z", and "Z" sorts after ".": a whole second sorts after   *)
(* every other instant of that second.  TextKey numbers the instants in    *)
(* the order of their texts.                                               *)
(***************************************************************************)
TextKey(t) == IF t % TicksPerSecond = 0 THEN 2 * (t + TicksPerSecond) - 1
              ELSE 2 * t

TextAfter(a, b) == TextKey(a) > TextKey(b)

=============================================================================
