------------------------------- MODULE Outbox -------------------------------
(***************************************************************************)
(* The outbox of the market watcher: what the state file remembers of each *)
(* batch and target, the delivery pass (deliver_pending) that a check runs *)
(* twice and a background drain once, and the saves between its sends.     *)
(*                                                                         *)
(* "disk" is the state file, "mem" the WatcherState object the running     *)
(* operation loaded from it; the two differ between a change and the save  *)
(* that follows.  The service lock lets one operation run at a time.  Its  *)
(* steps are separated where the code awaits: there time passes, the       *)
(* platform answers late, or the process dies.                             *)
(***************************************************************************)
EXTENDS Throttle, FiniteSets, Sequences

CONSTANTS
  Batches,      \* batches, numbered in the order of _batch_order_key
  Targets,      \* push targets, numbered in the order of their names
  GroupOf,      \* the check (delivery group) each batch was created by
  ImageGroups,  \* the groups whose batches are image pages
  MaxAttempts,  \* max_attempts of every batch
  DrainRetry,   \* the scheduler's wait after a drain that raised, in ticks
  MaxTime,      \* bound: the clock stops here, or when a gap wait ends
  MaxFaults,    \* bound: crashes, failing saves and late platform errors
  MaxLag,       \* bound: ticks that pass while a step could be taken
  LastInsert    \* bound: no batch is created after this time

ASSUME OutboxAssumption ==
  /\ Batches \subseteq Nat \ {0}
  /\ Targets \subseteq Nat \ {0}
  /\ DOMAIN GroupOf = Batches
  /\ MaxAttempts \in Nat \ {0}
  /\ DrainRetry \in Nat
  /\ {MaxTime, MaxFaults, MaxLag, LastInsert} \subseteq Nat

VARIABLES
  disk,      \* what the state file says
  mem,       \* the running operation's copy; the same as disk when none runs
  clock,     \* the time
  alarm,     \* when the drain scheduler wakes up; Never while it is parked
  job,       \* the operation that holds the service lock
  pc,        \* where it is
  now,       \* deliver_pending's "now", refreshed only by a gap wait
  todo,      \* batches the pass has not reached
  cur,       \* the batch being processed
  left,      \* its targets not yet looked at
  elig,      \* its targets found eligible and not yet attempted
  waited,    \* targets that already waited for the gap in this pass
  blocked,   \* <<group, target>> pairs blocked in this pass
  wake,      \* when the gap wait ends
  begun,     \* last_attempt_at of the send in flight
  faults,    \* history: faults so far
  lag,       \* history: ticks that passed while a step could be taken
  tried,     \* history: calls of send, per batch and target
  accepted,  \* history: messages the platform took, per batch and target
  imgLog,    \* history: the times of the image sends, per target
  saveOk,    \* history: whether the last save succeeded
  overdue    \* history: the drain began with due work and has sent nothing

pass == <<now, todo, cur, left, elig, waited, blocked, wake, begun>>
sends == <<tried, accepted, imgLog>>
vars == <<disk, mem, clock, alarm, job, pc, pass, faults, lag, sends, saveOk,
          overdue>>

-----------------------------------------------------------------------------
(* The persisted records *)

Final  == {"sent", "exhausted"}            \* delivery is over
Open   == {"pending", "failed"}            \* delivery is owed
Status == {"absent"} \cup Open \cup Final  \* absent: no such batch or target

Entry == [status : Status, attempts : 0..MaxAttempts, retryAt : Nat]

NoEntry == [status |-> "absent", attempts |-> 0, retryAt |-> Never]
Fresh   == [status |-> "pending", attempts |-> 0, retryAt |-> Never]

State == [box : [Batches -> [Targets -> Entry]], win : [Targets -> ImageWindow]]

EmptyState == [box |-> [b \in Batches |-> [t \in Targets |-> NoEntry]],
               win |-> [t \in Targets |-> FreshWindow]]

TargetsOf(s, b) == {t \in Targets : s.box[b][t].status # "absent"}
InOutbox(s)     == {b \in Batches : TargetsOf(s, b) # {}}

IsImage(b) == GroupOf[b] \in ImageGroups

\* Variant of Normalise: off by one.
NormaliseLate(e) ==
  IF e.status = "failed" /\ e.attempts > MaxAttempts
  THEN [status |-> "exhausted", attempts |-> e.attempts, retryAt |-> Never]
  ELSE e

\* A target written as failed with no attempt left is read as exhausted.
Normalise(e) ==
  IF e.status = "failed" /\ e.attempts >= MaxAttempts
  THEN [status |-> "exhausted", attempts |-> e.attempts, retryAt |-> Never]
  ELSE e

WithEntry(s, b, t, e) ==
  [box |-> [s.box EXCEPT ![b] = [@ EXCEPT ![t] = e]], win |-> s.win]

WithWindow(s, t, w) == [box |-> s.box, win |-> [s.win EXCEPT ![t] = w]]

Load(s) ==
  [box |-> [b \in Batches |-> [t \in Targets |-> Normalise(s.box[b][t])]],
   win |-> s.win]

-----------------------------------------------------------------------------
(* When work is due (next_outbox_due_at) *)

Later(x, y) == IF x >= y THEN x ELSE y

WindowFull(s, b, t, at) == IsImage(b) /\ ~WindowAllows(s.win[t], at)

\* Variant of Earliest: the quota is forgotten.
EarliestSansQuota(s, b, t, at) ==
  Later(Later(at, s.box[b][t].retryAt),
        IF IsImage(b) THEN GapEnd(s.win[t]) ELSE Never)

\* The first time an open target may be attempted, as seen from a time.
Earliest(s, b, t, at) ==
  LET retry == s.box[b][t].retryAt
      gap   == IF IsImage(b) THEN GapEnd(s.win[t]) ELSE Never
      quota == IF WindowFull(s, b, t, at) THEN s.win[t].start + Window ELSE Never
  IN  Later(Later(at, retry), Later(gap, quota))

\* A page is behind an earlier page of its group that has to wait.
Behind(s, b, t, at) ==
  /\ IsImage(b)
  /\ \E a \in Batches : /\ a < b
                        /\ GroupOf[a] = GroupOf[b]
                        /\ s.box[a][t].status \in Open
                        /\ Earliest(s, a, t, at) > at

\* Variant of Candidates: work that failed is not looked at again.
CandidatesOnce(s, at) ==
  {c \in Batches \X Targets :
     s.box[c[1]][c[2]].status = "pending" /\ ~Behind(s, c[1], c[2], at)}

Candidates(s, at) ==
  {c \in Batches \X Targets :
     s.box[c[1]][c[2]].status \in Open /\ ~Behind(s, c[1], c[2], at)}

NextDue(s, at) ==
  LET dues == {Earliest(s, c[1], c[2], at) : c \in Candidates(s, at)}
  IN  IF dues = {} THEN Never ELSE CHOOSE d \in dues : \A u \in dues : d <= u

-----------------------------------------------------------------------------
(* Saves, and how an operation begins and ends *)

SaveSucceeds(s) == disk' = s /\ saveOk' = TRUE /\ UNCHANGED faults

\* A save that raises may have replaced the file all the same.
SaveFails(s) ==
  /\ faults < MaxFaults
  /\ faults' = faults + 1
  /\ saveOk' = FALSE
  /\ disk' \in {disk, s}

BeginPass(operation, s) ==
  /\ job' = operation
  /\ pc' = "visit"
  /\ mem' = s
  /\ now' = clock
  /\ todo' = InOutbox(s)
  /\ cur' = 0 /\ left' = {} /\ elig' = {}
  /\ waited' = {} /\ blocked' = {}
  /\ wake' = Never /\ begun' = Never

\* The lock is released and the operation's copy of the state is dropped.
Leave ==
  /\ job' = "none"
  /\ pc' = "idle"
  /\ mem' = disk'
  /\ now' = Never /\ todo' = {} /\ cur' = 0 /\ left' = {} /\ elig' = {}
  /\ waited' = {} /\ blocked' = {}
  /\ wake' = Never /\ begun' = Never
  /\ overdue' = FALSE

\* A drain that raised is repeated after a delay; a check always ends by
\* waking the drain.
Abort ==
  /\ Leave
  /\ alarm' = IF job = "drain" THEN clock + DrainRetry ELSE clock

StartDrain ==
  /\ pc = "idle"
  /\ alarm # Never /\ alarm <= clock
  /\ BeginPass("drain", Load(disk))
  /\ overdue' = (NextDue(Load(disk), clock) = clock)
  /\ UNCHANGED <<disk, clock, alarm, faults, lag, sends, saveOk>>

\* Variant of StartCheck: no save before the first pass.
StartCheckUnprobed ==
  /\ pc = "idle"
  /\ BeginPass("check1", Load(disk))
  /\ UNCHANGED <<disk, saveOk, alarm, overdue, faults, clock, lag, sends>>

\* A check first saves what it loaded, to see that the file can be written.
StartCheck ==
  /\ pc = "idle"
  /\ \/ /\ SaveSucceeds(Load(disk))
        /\ BeginPass("check1", Load(disk))
        /\ UNCHANGED <<alarm, overdue>>
     \/ SaveFails(Load(disk)) /\ Abort
  /\ UNCHANGED <<clock, lag, sends>>

-----------------------------------------------------------------------------
(* The first half of a batch: which targets are eligible *)

First(S, t) == t \in S /\ \A u \in S : t <= u

NextBatch ==
  /\ pc = "visit"
  /\ \E b \in todo : /\ First(todo, b)
                     /\ cur' = b
                     /\ todo' = todo \ {b}
                     /\ left' = TargetsOf(mem, b)
  /\ pc' = "look"
  /\ UNCHANGED <<disk, mem, clock, alarm, job, now, elig, waited, blocked,
                 wake, begun, faults, lag, sends, saveOk, overdue>>

TooEarly(t) ==
  LET e == mem.box[cur][t]
  IN  e.retryAt # Never /\ TextAfter(e.retryAt, now)

Barred(t)  == IsImage(cur) /\ <<GroupOf[cur], t>> \in blocked
GapOpen(t) == IsImage(cur) /\ GapEnd(mem.win[t]) > now

Deferred(t) ==
  \/ Barred(t)
  \/ TooEarly(t)
  \/ WindowFull(mem, cur, t, now)
  \/ GapOpen(t) /\ t \in waited

\* Variant of Block: nothing is.
BlockNothing(t) == blocked

\* The later pages of the group wait for this one.
Block(t) == IF IsImage(cur) THEN blocked \cup {<<GroupOf[cur], t>>} ELSE blocked

\* The target is dealt with; the batch is attempted once all are.
Looked(t, eligible) ==
  /\ left' = left \ {t}
  /\ elig' = eligible
  /\ pc' = IF left \ {t} # {} THEN "look"
           ELSE IF eligible # {} THEN "send" ELSE "visit"

Look(t) ==
  /\ pc = "look"
  /\ First(left, t)
  /\ UNCHANGED <<disk, mem, clock, alarm, job, todo, cur, begun, faults, lag,
                 sends, saveOk, overdue>>

\* Variant of IsOpen: what was sent is not skipped.
IsNotExhausted(t) == mem.box[cur][t].status \in Open \cup {"sent"}

IsOpen(t) == mem.box[cur][t].status \in Open

Skip(t) ==
  /\ Look(t)
  /\ ~IsOpen(t)
  /\ Looked(t, elig)
  /\ UNCHANGED <<now, waited, blocked, wake>>

Defer(t) ==
  /\ Look(t)
  /\ IsOpen(t) /\ Deferred(t)
  /\ Looked(t, elig)
  /\ blocked' = Block(t)
  /\ UNCHANGED <<now, waited, wake>>

Admit(t) ==
  /\ Look(t)
  /\ IsOpen(t) /\ ~Deferred(t) /\ ~GapOpen(t)
  /\ Looked(t, elig \cup {t})
  /\ UNCHANGED <<now, waited, blocked, wake>>

\* The length of the wait is computed from "now", however old that is.
AwaitGap(t) ==
  /\ Look(t)
  /\ IsOpen(t) /\ ~Deferred(t) /\ GapOpen(t)
  /\ pc' = "sleep"
  /\ wake' = clock + (GapEnd(mem.win[t]) - now)
  /\ UNCHANGED <<now, left, elig, waited, blocked>>

\* After the wait only the quota is looked at again.
GapOver(t) ==
  /\ pc = "sleep" /\ wake <= clock
  /\ First(left, t)
  /\ waited' = waited \cup {t}
  /\ now' = clock
  /\ wake' = Never
  /\ IF WindowAllows(mem.win[t], clock)
     THEN Looked(t, elig \cup {t}) /\ UNCHANGED blocked
     ELSE Looked(t, elig) /\ blocked' = Block(t)
  /\ UNCHANGED <<disk, mem, clock, alarm, job, todo, cur, begun, faults, lag,
                 sends, saveOk, overdue>>

-----------------------------------------------------------------------------
(* The second half of a batch: one send after the other *)

\* Where a send is in flight, and where the platform has the message.
Landed == {"imageTaken", "taken"}
Flying == {"image", "text", "lost"} \cup Landed

\* The slot of an image is taken and saved before the image is sent.
Reserve(t) ==
  IF IsImage(cur) THEN WithWindow(mem, t, ReserveSlot(mem.win[t], clock))
  ELSE mem

Attempt(t) ==
  /\ pc = "send"
  /\ First(elig, t)
  /\ IF IsImage(cur) THEN SaveSucceeds(Reserve(t))
     ELSE UNCHANGED <<disk, saveOk, faults>>
  /\ mem' = Reserve(t)
  /\ pc' = IF IsImage(cur) THEN "image" ELSE "text"
  /\ begun' = clock
  /\ overdue' = FALSE
  /\ tried' = [tried EXCEPT ![cur][t] = @ + 1]
  /\ imgLog' = IF IsImage(cur) THEN [imgLog EXCEPT ![t] = Append(@, clock)]
               ELSE imgLog
  /\ UNCHANGED <<clock, alarm, job, now, todo, cur, left, elig, waited,
                 blocked, wake, lag, accepted>>

ReserveFails(t) ==
  /\ pc = "send"
  /\ First(elig, t)
  /\ IsImage(cur)
  /\ SaveFails(Reserve(t))
  /\ Abort
  /\ UNCHANGED <<clock, lag, sends>>

\* The platform takes the card, or the text ...
Take(t) ==
  /\ pc \in {"image", "text"}
  /\ First(elig, t)
  /\ pc' = IF pc = "image" THEN "imageTaken" ELSE "taken"
  /\ accepted' = [accepted EXCEPT ![cur][t] = @ + 1]
  /\ UNCHANGED <<disk, mem, clock, alarm, job, pass, faults, lag, tried, imgLog,
                 saveOk, overdue>>

\* ... and the call raises all the same: a card is followed by the text.
LateError ==
  /\ pc \in {"imageTaken", "taken"}
  /\ faults < MaxFaults
  /\ faults' = faults + 1
  /\ pc' = IF pc = "imageTaken" THEN "text" ELSE "lost"
  /\ UNCHANGED <<disk, mem, clock, alarm, job, pass, lag, sends, saveOk, overdue>>

\* There is no card, or it is refused: the same attempt sends the text.
FallBack ==
  /\ pc = "image"
  /\ pc' = "text"
  /\ UNCHANGED <<disk, mem, clock, alarm, job, pass, faults, lag, sends, saveOk,
                 overdue>>

AfterSuccess(e) ==
  [status |-> "sent", attempts |-> e.attempts + 1, retryAt |-> Never]

\* Variant of AfterFailure: the attempt is not counted.
AfterFailureUncounted(e) ==
  IF e.attempts + 1 >= MaxAttempts
  THEN [status |-> "exhausted", attempts |-> e.attempts, retryAt |-> Never]
  ELSE [status |-> "failed", attempts |-> e.attempts,
        retryAt |-> begun + Backoff(e.attempts + 1)]

AfterFailure(e) ==
  IF e.attempts + 1 >= MaxAttempts
  THEN [status |-> "exhausted", attempts |-> e.attempts + 1, retryAt |-> Never]
  ELSE [status |-> "failed", attempts |-> e.attempts + 1,
        retryAt |-> begun + Backoff(e.attempts + 1)]

\* The outcome of the send is written to the record and saved.
Record(t, e) ==
  /\ First(elig, t)
  /\ \/ /\ SaveSucceeds(WithEntry(mem, cur, t, e))
        /\ mem' = WithEntry(mem, cur, t, e)
        /\ elig' = elig \ {t}
        /\ pc' = IF elig \ {t} = {} THEN "visit" ELSE "send"
        /\ begun' = Never
        /\ blocked' = IF e.status = "failed" THEN Block(t) ELSE blocked
        /\ UNCHANGED <<alarm, job, now, todo, cur, left, waited, wake, overdue>>
     \/ SaveFails(WithEntry(mem, cur, t, e)) /\ Abort
  /\ UNCHANGED <<clock, lag, sends>>

\* Variant of Succeed: recorded before the platform answers.
SucceedEarly(t) ==
  pc \in Flying \ {"lost"} /\ Record(t, AfterSuccess(mem.box[cur][t]))

Succeed(t) == pc \in Landed /\ Record(t, AfterSuccess(mem.box[cur][t]))

Fail(t) == pc \in {"text", "lost"} /\ Record(t, AfterFailure(mem.box[cur][t]))

-----------------------------------------------------------------------------
(* The end of a pass, and what a check does between its two *)

PassOver == pc = "visit" /\ todo = {}

\* The drain goes back to sleep until the next due time.
EndDrain ==
  /\ PassOver /\ job = "drain"
  /\ UNCHANGED disk
  /\ Leave
  /\ alarm' = NextDue(Load(disk), clock)
  /\ UNCHANGED <<clock, faults, lag, sends, saveOk>>

\* From the first pass of a check to the fetch.
StartDetect ==
  /\ PassOver /\ job = "check1"
  /\ pc' = "detect"
  /\ UNCHANGED <<disk, mem, clock, alarm, job, pass, faults, lag, sends, saveOk,
                 overdue>>

\* The batches of a group for a snapshot S of the targets, but for those the
\* outbox already holds.
Insert(s, g, S) ==
  [box |-> [b \in Batches |-> [t \in Targets |->
              IF GroupOf[b] = g /\ b \notin InOutbox(s) /\ t \in S
              THEN Fresh ELSE s.box[b][t]]],
   win |-> s.win]

Detections ==
  {mem} \cup
  (IF clock > LastInsert THEN {} ELSE
   {Insert(mem, g, S) : g \in {GroupOf[b] : b \in Batches \ InOutbox(mem)},
                        S \in SUBSET Targets \ {{}}})

\* The check ends its fetch, with new batches or none, and saves before it
\* delivers.
Detect ==
  /\ pc = "detect"
  /\ \E s \in Detections :
       \/ /\ SaveSucceeds(s)
          /\ BeginPass("check2", s)
          /\ UNCHANGED <<alarm, overdue>>
       \/ SaveFails(s) /\ Abort
  /\ UNCHANGED <<clock, lag, sends>>

\* The reports saved at the end of a check leave the outbox as it is.
EndCheck ==
  /\ PassOver /\ job = "check2"
  /\ \/ SaveSucceeds(mem)
     \/ SaveFails(mem)
  /\ Leave
  /\ alarm' = clock
  /\ UNCHANGED <<clock, lag, sends>>

-----------------------------------------------------------------------------
(* The environment *)

\* The process dies or the operation's task is cancelled; a restart drains
\* at once.
Crash ==
  /\ pc # "idle"
  /\ faults < MaxFaults
  /\ faults' = faults + 1
  /\ UNCHANGED disk
  /\ Leave
  /\ alarm' = clock
  /\ UNCHANGED <<clock, lag, sends, saveOk>>

\* Nothing can be done before some time to come.
Resting ==
  \/ pc = "idle" /\ (alarm = Never \/ alarm > clock)
  \/ pc = "sleep" /\ wake > clock

Tick ==
  /\ \/ clock < MaxTime
     \/ pc = "sleep" /\ wake > clock
  /\ clock' = clock + 1
  /\ \/ Resting /\ UNCHANGED lag
     \/ ~Resting /\ lag < MaxLag /\ lag' = lag + 1
  /\ UNCHANGED <<disk, mem, alarm, job, pc, pass, faults, sends, saveOk, overdue>>

-----------------------------------------------------------------------------
(* The specification *)

\* The first file may hold a target that an earlier version left as failed
\* with all its attempts used.
FirstFiles ==
  {EmptyState} \cup
  {WithEntry(EmptyState, b, t,
             [status |-> "failed", attempts |-> MaxAttempts, retryAt |-> 1]) :
   b \in Batches, t \in Targets}

Init ==
  /\ disk \in FirstFiles
  /\ mem = disk
  /\ clock = 1 /\ alarm = 1
  /\ job = "none" /\ pc = "idle"
  /\ now = Never /\ todo = {} /\ cur = 0 /\ left = {} /\ elig = {}
  /\ waited = {} /\ blocked = {} /\ wake = Never /\ begun = Never
  /\ faults = 0 /\ lag = 0
  /\ tried = [b \in Batches |-> [t \in Targets |-> 0]]
  /\ accepted = [b \in Batches |-> [t \in Targets |-> 0]]
  /\ imgLog = [t \in Targets |-> <<>>]
  /\ saveOk = TRUE /\ overdue = FALSE

\* The steps of the operation that holds the lock.
Step ==
  \/ NextBatch \/ FallBack
  \/ \E t \in Targets : \/ Skip(t) \/ Defer(t) \/ Admit(t)
                        \/ AwaitGap(t) \/ GapOver(t)
                        \/ Attempt(t) \/ ReserveFails(t)
                        \/ Take(t) \/ Succeed(t) \/ Fail(t)
  \/ EndDrain \/ StartDetect \/ Detect \/ EndCheck

Next == StartDrain \/ StartCheck \/ Step \/ LateError \/ Crash \/ Tick

Spec == Init /\ [][Next]_vars

(***************************************************************************)
(* The event loop runs what is ready and the platform's call returns; the  *)
(* lock is handed over in the order it was asked for, so that a drain is   *)
(* not passed over for ever, and time goes on.                             *)
(***************************************************************************)
FairSpec == Spec /\ WF_vars(Step) /\ SF_vars(StartDrain) /\ SF_vars(Tick)

-----------------------------------------------------------------------------
(* Properties *)

Places == {"idle", "visit", "look", "sleep", "send", "detect"} \cup Flying

\* Every variable keeps to the values the code gives it.
TypeOK ==
  /\ disk \in State /\ mem \in State
  /\ clock \in Nat /\ alarm \in Nat /\ now \in Nat /\ wake \in Nat
  /\ begun \in Nat /\ faults \in Nat /\ lag \in Nat /\ cur \in Nat
  /\ job \in {"none", "drain", "check1", "check2"} /\ pc \in Places
  /\ todo \subseteq Batches
  /\ left \subseteq Targets /\ elig \subseteq Targets /\ waited \subseteq Targets
  /\ blocked \subseteq {GroupOf[b] : b \in Batches} \X Targets
  /\ tried \in [Batches -> [Targets -> Nat]]
  /\ accepted \in [Batches -> [Targets -> Nat]]
  /\ imgLog \in [Targets -> Seq(Nat)]
  /\ saveOk \in BOOLEAN /\ overdue \in BOOLEAN

\* A message reaches a target more than once only if as many faults (a crash,
\* a failing save, a platform error after the fact) came between its delivery
\* and its record: outside of those the outbox delivers exactly once.
DuplicatesNeedFaults ==
  \A b \in Batches, t \in Targets : accepted[b][t] <= 1 + faults

\* send is called for a batch and target at most max_attempts times, plus one
\* for every fault that kept an outcome from being recorded.
AttemptsBounded ==
  \A b \in Batches, t \in Targets : tried[b][t] <= MaxAttempts + faults

\* The sends the current window of the state file counts never exceed the
\* quota, whatever crash or failing save came in between: the slot is taken
\* on disk before the image leaves.
QuotaKept ==
  \A t \in Targets :
    \A i \in 1..Len(imgLog[t]) :
      /\ disk.win[t].start # Never
      /\ imgLog[t][i] >= disk.win[t].start => i + MaxImages > Len(imgLog[t])

\* Two images for the same target are at least the configured gap apart,
\* across passes, operations and restarts.
GapKept ==
  \A t \in Targets :
    \A i \in 1..(Len(imgLog[t]) - 1) :
      imgLog[t][i + 1] >= imgLog[t][i] + Interval

\* A page is attempted only when every earlier page of its group is over for
\* that target.
PagesInOrder ==
  [][\A b \in Batches, t \in Targets :
       tried'[b][t] # tried[b][t] /\ IsImage(b) =>
         \A a \in Batches :
           a < b /\ GroupOf[a] = GroupOf[b] => mem.box[a][t].status \notin Open]_vars

\* A drain that begins when next_outbox_due_at says "now" sends something:
\* the due time and the pass agree on what can be done.
DueDrainSends == PassOver /\ job = "drain" => ~overdue

\* FSD.md:436, a check stops its deliveries when the outbox cannot be saved: it
\* hands a message to the platform only if the save before that, whoever made
\* it, succeeded.  (Not so the drain, which does not try to write first.)
ChecksStopSending ==
  [][tried' # tried /\ job # "drain" => saveOk]_vars

\* What the next operation finds owed to a target.
Owed(b, t) == Load(disk).box[b][t].status \in Open

\* Every delivery the outbox owes is made or given up: the drain is never
\* parked, or asleep for too long, with work left.
Settles == \A b \in Batches, t \in Targets : Owed(b, t) ~> ~Owed(b, t)

-----------------------------------------------------------------------------
(* What the outbox implements *)

Fate(e) == IF e.status \in Open THEN "owed" ELSE e.status

FateOf == [b \in Batches |-> [t \in Targets |-> Fate(Load(disk).box[b][t])]]

Promise == INSTANCE Delivery WITH fate <- FateOf, taken <- accepted

\* The state file, read through a crash or a failing save, tells the truth:
\* batches appear whole and once, the platform is only given what the file
\* says is owed, "sent" is only written of a message the platform took, and
\* what is over stays over.
KeepsPromise == Promise!Spec

-----------------------------------------------------------------------------
(* The inductive invariant behind DuplicatesNeedFaults and AttemptsBounded *)

InBatch == pc \in {"look", "sleep", "send"} \cup Flying

\* The operation's copy is the file as a reader sees it: every change is
\* saved in the step that makes it.
CopyIsFile == pc # "idle" => mem = Load(disk)

\* An open target has an attempt left.
HasRoom(s) ==
  \A b \in Batches, t \in Targets :
    s.box[b][t].status \in Open => s.box[b][t].attempts < MaxAttempts

\* A target that is pending, or not there, has not been attempted.
UntriedIsNew(s) ==
  \A b \in Batches, t \in Targets :
    s.box[b][t].status \in {"absent", "pending"} => s.box[b][t].attempts = 0

\* Only open targets of the current batch are waited for and attempted.
EligibleIsOpen ==
  /\ pc = "sleep" => \A t \in left : First(left, t) => IsOpen(t)
  /\ InBatch => cur \in Batches /\ \A t \in elig : IsOpen(t)
  /\ ~InBatch => elig = {}

One(condition) == IF condition THEN 1 ELSE 0

Current(b, t) == b = cur /\ First(elig, t)

\* Every delivery is on record, in flight, or paid for by a fault ...
AcceptedCounted ==
  \A b \in Batches, t \in Targets :
    accepted[b][t] <= faults + One(disk.box[b][t].status = "sent")
                             + One(pc \in Landed /\ Current(b, t))

\* ... and so is every attempt.
TriedCounted ==
  \A b \in Batches, t \in Targets :
    tried[b][t] <= faults + disk.box[b][t].attempts
                          + One(pc \in Flying /\ Current(b, t))

\* What is in flight is not on record as sent: the conjunction is inductive
\* and implies the two bounds.
Inductive ==
  /\ TypeOK
  /\ CopyIsFile
  /\ UntriedIsNew(disk)
  /\ pc # "idle" => HasRoom(mem)
  /\ EligibleIsOpen
  /\ AcceptedCounted
  /\ TriedCounted

=============================================================================
