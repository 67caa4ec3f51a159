------------------------------ MODULE Service -------------------------------
(***************************************************************************)
(* Who may change the state file, and when: the service's asyncio.Lock,    *)
(* the manual and automatic checks, the drain loop with its wake event,    *)
(* the subscription and diagnostic commands (service.py, scheduler.py,     *)
(* main.py, subscriptions.py), and a reload of the plugin, which starts a  *)
(* second instance with a lock of its own on the same file.                *)
(*                                                                         *)
(* All tasks share one event loop: a step runs from one await to the next. *)
(* A batch is here pending, held (the diagnostic hold until the year       *)
(* 9999) or done; Outbox says how a pass gets it done.                     *)
(***************************************************************************)
EXTENDS Integers, Sequences

CONSTANTS
  Checks,      \* manual checks, as AstrBot starts them
  Edits,       \* subscription commands, test-outbox-prepare and -cleanup
  Delivers,    \* test-outbox-deliver commands
  Nobody,      \* no task
  Automatic,   \* whether automatic checks are enabled
  MaxReloads,  \* bound
  MaxFaults    \* bound: saves that raise

Instances == 1..(MaxReloads + 1)
DrainLoop(i) == <<"drain", i>>
AutoLoop(i)  == <<"auto", i>>
Loops     == {DrainLoop(i) : i \in Instances} \cup {AutoLoop(i) : i \in Instances}
Commands  == Checks \cup Edits \cup Delivers
Tasks     == Commands \cup Loops

\* The batch a check creates when it finds news, and the diagnostic batch.
Checkers  == Checks \cup {AutoLoop(i) : i \in Instances}
Diag      == <<"diag">>
Batches   == Checkers \cup {Diag}

ASSUME ServiceAssumption ==
  /\ Automatic \in BOOLEAN
  /\ MaxReloads \in Nat /\ MaxFaults \in Nat
  /\ Checks \cap Edits = {} /\ Checks \cap Delivers = {} /\ Edits \cap Delivers = {}
  /\ Commands \cap Loops = {} /\ Nobody \notin Tasks /\ Diag \notin Tasks

VARIABLES
  disk,      \* the saved state: its subscriptions and the status of each batch
  mem,       \* the state a task inside the lock has loaded
  lock,      \* each instance's lock: its holder and those that wait, in order
  pc,        \* where each task is
  owner,     \* the instance a command runs in
  instance,  \* the instance that AstrBot calls
  phase,     \* "up", "stopping" (its drain loop is stopped) or "down"
  wake,      \* its drain loop's wake event is set
  outlived,  \* history: while a command ran on after the end of its instance, a
             \* subscription was changed without the lock or a new instance began
  faults

vars == <<disk, mem, lock, pc, owner, instance, phase, wake, outlived, faults>>
lifecycle == <<owner, instance, phase, outlived>>

InstanceOf(t) == IF t \in Loops THEN t[2] ELSE owner[t]

-----------------------------------------------------------------------------
(* asyncio.Lock: a release wakes the first waiter, which takes the lock when *)
(* the event loop gets to it; meanwhile the lock is not locked, but nobody   *)
(* overtakes the waiter.                                                     *)

Locked(i)   == lock[i].holder # Nobody
AtOnce(i)   == ~Locked(i) /\ lock[i].queue = <<>>
Granted(t)  == LET l == lock[InstanceOf(t)] IN
               /\ l.holder = Nobody
               /\ l.queue # <<>> /\ Head(l.queue) = t

\* A task waits in one place at most.
Removed(q, t) ==
  IF \E i \in DOMAIN q : q[i] = t
  THEN LET i == CHOOSE i \in DOMAIN q : q[i] = t
       IN  SubSeq(q, 1, i - 1) \o SubSeq(q, i + 1, Len(q))
  ELSE q

Taken(l, t)  == [holder |-> t, queue |-> Removed(l.queue, t)]
Queued(l, t) == [holder |-> l.holder, queue |-> Append(l.queue, t)]
Freed(l)     == [holder |-> Nobody, queue |-> l.queue]
\* What a cancelled task leaves of the lock.
Without(l, t) == [holder |-> IF l.holder = t THEN Nobody ELSE l.holder,
                  queue  |-> Removed(l.queue, t)]

\* The first wait of t, in instance i; where is its pc.
Wait(t, i, where) ==
  /\ ~AtOnce(i)
  /\ lock' = [lock EXCEPT ![i] = Queued(@, t)]
  /\ pc' = [pc EXCEPT ![t] = where]

\* The task loads the state as soon as it has the lock.
Enter(t, i) ==
  /\ lock' = [lock EXCEPT ![i] = Taken(@, t)]
  /\ pc' = [pc EXCEPT ![t] = "in"]

\* _wake_drain: without effect once the instance's drain loop is gone.
Wake(i) == wake' = (wake \/ (i = instance /\ phase = "up"))

\* The task of instance i leaves the lock.
Leave(t, i, where) ==
  /\ lock' = [lock EXCEPT ![i] = Freed(@)]
  /\ pc' = [pc EXCEPT ![t] = where]

-----------------------------------------------------------------------------
(* Saving *)

Status == {"none", "held", "pending", "done"}
States == [edits : SUBSET Edits, work : [Batches -> Status]]
Blank  == [edits |-> {}, work |-> [b \in Batches |-> "none"]]

WithStatus(s, b, status) == [s EXCEPT !.work[b] = status]

Saves(new)  == disk' = new /\ UNCHANGED faults
\* A save that raises may have replaced the file.
Raises(new) == faults < MaxFaults /\ faults' = faults + 1 /\ disk' \in {disk, new}

\* The step saves new and t goes on inside the lock, or the save raises and t
\* leaves the lock as Failure says.
SaveInside(t, new, Failure) ==
  \/ Saves(new) /\ mem' = [mem EXCEPT ![t] = new] /\ UNCHANGED <<lock, pc, wake>>
  \/ Raises(new) /\ mem' = [mem EXCEPT ![t] = Blank] /\ Failure

-----------------------------------------------------------------------------
(* Checks *)

\* Where a task rests when it is done.
Rest(t) == IF t \in Loops THEN "waiting" ELSE "done"

\* check: busy when the lock is locked; otherwise the lock is acquired, which
\* may take a while.
BeginCheck(t, i) ==
  \/ Locked(i) /\ pc' = [pc EXCEPT ![t] = Rest(t)] /\ Wake(i) /\ UNCHANGED <<lock, mem>>
  \/ AtOnce(i) /\ Enter(t, i) /\ mem' = [mem EXCEPT ![t] = disk] /\ UNCHANGED wake
  \/ ~Locked(i) /\ Wait(t, i, "queued") /\ UNCHANGED <<mem, wake>>

\* A command arrives; while no service is up it is only told so, unless it is a
\* subscription (EditUnlocked).
Issue(c) == pc[c] = "new" /\ phase # "down" /\ owner' = [owner EXCEPT ![c] = instance]

IssueCheck(c) ==
  /\ Issue(c)
  /\ BeginCheck(c, instance)
  /\ UNCHANGED <<disk, instance, phase, outlived, faults>>

\* The interval of the automatic check has passed.
AutoCheck(i) ==
  /\ pc[AutoLoop(i)] = "waiting"
  /\ BeginCheck(AutoLoop(i), i)
  /\ UNCHANGED <<disk, lifecycle, faults>>

CheckGranted(t) ==
  /\ pc[t] = "queued" /\ Granted(t)
  /\ Enter(t, InstanceOf(t))
  /\ mem' = [mem EXCEPT ![t] = disk]
  /\ UNCHANGED <<disk, lifecycle, wake, faults>>

\* Variants: no wake-up; the lock is not released.
EndCheckSilent(t) == Leave(t, InstanceOf(t), Rest(t)) /\ UNCHANGED wake
EndCheckLeaks(t)  == pc' = [pc EXCEPT ![t] = Rest(t)] /\ Wake(InstanceOf(t)) /\ UNCHANGED lock

EndCheck(t) == Leave(t, InstanceOf(t), Rest(t)) /\ Wake(InstanceOf(t))

\* The check has found news.
AddBatch(t) ==
  /\ pc[t] = "in"
  /\ mem[t].work[t] = "none"
  /\ SaveInside(t, WithStatus(mem[t], t, "pending"), EndCheck(t))
  /\ UNCHANGED lifecycle

\* Its last save, its report and the wake-up.
FinishCheck(t) ==
  /\ pc[t] = "in"
  /\ Saves(mem[t]) \/ Raises(mem[t])
  /\ mem' = [mem EXCEPT ![t] = Blank]
  /\ EndCheck(t)
  /\ UNCHANGED lifecycle

-----------------------------------------------------------------------------
(* Subscriptions, test-outbox-prepare, test-outbox-cleanup: load, change and *)
(* save without an await in between                                          *)

\* Variant: the diagnostic target becomes a subscription.
SubscribeDiag(e) == [disk EXCEPT !.edits = @ \cup {Diag}]

Subscribe(e) == [disk EXCEPT !.edits = @ \cup {e}]

RunEdit(e, i) ==
  \/ (Saves(Subscribe(e)) \/ Raises(Subscribe(e))) /\ UNCHANGED wake
  \/ disk.work[Diag] # "none" /\ Wake(i) /\ UNCHANGED <<disk, faults>>
  \/ LET held == WithStatus(disk, Diag, "held") IN
       /\ disk.work[Diag] = "none"
       /\ \/ Saves(held) /\ Wake(i)
          \/ Raises(held) /\ UNCHANGED wake
  \/ LET clean == WithStatus(disk, Diag, "none") IN
       \/ Saves(clean) /\ Wake(i)
       \/ Raises(clean) /\ UNCHANGED wake

\* Variant: the lock is not taken.
EditAtOnce(e) ==
  /\ Issue(e)
  /\ RunEdit(e, instance)
  /\ pc' = [pc EXCEPT ![e] = "done"]
  /\ UNCHANGED <<mem, lock, instance, phase, outlived>>

IssueEdit(e) ==
  /\ Issue(e)
  /\ \/ /\ AtOnce(instance)
        /\ RunEdit(e, instance)
        /\ pc' = [pc EXCEPT ![e] = "done"]
        /\ UNCHANGED lock
     \/ Wait(e, instance, "queued") /\ UNCHANGED <<disk, wake, faults>>
  /\ UNCHANGED <<mem, instance, phase, outlived>>

EditGranted(e) ==
  /\ pc[e] = "queued" /\ Granted(e)
  /\ RunEdit(e, owner[e])
  /\ pc' = [pc EXCEPT ![e] = "done"]
  /\ lock' = [lock EXCEPT ![owner[e]] = Without(@, e)]
  /\ UNCHANGED <<mem, lifecycle>>

\* A command has begun and not ended.
Running == \E c \in Commands : pc[c] \in {"queued", "in"}

\* terminate leaves the store: a subscription that finds no service is changed
\* without any lock, also beside a command that still runs under the old one.
EditUnlocked(e) ==
  /\ pc[e] = "new" /\ phase = "down"
  /\ Saves(Subscribe(e)) \/ Raises(Subscribe(e))
  /\ pc' = [pc EXCEPT ![e] = "done"]
  /\ outlived' = (outlived \/ Running)
  /\ UNCHANGED <<mem, lock, owner, instance, phase, wake>>

-----------------------------------------------------------------------------
(* test-outbox-deliver: the hold is released and saved, then a pass runs; an *)
(* error is reported without a wake-up                                       *)

EnterDeliver(d, i) ==
  IF disk.work[Diag] \in {"held", "pending"}
    THEN LET released == WithStatus(disk, Diag, "pending") IN
         \/ Saves(released) /\ mem' = [mem EXCEPT ![d] = released] /\ Enter(d, i)
         \/ /\ Raises(released)
            /\ lock' = [lock EXCEPT ![i] = Without(@, d)]
            /\ pc' = [pc EXCEPT ![d] = "done"]
            /\ UNCHANGED mem
    ELSE Enter(d, i) /\ mem' = [mem EXCEPT ![d] = disk] /\ UNCHANGED <<disk, faults>>

IssueDeliver(d) ==
  /\ Issue(d)
  /\ \/ AtOnce(instance) /\ EnterDeliver(d, instance)
     \/ Wait(d, instance, "queued") /\ UNCHANGED <<disk, mem, faults>>
  /\ UNCHANGED <<instance, phase, outlived, wake>>

DeliverGranted(d) ==
  /\ pc[d] = "queued" /\ Granted(d)
  /\ EnterDeliver(d, owner[d])
  /\ UNCHANGED <<lifecycle, wake>>

FinishDeliver(d) ==
  /\ pc[d] = "in"
  /\ Leave(d, owner[d], "done") /\ Wake(owner[d])
  /\ mem' = [mem EXCEPT ![d] = Blank]
  /\ UNCHANGED <<disk, lifecycle, faults>>

-----------------------------------------------------------------------------
(* The drain loop *)

\* How the loop waits: until something pending is due, until the diagnostic
\* hold ends in the year 9999, or until it is woken.
WaitFor(s) ==
  IF \E b \in Batches : s.work[b] = "pending" THEN "timed"
  ELSE IF \E b \in Batches : s.work[b] = "held" THEN "far"
  ELSE "parked"

\* The wake event is cleared before the state is read.
StartPass(i) ==
  /\ pc[DrainLoop(i)] = "top"
  /\ wake' = FALSE
  /\ \/ AtOnce(i) /\ Enter(DrainLoop(i), i) /\ mem' = [mem EXCEPT ![DrainLoop(i)] = disk]
     \/ Wait(DrainLoop(i), i, "queued") /\ UNCHANGED mem
  /\ UNCHANGED <<disk, lifecycle, faults>>

PassGranted(i) ==
  /\ pc[DrainLoop(i)] = "queued" /\ Granted(DrainLoop(i))
  /\ Enter(DrainLoop(i), i)
  /\ mem' = [mem EXCEPT ![DrainLoop(i)] = disk]
  /\ UNCHANGED <<disk, lifecycle, wake, faults>>

\* The pass is over; the due time is read under the lock, taken a second time.
FinishPass(i) ==
  LET t == DrainLoop(i) IN
  /\ pc[t] = "in"
  /\ mem' = [mem EXCEPT ![t] = Blank]
  /\ IF lock[i].queue = <<>>
       THEN Leave(t, i, WaitFor(disk))
       ELSE /\ lock' = [lock EXCEPT ![i] = Queued(Freed(@), t)]
            /\ pc' = [pc EXCEPT ![t] = "due"]
  /\ UNCHANGED <<disk, lifecycle, wake, faults>>

DueGranted(i) ==
  LET t == DrainLoop(i) IN
  /\ pc[t] = "due" /\ Granted(t)
  /\ lock' = [lock EXCEPT ![i] = Without(@, t)]
  /\ pc' = [pc EXCEPT ![t] = WaitFor(disk)]
  /\ UNCHANGED <<disk, mem, lifecycle, wake, faults>>

Woken(i) ==
  /\ pc[DrainLoop(i)] \in {"parked", "far", "timed"}
  /\ wake
  /\ wake' = FALSE
  /\ pc' = [pc EXCEPT ![DrainLoop(i)] = "top"]
  /\ UNCHANGED <<disk, mem, lock, lifecycle, faults>>

Timeout(i) ==
  /\ pc[DrainLoop(i)] = "timed"
  /\ pc' = [pc EXCEPT ![DrainLoop(i)] = "top"]
  /\ UNCHANGED <<disk, mem, lock, lifecycle, wake, faults>>

-----------------------------------------------------------------------------
(* deliver_pending, by whoever runs it *)

\* How a task leaves the lock when a save of its pass raises: the drain loop
\* tries again after 30 seconds.
PassFails(t) ==
  CASE t \in Checkers -> EndCheck(t)
    [] t \in Delivers -> Leave(t, owner[t], "done") /\ UNCHANGED wake
    [] OTHER -> Leave(t, InstanceOf(t), "timed") /\ UNCHANGED wake

SendBatch(t) ==
  /\ pc[t] = "in"
  /\ \E b \in Batches :
       /\ mem[t].work[b] = "pending"
       /\ SaveInside(t, WithStatus(mem[t], b, "done"), PassFails(t))
  /\ UNCHANGED lifecycle

-----------------------------------------------------------------------------
(* The plugin is reloaded: terminate cancels the loops, initialize starts a  *)
(* new instance; commands that run go on                                     *)

\* A loop is cancelled, wherever it is.
Cancel(t, i) ==
  /\ pc' = [pc EXCEPT ![t] = "off"]
  /\ lock' = [lock EXCEPT ![i] = Without(@, t)]
  /\ mem' = [mem EXCEPT ![t] = Blank]

StopDrain ==
  /\ phase = "up" /\ instance <= MaxReloads
  /\ phase' = "stopping"
  /\ Cancel(DrainLoop(instance), instance)
  /\ UNCHANGED <<disk, owner, instance, outlived, wake, faults>>

StopAuto ==
  /\ phase = "stopping"
  /\ phase' = "down"
  /\ Cancel(AutoLoop(instance), instance)
  /\ UNCHANGED <<disk, owner, instance, outlived, wake, faults>>

AutoStart == IF Automatic THEN "waiting" ELSE "off"

\* The waiters that a cancelled loop has woken run before AstrBot has loaded the
\* plugin again.
Initialize ==
  /\ phase = "down"
  /\ \A t \in Tasks : ~Granted(t)
  /\ phase' = "up"
  /\ instance' = instance + 1
  /\ wake' = FALSE
  /\ outlived' = (outlived \/ Running)
  /\ pc' = [pc EXCEPT ![DrainLoop(instance + 1)] = "top", ![AutoLoop(instance + 1)] = AutoStart]
  /\ UNCHANGED <<disk, mem, lock, owner, faults>>

-----------------------------------------------------------------------------
(* The specification *)

Init ==
  /\ disk = Blank
  /\ mem = [t \in Tasks |-> Blank]
  /\ lock = [i \in Instances |-> [holder |-> Nobody, queue |-> <<>>]]
  /\ pc = [t \in Tasks |-> CASE t \in Commands -> "new"
                             [] t = DrainLoop(1) -> "top"
                             [] t = AutoLoop(1) -> AutoStart
                             [] OTHER -> "off"]
  /\ owner = [c \in Commands |-> 1]
  /\ instance = 1 /\ phase = "up" /\ wake = FALSE /\ outlived = FALSE /\ faults = 0

CheckStep(t)   == CheckGranted(t) \/ AddBatch(t) \/ FinishCheck(t)
DeliverStep(d) == DeliverGranted(d) \/ FinishDeliver(d)
PassStep(i)    == StartPass(i) \/ PassGranted(i) \/ FinishPass(i) \/ DueGranted(i)
                  \/ Woken(i) \/ Timeout(i)
Reload         == StopDrain \/ StopAuto \/ Initialize

Next ==
  \/ \E c \in Checks : IssueCheck(c)
  \/ \E e \in Edits : IssueEdit(e) \/ EditGranted(e) \/ EditUnlocked(e)
  \/ \E d \in Delivers : IssueDeliver(d) \/ DeliverStep(d)
  \/ \E i \in Instances : AutoCheck(i) \/ PassStep(i)
  \/ \E t \in Checkers : CheckStep(t)
  \/ \E t \in Tasks \ Edits : SendBatch(t)
  \/ Reload

Spec == Init /\ [][Next]_vars

\* Tasks that can run do so; fetches, renders and sends have timeouts; a timer
\* fires; a batch that is tried again and again is settled (Outbox!Settles).
Fairness ==
  /\ \A t \in Checkers : WF_vars(CheckStep(t)) /\ WF_vars(FinishCheck(t))
  /\ \A e \in Edits : WF_vars(EditGranted(e))
  /\ \A d \in Delivers : WF_vars(DeliverStep(d))
  /\ \A i \in Instances : WF_vars(PassStep(i)) /\ SF_vars(SendBatch(DrainLoop(i)))
  /\ WF_vars(StopAuto) /\ WF_vars(Initialize)

FairSpec == Spec /\ Fairness

-----------------------------------------------------------------------------
(* Properties *)

Places == {"new", "queued", "in", "done", "waiting", "off",
           "top", "due", "parked", "far", "timed"}

\* The variables hold what the code can put there.
TypeOK ==
  /\ disk \in States /\ mem \in [Tasks -> States]
  /\ lock \in [Instances -> [holder : Tasks \cup {Nobody}, queue : Seq(Tasks)]]
  /\ pc \in [Tasks -> Places]
  /\ owner \in [Commands -> Instances] /\ instance \in Instances
  /\ phase \in {"up", "stopping", "down"} /\ wake \in BOOLEAN
  /\ outlived \in BOOLEAN /\ faults \in Nat

Rank(status) == CASE status = "none" -> 0 [] status = "held" -> 1
                  [] status = "pending" -> 2 [] status = "done" -> 3

\* What NoLostUpdate asks of one step.
Keeps(old, new) ==
  /\ old.edits \subseteq new.edits
  /\ \A b \in Checkers : Rank(old.work[b]) <= Rank(new.work[b])

\* DESIGN.md's "strict read-modify-write inside the lock, so that no state is
\* overwritten": no save forgets a subscription that was saved before, or a
\* batch, or that a batch is done.
NeverOverwritten == [][Keeps(disk, disk')]_disk

\* What the code does promise, across reloads too: that holds until a command that
\* runs on after its instance was terminated meets a subscription, which then takes
\* no lock, or a new instance, which has a lock of its own.
NoLostUpdate == [][outlived' \/ Keeps(disk, disk')]_disk

\* No lost wake-up: while a check's batch is pending, the drain loop is on its
\* way to look at the state, waits with a timeout or is about to be woken.  (Not so
\* for the diagnostic batch: test-outbox-deliver's error path wakes nobody.)
WorkWatched ==
  (\E b \in Checkers : disk.work[b] = "pending") /\ phase = "up" /\ ~outlived =>
    \/ pc[DrainLoop(instance)] \in {"top", "queued", "in", "due", "timed"}
    \/ wake
    \/ \E t \in Checkers \cup Delivers : pc[t] = "in" /\ InstanceOf(t) = instance

\* A batch does not stay pending, even with automatic checks disabled, unless a
\* command has outlived its instance: what it leaves behind, nobody is woken for.
Leaves(b) == disk.work[b] = "pending" ~> disk.work[b] # "pending" \/ outlived
Drained == \A b \in Checkers : Leaves(b)

\* A command that has begun gets the lock and ends: neither the drain loop, which
\* takes the lock again and again, nor a reload keeps it waiting for ever.
CommandsEnd == \A c \in Commands : pc[c] # "new" ~> pc[c] = "done"
=============================================================================
