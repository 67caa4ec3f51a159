---------------------------- MODULE OutboxProofs ----------------------------
(***************************************************************************)
(* Proofs about Outbox, for every value of its constants.                  *)
(***************************************************************************)
EXTENDS Outbox, TLAPS, WellFoundedInduction

-----------------------------------------------------------------------------
(* The constants *)

\* What the constants are.
LEMMA Constants ==
  /\ Batches \subseteq Nat /\ Targets \subseteq Nat
  /\ MaxAttempts \in Nat /\ MaxAttempts >= 1
  /\ TicksPerSecond \in Nat /\ Interval \in Nat /\ DrainRetry \in Nat
  /\ Window \in Nat /\ MaxImages \in Nat /\ MaxImages >= 1
BY ThrottleAssumption, OutboxAssumption

-----------------------------------------------------------------------------
(* The operators *)

\* The back-off is a number of ticks.
LEMMA BackoffType == ASSUME NEW n \in Nat PROVE Backoff(n) \in Nat
<1>1. CASE n \in 1..9
  <2>1. <<1, 2, 4, 8, 16, 32, 64, 128, 256>>[n] \in Nat
    BY <1>1
  <2> QED  BY <1>1, <2>1, Constants DEF Backoff
<1>2. CASE n \notin 1..9
  BY <1>2, Constants DEF Backoff
<1> QED  BY <1>1, <1>2

\* Reserving a slot yields an image window.
LEMMA ReserveType ==
  ASSUME NEW w \in ImageWindow, NEW at \in Nat
  PROVE  ReserveSlot(w, at) \in ImageWindow
BY Constants DEF ReserveSlot, ImageWindow, Expired, Never

\* Reading a state yields a state in which every open target has an attempt
\* left; such a state is read as it is.
LEMMA LoadType ==
  ASSUME NEW s \in State, UntriedIsNew(s)
  PROVE  Load(s) \in State /\ HasRoom(Load(s)) /\ UntriedIsNew(Load(s))
<1>1. ASSUME NEW e \in Entry, e.status \in {"absent", "pending"} => e.attempts = 0
      PROVE  /\ Normalise(e) \in Entry
             /\ Normalise(e).status \in Open => Normalise(e).attempts < MaxAttempts
             /\ Normalise(e).status \in {"absent", "pending"}
                  => Normalise(e).attempts = 0
  <2>1. CASE e.status = "failed" /\ e.attempts >= MaxAttempts
    <3>1. Normalise(e) = [status |-> "exhausted", attempts |-> e.attempts,
                          retryAt |-> Never]
      BY <2>1 DEF Normalise
    <3> QED  BY <3>1 DEF Entry, Status, Final, Open, Never
  <2>2. CASE ~(e.status = "failed" /\ e.attempts >= MaxAttempts)
    <3>1. Normalise(e) = e
      BY <2>2 DEF Normalise
    <3>2. e.attempts \in Nat
      BY Constants DEF Entry
    <3> QED  BY <1>1, <2>2, <3>1, <3>2, Constants DEF Open
  <2> QED  BY <2>1, <2>2
<1>2. s.box \in [Batches -> [Targets -> Entry]] /\ s.win \in [Targets -> ImageWindow]
  BY DEF State
<1>3. \A b \in Batches, t \in Targets :
        /\ s.box[b][t] \in Entry
        /\ s.box[b][t].status \in {"absent", "pending"}
             => s.box[b][t].attempts = 0
  BY <1>2 DEF UntriedIsNew
<1>4. \A b \in Batches, t \in Targets : Load(s).box[b][t] = Normalise(s.box[b][t])
  BY DEF Load
<1>5. Load(s).box \in [Batches -> [Targets -> Entry]]
  BY <1>1, <1>3 DEF Load
<1>6. Load(s) \in State
  BY <1>2, <1>5 DEF Load, State
<1> QED  BY <1>1, <1>3, <1>4, <1>6 DEF HasRoom, UntriedIsNew

\* load changes nothing when no entry is due to be given up.
LEMMA LoadIdentity ==
  ASSUME NEW s \in State, HasRoom(s)
  PROVE  Load(s) = s
<1>1. s = [box |-> s.box, win |-> s.win]
  BY DEF State
<1>2. s.box \in [Batches -> [Targets -> Entry]]
  BY DEF State
<1>3. ASSUME NEW b \in Batches
      PROVE  [t \in Targets |-> Normalise(s.box[b][t])] = s.box[b]
  <2>1. s.box[b] \in [Targets -> Entry]
    BY <1>2
  <2>2. \A t \in Targets : Normalise(s.box[b][t]) = s.box[b][t]
    <3> TAKE t \in Targets
    <3>1. s.box[b][t].attempts \in Nat
      BY <2>1, Constants DEF Entry
    <3>2. s.box[b][t].status = "failed" => s.box[b][t].attempts < MaxAttempts
      BY DEF HasRoom, Open
    <3> QED  BY <3>1, <3>2, Constants DEF Normalise
  <2> QED  BY <2>1, <2>2
<1>4. [b \in Batches |-> [t \in Targets |-> Normalise(s.box[b][t])]] = s.box
  BY <1>2, <1>3
<1> QED  BY <1>1, <1>4 DEF Load

\* Changing one entry, or one window, of a state.
LEMMA WithEntryType ==
  ASSUME NEW s \in State, NEW b \in Batches, NEW t \in Targets, NEW e \in Entry
  PROVE  /\ WithEntry(s, b, t, e) \in State
         /\ WithEntry(s, b, t, e).box[b][t] = e
         /\ \A c \in Batches, u \in Targets :
              c # b \/ u # t => WithEntry(s, b, t, e).box[c][u] = s.box[c][u]
BY DEF WithEntry, State

\* A reservation changes the window of its target and no entry.
LEMMA WithWindowType ==
  ASSUME NEW s \in State, NEW t \in Targets, NEW w \in ImageWindow
  PROVE  /\ WithWindow(s, t, w) \in State
         /\ WithWindow(s, t, w).box = s.box
BY DEF WithWindow, State

\* Numbers, if there are any, have a least one.
LEMMA LeastNumber ==
  ASSUME NEW S \in SUBSET Nat, S # {}
  PROVE  \E d \in S : \A u \in S : d <= u
<1>1. PICK d \in S : \A u \in S : ~(<<u, d>> \in OpToRel(<, Nat))
  BY WFMin, NatLessThanWellFounded
<1>2. ASSUME NEW u \in S PROVE d <= u
  <2>1. u \in Nat /\ d \in Nat
    OBVIOUS
  <2>2. u < d => <<u, d>> \in OpToRel(<, Nat)
    BY <2>1 DEF OpToRel
  <2>3. ~(u < d)
    BY <1>1, <2>2
  <2> QED  BY <2>1, <2>3
<1> QED  BY <1>2

\* The first time a target may be attempted is a time.
LEMMA EarliestType ==
  ASSUME NEW s \in State, NEW at \in Nat, NEW b \in Batches, NEW t \in Targets
  PROVE  Earliest(s, b, t, at) \in Nat /\ Earliest(s, b, t, at) >= at
<1> DEFINE retry == s.box[b][t].retryAt
           gap   == IF IsImage(b) THEN GapEnd(s.win[t]) ELSE Never
           quota == IF WindowFull(s, b, t, at) THEN s.win[t].start + Window ELSE Never
<1>1. retry \in Nat
  BY DEF State, Entry
<1>2. s.win[t].start \in Nat /\ s.win[t].last \in Nat
  BY DEF State, ImageWindow
<1>3. gap \in Nat /\ quota \in Nat
  BY <1>2, Constants DEF GapEnd, Never
<1>4. Earliest(s, b, t, at) = Later(Later(at, retry), Later(gap, quota))
  BY DEF Earliest
<1> HIDE DEF retry, gap, quota
<1> QED  BY <1>1, <1>3, <1>4 DEF Later

\* What NextDue returns is a time.
LEMMA NextDueType ==
  ASSUME NEW s \in State, NEW at \in Nat
  PROVE  NextDue(s, at) \in Nat
<1> DEFINE dues == {Earliest(s, c[1], c[2], at) : c \in Candidates(s, at)}
<1>1. \A b \in Batches, t \in Targets : Earliest(s, b, t, at) \in Nat
  BY EarliestType
<1>2. dues \subseteq Nat
  BY <1>1 DEF Candidates
<1>3. CASE dues = {}
  BY <1>3 DEF NextDue, Never
<1>4. CASE dues # {}
  <2>1. \E d \in dues : \A u \in dues : d <= u
    BY <1>2, <1>4, LeastNumber
  <2>2. (CHOOSE d \in dues : \A u \in dues : d <= u) \in dues
    BY <2>1
  <2> QED  BY <1>2, <1>4, <2>2 DEF NextDue
<1> QED  BY <1>3, <1>4

\* The files a first start may find.
LEMMA FirstFilesType ==
  ASSUME NEW s \in FirstFiles
  PROVE  /\ s \in State /\ UntriedIsNew(s)
         /\ \A b \in Batches, t \in Targets : s.box[b][t].status # "sent"
<1>1. NoEntry \in Entry /\ FreshWindow \in ImageWindow
  BY Constants DEF NoEntry, Entry, Status, FreshWindow, ImageWindow, Never
<1>2. EmptyState \in State
  BY <1>1 DEF EmptyState, State
<1>3. \A b \in Batches, t \in Targets : EmptyState.box[b][t] = NoEntry
  BY DEF EmptyState
<1>4. CASE s = EmptyState
  BY <1>2, <1>3, <1>4 DEF UntriedIsNew, NoEntry
<1> DEFINE spent == [status |-> "failed", attempts |-> MaxAttempts, retryAt |-> 1]
<1>5. ASSUME NEW b \in Batches, NEW t \in Targets, s = WithEntry(EmptyState, b, t, spent)
      PROVE  /\ s \in State /\ UntriedIsNew(s)
             /\ \A c \in Batches, u \in Targets : s.box[c][u].status # "sent"
  <2>1. spent \in Entry
    BY Constants DEF Entry, Status, Open
  <2>2. \A c \in Batches, u \in Targets : s.box[c][u] \in {spent, NoEntry}
    BY <1>2, <1>3, <1>5, <2>1, WithEntryType
  <2>3. /\ spent.status = "failed"
        /\ NoEntry.status = "absent" /\ NoEntry.attempts = 0
    BY DEF NoEntry
  <2>4. s \in State
    BY <1>2, <1>5, <2>1, WithEntryType
  <2> QED  BY <2>2, <2>3, <2>4 DEF UntriedIsNew
<1> QED  BY <1>4, <1>5 DEF FirstFiles

-----------------------------------------------------------------------------
(* How the file grows *)

\* From one state to another nothing sent is forgotten, and no attempt.
Keeps(s, r) ==
  \A b \in Batches, t \in Targets :
    /\ s.box[b][t].status = "sent" => r.box[b][t].status = "sent"
    /\ s.box[b][t].attempts <= r.box[b][t].attempts

\* Attempts are numbers.
LEMMA AttemptsType ==
  ASSUME NEW s \in State
  PROVE  \A b \in Batches, t \in Targets :
           s.box[b][t] \in Entry /\ s.box[b][t].attempts \in Nat
<1>1. \A b \in Batches, t \in Targets : s.box[b][t] \in Entry
  BY DEF State
<1> QED  BY <1>1, Constants DEF Entry

\* Keeps is reflexive.
LEMMA KeepsItself == ASSUME NEW s \in State PROVE Keeps(s, s)
BY AttemptsType DEF Keeps

\* load takes back no outcome and no attempt.
LEMMA LoadKeeps == ASSUME NEW s \in State PROVE Keeps(s, Load(s))
<1>1. \A b \in Batches, t \in Targets : Load(s).box[b][t] = Normalise(s.box[b][t])
  BY DEF Load
<1>2. ASSUME NEW b \in Batches, NEW t \in Targets
      PROVE  /\ s.box[b][t].status = "sent" => Load(s).box[b][t].status = "sent"
             /\ s.box[b][t].attempts <= Load(s).box[b][t].attempts
  <2>1. s.box[b][t].attempts \in Nat
    BY AttemptsType
  <2>2. CASE s.box[b][t].status = "failed" /\ s.box[b][t].attempts >= MaxAttempts
    <3>1. Load(s).box[b][t] = [status |-> "exhausted",
                               attempts |-> s.box[b][t].attempts, retryAt |-> Never]
      BY <1>1, <2>2 DEF Normalise
    <3> QED  BY <2>1, <2>2, <3>1
  <2>3. CASE ~(s.box[b][t].status = "failed" /\ s.box[b][t].attempts >= MaxAttempts)
    <3>1. Load(s).box[b][t] = s.box[b][t]
      BY <1>1, <2>3 DEF Normalise
    <3> QED  BY <2>1, <3>1
  <2> QED  BY <2>2, <2>3
<1> QED  BY <1>2 DEF Keeps

\* Keeps is transitive.
LEMMA KeepsIsTransitive ==
  ASSUME NEW r \in State, NEW s \in State, NEW u \in State, Keeps(r, s), Keeps(s, u)
  PROVE  Keeps(r, u)
BY AttemptsType DEF Keeps

\* The batches a check detects are added to what it found.
LEMMA DetectionsType ==
  ASSUME mem \in State, HasRoom(mem), UntriedIsNew(mem), NEW s \in Detections
  PROVE  s \in State /\ HasRoom(s) /\ UntriedIsNew(s) /\ Keeps(mem, s)
<1>1. CASE s = mem
  BY <1>1, KeepsItself
<1>2. ASSUME NEW g, NEW S \in SUBSET Targets, s = Insert(mem, g, S)
      PROVE  s \in State /\ HasRoom(s) /\ UntriedIsNew(s) /\ Keeps(mem, s)
  <2>1. Fresh \in Entry /\ Fresh.attempts = 0 /\ Fresh.status = "pending"
    BY Constants DEF Fresh, Entry, Status, Open, Never
  <2>2. \A b \in Batches, t \in Targets :
          \/ s.box[b][t] = mem.box[b][t]
          \/ s.box[b][t] = Fresh /\ mem.box[b][t].status = "absent"
    BY <1>2 DEF Insert, InOutbox, TargetsOf
  <2>3. \A b \in Batches, t \in Targets : s.box[b][t] \in Entry
    BY <2>1, <2>2, AttemptsType
  <2>4. s \in State
    <3>1. s.win \in [Targets -> ImageWindow]
      BY <1>2 DEF Insert, State
    <3>2. s.box \in [Batches -> [Targets -> Entry]]
      BY <1>2, <2>3 DEF Insert
    <3> QED  BY <1>2, <3>1, <3>2 DEF Insert, State
  <2>5. HasRoom(s) /\ UntriedIsNew(s)
    BY <2>1, <2>2, Constants DEF HasRoom, UntriedIsNew
  <2> QED
    <3> SUFFICES Keeps(mem, s)  BY <2>4, <2>5
    <3> SUFFICES ASSUME NEW b \in Batches, NEW t \in Targets
                 PROVE  /\ mem.box[b][t].status = "sent" => s.box[b][t].status = "sent"
                        /\ mem.box[b][t].attempts <= s.box[b][t].attempts
      BY DEF Keeps
    <3>1. mem.box[b][t].attempts \in Nat
      BY AttemptsType
    <3>2. mem.box[b][t].status = "absent" => mem.box[b][t].attempts = 0
      BY DEF UntriedIsNew
    <3> QED  BY <2>1, <2>2, <3>1, <3>2
<1> QED  BY <1>1, <1>2 DEF Detections

-----------------------------------------------------------------------------
(* The counters *)

\* A step that adds no attempt and no delivery, and either none is in flight
\* or the step is a fault, keeps the counters within their bounds.
LEMMA CountersKept ==
  ASSUME TypeOK, AcceptedCounted, TriedCounted,
         disk' \in State, Keeps(disk, disk'), faults' \in Nat,
         UNCHANGED <<tried, accepted>>,
         \/ pc \notin Flying /\ faults' >= faults
         \/ faults' = faults + 1
  PROVE  AcceptedCounted' /\ TriedCounted'
<1>1. ASSUME NEW b \in Batches, NEW t \in Targets
      PROVE  accepted'[b][t] <= faults' + One(disk'.box[b][t].status = "sent")
                                       + One(pc' \in Landed /\ Current(b, t)')
  <2>1. accepted[b][t] \in Nat /\ faults \in Nat
    BY DEF TypeOK
  <2>2. accepted[b][t] <= faults + One(disk.box[b][t].status = "sent")
                                + One(pc \in Landed /\ Current(b, t))
    BY DEF AcceptedCounted
  <2>3. disk.box[b][t].status = "sent" => disk'.box[b][t].status = "sent"
    BY DEF Keeps
  <2>4. pc \notin Flying => pc \notin Landed
    BY DEF Flying, Landed
  <2> QED  BY <2>1, <2>2, <2>3, <2>4 DEF One
<1>2. ASSUME NEW b \in Batches, NEW t \in Targets
      PROVE  tried'[b][t] <= faults' + disk'.box[b][t].attempts
                                    + One(pc' \in Flying /\ Current(b, t)')
  <2>1. /\ tried[b][t] \in Nat /\ faults \in Nat
        /\ disk.box[b][t].attempts \in Nat /\ disk'.box[b][t].attempts \in Nat
    BY AttemptsType DEF TypeOK
  <2>2. tried[b][t] <= faults + disk.box[b][t].attempts
                             + One(pc \in Flying /\ Current(b, t))
    BY DEF TriedCounted
  <2>3. disk.box[b][t].attempts <= disk'.box[b][t].attempts
    BY DEF Keeps
  <2> QED  BY <2>1, <2>2, <2>3 DEF One
<1> QED  BY <1>1, <1>2 DEF AcceptedCounted, TriedCounted

\* A step within the pass that touches neither the file nor the counters.
LEMMA QuietStep ==
  ASSUME Inductive, TypeOK', UNCHANGED <<disk, mem, faults, tried, accepted>>,
         pc # "idle", pc \notin Flying, EligibleIsOpen'
  PROVE  Inductive'
<1>1. AcceptedCounted' /\ TriedCounted'
  BY CountersKept, KeepsItself DEF Inductive, TypeOK
<1>2. CopyIsFile' /\ UntriedIsNew(disk)' /\ HasRoom(mem)'
  BY DEF Inductive, CopyIsFile, UntriedIsNew, HasRoom
<1> QED  BY <1>1, <1>2 DEF Inductive

\* The operation ends, in a fault or with nothing in flight.
LEMMA LeaveStep ==
  ASSUME Inductive, Leave, disk' \in State, Keeps(disk, disk'), UntriedIsNew(disk'),
         faults' \in Nat, alarm' \in Nat, saveOk' \in BOOLEAN,
         UNCHANGED <<clock, lag, sends>>,
         \/ pc \notin Flying /\ faults' >= faults
         \/ faults' = faults + 1
  PROVE  Inductive'
<1>1. TypeOK'
  BY DEF Inductive, TypeOK, Leave, Never, Places, sends, Flying, Landed
<1>2. AcceptedCounted' /\ TriedCounted'
  BY CountersKept DEF Inductive, sends
<1>3. pc' = "idle" /\ elig' = {}
  BY DEF Leave
<1>4. CopyIsFile' /\ EligibleIsOpen' /\ UntriedIsNew(disk)'
  BY <1>3 DEF CopyIsFile, EligibleIsOpen, InBatch, UntriedIsNew, Flying, Landed
<1> QED  BY <1>1, <1>2, <1>3, <1>4 DEF Inductive

\* An operation that raises: its last save failed.
LEMMA AbortStep ==
  ASSUME Inductive, Abort, NEW s \in State, Keeps(disk, s), UntriedIsNew(s),
         SaveFails(s), UNCHANGED <<clock, lag, sends>>
  PROVE  Inductive'
<1>0. faults \in Nat
  BY DEF Inductive, TypeOK
<1>1. /\ faults' = faults + 1 /\ faults' \in Nat
      /\ saveOk' = FALSE
  BY <1>0 DEF SaveFails
<1>2. disk' \in State /\ Keeps(disk, disk') /\ UntriedIsNew(disk')
  BY KeepsItself DEF SaveFails, Inductive, TypeOK
<1>3. alarm' \in Nat
  BY Constants DEF Abort, Inductive, TypeOK
<1>4. Leave
  BY DEF Abort
<1> QED  BY <1>1, <1>2, <1>3, <1>4, LeaveStep

\* A pass begins on a state that has just been read or saved.
LEMMA BeginStep ==
  ASSUME Inductive, pc \notin Flying, NEW op \in {"drain", "check1", "check2"},
         NEW s \in State, HasRoom(s), BeginPass(op, s),
         disk' \in State, Keeps(disk, disk'), UntriedIsNew(disk'), Load(disk') = s,
         faults' = faults, alarm' \in Nat, saveOk' \in BOOLEAN, overdue' \in BOOLEAN,
         UNCHANGED <<clock, lag, sends>>
  PROVE  Inductive'
<1>1. TypeOK'
  BY DEF Inductive, TypeOK, BeginPass, Never, Places, sends, InOutbox, Flying,
         Landed
<1>2. AcceptedCounted' /\ TriedCounted'
  BY CountersKept DEF Inductive, sends, TypeOK
<1>3. pc' = "visit" /\ elig' = {} /\ mem' = s
  BY DEF BeginPass
<1>4. CopyIsFile' /\ EligibleIsOpen' /\ UntriedIsNew(disk)' /\ HasRoom(mem)'
  BY <1>3 DEF CopyIsFile, EligibleIsOpen, InBatch, UntriedIsNew, HasRoom, Flying,
              Landed
<1> QED  BY <1>1, <1>2, <1>4 DEF Inductive

-----------------------------------------------------------------------------
(* The actions *)

\* A reader of the file that an operation saved gets what was saved.
LEMMA CopyFacts ==
  ASSUME Inductive
  PROVE  /\ disk \in State /\ mem \in State
         /\ UntriedIsNew(disk)
         /\ Load(disk) \in State /\ HasRoom(Load(disk)) /\ UntriedIsNew(Load(disk))
         /\ Keeps(disk, Load(disk))
         /\ Load(Load(disk)) = Load(disk)
         /\ pc # "idle" => /\ mem = Load(disk) /\ HasRoom(mem) /\ UntriedIsNew(mem)
                           /\ Keeps(disk, mem) /\ Load(mem) = mem
<1>1. disk \in State /\ mem \in State /\ UntriedIsNew(disk)
  BY DEF Inductive, TypeOK
<1>2. Load(disk) \in State /\ HasRoom(Load(disk)) /\ UntriedIsNew(Load(disk))
  BY <1>1, LoadType
<1>3. Keeps(disk, Load(disk)) /\ Load(Load(disk)) = Load(disk)
  BY <1>1, <1>2, LoadKeeps, LoadIdentity
<1>4. pc # "idle" => mem = Load(disk)
  BY DEF Inductive, CopyIsFile
<1> QED  BY <1>1, <1>2, <1>3, <1>4

\* A drain begins its pass with what it loads.
LEMMA StartDrainStep == ASSUME Inductive, StartDrain PROVE Inductive'
<1>1. /\ pc \notin Flying
      /\ BeginPass("drain", Load(disk))
      /\ disk' = disk /\ faults' = faults /\ alarm' = alarm /\ saveOk' = saveOk
      /\ UNCHANGED <<clock, lag, sends>>
  BY DEF StartDrain, Flying, Landed
<1>2. overdue' \in BOOLEAN
  BY DEF StartDrain
<1>3. alarm' \in Nat /\ saveOk' \in BOOLEAN
  BY <1>1 DEF Inductive, TypeOK
<1> QED  BY <1>1, <1>2, <1>3, CopyFacts, KeepsItself, BeginStep

\* A check begins with what it loads, if it can write it back.
LEMMA StartCheckStep == ASSUME Inductive, StartCheck PROVE Inductive'
<1>1. CASE SaveSucceeds(Load(disk)) /\ BeginPass("check1", Load(disk))
           /\ UNCHANGED <<alarm, overdue>>
  <2>1. /\ pc \notin Flying
        /\ disk' = Load(disk) /\ faults' = faults
        /\ UNCHANGED <<clock, lag, sends>>
    BY <1>1 DEF StartCheck, SaveSucceeds, Flying, Landed
  <2>2. saveOk' = TRUE
    BY <1>1 DEF SaveSucceeds
  <2>3. alarm' \in Nat /\ overdue' \in BOOLEAN
    BY <1>1 DEF Inductive, TypeOK
  <2> QED  BY <1>1, <2>1, <2>2, <2>3, CopyFacts, BeginStep
<1>2. CASE SaveFails(Load(disk)) /\ Abort
  BY <1>2, CopyFacts, AbortStep DEF StartCheck
<1> QED  BY <1>1, <1>2 DEF StartCheck

\* The pass goes on to its next batch.
LEMMA NextBatchStep == ASSUME Inductive, NextBatch PROVE Inductive'
<1>1. PICK b \in todo : cur' = b /\ todo' = todo \ {b} /\ left' = TargetsOf(mem, b)
  BY DEF NextBatch
<1>2. b \in Batches /\ b \in Nat
  BY Constants DEF Inductive, TypeOK
<1>3. elig' = {} /\ pc' = "look"
  BY DEF NextBatch, Inductive, EligibleIsOpen, InBatch, Flying, Landed
<1>4. TypeOK'
  BY <1>1, <1>2, <1>3 DEF Inductive, TypeOK, NextBatch, Places, sends, TargetsOf,
                          Flying, Landed
<1>5. EligibleIsOpen'
  BY <1>1, <1>2, <1>3 DEF EligibleIsOpen, InBatch, Flying, Landed
<1> QED  BY <1>4, <1>5, QuietStep DEF NextBatch, Flying, sends, Landed

\* What the four ways to deal with a target have in common.
LEMMA LookStep ==
  ASSUME Inductive, NEW t \in Targets,
         pc \in {"look", "sleep"}, First(left, t),
         UNCHANGED <<disk, mem, clock, alarm, job, todo, cur, begun, faults, lag,
                     sends, saveOk, overdue>>,
         now' \in Nat, wake' \in Nat, waited' \subseteq Targets,
         blocked' = blocked \/ blocked' = Block(t),
         \/ Looked(t, elig)
         \/ Looked(t, elig \cup {t}) /\ IsOpen(t)
         \/ pc' = "sleep" /\ IsOpen(t) /\ UNCHANGED <<left, elig>>
  PROVE  Inductive'
<1>1. cur \in Batches /\ \A u \in elig : IsOpen(u)
  BY DEF Inductive, EligibleIsOpen, InBatch, Flying, Landed
<1>2. Block(t) \subseteq {GroupOf[b] : b \in Batches} \X Targets
  BY <1>1 DEF Block, Inductive, TypeOK
<1>3. /\ pc' \in {"look", "sleep", "send", "visit"}
      /\ left' \subseteq left /\ elig' \subseteq elig \cup {t}
  BY DEF Looked
<1>4. TypeOK'
  BY <1>1, <1>2, <1>3 DEF Inductive, TypeOK, Places, sends, Flying, Landed
<1>5. \A u \in elig' : IsOpen(u)
  BY <1>1 DEF Looked
<1>6. pc' = "visit" => elig' = {}
  BY DEF Looked
<1>7. \A u \in left' : pc' = "sleep" /\ First(left', u) => IsOpen(u)
  <2> SUFFICES ASSUME pc' = "sleep", NEW u \in left', First(left', u) PROVE IsOpen(u)
    OBVIOUS
  <2>1. left' = left /\ IsOpen(t)
    BY DEF Looked
  <2>2. u \in Nat /\ t \in Nat
    BY <2>1, Constants DEF Inductive, TypeOK
  <2>3. u = t
    BY <2>1, <2>2 DEF First
  <2> QED  BY <2>1, <2>3
<1>8. EligibleIsOpen'
  BY <1>1, <1>3, <1>5, <1>6, <1>7 DEF EligibleIsOpen, InBatch, IsOpen, First,
                                      Flying, Landed
<1> QED  BY <1>4, <1>8, QuietStep DEF Flying, sends, Landed

\* The steps that decide what is due, and the wait for the gap.
LEMMA LookingStep ==
  ASSUME Inductive, NEW t \in Targets,
         Skip(t) \/ Defer(t) \/ Admit(t) \/ AwaitGap(t) \/ GapOver(t)
  PROVE  Inductive'
<1>1. /\ now \in Nat /\ wake \in Nat /\ waited \subseteq Targets /\ clock \in Nat
      /\ mem \in State
  BY DEF Inductive, TypeOK
<1>2. CASE Skip(t)
  BY <1>1, <1>2, LookStep DEF Skip, Look
<1>3. CASE Defer(t)
  BY <1>1, <1>3, LookStep DEF Defer, Look
<1>4. CASE Admit(t)
  BY <1>1, <1>4, LookStep DEF Admit, Look
<1>5. CASE AwaitGap(t)
  <2>1. mem.win[t].last \in Nat
    BY <1>1 DEF State, ImageWindow
  <2>2. GapEnd(mem.win[t]) \in Nat
    BY <2>1, Constants DEF GapEnd, Never
  <2>3. GapEnd(mem.win[t]) > now
    BY <1>5 DEF AwaitGap, GapOpen
  <2>4. wake' \in Nat
    BY <1>1, <1>5, <2>2, <2>3 DEF AwaitGap
  <2> QED  BY <1>1, <1>5, <2>4, LookStep DEF AwaitGap, Look
<1>6. CASE GapOver(t)
  <2>1. IsOpen(t)
    BY <1>6 DEF GapOver, First, Inductive, EligibleIsOpen
  <2> QED  BY <1>1, <1>6, <2>1, LookStep DEF GapOver, Never
<1> QED  BY <1>2, <1>3, <1>4, <1>5, <1>6

\* What holds of the target whose turn it is.
LEMMA TurnFacts ==
  ASSUME Inductive, NEW t \in Targets, First(elig, t), pc \in {"send"} \cup Flying
  PROVE  /\ pc # "idle" /\ InBatch
         /\ cur \in Batches /\ IsOpen(t)
         /\ mem.box[cur][t] \in Entry
         /\ mem.box[cur][t].attempts \in Nat /\ mem.box[cur][t].attempts < MaxAttempts
         /\ \A b \in Batches, u \in Targets : Current(b, u) <=> b = cur /\ u = t
<1>1. pc # "idle" /\ InBatch /\ t \in elig
  BY DEF InBatch, Flying, First, Landed
<1>2. cur \in Batches /\ IsOpen(t) /\ HasRoom(mem) /\ mem \in State
  BY <1>1 DEF Inductive, EligibleIsOpen, TypeOK
<1>3. mem.box[cur][t] \in Entry /\ mem.box[cur][t].attempts \in Nat
  BY <1>2, AttemptsType
<1>4. mem.box[cur][t].attempts < MaxAttempts
  BY <1>2 DEF IsOpen, HasRoom
<1>5. ASSUME NEW b \in Batches, NEW u \in Targets
      PROVE  Current(b, u) <=> b = cur /\ u = t
  <2>1. u \in Nat /\ t \in Nat
    BY Constants
  <2> QED  BY <2>1 DEF Current, First
<1> QED  BY <1>1, <1>2, <1>3, <1>4, <1>5

\* What the reservation of an image slot leaves of the state.
LEMMA ReserveFacts ==
  ASSUME Inductive, pc # "idle", NEW t \in Targets
  PROVE  /\ Reserve(t) \in State /\ Reserve(t).box = mem.box
         /\ HasRoom(Reserve(t)) /\ UntriedIsNew(Reserve(t)) /\ Keeps(disk, Reserve(t))
         /\ Load(Reserve(t)) = Reserve(t)
<1>1. ReserveSlot(mem.win[t], clock) \in ImageWindow
  BY ReserveType, CopyFacts DEF State, Inductive, TypeOK
<1>2. Reserve(t) \in State /\ Reserve(t).box = mem.box
  BY <1>1, CopyFacts, WithWindowType DEF Reserve
<1>3. HasRoom(Reserve(t)) /\ UntriedIsNew(Reserve(t)) /\ Keeps(disk, Reserve(t))
  BY <1>2, CopyFacts DEF HasRoom, UntriedIsNew, Keeps
<1> QED  BY <1>2, <1>3, LoadIdentity

\* An attempt begins; the slot of a card is saved first.
LEMMA AttemptStep ==
  ASSUME Inductive, NEW t \in Targets, Attempt(t)
  PROVE  Inductive'
<1>1. pc = "send" /\ First(elig, t) /\ pc' \in Flying \ Landed /\ mem' = Reserve(t)
  BY DEF Attempt, Flying, Landed
<1>2. pc # "idle" /\ cur \in Batches /\ IsOpen(t)
      /\ mem.box[cur][t].attempts \in Nat
      /\ \A b \in Batches, u \in Targets : Current(b, u) <=> b = cur /\ u = t
  BY <1>1, TurnFacts
<1>3. /\ disk' \in State /\ Keeps(disk, disk') /\ UntriedIsNew(disk')
      /\ Load(disk') = mem' /\ mem' \in State /\ HasRoom(mem')
      /\ faults' = faults
  <2>1. CASE IsImage(cur)
    BY <1>1, <1>2, <2>1, ReserveFacts DEF Attempt, SaveSucceeds
  <2>2. CASE ~IsImage(cur)
    <3>1. mem' = mem /\ disk' = disk /\ faults' = faults
      BY <1>1, <2>2 DEF Attempt, Reserve
    <3> QED  BY <1>2, <3>1, CopyFacts, KeepsItself
  <2> QED  BY <2>1, <2>2
<1>4. saveOk' \in BOOLEAN
  BY DEF Attempt, SaveSucceeds, Inductive, TypeOK
<1>5. tried' \in [Batches -> [Targets -> Nat]]
  BY <1>2 DEF Attempt, Inductive, TypeOK
<1>6. imgLog' \in [Targets -> Seq(Nat)]
  <2>1. imgLog \in [Targets -> Seq(Nat)] /\ clock \in Nat
    BY DEF Inductive, TypeOK
  <2>2. Append(imgLog[t], clock) \in Seq(Nat)
    BY <2>1
  <2> QED  BY <2>1, <2>2 DEF Attempt
<1>7. TypeOK'
  BY <1>1, <1>3, <1>4, <1>5, <1>6 DEF Attempt, Inductive, TypeOK, Places, Flying,
                                      Landed
<1>8. EligibleIsOpen'
  <2>1. mem'.box = mem.box
    BY <1>1, <1>2, ReserveFacts
  <2>2. \A u \in elig : IsOpen(u)
    BY <1>1 DEF Inductive, EligibleIsOpen, InBatch, Flying, Landed
  <2> QED  BY <1>1, <1>2, <2>1, <2>2 DEF Attempt, EligibleIsOpen, InBatch,
                                         IsOpen, Flying, Landed
<1>9. AcceptedCounted'
  <2> SUFFICES ASSUME NEW b \in Batches, NEW u \in Targets
               PROVE  accepted'[b][u] <= faults' + One(disk'.box[b][u].status = "sent")
                                                + One(pc' \in Landed /\ Current(b, u)')
    BY DEF AcceptedCounted
  <2>1. accepted[b][u] \in Nat /\ faults \in Nat
    BY DEF Inductive, TypeOK
  <2>2. accepted[b][u] <= faults + One(disk.box[b][u].status = "sent")
                                + One(pc \in Landed /\ Current(b, u))
    BY DEF Inductive, AcceptedCounted
  <2>3. accepted' = accepted /\ pc \notin Landed
    BY <1>1 DEF Attempt, Landed
  <2>4. disk.box[b][u].status = "sent" => disk'.box[b][u].status = "sent"
    BY <1>3 DEF Keeps
  <2> QED  BY <1>3, <2>1, <2>2, <2>3, <2>4 DEF One
<1>10. TriedCounted'
  <2> SUFFICES ASSUME NEW b \in Batches, NEW u \in Targets
               PROVE  tried'[b][u] <= faults' + disk'.box[b][u].attempts
                                             + One(pc' \in Flying /\ Current(b, u)')
    BY DEF TriedCounted
  <2>1. /\ tried \in [Batches -> [Targets -> Nat]] /\ faults \in Nat
        /\ disk.box[b][u].attempts \in Nat /\ disk'.box[b][u].attempts \in Nat
    BY <1>3, AttemptsType DEF Inductive, TypeOK
  <2>2. tried[b][u] <= faults + disk.box[b][u].attempts
    BY <1>1, <2>1 DEF Inductive, TriedCounted, Flying, One, Landed
  <2>3. disk.box[b][u].attempts <= disk'.box[b][u].attempts
    BY <1>3 DEF Keeps
  <2>4. Current(b, u)' <=> Current(b, u)
    BY DEF Attempt, Current, First
  <2>5. pc' \in Flying
    BY <1>1 DEF Flying, Landed
  <2>6. tried'[b][u] = IF Current(b, u) THEN tried[b][u] + 1 ELSE tried[b][u]
    BY <1>2, <2>1 DEF Attempt
  <2>7. tried[b][u] \in Nat
    BY <2>1
  <2> QED  BY <1>3, <2>1, <2>2, <2>3, <2>4, <2>5, <2>6, <2>7 DEF One
<1>11. CopyIsFile' /\ UntriedIsNew(disk)' /\ HasRoom(mem)'
  BY <1>3 DEF CopyIsFile, UntriedIsNew, HasRoom
<1> QED  BY <1>7, <1>8, <1>9, <1>10, <1>11 DEF Inductive

\* The save of the reservation raises and the job ends.
LEMMA ReserveFailsStep ==
  ASSUME Inductive, NEW t \in Targets, ReserveFails(t)
  PROVE  Inductive'
<1>1. pc # "idle"
  BY DEF ReserveFails
<1> QED  BY <1>1, ReserveFacts, AbortStep DEF ReserveFails

\* The platform takes the message.
LEMMA TakeStep ==
  ASSUME Inductive, NEW t \in Targets, Take(t)
  PROVE  Inductive'
<1>1. pc \in Flying \ Landed /\ pc' \in Landed /\ First(elig, t)
      /\ UNCHANGED <<disk, mem, clock, alarm, job, pass, faults, lag, tried, imgLog,
                     saveOk, overdue>>
  BY DEF Take, Flying, Landed
<1>2. cur \in Batches
      /\ \A b \in Batches, u \in Targets : Current(b, u) <=> b = cur /\ u = t
  BY <1>1, TurnFacts DEF Flying, Landed
<1>3. accepted' \in [Batches -> [Targets -> Nat]]
  BY <1>2 DEF Take, Inductive, TypeOK
<1>4. TypeOK'
  BY <1>1, <1>3 DEF Inductive, TypeOK, pass, Places, Flying, Landed
<1>5. EligibleIsOpen' /\ CopyIsFile' /\ UntriedIsNew(disk)' /\ HasRoom(mem)'
  BY <1>1 DEF Inductive, EligibleIsOpen, InBatch, IsOpen, CopyIsFile,
              UntriedIsNew, HasRoom, pass, Flying, Landed
<1>6. AcceptedCounted'
  <2> SUFFICES ASSUME NEW b \in Batches, NEW u \in Targets
               PROVE  accepted'[b][u] <= faults' + One(disk'.box[b][u].status = "sent")
                                                + One(pc' \in Landed /\ Current(b, u)')
    BY DEF AcceptedCounted
  <2>1. accepted \in [Batches -> [Targets -> Nat]] /\ faults \in Nat
    BY DEF Inductive, TypeOK
  <2>2. accepted[b][u] <= faults + One(disk.box[b][u].status = "sent")
    BY <1>1, <2>1 DEF Inductive, AcceptedCounted, One
  <2>3. Current(b, u)' <=> Current(b, u)
    BY <1>1 DEF Current, First, pass
  <2>4. accepted'[b][u] = IF Current(b, u) THEN accepted[b][u] + 1 ELSE accepted[b][u]
    BY <1>2, <2>1 DEF Take
  <2>5. accepted[b][u] \in Nat
    BY <2>1
  <2> QED  BY <1>1, <2>1, <2>2, <2>3, <2>4, <2>5 DEF One
<1>7. TriedCounted'
  BY <1>1 DEF Inductive, TriedCounted, Flying, Current, First, pass, Landed
<1> QED  BY <1>4, <1>5, <1>6, <1>7 DEF Inductive

\* A step from one place of a send in flight to another, with no delivery.
LEMMA FlightStep ==
  ASSUME Inductive, pc \in Flying, pc' \in Flying \ Landed,
         \/ faults' = faults /\ pc \notin Landed
         \/ faults' = faults + 1,
         UNCHANGED <<disk, mem, clock, alarm, job, pass, lag, sends, saveOk, overdue>>
  PROVE  Inductive'
<1>1. UNCHANGED <<disk, mem, clock, alarm, job, pass, lag, sends, saveOk, overdue>>
  OBVIOUS
<1>2. TypeOK'
  BY <1>1 DEF Inductive, TypeOK, pass, sends, Places, Flying, Landed
<1>3. EligibleIsOpen' /\ CopyIsFile' /\ UntriedIsNew(disk)' /\ HasRoom(mem)'
  BY <1>1 DEF Inductive, EligibleIsOpen, InBatch, IsOpen, CopyIsFile,
              UntriedIsNew, HasRoom, pass, Flying, Landed
<1>4. CASE faults' = faults + 1
  <2>1. AcceptedCounted' /\ TriedCounted'
    BY <1>1, <1>2, <1>4, KeepsItself, CountersKept DEF Inductive, TypeOK, sends
  <2> QED  BY <1>2, <1>3, <2>1 DEF Inductive
<1>5. CASE faults' = faults /\ pc \notin Landed
  <2>1. AcceptedCounted'
    BY <1>1, <1>5 DEF Inductive, AcceptedCounted, One, sends
  <2>2. TriedCounted'
    BY <1>1, <1>5 DEF Inductive, TriedCounted, Current, First, pass, sends
  <2> QED  BY <1>2, <1>3, <2>1, <2>2 DEF Inductive
<1> QED  BY <1>4, <1>5

\* The platform has the message and the call raises all the same.
LEMMA LateErrorStep == ASSUME Inductive, LateError PROVE Inductive'
BY FlightStep DEF LateError, Flying, Landed

\* There is no card, or it is refused, and the text follows.
LEMMA FallBackStep == ASSUME Inductive, FallBack PROVE Inductive'
BY FlightStep DEF FallBack, Flying, Landed

\* The outcome of a send, written over an open target with its attempt added.
LEMMA RecordStep ==
  ASSUME Inductive, NEW t \in Targets, NEW e \in Entry, Record(t, e),
         pc \in Flying,
         e.attempts = mem.box[cur][t].attempts + 1,
         \/ e.status \in {"sent", "exhausted"}
         \/ e.status = "failed" /\ e.attempts < MaxAttempts,
         pc \in Landed => e.status = "sent"
  PROVE  Inductive'
<1> DEFINE s == WithEntry(mem, cur, t, e)
<1>1. First(elig, t)
  BY DEF Record
<1>2. /\ pc # "idle" /\ cur \in Batches /\ IsOpen(t)
      /\ mem.box[cur][t].attempts \in Nat
      /\ \A b \in Batches, u \in Targets : Current(b, u) <=> b = cur /\ u = t
  BY <1>1, TurnFacts
<1>3. /\ s \in State /\ s.box[cur][t] = e
      /\ \A b \in Batches, u \in Targets :
           b # cur \/ u # t => s.box[b][u] = mem.box[b][u]
  BY <1>2, CopyFacts, WithEntryType
<1>4. HasRoom(s) /\ UntriedIsNew(s)
  BY <1>2, <1>3, CopyFacts DEF HasRoom, UntriedIsNew, Open
<1>5. Keeps(mem, s)
  <2> SUFFICES ASSUME NEW b \in Batches, NEW u \in Targets
               PROVE  /\ mem.box[b][u].status = "sent" => s.box[b][u].status = "sent"
                      /\ mem.box[b][u].attempts <= s.box[b][u].attempts
    BY DEF Keeps
  <2>1. mem.box[b][u].attempts \in Nat
    BY CopyFacts, AttemptsType
  <2> QED  BY <1>2, <1>3, <2>1 DEF IsOpen, Open
<1>6. Keeps(disk, s) /\ Load(s) = s
  BY <1>2, <1>3, <1>4, <1>5, CopyFacts, KeepsIsTransitive, LoadIdentity
<1>7. CASE SaveFails(s) /\ Abort
  BY <1>3, <1>4, <1>6, <1>7, AbortStep DEF Record
<1>8. CASE /\ SaveSucceeds(s)
           /\ mem' = s /\ elig' = elig \ {t}
           /\ pc' = IF elig \ {t} = {} THEN "visit" ELSE "send"
           /\ begun' = Never
           /\ blocked' = IF e.status = "failed" THEN Block(t) ELSE blocked
           /\ UNCHANGED <<alarm, job, now, todo, cur, left, waited, wake, overdue>>
  <2>1. /\ disk' = s /\ saveOk' = TRUE /\ faults' = faults
        /\ UNCHANGED <<clock, lag, sends>>
    BY <1>8 DEF SaveSucceeds, Record
  <2>2. blocked' \subseteq {GroupOf[b] : b \in Batches} \X Targets
    BY <1>2, <1>8 DEF Block, Inductive, TypeOK
  <2>3. TypeOK'
    BY <1>3, <1>8, <2>1, <2>2 DEF Inductive, TypeOK, Places, Never, sends,
                                  Flying, Landed
  <2>4. EligibleIsOpen'
    <3>1. \A u \in elig' : mem'.box[cur][u] = mem.box[cur][u] /\ IsOpen(u)
      BY <1>2, <1>3, <1>8 DEF Inductive, TypeOK, EligibleIsOpen, InBatch, Flying,
                              Landed
    <3> QED  BY <1>2, <1>8, <3>1 DEF EligibleIsOpen, InBatch, IsOpen, Flying,
                                     Landed
  <2>5. AcceptedCounted'
    <3> SUFFICES ASSUME NEW b \in Batches, NEW u \in Targets
                 PROVE  accepted'[b][u] <= faults' + One(disk'.box[b][u].status = "sent")
                                                  + One(pc' \in Landed /\ Current(b, u)')
      BY DEF AcceptedCounted
    <3>1. accepted[b][u] \in Nat /\ faults \in Nat
      BY DEF Inductive, TypeOK
    <3>2. accepted[b][u] <= faults + One(disk.box[b][u].status = "sent")
                                  + One(pc \in Landed /\ Current(b, u))
      BY DEF Inductive, AcceptedCounted
    <3>3. disk.box[b][u].status = "sent" => s.box[b][u].status = "sent"
      BY <1>6 DEF Keeps
    <3>4. CASE pc \in Landed /\ Current(b, u)
      <4>1. disk.box[b][u].status # "sent"
        BY <1>2, <3>4, CopyFacts DEF Keeps, IsOpen, Open
      <4>2. s.box[b][u].status = "sent"
        BY <1>2, <1>3, <3>4
      <4> QED  BY <2>1, <3>1, <3>2, <4>1, <4>2 DEF One, sends
    <3>5. CASE ~(pc \in Landed /\ Current(b, u))
      BY <2>1, <3>1, <3>2, <3>3, <3>5 DEF One, sends
    <3> QED  BY <3>4, <3>5
  <2>6. TriedCounted'
    <3> SUFFICES ASSUME NEW b \in Batches, NEW u \in Targets
                 PROVE  tried'[b][u] <= faults' + disk'.box[b][u].attempts
                                               + One(pc' \in Flying /\ Current(b, u)')
      BY DEF TriedCounted
    <3>1. /\ tried[b][u] \in Nat /\ faults \in Nat
          /\ disk.box[b][u].attempts \in Nat /\ s.box[b][u].attempts \in Nat
          /\ mem.box[b][u].attempts \in Nat
      BY <1>3, CopyFacts, AttemptsType DEF Inductive, TypeOK
    <3>2. tried[b][u] <= faults + disk.box[b][u].attempts
                               + One(pc \in Flying /\ Current(b, u))
      BY DEF Inductive, TriedCounted
    <3>3. disk.box[b][u].attempts <= mem.box[b][u].attempts
      BY <1>2, CopyFacts DEF Keeps
    <3>4. CASE Current(b, u)
      <4>1. s.box[b][u].attempts = mem.box[b][u].attempts + 1
        BY <1>2, <1>3, <3>4
      <4> QED  BY <2>1, <3>1, <3>2, <3>3, <4>1 DEF One, sends
    <3>5. CASE ~Current(b, u)
      <4>1. s.box[b][u].attempts = mem.box[b][u].attempts
        BY <1>2, <1>3, <3>5
      <4> QED  BY <2>1, <3>1, <3>2, <3>3, <3>5, <4>1 DEF One, sends
    <3> QED  BY <3>4, <3>5
  <2>7. CopyIsFile' /\ UntriedIsNew(disk)' /\ HasRoom(mem)'
    BY <1>4, <1>6, <1>8, <2>1 DEF CopyIsFile, UntriedIsNew, HasRoom
  <2> QED  BY <2>3, <2>4, <2>5, <2>6, <2>7 DEF Inductive
<1> QED  BY <1>7, <1>8 DEF Record

\* What is recorded of a delivery ...
LEMMA SucceedEntry ==
  ASSUME Inductive, NEW t \in Targets, Succeed(t)
  PROVE  LET e == AfterSuccess(mem.box[cur][t]) IN
         /\ e \in Entry /\ e.attempts = mem.box[cur][t].attempts + 1
         /\ e.status = "sent"
<1>1. pc \in Landed /\ First(elig, t)
  BY DEF Succeed, Record
<1>2. mem.box[cur][t].attempts \in Nat /\ mem.box[cur][t].attempts < MaxAttempts
  BY <1>1, TurnFacts DEF Flying, Landed
<1> QED  BY <1>2, Constants DEF AfterSuccess, Entry, Status, Final, Never

\* ... and of a failure.
LEMMA FailEntry ==
  ASSUME Inductive, NEW t \in Targets, Fail(t)
  PROVE  LET e == AfterFailure(mem.box[cur][t]) IN
         /\ e \in Entry /\ e.attempts = mem.box[cur][t].attempts + 1
         /\ \/ e.status = "exhausted"
            \/ e.status = "failed" /\ e.attempts < MaxAttempts
<1> DEFINE e == AfterFailure(mem.box[cur][t])
<1>1. pc \in {"text", "lost"} /\ First(elig, t)
  BY DEF Fail, Record
<1>2. mem.box[cur][t].attempts \in Nat /\ mem.box[cur][t].attempts < MaxAttempts
  BY <1>1, TurnFacts DEF Flying, Landed
<1>3. begun + Backoff(mem.box[cur][t].attempts + 1) \in Nat
  <2>1. begun \in Nat
    BY DEF Inductive, TypeOK
  <2>2. mem.box[cur][t].attempts + 1 \in Nat
    BY <1>2
  <2>3. Backoff(mem.box[cur][t].attempts + 1) \in Nat
    BY <2>2, BackoffType
  <2> QED  BY <2>1, <2>3
<1>4. CASE mem.box[cur][t].attempts + 1 >= MaxAttempts
  <2>1. e = [status |-> "exhausted", attempts |-> mem.box[cur][t].attempts + 1,
             retryAt |-> Never]
    BY <1>4 DEF AfterFailure
  <2> QED  BY <1>2, <1>4, <2>1, Constants DEF Entry, Status, Final, Never
<1>5. CASE ~(mem.box[cur][t].attempts + 1 >= MaxAttempts)
  <2>1. e = [status |-> "failed", attempts |-> mem.box[cur][t].attempts + 1,
             retryAt |-> begun + Backoff(mem.box[cur][t].attempts + 1)]
    BY <1>5 DEF AfterFailure
  <2> QED  BY <1>2, <1>3, <1>5, <2>1, Constants DEF Entry, Status, Open
<1> QED  BY <1>4, <1>5

\* A delivery is recorded.
LEMMA SucceedStep ==
  ASSUME Inductive, NEW t \in Targets, Succeed(t)
  PROVE  Inductive'
<1> DEFINE e == AfterSuccess(mem.box[cur][t])
<1>1. pc \in Landed /\ Record(t, e) /\ First(elig, t)
  BY DEF Succeed, Record
<1>2. e \in Entry /\ e.attempts = mem.box[cur][t].attempts + 1 /\ e.status = "sent"
  BY SucceedEntry
<1>3. pc \in Flying
  BY <1>1 DEF Flying, Landed
<1> HIDE DEF e
<1> QED  BY <1>1, <1>2, <1>3, RecordStep

\* A failure is recorded.
LEMMA FailStep ==
  ASSUME Inductive, NEW t \in Targets, Fail(t)
  PROVE  Inductive'
<1> DEFINE e == AfterFailure(mem.box[cur][t])
<1>1. pc \in {"text", "lost"} /\ Record(t, e) /\ First(elig, t)
  BY DEF Fail, Record
<1>2. /\ e \in Entry /\ e.attempts = mem.box[cur][t].attempts + 1
      /\ \/ e.status = "exhausted"
         \/ e.status = "failed" /\ e.attempts < MaxAttempts
  BY FailEntry
<1>3. pc \in Flying /\ pc \notin Landed
  BY <1>1 DEF Flying, Landed
<1> HIDE DEF e
<1> QED  BY <1>1, <1>2, <1>3, RecordStep

\* A drain ends.
LEMMA EndDrainStep == ASSUME Inductive, EndDrain PROVE Inductive'
<1>1. /\ pc = "visit" /\ Leave /\ alarm' = NextDue(Load(disk), clock)
      /\ UNCHANGED <<disk, clock, faults, lag, sends, saveOk>>
  BY DEF EndDrain, PassOver
<1>2. /\ disk \in State /\ UntriedIsNew(disk) /\ Keeps(disk, disk)
      /\ clock \in Nat /\ faults \in Nat /\ saveOk \in BOOLEAN
  BY KeepsItself DEF Inductive, TypeOK
<1>3. alarm' \in Nat
  BY <1>1, <1>2, LoadType, NextDueType
<1> QED  BY <1>1, <1>2, <1>3, LeaveStep DEF Flying, Landed

\* A check goes on to detection.
LEMMA StartDetectStep == ASSUME Inductive, StartDetect PROVE Inductive'
<1>1. /\ pc = "visit" /\ pc' = "detect"
      /\ UNCHANGED <<disk, mem, clock, alarm, job, pass, faults, lag, sends, saveOk,
                     overdue>>
  BY DEF StartDetect, PassOver
<1>2. TypeOK'
  BY <1>1 DEF Inductive, TypeOK, pass, sends, Places, Flying, Landed
<1>3. EligibleIsOpen'
  BY <1>1 DEF Inductive, EligibleIsOpen, InBatch, pass, Flying, Landed
<1> QED  BY <1>1, <1>2, <1>3, QuietStep DEF Flying, sends, Landed

\* New batches are saved.
LEMMA DetectStep == ASSUME Inductive, Detect PROVE Inductive'
<1>1. pc = "detect" /\ UNCHANGED <<clock, lag, sends>>
  BY DEF Detect
<1>2. PICK s \in Detections :
        \/ /\ SaveSucceeds(s)
           /\ BeginPass("check2", s)
           /\ UNCHANGED <<alarm, overdue>>
        \/ SaveFails(s) /\ Abort
  BY DEF Detect
<1>3. /\ s \in State /\ HasRoom(s) /\ UntriedIsNew(s) /\ Keeps(disk, s)
      /\ Load(s) = s
  BY <1>1, <1>2, CopyFacts, DetectionsType, KeepsIsTransitive, LoadIdentity
<1>4. CASE SaveFails(s) /\ Abort
  BY <1>1, <1>3, <1>4, AbortStep
<1>5. CASE SaveSucceeds(s) /\ BeginPass("check2", s) /\ UNCHANGED <<alarm, overdue>>
  <2>1. /\ disk' = s /\ faults' = faults /\ saveOk' \in BOOLEAN
        /\ alarm' \in Nat /\ overdue' \in BOOLEAN
    BY <1>5 DEF SaveSucceeds, Inductive, TypeOK
  <2> QED  BY <1>1, <1>3, <1>5, <2>1, BeginStep DEF Flying, Landed
<1> QED  BY <1>2, <1>4, <1>5

\* A check ends.
LEMMA EndCheckStep == ASSUME Inductive, EndCheck PROVE Inductive'
<1>1. /\ pc = "visit" /\ Leave /\ alarm' = clock
      /\ UNCHANGED <<clock, lag, sends>>
      /\ SaveSucceeds(mem) \/ SaveFails(mem)
  BY DEF EndCheck, PassOver
<1>2. /\ mem \in State /\ UntriedIsNew(mem) /\ Keeps(disk, mem)
      /\ disk \in State /\ UntriedIsNew(disk) /\ Keeps(disk, disk)
      /\ clock \in Nat /\ faults \in Nat
  BY <1>1, CopyFacts, KeepsItself DEF Inductive, TypeOK
<1>3. /\ disk' \in {disk, mem} /\ faults' \in {faults, faults + 1}
      /\ saveOk' \in BOOLEAN
  BY <1>1 DEF SaveSucceeds, SaveFails
<1>4. /\ disk' \in State /\ Keeps(disk, disk') /\ UntriedIsNew(disk')
      /\ faults' \in Nat /\ faults' >= faults /\ alarm' \in Nat
  BY <1>1, <1>2, <1>3
<1> QED  BY <1>1, <1>3, <1>4, LeaveStep DEF Flying, Landed

\* The process dies: what is on disk is loaded again.
LEMMA CrashStep == ASSUME Inductive, Crash PROVE Inductive'
<1>1. /\ faults' = faults + 1 /\ Leave /\ alarm' = clock
      /\ UNCHANGED <<disk, clock, lag, sends, saveOk>>
  BY DEF Crash
<1>2. /\ disk \in State /\ UntriedIsNew(disk) /\ Keeps(disk, disk)
      /\ clock \in Nat /\ faults + 1 \in Nat /\ saveOk \in BOOLEAN
  BY KeepsItself DEF Inductive, TypeOK
<1> QED  BY <1>1, <1>2, LeaveStep

\* Time passes.
LEMMA TickStep == ASSUME Inductive, Tick PROVE Inductive'
<1>1. /\ clock' = clock + 1 /\ lag' \in {lag, lag + 1}
      /\ UNCHANGED <<disk, mem, alarm, job, pc, pass, faults, sends, saveOk, overdue>>
  BY DEF Tick
<1>2. TypeOK'
  BY <1>1 DEF Inductive, TypeOK, pass, sends
<1>3. /\ EligibleIsOpen' /\ CopyIsFile' /\ UntriedIsNew(disk)'
      /\ (pc # "idle" => HasRoom(mem))'
  BY <1>1 DEF Inductive, EligibleIsOpen, InBatch, IsOpen, CopyIsFile,
              UntriedIsNew, HasRoom, pass, First, Flying, Landed
<1>4. AcceptedCounted' /\ TriedCounted'
  BY <1>1 DEF Inductive, AcceptedCounted, TriedCounted, Current, First, pass,
              sends
<1> QED  BY <1>2, <1>3, <1>4 DEF Inductive

\* Nothing happens.
LEMMA StutterStep == ASSUME Inductive, UNCHANGED vars PROVE Inductive'
<1>1. UNCHANGED <<disk, mem, clock, alarm, job, pc, pass, faults, lag, sends, saveOk,
                  overdue>>
  BY DEF vars
<1>2. TypeOK'
  BY <1>1 DEF Inductive, TypeOK, pass, sends
<1>3. /\ EligibleIsOpen' /\ CopyIsFile' /\ UntriedIsNew(disk)'
      /\ (pc # "idle" => HasRoom(mem))'
  BY <1>1 DEF Inductive, EligibleIsOpen, InBatch, IsOpen, CopyIsFile,
              UntriedIsNew, HasRoom, pass, First, Flying, Landed
<1>4. AcceptedCounted' /\ TriedCounted'
  BY <1>1 DEF Inductive, AcceptedCounted, TriedCounted, Current, First, pass,
              sends
<1> QED  BY <1>2, <1>3, <1>4 DEF Inductive

-----------------------------------------------------------------------------
(* The theorems *)

\* The invariant holds at first.
LEMMA InitInductive == Init => Inductive
<1> SUFFICES ASSUME Init PROVE Inductive
  OBVIOUS
<1>1. disk \in State /\ UntriedIsNew(disk)
  BY FirstFilesType DEF Init
<1>2. TypeOK
  <2>1. imgLog \in [Targets -> Seq(Nat)]
    BY DEF Init
  <2>2. /\ tried \in [Batches -> [Targets -> Nat]]
        /\ accepted \in [Batches -> [Targets -> Nat]]
    BY DEF Init
  <2>3. /\ disk \in State /\ mem \in State
        /\ clock \in Nat /\ alarm \in Nat /\ now \in Nat /\ wake \in Nat
        /\ begun \in Nat /\ faults \in Nat /\ lag \in Nat /\ cur \in Nat
    BY <1>1 DEF Init, Never
  <2>4. /\ job \in {"none", "drain", "check1", "check2"} /\ pc \in Places
        /\ todo \subseteq Batches
        /\ left \subseteq Targets /\ elig \subseteq Targets /\ waited \subseteq Targets
        /\ blocked \subseteq {GroupOf[b] : b \in Batches} \X Targets
        /\ saveOk \in BOOLEAN /\ overdue \in BOOLEAN
    BY DEF Init, Places, Flying, Landed
  <2> QED  BY <2>1, <2>2, <2>3, <2>4 DEF TypeOK
<1>3. CopyIsFile /\ EligibleIsOpen /\ (pc # "idle" => HasRoom(mem))
  BY DEF Init, CopyIsFile, EligibleIsOpen, InBatch, Flying, Landed
<1>4. AcceptedCounted /\ TriedCounted
  <2> SUFFICES ASSUME NEW b \in Batches, NEW t \in Targets
               PROVE  /\ accepted[b][t] <= faults + One(disk.box[b][t].status = "sent")
                                                  + One(pc \in Landed /\ Current(b, t))
                      /\ tried[b][t] <= faults + disk.box[b][t].attempts
                                               + One(pc \in Flying /\ Current(b, t))
    BY DEF AcceptedCounted, TriedCounted
  <2>1. accepted[b][t] = 0 /\ tried[b][t] = 0 /\ faults = 0
    BY DEF Init
  <2>2. disk.box[b][t].attempts \in Nat
    BY <1>1, AttemptsType
  <2> QED  BY <2>1, <2>2 DEF One
<1> QED  BY <1>1, <1>2, <1>3, <1>4 DEF Inductive

\* Every step keeps the invariant.
LEMMA NextInductive == Inductive /\ [Next]_vars => Inductive'
<1> SUFFICES ASSUME Inductive, [Next]_vars PROVE Inductive'
  OBVIOUS
<1>1. CASE StartDrain \/ StartCheck \/ LateError \/ Crash \/ Tick \/ UNCHANGED vars
  BY <1>1, StartDrainStep, StartCheckStep, LateErrorStep, CrashStep, TickStep,
     StutterStep
<1>2. CASE NextBatch \/ FallBack \/ EndDrain \/ StartDetect \/ Detect \/ EndCheck
  BY <1>2, NextBatchStep, FallBackStep, EndDrainStep, StartDetectStep, DetectStep, EndCheckStep
<1>3. ASSUME NEW t \in Targets,
             Skip(t) \/ Defer(t) \/ Admit(t) \/ AwaitGap(t) \/ GapOver(t)
      PROVE  Inductive'
  BY <1>3, LookingStep
<1>4. ASSUME NEW t \in Targets,
             Attempt(t) \/ ReserveFails(t) \/ Take(t) \/ Succeed(t) \/ Fail(t)
      PROVE  Inductive'
  BY <1>4, AttemptStep, ReserveFailsStep, TakeStep, SucceedStep, FailStep
<1> QED  BY <1>1, <1>2, <1>3, <1>4 DEF Next, Step

\* In every reachable state: the copy of the running operation is the file as
\* a reader sees it, and every delivery and attempt is on record, in flight or
\* paid for by a fault.
THEOREM InductiveInvariant == Spec => []Inductive
BY InitInductive, NextInductive, PTL DEF Spec

\* Every variable keeps to the values the code gives it.
THEOREM TypeCorrect == Spec => []TypeOK
<1>1. Inductive => TypeOK
  BY DEF Inductive
<1> QED  BY <1>1, InductiveInvariant, PTL

\* A message reaches a target at most once, plus once for each fault.
THEOREM NoDuplicates == Spec => []DuplicatesNeedFaults
<1>1. Inductive => DuplicatesNeedFaults
  <2> SUFFICES ASSUME Inductive, NEW b \in Batches, NEW t \in Targets
               PROVE  accepted[b][t] <= 1 + faults
    BY DEF DuplicatesNeedFaults
  <2>1. accepted[b][t] \in Nat /\ faults \in Nat
    BY DEF Inductive, TypeOK
  <2>2. accepted[b][t] <= faults + One(disk.box[b][t].status = "sent")
                                + One(pc \in Landed /\ Current(b, t))
    BY DEF Inductive, AcceptedCounted
  <2>3. CASE pc \in Landed /\ Current(b, t)
    <3>1. First(elig, t) /\ b = cur
      BY <2>3 DEF Current
    <3>2. disk.box[b][t].status # "sent"
      BY <2>3, <3>1, TurnFacts, CopyFacts DEF Flying, IsOpen, Open, Keeps, Landed
    <3> QED  BY <2>1, <2>2, <3>2 DEF One
  <2>4. CASE ~(pc \in Landed /\ Current(b, t))
    BY <2>1, <2>2, <2>4 DEF One
  <2> QED  BY <2>3, <2>4
<1> QED  BY <1>1, InductiveInvariant, PTL

\* send is called at most max_attempts times for a batch and target, plus once
\* for each fault.
THEOREM BoundedAttempts == Spec => []AttemptsBounded
<1>1. Inductive => AttemptsBounded
  <2> SUFFICES ASSUME Inductive, NEW b \in Batches, NEW t \in Targets
               PROVE  tried[b][t] <= MaxAttempts + faults
    BY DEF AttemptsBounded
  <2>1. /\ tried[b][t] \in Nat /\ faults \in Nat
        /\ disk.box[b][t].attempts \in Nat /\ disk.box[b][t].attempts <= MaxAttempts
        /\ MaxAttempts \in Nat
    <3>1. disk \in State /\ disk.box[b][t] \in Entry
      BY AttemptsType DEF Inductive, TypeOK
    <3> QED  BY <3>1, Constants DEF Inductive, TypeOK, Entry
  <2>2. tried[b][t] <= faults + disk.box[b][t].attempts
                             + One(pc \in Flying /\ Current(b, t))
    BY DEF Inductive, TriedCounted
  <2>3. CASE pc \in Flying /\ Current(b, t)
    <3>1. First(elig, t) /\ b = cur
      BY <2>3 DEF Current
    <3>2. disk.box[b][t].attempts < MaxAttempts
      <4>1. /\ pc # "idle" /\ mem.box[cur][t].attempts \in Nat
            /\ mem.box[cur][t].attempts < MaxAttempts /\ cur \in Batches
        BY <2>3, <3>1, TurnFacts
      <4>2. disk.box[b][t].attempts <= mem.box[b][t].attempts
        BY <3>1, <4>1, CopyFacts DEF Keeps
      <4> QED  BY <2>1, <3>1, <4>1, <4>2
    <3> QED  BY <2>1, <2>2, <3>2 DEF One
  <2>4. CASE ~(pc \in Flying /\ Current(b, t))
    BY <2>1, <2>2, <2>4 DEF One
  <2> QED  BY <2>3, <2>4
<1> QED  BY <1>1, InductiveInvariant, PTL

-----------------------------------------------------------------------------
(* The refinement: Outbox implements Delivery *)

\* A message is recorded as sent only when the platform has it.
LandedIsTaken ==
  pc \in Landed => \A t \in Targets : First(elig, t) => accepted[cur][t] > 0

\* What the first steps of the file are: as in Delivery, nothing is owed.
LEMMA InitLanded == Init => LandedIsTaken
BY DEF Init, LandedIsTaken, Landed

\* The platform has what is in flight and landed.
LEMMA TakeLanded ==
  ASSUME Inductive, NEW t \in Targets, Take(t)
  PROVE  /\ cur \in Batches /\ IsOpen(t) /\ pc # "idle"
         /\ accepted' = [accepted EXCEPT ![cur][t] = @ + 1]
         /\ accepted' \in [Batches -> [Targets -> Nat]]
         /\ LandedIsTaken'
<1>1. /\ First(elig, t) /\ pc \in {"send"} \cup Flying
      /\ elig' = elig /\ cur' = cur
      /\ accepted' = [accepted EXCEPT ![cur][t] = @ + 1]
  BY DEF Take, pass, Flying
<1>2. cur \in Batches /\ IsOpen(t) /\ pc # "idle"
  BY <1>1, TurnFacts
<1>3. accepted \in [Batches -> [Targets -> Nat]]
  BY DEF Inductive, TypeOK
<1>4. /\ accepted' \in [Batches -> [Targets -> Nat]]
      /\ accepted'[cur][t] > 0
  BY <1>1, <1>2, <1>3
<1>5. ASSUME NEW u \in Targets, First(elig, u) PROVE u = t
  BY <1>1, <1>5, Constants DEF First
<1> QED  BY <1>1, <1>2, <1>4, <1>5 DEF LandedIsTaken, First

\* Only Take lands a message, and until it is recorded nothing else changes.
LEMMA NextLanded == Inductive /\ LandedIsTaken /\ [Next]_vars => LandedIsTaken'
<1> SUFFICES ASSUME Inductive, LandedIsTaken, [Next]_vars PROVE LandedIsTaken'
  OBVIOUS
<1> USE DEF Landed
<1>1. CASE UNCHANGED vars
  BY <1>1 DEF LandedIsTaken, vars, pass, sends, First
<1>2. CASE StartDrain \/ StartCheck
  BY <1>2 DEF StartDrain, StartCheck, BeginPass, Abort, Leave, LandedIsTaken
<1>3. CASE LateError
  BY <1>3 DEF LateError, LandedIsTaken
<1>4. CASE Crash \/ EndDrain \/ EndCheck
  BY <1>4 DEF Crash, EndDrain, EndCheck, Leave, LandedIsTaken
<1>5. CASE Tick
  BY <1>5 DEF Tick, LandedIsTaken, pass, sends, First
<1>6. CASE NextBatch \/ FallBack \/ StartDetect
  BY <1>6 DEF NextBatch, FallBack, StartDetect, LandedIsTaken
<1>7. CASE Detect
  BY <1>7 DEF Detect, BeginPass, Abort, Leave, LandedIsTaken
<1>8. ASSUME NEW t \in Targets,
             Skip(t) \/ Defer(t) \/ Admit(t) \/ AwaitGap(t) \/ GapOver(t)
      PROVE  LandedIsTaken'
  BY <1>8 DEF Skip, Defer, Admit, AwaitGap, GapOver, Looked, LandedIsTaken
<1>9. ASSUME NEW t \in Targets, Attempt(t) \/ ReserveFails(t) \/ Succeed(t) \/ Fail(t)
      PROVE  LandedIsTaken'
  BY <1>9 DEF Attempt, ReserveFails, Succeed, Fail, Record, Abort, Leave, LandedIsTaken
<1>10. ASSUME NEW t \in Targets, Take(t) PROVE LandedIsTaken'
  BY <1>10, TakeLanded
<1> QED  BY <1>1, <1>2, <1>3, <1>4, <1>5, <1>6, <1>7, <1>8, <1>9, <1>10 DEF Next, Step

\* A file that reads as before leaves every fate as it is.
LEMMA SameFate ==
  ASSUME Load(disk').box = Load(disk).box
  PROVE  FateOf' = FateOf
BY DEF FateOf

\* Changing one place of a function of two arguments.
LEMMA ExceptAt ==
  ASSUME NEW A, NEW B, NEW V, NEW f \in [A -> [B -> V]], NEW g \in [A -> [B -> V]],
         NEW a \in A, NEW b \in B, NEW v,
         \A c \in A, d \in B : g[c][d] = IF c = a /\ d = b THEN v ELSE f[c][d]
  PROVE  g = [f EXCEPT ![a][b] = v]
<1>1. g[a] = [f[a] EXCEPT ![b] = v]
  OBVIOUS
<1>2. \A c \in A : c # a => g[c] = f[c]
  <2> TAKE c \in A
  <2> HAVE c # a
  <2>1. g[c] \in [B -> V] /\ f[c] \in [B -> V] /\ \A d \in B : g[c][d] = f[c][d]
    OBVIOUS
  <2> QED  BY <2>1
<1> QED  BY <1>1, <1>2

\* What the mapping says of one batch and target.
LEMMA FateFacts ==
  ASSUME NEW b \in Batches, NEW t \in Targets
  PROVE  /\ FateOf[b][t] = Fate(Load(disk).box[b][t])
         /\ FateOf'[b][t] = Fate(Load(disk').box[b][t])
BY DEF FateOf

\* A save of what reads as the file did, whether it succeeds or raises.
LEMMA SaveStutters ==
  ASSUME NEW s \in State, Load(s).box = Load(disk).box, SaveSucceeds(s) \/ SaveFails(s)
  PROVE  FateOf' = FateOf
<1>1. disk' \in {disk, s}
  BY DEF SaveSucceeds, SaveFails
<1> QED  BY <1>1, SameFate

\* The first file: nothing is owed, nothing was sent.
LEMMA InitPromise == Init => Promise!Init
<1> SUFFICES ASSUME Init PROVE Promise!Init
  OBVIOUS
<1>1. accepted = [b \in Batches |-> [t \in Targets |-> 0]] /\ disk \in FirstFiles
  BY DEF Init
<1> DEFINE spent == [status |-> "failed", attempts |-> MaxAttempts, retryAt |-> 1]
<1>2. spent \in Entry /\ NoEntry \in Entry
  BY Constants DEF Entry, Status, Open, NoEntry, Never
<1>3. EmptyState \in State
  <2>1. FreshWindow \in ImageWindow
    BY DEF FreshWindow, ImageWindow, Never
  <2> QED  BY <1>2, <2>1 DEF EmptyState, State
<1>4. ASSUME NEW b \in Batches, NEW t \in Targets PROVE disk.box[b][t] \in {NoEntry, spent}
  <2>1. EmptyState.box[b][t] = NoEntry
    BY DEF EmptyState
  <2>2. CASE disk = EmptyState
    BY <2>1, <2>2
  <2>3. ASSUME NEW c \in Batches, NEW u \in Targets, disk = WithEntry(EmptyState, c, u, spent)
        PROVE  disk.box[b][t] \in {NoEntry, spent}
    BY <1>2, <1>3, <2>1, <2>3, WithEntryType
  <2> QED  BY <1>1, <2>2, <2>3 DEF FirstFiles
<1>5. Fate(Normalise(NoEntry)) = "absent" /\ Fate(Normalise(spent)) = "exhausted"
  BY Constants DEF Fate, Normalise, NoEntry, Open
<1>6. \A b \in Batches, t \in Targets :
        Fate(Load(disk).box[b][t]) \in {"absent", "exhausted"}
  BY <1>4, <1>5 DEF Load
<1>7. FateOf \in [Batches -> [Targets -> {"absent", "exhausted"}]]
  BY <1>6 DEF FateOf
<1> QED  BY <1>1, <1>7 DEF Promise!Init

\* The new batches of a check are announced, each whole.
LEMMA DetectPromise ==
  ASSUME Inductive, Detect
  PROVE  UNCHANGED FateOf \/ \E B \in SUBSET Batches, T \in SUBSET Targets : Promise!Announce(B, T)
<1>1. pc # "idle" /\ accepted' = accepted
  BY DEF Detect, sends
<1>2. mem = Load(disk) /\ mem \in State /\ HasRoom(mem) /\ UntriedIsNew(mem)
  BY <1>1, CopyFacts
<1>3. PICK s \in Detections : SaveSucceeds(s) \/ SaveFails(s)
  BY DEF Detect
<1>4. s \in State /\ Load(s) = s
  BY <1>2, <1>3, DetectionsType, LoadIdentity
<1>5. CASE s = mem \/ disk' = disk
  BY <1>2, <1>3, <1>4, <1>5, SaveStutters, SameFate
<1>6. CASE s # mem /\ disk' # disk
  <2>1. PICK g \in {GroupOf[b] : b \in Batches \ InOutbox(mem)}, S \in SUBSET Targets :
          s = Insert(mem, g, S)
    BY <1>3, <1>6 DEF Detections
  <2>2. disk' = s
    BY <1>3, <1>6 DEF SaveSucceeds, SaveFails
  <2> DEFINE B == {b \in Batches : GroupOf[b] = g /\ b \notin InOutbox(mem)}
  <2>3. ASSUME NEW b \in B, NEW t \in Targets PROVE FateOf[b][t] = "absent"
    <3>1. mem.box[b][t].status = "absent"
      BY DEF InOutbox, TargetsOf
    <3> QED  BY <1>2, <3>1, FateFacts DEF Fate, Open
  <2>4. ASSUME NEW b \in Batches, NEW t \in Targets
        PROVE  FateOf'[b][t] = IF b \in B /\ t \in S THEN "owed" ELSE FateOf[b][t]
    <3>1. s.box[b][t] = IF b \in B /\ t \in S THEN Fresh ELSE mem.box[b][t]
      BY <2>1 DEF Insert
    <3>2. Fate(Fresh) = "owed"
      BY DEF Fate, Fresh, Open
    <3> QED  BY <1>2, <1>4, <2>2, <3>1, <3>2, FateFacts
  <2>5. FateOf' = [b \in Batches |-> [t \in Targets |->
                     IF b \in B /\ t \in S THEN "owed" ELSE FateOf[b][t]]]
    BY <2>4 DEF FateOf
  <2>6. Promise!Announce(B, S)
    BY <1>1, <2>3, <2>5 DEF Promise!Announce
  <2> QED  BY <2>6
<1> QED  BY <1>5, <1>6

\* The outcome of a send is written: the delivery is settled, owed still, or the
\* file is as it was.
LEMMA RecordPromise ==
  ASSUME Inductive, LandedIsTaken, NEW t \in Targets, NEW e \in Entry, Record(t, e),
         pc \in Flying, e.attempts = mem.box[cur][t].attempts + 1,
         \/ e.status = "sent" /\ pc \in Landed
         \/ e.status = "exhausted"
         \/ e.status = "failed" /\ e.attempts < MaxAttempts
  PROVE  \/ UNCHANGED FateOf
         \/ \E b \in Batches, u \in Targets, end \in {"sent", "exhausted"} :
              Promise!Settle(b, u, end)
<1> DEFINE s == WithEntry(mem, cur, t, e)
<1>1. First(elig, t) /\ (SaveSucceeds(s) \/ SaveFails(s)) /\ accepted' = accepted
  BY DEF Record, sends
<1>2. cur \in Batches /\ IsOpen(t) /\ pc # "idle"
  BY <1>1, TurnFacts
<1>3. mem = Load(disk) /\ mem \in State /\ HasRoom(mem)
  BY <1>2, CopyFacts
<1>4. /\ s \in State /\ s.box[cur][t] = e
      /\ \A c \in Batches, u \in Targets : c # cur \/ u # t => s.box[c][u] = mem.box[c][u]
  BY <1>2, <1>3, WithEntryType
<1>5. HasRoom(s)
  <2> SUFFICES ASSUME NEW c \in Batches, NEW u \in Targets, s.box[c][u].status \in Open
               PROVE  s.box[c][u].attempts < MaxAttempts
    BY DEF HasRoom
  <2>1. CASE c = cur /\ u = t
    BY <1>4, <2>1 DEF Open
  <2>2. CASE c # cur \/ u # t
    BY <1>3, <1>4, <2>2 DEF HasRoom
  <2> QED  BY <2>1, <2>2
<1>6. Load(s) = s
  BY <1>4, <1>5, LoadIdentity
<1>7. disk' \in {disk, s}
  BY <1>1 DEF SaveSucceeds, SaveFails
<1> HIDE DEF s
<1>8. CASE disk' = disk
  BY <1>8, SameFate
<1>9. CASE disk' = s
  <2>1. \A c \in Batches, u \in Targets :
          FateOf'[c][u] = IF c = cur /\ u = t THEN Fate(e) ELSE FateOf[c][u]
    BY <1>3, <1>4, <1>6, <1>9, FateFacts
  <2>2. FateOf[cur][t] = "owed"
    BY <1>2, <1>3, FateFacts DEF Fate, IsOpen
  <2>3. CASE e.status = "failed"
    <3>1. Fate(e) = "owed"
      BY <2>3 DEF Fate, Open
    <3>2. \A c \in Batches, u \in Targets : FateOf'[c][u] = FateOf[c][u]
      BY <2>1, <2>2, <3>1
    <3> QED  BY <3>2 DEF FateOf
  <2>4. CASE e.status \in {"sent", "exhausted"}
    <3>1. Fate(e) = e.status
      BY <2>4 DEF Fate, Open
    <3>2. FateOf' = [FateOf EXCEPT ![cur][t] = e.status]
      <4> DEFINE V == {Fate(x) : x \in Entry}
      <4>1. \A c \in Batches, u \in Targets :
              Load(disk).box[c][u] \in Entry /\ Load(disk').box[c][u] \in Entry
        BY <1>3, <1>4, <1>6, <1>9, AttemptsType
      <4>2. FateOf \in [Batches -> [Targets -> V]] /\ FateOf' \in [Batches -> [Targets -> V]]
        BY <4>1 DEF FateOf
      <4> HIDE DEF V
      <4> QED  BY <1>2, <2>1, <3>1, <4>2, ExceptAt
    <3>3. e.status = "sent" => accepted[cur][t] > 0
      BY <1>1, <2>4 DEF LandedIsTaken
    <3>4. Promise!Settle(cur, t, e.status)
      BY <1>1, <2>2, <3>2, <3>3 DEF Promise!Settle
    <3> QED  BY <1>2, <2>4, <3>4
  <2> QED  BY <2>3, <2>4
<1> QED  BY <1>7, <1>8, <1>9
\* Every step is one of Delivery's or leaves its variables alone.
LEMMA NextPromise ==
  Inductive /\ LandedIsTaken /\ [Next]_vars => [Promise!Next]_<<FateOf, accepted>>
<1> SUFFICES ASSUME Inductive, LandedIsTaken, [Next]_vars
             PROVE  [Promise!Next]_<<FateOf, accepted>>
  OBVIOUS
<1>1. CASE UNCHANGED <<disk, accepted>>
  BY <1>1, SameFate
<1>2. ASSUME pc # "idle", NEW s \in State, Load(s).box = mem.box, UNCHANGED accepted,
             SaveSucceeds(s) \/ SaveFails(s)
      PROVE  UNCHANGED <<FateOf, accepted>>
  BY <1>2, CopyFacts, SaveStutters
<1>3. CASE UNCHANGED vars \/ StartDrain \/ LateError \/ Crash \/ Tick \/ NextBatch
           \/ FallBack \/ EndDrain \/ StartDetect
  BY <1>1, <1>3 DEF vars, sends, StartDrain, LateError, Crash, Tick, NextBatch, FallBack,
                    EndDrain, StartDetect
<1>4. CASE StartCheck
  <2>1. /\ accepted' = accepted
        /\ SaveSucceeds(Load(disk)) \/ SaveFails(Load(disk))
    BY <1>4 DEF StartCheck, sends
  <2> QED  BY <2>1, CopyFacts, SaveStutters
<1>5. CASE EndCheck
  <2>1. /\ pc # "idle" /\ accepted' = accepted
        /\ SaveSucceeds(mem) \/ SaveFails(mem)
    BY <1>5 DEF EndCheck, PassOver, sends
  <2> QED  BY <1>2, <2>1, CopyFacts
<1>6. CASE Detect
  <2>1. accepted' = accepted
    BY <1>6 DEF Detect, sends
  <2> QED  BY <1>6, <2>1, DetectPromise DEF Promise!Next
<1>7. ASSUME NEW t \in Targets,
             Skip(t) \/ Defer(t) \/ Admit(t) \/ AwaitGap(t) \/ GapOver(t)
      PROVE  UNCHANGED <<disk, accepted>>
  BY <1>7 DEF Skip, Defer, Admit, AwaitGap, GapOver, Look, sends
<1>8. ASSUME NEW t \in Targets, Attempt(t) \/ ReserveFails(t)
      PROVE  UNCHANGED <<FateOf, accepted>>
  <2>1. /\ pc # "idle" /\ accepted' = accepted
        /\ \/ SaveSucceeds(Reserve(t)) \/ SaveFails(Reserve(t))
           \/ disk' = disk
    BY <1>8 DEF Attempt, ReserveFails, sends
  <2>2. Reserve(t) \in State /\ Load(Reserve(t)).box = mem.box
    BY <2>1, ReserveFacts
  <2> QED  BY <1>2, <2>1, <2>2, SameFate
<1>9. ASSUME NEW t \in Targets, Take(t) PROVE Promise!Next
  <2>1. /\ cur \in Batches /\ IsOpen(t) /\ pc # "idle" /\ disk' = disk
        /\ accepted' = [accepted EXCEPT ![cur][t] = @ + 1]
    BY <1>9, TakeLanded DEF Take
  <2>2. FateOf[cur][t] = "owed" /\ FateOf' = FateOf
    BY <2>1, FateFacts, CopyFacts, SameFate DEF Fate, IsOpen
  <2>3. Promise!Accept(cur, t)
    BY <2>1, <2>2 DEF Promise!Accept
  <2> QED  BY <2>1, <2>3 DEF Promise!Next
<1>10. ASSUME NEW t \in Targets, Succeed(t) \/ Fail(t)
       PROVE  [Promise!Next]_<<FateOf, accepted>>
  <2>1. PICK e \in Entry :
          /\ Record(t, e) /\ pc \in Flying
          /\ e.attempts = mem.box[cur][t].attempts + 1
          /\ \/ e.status = "sent" /\ pc \in Landed
             \/ e.status = "exhausted"
             \/ e.status = "failed" /\ e.attempts < MaxAttempts
    BY <1>10, SucceedEntry, FailEntry DEF Succeed, Fail, Flying, Landed
  <2>2. accepted' = accepted
    BY <2>1 DEF Record, sends
  <2> QED  BY <2>1, <2>2, RecordPromise DEF Promise!Next
<1> QED
  BY <1>1, <1>3, <1>4, <1>5, <1>6, <1>7, <1>8, <1>9, <1>10 DEF Next, Step

\* Outbox implements Delivery: batches appear whole and once, the platform is
\* only given what the file says is owed, "sent" is only written of a message it
\* took, and what is over stays over.
THEOREM PromiseKept == Spec => KeepsPromise
<1>1. Spec => [](Inductive /\ LandedIsTaken)
  BY InitLanded, NextLanded, InductiveInvariant, PTL DEF Spec
<1> QED  BY <1>1, InitPromise, NextPromise, PTL DEF Spec, KeepsPromise, Promise!Spec

-----------------------------------------------------------------------------
(* The throttle: quota and gap *)

\* What the window of a target says of the images sent to it: none is later than
\* its last time, which is within the window, and those since its start are counted.
WindowFits(w, log) ==
  /\ w.used <= MaxImages
  /\ w.last < w.start + Window
  /\ \A i \in 1..Len(log) :
       /\ w.start # Never /\ log[i] >= 1 /\ log[i] <= w.last
       /\ log[i] >= w.start => i + w.used > Len(log)
  /\ \A i \in 1..(Len(log) - 1) : log[i + 1] >= log[i] + Interval

InFlight(t) == pc \in Flying /\ First(elig, t)

\* An image that was admitted and is not yet attempted may still be sent.
AdmittedFits ==
  InBatch /\ IsImage(cur) =>
    \A t \in elig : ~InFlight(t) => /\ WindowAllows(mem.win[t], now)
                                    /\ GapEnd(mem.win[t]) <= clock

\* A wait for the gap ends when it is over.
SleepFits ==
  pc = "sleep" =>
    \A t \in left : First(left, t) => /\ IsImage(cur)
                                      /\ GapEnd(mem.win[t]) > now
                                      /\ GapEnd(mem.win[t]) <= wake

Throttled ==
  /\ clock >= 1 /\ now <= clock
  /\ \A t \in Targets : /\ WindowFits(disk.win[t], imgLog[t])
                        /\ disk.win[t].last <= clock
  /\ AdmittedFits
  /\ SleepFits

\* A window that is not full stays so.
LEMMA AllowsLater ==
  ASSUME NEW w \in ImageWindow, NEW a \in Nat, NEW b \in Nat, a <= b, WindowAllows(w, a)
  PROVE  WindowAllows(w, b)
BY Constants DEF WindowAllows, Expired, ImageWindow, Never

\* An image sent at the window's last time, if the log fits without it.
LEMMA AppendFits ==
  ASSUME NEW v \in ImageWindow, NEW log \in Seq(Nat),
         WindowFits(v, log), v.start # Never, v.last >= 1, v.used >= 1,
         \A i \in 1..Len(log) : log[i] >= v.start => i + v.used > Len(log) + 1,
         Len(log) > 0 => v.last >= log[Len(log)] + Interval
  PROVE  WindowFits(v, Append(log, v.last))
<1> DEFINE more == Append(log, v.last)
<1>1. /\ Len(log) \in Nat /\ Len(more) = Len(log) + 1
      /\ \A i \in 1..Len(log) : more[i] = log[i] /\ log[i] \in Nat
      /\ more[Len(log) + 1] = v.last
  OBVIOUS
<1>2. v.last \in Nat /\ v.used \in Nat /\ v.start \in Nat
  BY DEF ImageWindow
<1> HIDE DEF more
<1>3. ASSUME NEW i \in 1..Len(more)
      PROVE  /\ v.start # Never /\ more[i] >= 1 /\ more[i] <= v.last
             /\ more[i] >= v.start => i + v.used > Len(more)
  <2>1. CASE i \in 1..Len(log)
    BY <1>1, <1>2, <2>1 DEF WindowFits
  <2>2. CASE i = Len(log) + 1
    BY <1>1, <1>2, <2>2
  <2> QED  BY <1>1, <2>1, <2>2
<1>4. ASSUME NEW i \in 1..(Len(more) - 1) PROVE more[i + 1] >= more[i] + Interval
  <2>1. CASE i < Len(log)
    <3>1. more[i + 1] = log[i + 1] /\ more[i] = log[i] /\ i \in 1..(Len(log) - 1)
      BY <1>1, <2>1
    <3> QED  BY <3>1 DEF WindowFits
  <2>2. CASE i = Len(log)
    BY <1>1, <2>2
  <2> QED  BY <1>1, <2>1, <2>2
<1>5. v.used <= MaxImages /\ v.last < v.start + Window
  BY DEF WindowFits
<1>6. WindowFits(v, more)
  BY <1>3, <1>4, <1>5 DEF WindowFits
<1> QED  BY <1>6 DEF more

\* Taking a slot, when there is one and the gap is over, with the image that is then
\* sent and without it.
LEMMA ReserveKeepsWindow ==
  ASSUME NEW w \in ImageWindow, NEW log \in Seq(Nat), NEW at \in Nat,
         WindowFits(w, log), WindowAllows(w, at), at >= 1, w.last <= at, GapEnd(w) <= at
  PROVE  /\ WindowFits(ReserveSlot(w, at), log)
         /\ WindowFits(ReserveSlot(w, at), Append(log, at))
<1> DEFINE v == ReserveSlot(w, at)
<1>1. /\ w.start \in Nat /\ w.used \in Nat /\ w.last \in Nat
      /\ Len(log) \in Nat /\ \A i \in 1..Len(log) : log[i] \in Nat
      /\ v \in ImageWindow
  <2>1. v \in ImageWindow
    BY ReserveType
  <2> HIDE DEF v
  <2> QED  BY <2>1 DEF ImageWindow
<1>2. Len(log) > 0 => at >= log[Len(log)] + Interval
  BY <1>1, Constants DEF WindowFits, GapEnd, Never
<1>3. CASE Expired(w, at)
  <2>1. v.start = at /\ v.used = 1 /\ v.last = at
    BY <1>3 DEF ReserveSlot
  <2>2. ASSUME NEW i \in 1..Len(log) PROVE log[i] < at /\ log[i] >= 1
    <3>1. log[i] <= w.last /\ w.last < w.start + Window /\ w.start # Never /\ log[i] >= 1
      BY DEF WindowFits
    <3>2. at - w.start >= Window
      BY <1>3, <3>1 DEF Expired
    <3> QED  BY <1>1, <3>1, <3>2, Constants
  <2> HIDE DEF v
  <2>3. WindowFits(v, log)
    <3>1. v.used <= MaxImages /\ v.last < v.start + Window /\ v.start # Never
      BY <2>1, Constants, ThrottleAssumption DEF Never
    <3>2. \A i \in 1..Len(log) : log[i] <= v.last /\ ~(log[i] >= v.start)
      BY <1>1, <2>1, <2>2
    <3> QED  BY <2>2, <3>1, <3>2 DEF WindowFits
  <2>4. WindowFits(v, Append(log, at))
    <3>1. \A i \in 1..Len(log) : ~(log[i] >= v.start)
      BY <1>1, <2>1, <2>2
    <3> QED  BY <1>1, <1>2, <2>1, <2>3, <3>1, AppendFits DEF Never
  <2> QED  BY <2>3, <2>4 DEF v
<1>4. CASE ~Expired(w, at)
  <2>1. v.start = w.start /\ v.used = w.used + 1 /\ v.last = at
    BY <1>4 DEF ReserveSlot
  <2>2. w.used < MaxImages /\ w.start # Never /\ at < w.start + Window
    BY <1>1, <1>4, Constants DEF WindowAllows, Expired
  <2> HIDE DEF v
  <2>3. WindowFits(v, log)
    <3>1. v.used <= MaxImages /\ v.last < v.start + Window
      BY <1>1, <2>1, <2>2, Constants
    <3>2. ASSUME NEW i \in 1..Len(log)
          PROVE  /\ v.start # Never /\ log[i] >= 1 /\ log[i] <= v.last
                 /\ log[i] >= v.start => i + v.used > Len(log)
      BY <1>1, <2>1, <2>2 DEF WindowFits
    <3> QED  BY <1>1, <3>1, <3>2 DEF WindowFits
  <2>4. WindowFits(v, Append(log, at))
    <3>1. \A i \in 1..Len(log) : log[i] >= v.start => i + v.used > Len(log) + 1
      BY <1>1, <2>1 DEF WindowFits
    <3>2. v.start # Never /\ v.last >= 1 /\ v.used >= 1
      BY <1>1, <2>1, <2>2
    <3>3. Len(log) > 0 => v.last >= log[Len(log)] + Interval
      BY <1>2, <2>1
    <3>4. WindowFits(v, Append(log, v.last))
      BY <1>1, <2>3, <3>1, <3>2, <3>3, AppendFits
    <3> QED  BY <2>1, <3>4
  <2> QED  BY <2>3, <2>4 DEF v
<1> QED  BY <1>3, <1>4

\* The windows of the copy are those of the file.
LEMMA WindowsOfCopy ==
  ASSUME Inductive
  PROVE  /\ pc # "idle" => mem.win = disk.win
         /\ \A t \in Targets : disk.win[t] \in ImageWindow /\ mem.win[t] \in ImageWindow
         /\ \A t \in Targets : imgLog[t] \in Seq(Nat)
<1>1. pc # "idle" => mem = Load(disk)
  BY CopyFacts
<1>2. Load(disk).win = disk.win
  BY DEF Load
<1>3. disk \in State /\ mem \in State /\ imgLog \in [Targets -> Seq(Nat)]
  BY DEF Inductive, TypeOK
<1> QED  BY <1>1, <1>2, <1>3 DEF State

\* The first file has no window and the log no image.
LEMMA InitThrottled == Init => Throttled
<1> SUFFICES ASSUME Init PROVE Throttled
  OBVIOUS
<1>1. \A t \in Targets : disk.win[t] = FreshWindow /\ imgLog[t] = <<>>
  BY DEF Init, FirstFiles, WithEntry, EmptyState
<1>2. WindowFits(FreshWindow, <<>>) /\ FreshWindow.last = 0
  BY Constants, ThrottleAssumption DEF WindowFits, FreshWindow, Never
<1>3. clock = 1 /\ now = 0 /\ pc = "idle"
  BY DEF Init, Never
<1> QED  BY <1>1, <1>2, <1>3 DEF Throttled, AdmittedFits, SleepFits, InBatch, Flying, Landed

\* A step that leaves windows, log and clock alone, and of the pass what matters.
LEMMA ThrottledKept ==
  ASSUME Throttled, UNCHANGED clock, UNCHANGED imgLog, disk'.win = disk.win, now' <= clock,
         AdmittedFits', SleepFits'
  PROVE  Throttled'
BY DEF Throttled

\* An operation ends or begins; the windows of the file stay.
LEMMA ThrottledBetween ==
  ASSUME Inductive, Throttled, UNCHANGED clock, UNCHANGED imgLog, disk'.win = disk.win,
         \/ Leave
         \/ \E op \in {"drain", "check1", "check2"}, s \in State : BeginPass(op, s)
  PROVE  Throttled'
<1>1. pc' \in {"idle", "visit"} /\ now' \in {Never, clock}
  BY DEF Leave, BeginPass
<1>2. now' <= clock
  BY <1>1 DEF Throttled, Never, Inductive, TypeOK
<1>3. AdmittedFits' /\ SleepFits'
  BY <1>1 DEF AdmittedFits, SleepFits, InBatch, Flying, Landed
<1> QED  BY <1>2, <1>3, ThrottledKept

\* The steps that decide what is due.
LEMMA LookingThrottled ==
  ASSUME Inductive, Throttled, NEW t \in Targets,
         Skip(t) \/ Defer(t) \/ Admit(t) \/ AwaitGap(t) \/ GapOver(t)
  PROVE  Throttled'
<1>1. /\ pc \in {"look", "sleep"} /\ First(left, t)
      /\ UNCHANGED <<disk, mem, clock, cur, imgLog>>
  BY DEF Skip, Defer, Admit, AwaitGap, GapOver, Look, sends
<1>2. /\ clock \in Nat /\ now \in Nat /\ now <= clock /\ wake \in Nat
      /\ mem.win[t] \in ImageWindow /\ left \subseteq Nat /\ t \in Nat
  BY WindowsOfCopy, Constants DEF Throttled, Inductive, TypeOK
<1>3. ASSUME NEW u \in elig, IsImage(cur)
      PROVE  WindowAllows(mem.win[u], now) /\ GapEnd(mem.win[u]) <= clock
  BY <1>1, <1>3 DEF Throttled, AdmittedFits, InBatch, InFlight, Flying, Landed
<1>4. IsImage(cur)' = IsImage(cur)
  BY <1>1 DEF IsImage
<1>5. GapEnd(mem.win[t]) \in Nat
  BY <1>2, Constants DEF GapEnd, ImageWindow, Never
<1>6. CASE Skip(t) \/ Defer(t)
  <2>1. elig' = elig /\ now' = now /\ pc' # "sleep"
    BY <1>6 DEF Skip, Defer, Looked
  <2>2. AdmittedFits' /\ SleepFits'
    BY <1>1, <1>3, <1>4, <2>1 DEF AdmittedFits, SleepFits
  <2> QED  BY <1>1, <1>2, <2>1, <2>2, ThrottledKept
<1>7. CASE Admit(t)
  <2>1. elig' = elig \cup {t} /\ now' = now /\ pc' # "sleep"
    BY <1>7 DEF Admit, Looked
  <2>2. IsImage(cur) => WindowAllows(mem.win[t], now) /\ GapEnd(mem.win[t]) <= clock
    BY <1>2, <1>5, <1>7 DEF Admit, Deferred, WindowFull, GapOpen
  <2>3. AdmittedFits' /\ SleepFits'
    BY <1>1, <1>3, <1>4, <2>1, <2>2 DEF AdmittedFits, SleepFits
  <2> QED  BY <1>1, <1>2, <2>1, <2>3, ThrottledKept
<1>8. CASE AwaitGap(t)
  <2>1. /\ elig' = elig /\ left' = left /\ now' = now /\ pc' = "sleep"
        /\ wake' = clock + (GapEnd(mem.win[t]) - now)
        /\ IsImage(cur) /\ GapEnd(mem.win[t]) > now
    BY <1>8 DEF AwaitGap, GapOpen
  <2>2. ASSUME NEW u \in left, First(left, u) PROVE u = t
    <3>1. u \in Nat /\ u <= t /\ t <= u
      BY <1>1, <1>2, <2>2 DEF First
    <3> QED  BY <1>2, <3>1
  <2>3. GapEnd(mem.win[t]) <= wake'
    BY <1>2, <1>5, <2>1
  <2>4. AdmittedFits' /\ SleepFits'
    BY <1>1, <1>3, <1>4, <2>1, <2>2, <2>3 DEF AdmittedFits, SleepFits
  <2> QED  BY <1>1, <1>2, <2>1, <2>4, ThrottledKept
<1>9. CASE GapOver(t)
  <2>1. /\ now' = clock /\ pc = "sleep" /\ wake <= clock /\ pc' # "sleep"
        /\ \/ elig' = elig \cup {t} /\ WindowAllows(mem.win[t], clock)
           \/ elig' = elig
    BY <1>9 DEF GapOver, Looked
  <2>2. GapEnd(mem.win[t]) <= clock
    BY <1>1, <1>2, <1>5, <2>1 DEF Throttled, SleepFits, First
  <2>3. ASSUME NEW u \in elig, IsImage(cur)
        PROVE  WindowAllows(mem.win[u], clock) /\ GapEnd(mem.win[u]) <= clock
    <3>1. mem.win[u] \in ImageWindow
      BY WindowsOfCopy DEF Inductive, TypeOK
    <3> QED  BY <1>2, <1>3, <2>3, <3>1, AllowsLater
  <2>4. AdmittedFits' /\ SleepFits'
    BY <1>1, <1>4, <2>1, <2>2, <2>3 DEF AdmittedFits, SleepFits
  <2> QED  BY <1>1, <1>2, <2>1, <2>4, ThrottledKept
<1> QED  BY <1>6, <1>7, <1>8, <1>9

\* What holds of the window whose slot is taken.
LEMMA ReserveThrottled ==
  ASSUME Inductive, Throttled, NEW t \in Targets, pc = "send", First(elig, t), IsImage(cur)
  PROVE  LET w == disk.win[t]
             v == ReserveSlot(w, clock)
         IN  /\ WindowFits(v, imgLog[t]) /\ WindowFits(v, Append(imgLog[t], clock))
             /\ v.last = clock
             /\ Reserve(t).win = [disk.win EXCEPT ![t] = v]
<1>1. /\ mem.win = disk.win /\ disk.win[t] \in ImageWindow /\ imgLog[t] \in Seq(Nat)
      /\ clock \in Nat /\ clock >= 1 /\ now \in Nat /\ now <= clock
      /\ WindowFits(disk.win[t], imgLog[t]) /\ disk.win[t].last <= clock
  BY WindowsOfCopy DEF Inductive, TypeOK, Throttled
<1>2. WindowAllows(disk.win[t], now) /\ GapEnd(disk.win[t]) <= clock
  BY <1>1 DEF Throttled, AdmittedFits, InFlight, InBatch, First, Flying, Landed
<1>3. WindowAllows(disk.win[t], clock)
  BY <1>1, <1>2, AllowsLater
<1>4. Reserve(t).win = [disk.win EXCEPT ![t] = ReserveSlot(disk.win[t], clock)]
  BY <1>1 DEF Reserve, WithWindow
<1>5. ReserveSlot(disk.win[t], clock).last = clock
  BY DEF ReserveSlot
<1> QED  BY <1>1, <1>2, <1>3, <1>4, <1>5, ReserveKeepsWindow

\* An image, or a text, leaves.
LEMMA AttemptThrottled ==
  ASSUME Inductive, Throttled, NEW t \in Targets, Attempt(t)
  PROVE  Throttled'
<1>1. /\ pc = "send" /\ First(elig, t) /\ t \in elig /\ InBatch /\ pc' \in Flying
      /\ pc' # "sleep"
      /\ mem' = Reserve(t) /\ UNCHANGED <<clock, now, cur, elig>>
      /\ IsImage(cur) => disk' = Reserve(t) /\ imgLog' = [imgLog EXCEPT ![t] = Append(@, clock)]
      /\ ~IsImage(cur) => disk' = disk /\ imgLog' = imgLog
  BY DEF Attempt, First, InBatch, Flying, Landed, SaveSucceeds
<1>2. /\ clock \in Nat /\ disk \in State /\ mem.win = disk.win
      /\ elig \subseteq Targets /\ imgLog \in [Targets -> Seq(Nat)]
  BY <1>1, WindowsOfCopy DEF Inductive, TypeOK
<1>3. SleepFits'
  BY <1>1 DEF SleepFits
<1>4. CASE ~IsImage(cur)
  <2>1. AdmittedFits'
    BY <1>1, <1>4 DEF AdmittedFits, IsImage
  <2> QED  BY <1>1, <1>3, <1>4, <2>1, ThrottledKept DEF Throttled
<1>5. CASE IsImage(cur)
  <2> DEFINE v == ReserveSlot(disk.win[t], clock)
  <2>1. /\ WindowFits(v, Append(imgLog[t], clock)) /\ v.last = clock
        /\ Reserve(t).win = [disk.win EXCEPT ![t] = v]
    BY <1>1, <1>5, ReserveThrottled
  <2> HIDE DEF v
  <2>2. disk.win \in [Targets -> ImageWindow]
    BY <1>2 DEF State
  <2>3. \A u \in Targets : /\ disk'.win[u] = IF u = t THEN v ELSE disk.win[u]
                           /\ imgLog'[u] = IF u = t THEN Append(imgLog[t], clock) ELSE imgLog[u]
    BY <1>1, <1>2, <1>5, <2>1, <2>2
  <2>4. \A u \in Targets : WindowFits(disk'.win[u], imgLog'[u]) /\ disk'.win[u].last <= clock
    <3> TAKE u \in Targets
    <3>1. WindowFits(disk.win[u], imgLog[u]) /\ disk.win[u].last <= clock
      BY DEF Throttled
    <3>2. CASE u = t
      BY <1>2, <2>1, <2>3, <3>2
    <3> QED  BY <2>3, <3>1, <3>2
  <2>5. AdmittedFits'
    <3> SUFFICES ASSUME NEW u \in elig, ~(pc' \in Flying /\ First(elig, u))
                 PROVE  WindowAllows(mem'.win[u], now) /\ GapEnd(mem'.win[u]) <= clock
      BY <1>1 DEF AdmittedFits, InFlight, First
    <3>1. u # t
      BY <1>1
    <3>2. mem'.win[u] = mem.win[u]
      BY <1>1, <1>2, <2>1, <2>2, <3>1
    <3>3. WindowAllows(mem.win[u], now) /\ GapEnd(mem.win[u]) <= clock
      BY <1>1, <1>5 DEF Throttled, AdmittedFits, InFlight, Flying, Landed
    <3> QED  BY <3>2, <3>3
  <2> QED  BY <1>1, <1>3, <2>4, <2>5 DEF Throttled
<1> QED  BY <1>4, <1>5

\* The slot of an image may have been saved although the save raised.
LEMMA ReserveFailsThrottled ==
  ASSUME Inductive, Throttled, NEW t \in Targets, ReserveFails(t)
  PROVE  Throttled'
<1>1. /\ pc = "send" /\ First(elig, t) /\ IsImage(cur) /\ Leave
      /\ disk' \in {disk, Reserve(t)} /\ UNCHANGED <<clock, imgLog>>
  BY DEF ReserveFails, SaveFails, Abort, sends
<1>2. CASE disk' = disk
  BY <1>1, <1>2, ThrottledBetween
<1>3. CASE disk' = Reserve(t)
  <2> DEFINE v == ReserveSlot(disk.win[t], clock)
  <2>1. /\ WindowFits(v, imgLog[t]) /\ v.last = clock
        /\ Reserve(t).win = [disk.win EXCEPT ![t] = v]
    BY <1>1, ReserveThrottled
  <2> HIDE DEF v
  <2>2. disk.win \in [Targets -> ImageWindow] /\ clock \in Nat
    BY DEF State, Inductive, TypeOK
  <2>3. \A u \in Targets : disk'.win[u] = IF u = t THEN v ELSE disk.win[u]
    BY <1>3, <2>1, <2>2
  <2>4. \A u \in Targets : WindowFits(disk'.win[u], imgLog[u]) /\ disk'.win[u].last <= clock
    BY <2>1, <2>2, <2>3 DEF Throttled
  <2>5. pc' = "idle" /\ now' = Never
    BY <1>1 DEF Leave
  <2>6. AdmittedFits' /\ SleepFits' /\ now' <= clock
    BY <2>2, <2>5 DEF AdmittedFits, SleepFits, InBatch, Flying, Landed, Never
  <2> QED  BY <1>1, <2>4, <2>6 DEF Throttled
<1> QED  BY <1>1, <1>2, <1>3

\* The steps while a send is in flight, and its record.
LEMMA SendThrottled ==
  ASSUME Inductive, Throttled, NEW t \in Targets, Take(t) \/ Succeed(t) \/ Fail(t)
  PROVE  Throttled'
<1>1. First(elig, t) /\ t \in elig /\ pc \in Flying /\ InBatch /\ UNCHANGED <<clock, imgLog>>
  BY DEF Take, Succeed, Fail, Record, First, Flying, Landed, InBatch, sends
<1>2. CASE Take(t)
  <2>1. UNCHANGED <<disk, mem, cur, elig, now, left, wake>> /\ pc' \in Flying /\ pc' # "sleep"
    BY <1>2 DEF Take, pass, Flying, Landed
  <2>2. AdmittedFits' /\ SleepFits'
    BY <1>1, <2>1 DEF Throttled, AdmittedFits, SleepFits, InFlight, First, IsImage
  <2> QED  BY <1>1, <2>1, <2>2, ThrottledKept DEF Throttled
<1>3. ASSUME NEW e, Record(t, e) PROVE Throttled'
  <2> DEFINE s == WithEntry(mem, cur, t, e)
  <2>1. disk' \in {disk, s} /\ s.win = mem.win /\ mem.win = disk.win
    BY <1>1, <1>3, WindowsOfCopy DEF Record, SaveSucceeds, SaveFails, WithEntry, Flying, Landed
  <2>2. CASE Leave
    BY <1>1, <2>1, <2>2, ThrottledBetween
  <2>3. CASE /\ mem' = s /\ elig' = elig \ {t} /\ pc' \in {"visit", "send"}
             /\ UNCHANGED <<now, cur>>
    <3>1. AdmittedFits'
      <4> SUFFICES ASSUME IsImage(cur), NEW u \in elig \ {t}
                   PROVE  WindowAllows(mem.win[u], now) /\ GapEnd(mem.win[u]) <= clock
        BY <1>1, <2>1, <2>3 DEF AdmittedFits, IsImage
      <4>1. u \in Nat /\ t \in Nat
        BY Constants DEF Inductive, TypeOK
      <4>2. ~First(elig, u)
        BY <1>1, <4>1 DEF First
      <4> QED  BY <1>1, <4>2 DEF Throttled, AdmittedFits, InFlight
    <3>2. SleepFits'
      BY <2>3 DEF SleepFits
    <3> QED  BY <1>1, <2>1, <2>3, <3>1, <3>2, ThrottledKept DEF Throttled
  <2> QED  BY <1>3, <2>2, <2>3 DEF Record, Abort
<1> QED  BY <1>2, <1>3 DEF Succeed, Fail, Take

\* Every step keeps the throttle.
LEMMA NextThrottled == Inductive /\ Throttled /\ [Next]_vars => Throttled'
<1> SUFFICES ASSUME Inductive, Throttled, [Next]_vars PROVE Throttled'
  OBVIOUS
<1>1. CASE UNCHANGED vars
  BY <1>1 DEF vars, pass, sends, Throttled, AdmittedFits, SleepFits, InBatch, InFlight,
              First, IsImage
<1>2. CASE StartDrain \/ StartCheck
  <2>1. /\ UNCHANGED <<clock, imgLog>> /\ disk' \in {disk, Load(disk)}
        /\ Leave \/ \E op \in {"drain", "check1", "check2"} : BeginPass(op, Load(disk))
    BY <1>2 DEF StartDrain, StartCheck, SaveSucceeds, SaveFails, Abort, sends
  <2>2. disk'.win = disk.win /\ Load(disk) \in State
    BY <2>1, CopyFacts DEF Load
  <2> QED  BY <2>1, <2>2, ThrottledBetween
<1>3. CASE Crash \/ EndDrain \/ EndCheck
  <2>1. /\ UNCHANGED <<clock, imgLog>> /\ disk' \in {disk, mem} /\ Leave
        /\ disk' = mem => pc # "idle"
    BY <1>3, CopyFacts DEF Crash, EndDrain, EndCheck, SaveSucceeds, SaveFails, PassOver, sends
  <2>2. disk'.win = disk.win
    BY <2>1, WindowsOfCopy
  <2> QED  BY <2>1, <2>2, ThrottledBetween
<1>4. CASE Detect
  <2>1. PICK s \in Detections :
          /\ UNCHANGED <<clock, imgLog>> /\ disk' \in {disk, s}
          /\ Leave \/ BeginPass("check2", s)
    BY <1>4 DEF Detect, SaveSucceeds, SaveFails, Abort, sends
  <2>2. pc # "idle" /\ s.win = mem.win
    BY <1>4 DEF Detect, Detections, Insert
  <2>3. s \in State
    BY <2>2, CopyFacts, DetectionsType
  <2> QED  BY <2>1, <2>2, <2>3, WindowsOfCopy, ThrottledBetween
<1>5. CASE LateError \/ FallBack
  <2>1. /\ UNCHANGED <<disk, mem, cur, elig, now, left, wake, clock, imgLog>>
        /\ pc \in Flying /\ pc' \in Flying /\ pc' # "sleep"
    BY <1>5 DEF LateError, FallBack, pass, sends, Flying, Landed
  <2>2. AdmittedFits' /\ SleepFits'
    BY <2>1 DEF Throttled, AdmittedFits, SleepFits, InFlight, InBatch, First, IsImage
  <2> QED  BY <2>1, <2>2, ThrottledKept DEF Throttled
<1>6. CASE Tick
  <2>1. /\ UNCHANGED <<disk, mem, cur, elig, now, left, wake, imgLog, pc>>
        /\ clock' = clock + 1
    BY <1>6 DEF Tick, pass, sends
  <2>2. clock \in Nat /\ now \in Nat
    BY DEF Inductive, TypeOK
  <2>3. \A u \in Targets : mem.win[u] \in ImageWindow /\ disk.win[u] \in ImageWindow
    BY WindowsOfCopy
  <2>4. \A u \in Targets : GapEnd(mem.win[u]) \in Nat /\ disk.win[u].last \in Nat
    BY <2>3, Constants DEF GapEnd, ImageWindow, Never
  <2>5. elig \subseteq Targets
    BY DEF Inductive, TypeOK
  <2>6. AdmittedFits'
    BY <2>1, <2>2, <2>4, <2>5 DEF Throttled, AdmittedFits, InFlight, InBatch, First, IsImage
  <2>7. SleepFits'
    BY <2>1 DEF Throttled, SleepFits, First, IsImage
  <2> QED  BY <2>1, <2>2, <2>4, <2>6, <2>7 DEF Throttled
<1>7. CASE NextBatch \/ StartDetect
  <2>1. /\ UNCHANGED <<disk, now, clock, imgLog>> /\ elig' = {} /\ pc' # "sleep"
    BY <1>7 DEF NextBatch, StartDetect, PassOver, pass, sends, Inductive, EligibleIsOpen,
                InBatch, Flying, Landed
  <2>2. AdmittedFits' /\ SleepFits'
    BY <2>1 DEF AdmittedFits, SleepFits
  <2> QED  BY <2>1, <2>2, ThrottledKept DEF Throttled
<1> QED
  BY <1>1, <1>2, <1>3, <1>4, <1>5, <1>6, <1>7, LookingThrottled, AttemptThrottled,
     ReserveFailsThrottled, SendThrottled DEF Next, Step

\* In every reachable state the windows of the file cover the images sent.
LEMMA ThrottleInvariant == Spec => []Throttled
BY InitThrottled, NextThrottled, InductiveInvariant, PTL DEF Spec

\* The images that the current window of a target counts, whatever crash or failing
\* save came in between, are not more than the quota.
THEOREM WithinQuota == Spec => []QuotaKept
<1>1. Inductive /\ Throttled => QuotaKept
  <2> SUFFICES ASSUME Inductive, Throttled, NEW t \in Targets, NEW i \in 1..Len(imgLog[t])
               PROVE  /\ disk.win[t].start # Never
                      /\ imgLog[t][i] >= disk.win[t].start => i + MaxImages > Len(imgLog[t])
    BY DEF QuotaKept
  <2>1. disk.win[t].used \in Nat /\ Len(imgLog[t]) \in Nat
    BY WindowsOfCopy DEF ImageWindow
  <2>2. /\ disk.win[t].start # Never /\ disk.win[t].used <= MaxImages
        /\ imgLog[t][i] >= disk.win[t].start => i + disk.win[t].used > Len(imgLog[t])
    BY DEF Throttled, WindowFits
  <2> QED  BY <2>1, <2>2, Constants
<1> QED  BY <1>1, InductiveInvariant, ThrottleInvariant, PTL

\* Two images for a target are never less than the gap apart.
THEOREM GapBetweenImages == Spec => []GapKept
<1>1. Throttled => GapKept
  BY DEF Throttled, WindowFits, GapKept
<1> QED  BY <1>1, ThrottleInvariant, PTL

-----------------------------------------------------------------------------
(* The order of pages *)

\* The pass is done with a batch and target.
Passed(b, t) == b \notin todo /\ ~(InBatch /\ b = cur /\ t \in left \cup elig)

\* A page that the pass leaves open bars the later ones of its group.
OpenBars ==
  pc \notin {"idle", "detect"} =>
    \A b \in Batches, t \in Targets :
      IsImage(b) /\ mem.box[b][t].status \in Open /\ Passed(b, t) =>
        <<GroupOf[b], t>> \in blocked

\* What is barred is neither waited for nor attempted.
ChosenUnbarred ==
  InBatch =>
    /\ left \cap elig = {}
    /\ \A t \in elig : ~Barred(t)
    /\ pc = "sleep" => \A t \in left : First(left, t) => ~Barred(t)

\* Batches are visited in their order.
RestIsLater == InBatch => \A b \in todo : cur < b

\* What is attempted is attempted when all targets have been looked at.
AllLooked == pc \in {"send"} \cup Flying => left = {}

Ordered == OpenBars /\ ChosenUnbarred /\ RestIsLater /\ AllLooked

\* No pass is under way.
LEMMA InitOrdered == Init => Ordered
BY DEF Init, Ordered, OpenBars, ChosenUnbarred, RestIsLater, AllLooked, InBatch, Flying, Landed

\* A pass begins: every batch it does not visit is not there.
LEMMA BeginOrdered ==
  ASSUME NEW op, NEW s, BeginPass(op, s)
  PROVE  Ordered'
<1>1. pc' = "visit" /\ todo' = InOutbox(s) /\ mem' = s
  BY DEF BeginPass
<1>2. ~InBatch'
  BY <1>1 DEF InBatch, Flying, Landed
<1>5. AllLooked'
  BY <1>1 DEF AllLooked, Flying, Landed
<1>3. ASSUME NEW b \in Batches, NEW t \in Targets, b \notin InOutbox(s)
      PROVE  s.box[b][t].status \notin Open
  BY <1>3 DEF InOutbox, TargetsOf, Open
<1>4. OpenBars'
  BY <1>1, <1>3 DEF OpenBars, Passed
<1> QED  BY <1>2, <1>4, <1>5 DEF Ordered, ChosenUnbarred, RestIsLater

\* A pass ends.
LEMMA LeaveOrdered == ASSUME Leave PROVE Ordered'
<1>1. pc' = "idle"
  BY DEF Leave
<1> QED
  BY <1>1 DEF Ordered, OpenBars, ChosenUnbarred, RestIsLater, AllLooked, InBatch, Flying, Landed

\* A target is dealt with: chosen, or not open, or barred from now on.
LEMMA LookedOrdered ==
  ASSUME Inductive, Ordered, NEW t \in Targets, pc \in {"look", "sleep"}, First(left, t),
         UNCHANGED <<mem, todo, cur>>,
         NEW chosen \in {elig, elig \cup {t}}, Looked(t, chosen),
         \/ chosen # elig /\ ~Barred(t) /\ blocked' = blocked
         \/ chosen = elig /\ ~IsOpen(t) /\ blocked' = blocked
         \/ chosen = elig /\ blocked' = Block(t)
         \/ chosen = elig /\ Barred(t) /\ blocked' = blocked
  PROVE  Ordered'
<1>1. InBatch /\ t \in left /\ cur \in Batches /\ left \cap elig = {} /\ t \notin elig
  BY DEF InBatch, First, Inductive, EligibleIsOpen, Ordered, ChosenUnbarred
<1>2. left' = left \ {t} /\ elig' = chosen /\ pc' \in {"look", "send", "visit"} /\ pc' # "sleep"
  BY DEF Looked
<1>3. pc' = "visit" => left' = {} /\ elig' = {}
  BY <1>2 DEF Looked
<1>4. InBatch' <=> pc' # "visit"
  BY <1>2 DEF InBatch, Flying, Landed
<1>5. blocked \subseteq blocked' /\ blocked' \subseteq blocked \cup {<<GroupOf[cur], t>>}
  BY DEF Block
<1>6. OpenBars'
  <2> SUFFICES ASSUME NEW b \in Batches, NEW u \in Targets, IsImage(b),
                      mem.box[b][u].status \in Open, Passed(b, u)'
               PROVE  <<GroupOf[b], u>> \in blocked'
    BY DEF OpenBars, IsImage
  <2>1. CASE Passed(b, u)
    BY <1>5, <2>1 DEF Ordered, OpenBars
  <2>2. CASE ~Passed(b, u)
    <3>1. b = cur /\ u = t /\ t \notin elig'
      BY <1>1, <1>2, <1>3, <1>4, <2>2 DEF Passed
    <3>2. IsOpen(t) /\ chosen = elig
      BY <1>2, <3>1 DEF IsOpen
    <3>3. blocked' = Block(t) \/ Barred(t)
      BY <1>1, <3>2
    <3> QED  BY <1>5, <3>1, <3>3 DEF Block, Barred
  <2> QED  BY <2>1, <2>2
<1>7. ChosenUnbarred'
  <2>1. left' \cap elig' = {}
    BY <1>1, <1>2
  <2>2. ASSUME NEW u \in elig' PROVE ~Barred(u)'
    <3>1. CASE u = t
      <4>1. chosen # elig
        BY <1>1, <1>2, <3>1
      <4> QED  BY <3>1, <4>1 DEF Barred, IsImage
    <3>2. CASE u # t
      <4>1. u \in elig
        BY <1>2, <3>2
      <4>2. ~Barred(u)
        BY <1>1, <4>1 DEF Ordered, ChosenUnbarred
      <4> QED  BY <1>5, <3>2, <4>2 DEF Barred, IsImage
    <3> QED  BY <3>1, <3>2
  <2> QED  BY <1>2, <2>1, <2>2 DEF ChosenUnbarred
<1>8. RestIsLater'
  BY <1>1 DEF Ordered, RestIsLater
<1>9. AllLooked'
  BY <1>2 DEF AllLooked, Looked, Flying, Landed
<1> QED  BY <1>6, <1>7, <1>8, <1>9 DEF Ordered

\* The steps that decide what is due.
LEMMA LookingOrdered ==
  ASSUME Inductive, Ordered, NEW t \in Targets,
         Skip(t) \/ Defer(t) \/ Admit(t) \/ AwaitGap(t) \/ GapOver(t)
  PROVE  Ordered'
<1>1. /\ pc \in {"look", "sleep"} /\ First(left, t) /\ t \in left /\ InBatch
      /\ UNCHANGED <<mem, todo, cur>>
  BY DEF Skip, Defer, Admit, AwaitGap, GapOver, Look, First, InBatch
<1>2. t \notin elig
  BY <1>1 DEF Ordered, ChosenUnbarred
<1>3. CASE Skip(t)
  BY <1>1, <1>3, LookedOrdered DEF Skip
<1>4. CASE Defer(t)
  BY <1>1, <1>4, LookedOrdered DEF Defer
<1>5. CASE Admit(t)
  BY <1>1, <1>2, <1>5, LookedOrdered DEF Admit, Deferred
<1>6. CASE GapOver(t)
  <2>1. ~Barred(t)
    BY <1>1, <1>6 DEF GapOver, Ordered, ChosenUnbarred
  <2> QED  BY <1>1, <1>2, <1>6, <2>1, LookedOrdered DEF GapOver
<1>7. CASE AwaitGap(t)
  <2>1. UNCHANGED <<left, elig, blocked>> /\ pc' = "sleep" /\ ~Barred(t)
    BY <1>7 DEF AwaitGap, Deferred
  <2>2. InBatch'
    BY <2>1 DEF InBatch
  <2>3. ASSUME NEW u \in left, First(left, u) PROVE u = t
    <3>1. u <= t /\ t <= u
      BY <1>1, <2>3 DEF First
    <3> QED  BY <3>1, Constants DEF Inductive, TypeOK
  <2>4. OpenBars'
    BY <1>1, <2>1, <2>2 DEF Ordered, OpenBars, Passed, IsImage
  <2>5. ChosenUnbarred' /\ RestIsLater'
    BY <1>1, <2>1, <2>2, <2>3 DEF Ordered, ChosenUnbarred, RestIsLater, Barred, IsImage
  <2>6. AllLooked'
    BY <2>1 DEF AllLooked, Flying, Landed
  <2> QED  BY <2>4, <2>5, <2>6 DEF Ordered
<1> QED  BY <1>3, <1>4, <1>5, <1>6, <1>7

\* The pass goes on to its next batch, the first of those ahead.
LEMMA NextBatchOrdered == ASSUME Inductive, Ordered, NextBatch PROVE Ordered'
<1>1. PICK b \in todo : /\ First(todo, b) /\ cur' = b /\ todo' = todo \ {b}
                        /\ left' = TargetsOf(mem, b)
  BY DEF NextBatch
<1>2. /\ ~InBatch /\ InBatch' /\ pc = "visit" /\ pc' = "look"
      /\ elig = {} /\ UNCHANGED <<mem, elig, blocked>>
  BY DEF NextBatch, InBatch, Flying, Landed, Inductive, EligibleIsOpen
<1>3. b \in Nat /\ todo \subseteq Nat
  BY Constants DEF Inductive, TypeOK
<1>4. RestIsLater'
  BY <1>1, <1>3 DEF RestIsLater, First
<1>5. ChosenUnbarred'
  BY <1>2 DEF ChosenUnbarred
<1>6. OpenBars'
  <2> SUFFICES ASSUME NEW c \in Batches, NEW u \in Targets, IsImage(c),
                      mem.box[c][u].status \in Open, Passed(c, u)'
               PROVE  <<GroupOf[c], u>> \in blocked
    BY <1>2 DEF OpenBars, IsImage
  <2>1. CASE c = b
    <3>1. u \in TargetsOf(mem, b)
      BY <2>1 DEF TargetsOf, Open
    <3> QED  BY <1>1, <1>2, <2>1, <3>1 DEF Passed
  <2>2. CASE c # b
    BY <1>1, <1>2, <2>2 DEF Passed, Ordered, OpenBars
  <2> QED  BY <2>1, <2>2
<1>7. AllLooked'
  BY <1>2 DEF AllLooked, Flying, Landed
<1> QED  BY <1>4, <1>5, <1>6, <1>7 DEF Ordered

\* The steps that send.
LEMMA SendOrdered ==
  ASSUME Inductive, Ordered, NEW t \in Targets,
         Attempt(t) \/ ReserveFails(t) \/ Take(t) \/ Succeed(t) \/ Fail(t)
  PROVE  Ordered'
<1>1. /\ pc \in {"send"} \cup Flying /\ First(elig, t) /\ t \in elig /\ InBatch
      /\ pc \notin {"look", "sleep", "idle", "detect", "visit"} /\ left = {}
  BY DEF Ordered, AllLooked, Attempt, ReserveFails, Take, Succeed, Fail, Record, First,
         InBatch, Flying, Landed
<1>2. mem \in State /\ cur \in Batches
  BY <1>1, TurnFacts DEF Inductive, TypeOK
<1>3. CASE Attempt(t) \/ Take(t)
  <2>1. /\ UNCHANGED <<todo, cur, left, elig, blocked>> /\ pc' \in Flying
        /\ mem'.box = mem.box
    BY <1>1, <1>3, ReserveFacts DEF Attempt, Take, pass, Flying, Landed
  <2>2. InBatch' /\ pc' \notin {"sleep", "idle", "detect"}
    BY <2>1 DEF InBatch, Flying, Landed
  <2>3. OpenBars'
    BY <1>1, <2>1, <2>2 DEF Ordered, OpenBars, Passed, IsImage
  <2>4. ChosenUnbarred' /\ RestIsLater'
    BY <1>1, <2>1, <2>2 DEF Ordered, ChosenUnbarred, RestIsLater, Barred, IsImage
  <2>5. AllLooked'
    BY <1>1, <2>1 DEF AllLooked
  <2> QED  BY <2>3, <2>4, <2>5 DEF Ordered
<1>4. CASE ReserveFails(t)
  BY <1>4, LeaveOrdered DEF ReserveFails, Abort
<1>5. CASE Succeed(t) \/ Fail(t)
  <2>1. PICK e \in Entry : /\ Record(t, e)
                           /\ e.status \in {"sent", "exhausted", "failed"}
    BY <1>5, SucceedEntry, FailEntry DEF Succeed, Fail
  <2>2. CASE Leave
    BY <2>2, LeaveOrdered
  <2>3. CASE ~Leave
    <3>1. /\ mem' = WithEntry(mem, cur, t, e) /\ elig' = elig \ {t}
          /\ pc' = IF elig' = {} THEN "visit" ELSE "send"
          /\ blocked' = IF e.status = "failed" THEN Block(t) ELSE blocked
          /\ UNCHANGED <<todo, cur, left>>
      BY <2>1, <2>3 DEF Record, Abort
    <3>2. /\ mem'.box[cur][t] = e
          /\ \A b \in Batches, u \in Targets :
               b # cur \/ u # t => mem'.box[b][u] = mem.box[b][u]
      BY <1>2, <3>1, WithEntryType
    <3>3. blocked \subseteq blocked' /\ blocked' \subseteq blocked \cup {<<GroupOf[cur], t>>}
      BY <3>1 DEF Block
    <3>4. InBatch' <=> elig' # {}
      BY <3>1 DEF InBatch, Flying, Landed
    <3>6. OpenBars'
      <4> SUFFICES ASSUME NEW b \in Batches, NEW u \in Targets, IsImage(b),
                          mem'.box[b][u].status \in Open, Passed(b, u)'
                   PROVE  <<GroupOf[b], u>> \in blocked'
        BY DEF OpenBars, IsImage
      <4>1. CASE b = cur /\ u = t
        <5>1. e.status = "failed"
          BY <2>1, <3>2, <4>1 DEF Open
        <5> QED  BY <3>1, <4>1, <5>1 DEF Block
      <4>2. CASE b # cur \/ u # t
        <5>1. Passed(b, u)
          BY <1>1, <3>1, <3>4, <4>2 DEF Passed
        <5> QED  BY <1>1, <3>2, <3>3, <4>2, <5>1 DEF Ordered, OpenBars
      <4> QED  BY <4>1, <4>2
    <3>7. ChosenUnbarred'
      BY <1>1, <3>1, <3>3 DEF Ordered, ChosenUnbarred, Barred, IsImage
    <3>8. RestIsLater'
      BY <1>1, <3>1 DEF Ordered, RestIsLater
    <3>9. AllLooked'
      BY <1>1, <3>1 DEF AllLooked
    <3> QED  BY <3>6, <3>7, <3>8, <3>9 DEF Ordered
  <2> QED  BY <2>2, <2>3
<1> QED  BY <1>3, <1>4, <1>5

\* Every step keeps the order.
LEMMA NextOrdered == Inductive /\ Ordered /\ [Next]_vars => Ordered'
<1> SUFFICES ASSUME Inductive, Ordered, [Next]_vars PROVE Ordered'
  OBVIOUS
<1>1. CASE UNCHANGED <<mem, pc, pass>>
  BY <1>1 DEF pass, Ordered, OpenBars, ChosenUnbarred, RestIsLater, AllLooked, InBatch,
              Passed, Barred, First, IsImage
<1>2. CASE UNCHANGED vars \/ Tick
  BY <1>1, <1>2 DEF vars, Tick
<1>3. CASE StartDrain \/ StartCheck \/ Detect
  BY <1>3, BeginOrdered, LeaveOrdered DEF StartDrain, StartCheck, Detect, Abort
<1>4. CASE Crash \/ EndDrain \/ EndCheck
  BY <1>4, LeaveOrdered DEF Crash, EndDrain, EndCheck
<1>5. CASE LateError \/ FallBack
  <2>1. /\ UNCHANGED <<mem, todo, cur, left, elig, blocked>>
        /\ pc \in Flying /\ pc' \in Flying /\ pc' \notin {"sleep", "idle", "detect"}
    BY <1>5 DEF LateError, FallBack, pass, Flying, Landed
  <2>2. InBatch /\ InBatch' /\ pc \notin {"idle", "detect"}
    BY <2>1 DEF InBatch, Flying, Landed
  <2> QED
    BY <2>1, <2>2 DEF Ordered, OpenBars, ChosenUnbarred, RestIsLater, AllLooked, Passed,
                      Barred, IsImage
<1>6. CASE StartDetect
  <2>1. pc' = "detect"
    BY <1>6 DEF StartDetect
  <2> QED  BY <2>1 DEF Ordered, OpenBars, ChosenUnbarred, RestIsLater, AllLooked, InBatch,
                       Flying, Landed
<1>7. CASE NextBatch
  BY <1>7, NextBatchOrdered
<1> QED
  BY <1>2, <1>3, <1>4, <1>5, <1>6, <1>7, LookingOrdered, SendOrdered DEF Next, Step

\* In every reachable state what the pass leaves open bars what is behind it.
LEMMA OrderInvariant == Spec => []Ordered
BY InitOrdered, NextOrdered, InductiveInvariant, PTL DEF Spec

\* Only Attempt counts an attempt, of the batch and target whose turn it is.
LEMMA TriedStep ==
  ASSUME Inductive, [Next]_vars, tried' # tried
  PROVE  \E t \in Targets : Attempt(t)
<1>1. CASE UNCHANGED vars \/ StartDrain \/ StartCheck \/ LateError \/ Crash \/ Tick
           \/ NextBatch \/ FallBack \/ EndDrain \/ StartDetect \/ Detect \/ EndCheck
  BY <1>1 DEF vars, sends, StartDrain, StartCheck, LateError, Crash, Tick, NextBatch,
              FallBack, EndDrain, StartDetect, Detect, EndCheck
<1>2. \A t \in Targets :
        ~(Skip(t) \/ Defer(t) \/ Admit(t) \/ AwaitGap(t) \/ GapOver(t) \/ ReserveFails(t)
            \/ Take(t) \/ Succeed(t) \/ Fail(t))
  BY DEF Skip, Defer, Admit, AwaitGap, GapOver, Look, ReserveFails, Take, Succeed, Fail,
         Record, sends
<1> QED  BY <1>1, <1>2 DEF Next, Step

\* A page is attempted only when every earlier page of its group is over for that
\* target.
THEOREM PagesKeepOrder == Spec => PagesInOrder
<1> DEFINE Orderly ==
      \A b \in Batches, t \in Targets :
        tried'[b][t] # tried[b][t] /\ IsImage(b) =>
          \A a \in Batches :
            a < b /\ GroupOf[a] = GroupOf[b] => mem.box[a][t].status \notin Open
<1>1. Inductive /\ Ordered /\ [Next]_vars => Orderly
  <2> SUFFICES ASSUME Inductive, Ordered, [Next]_vars, NEW b \in Batches, NEW t \in Targets,
                      tried'[b][t] # tried[b][t], IsImage(b), NEW a \in Batches, a < b,
                      GroupOf[a] = GroupOf[b]
               PROVE  mem.box[a][t].status \notin Open
    OBVIOUS
  <2>1. PICK u \in Targets : Attempt(u)
    BY TriedStep
  <2>2. /\ pc = "send" /\ u \in elig /\ First(elig, u) /\ InBatch
        /\ tried' = [tried EXCEPT ![cur][u] = @ + 1]
    BY <2>1 DEF Attempt, First, InBatch
  <2>3. tried \in [Batches -> [Targets -> Nat]] /\ cur \in Batches
    BY <2>2, TurnFacts DEF Inductive, TypeOK
  <2>4. b = cur /\ t = u
    BY <2>2, <2>3
  <2>5. Passed(a, t)
    <3>1. a \in Nat /\ b \in Nat
      BY Constants
    <3> QED  BY <2>2, <2>4, <3>1 DEF Passed, Ordered, RestIsLater
  <2>6. <<GroupOf[a], t>> \notin blocked
    BY <2>2, <2>4 DEF Ordered, ChosenUnbarred, Barred
  <2> QED  BY <2>2, <2>5, <2>6 DEF Ordered, OpenBars, IsImage
<1> QED
  BY <1>1, InductiveInvariant, OrderInvariant, PTL DEF Spec, PagesInOrder

-----------------------------------------------------------------------------
(* Checks and failing saves *)

\* While an operation runs it has the lock, and of a check every save succeeded.
ChecksSaved ==
  /\ pc # "idle" => job # "none"
  /\ job \in {"check1", "check2"} => saveOk

\* Nothing runs at first.
LEMMA InitSaved == Init => ChecksSaved
BY DEF Init, ChecksSaved

\* A check that could not save has ended.
LEMMA NextSaved == Inductive /\ ChecksSaved /\ [Next]_vars => ChecksSaved'
<1> SUFFICES ASSUME Inductive, ChecksSaved, [Next]_vars PROVE ChecksSaved'
  OBVIOUS
<1>1. CASE UNCHANGED vars \/ LateError \/ Tick \/ NextBatch \/ FallBack \/ StartDetect
  BY <1>1 DEF vars, LateError, Tick, NextBatch, FallBack, StartDetect, PassOver, Flying, Landed,
              ChecksSaved
<1>2. CASE StartDrain \/ StartCheck \/ Detect
  BY <1>2 DEF StartDrain, StartCheck, Detect, BeginPass, SaveSucceeds, Abort, Leave, ChecksSaved
<1>3. CASE Crash \/ EndDrain \/ EndCheck
  BY <1>3 DEF Crash, EndDrain, EndCheck, Leave, ChecksSaved
<1>4. ASSUME NEW t \in Targets,
             \/ Skip(t) \/ Defer(t) \/ Admit(t) \/ AwaitGap(t) \/ GapOver(t)
             \/ Take(t)
      PROVE  ChecksSaved'
  BY <1>4 DEF Skip, Defer, Admit, AwaitGap, GapOver, Look, Take, ChecksSaved
<1>5. ASSUME NEW t \in Targets, Attempt(t) \/ ReserveFails(t) PROVE ChecksSaved'
  BY <1>5 DEF Attempt, ReserveFails, SaveSucceeds, Abort, Leave, ChecksSaved
<1>6. ASSUME NEW t \in Targets, Succeed(t) \/ Fail(t) PROVE ChecksSaved'
  <2>1. PICK e \in Entry : Record(t, e)
    BY <1>6, SucceedEntry, FailEntry DEF Succeed, Fail
  <2>2. pc # "idle"
    BY <1>6 DEF Succeed, Fail, Landed
  <2> QED  BY <2>1, <2>2 DEF Record, SaveSucceeds, Abort, Leave, ChecksSaved
<1> QED  BY <1>1, <1>2, <1>3, <1>4, <1>5, <1>6 DEF Next, Step

\* FSD.md:436: a check hands a message to the platform only if the save before that
\* succeeded.
THEOREM ChecksStop == Spec => ChecksStopSending
<1>1. Inductive /\ ChecksSaved /\ [Next]_vars => (tried' # tried /\ job # "drain" => saveOk)
  <2> SUFFICES ASSUME Inductive, ChecksSaved, [Next]_vars, tried' # tried, job # "drain"
               PROVE  saveOk
    OBVIOUS
  <2>1. pc # "idle"
    BY TriedStep DEF Attempt
  <2> QED  BY <2>1 DEF ChecksSaved, Inductive, TypeOK
<1> QED
  BY <1>1, InitSaved, NextSaved, InductiveInvariant, PTL DEF Spec, ChecksStopSending

-----------------------------------------------------------------------------
(* Due work.  The pass compares retry times and "now" as texts, while        *)
(* next_outbox_due_at compares them as instants.                             *)

\* As far as open targets go, what is later as a text is later.
TextsAgree ==
  \A b \in Batches, t \in Targets :
    mem.box[b][t].status \in Open /\ TextAfter(mem.box[b][t].retryAt, now)
      => mem.box[b][t].retryAt > now

\* The pass would attempt it now, if it is not barred.
Ready(s, b, t, at) ==
  /\ s.box[b][t].status \in Open
  /\ s.box[b][t].retryAt <= at
  /\ IsImage(b) => GapEnd(s.win[t]) <= at /\ WindowAllows(s.win[t], at)

\* Nor will it be barred before its turn.
InTurn(s, b, t, at) ==
  /\ Ready(s, b, t, at)
  /\ IsImage(b) =>
       \A a \in Batches : a < b /\ GroupOf[a] = GroupOf[b] /\ s.box[a][t].status \in Open
                            => Ready(s, a, t, at)

\* Due work that the pass has not come to.
Ahead(b, t) ==
  /\ InTurn(mem, b, t, now)
  /\ IsImage(b) => <<GroupOf[b], t>> \notin blocked
  /\ b \in todo \/ (InBatch /\ b = cur /\ t \in left)

\* As long as a drain that began with due work has sent nothing, something is
\* chosen already, or due work lies ahead.
DueAhead ==
  overdue =>
    /\ job = "drain" /\ pc \in {"visit", "look", "sleep", "send"}
    /\ \/ InBatch /\ elig # {}
       \/ \E b \in Batches, t \in Targets : Ahead(b, t)

\* The drain has not begun.
LEMMA InitDue == Init => DueAhead
BY DEF Init, DueAhead

\* A target whose time has come is ready.
LEMMA EarliestReady ==
  ASSUME NEW s \in State, NEW at \in Nat, NEW b \in Batches, NEW t \in Targets,
         s.box[b][t].status \in Open, Earliest(s, b, t, at) <= at
  PROVE  Ready(s, b, t, at)
<1>1. s.box[b][t].retryAt \in Nat
  BY DEF State, Entry
<1>2. s.win[t] \in ImageWindow /\ s.win[t].start \in Nat /\ s.win[t].last \in Nat
  BY DEF State, ImageWindow
<1>3. s.box[b][t].retryAt <= at /\ (IsImage(b) => GapEnd(s.win[t]) <= at)
  BY <1>1, <1>2, Constants DEF Earliest, Later, GapEnd, Never
<1>4. ASSUME WindowFull(s, b, t, at) PROVE FALSE
  <2>1. s.win[t].start + Window <= at
    BY <1>1, <1>2, <1>4, Constants DEF Earliest, Later, GapEnd, Never
  <2>2. s.win[t].start + Window > at
    BY <1>2, <1>4, Constants DEF WindowFull, WindowAllows, Expired
  <2> QED  BY <1>2, <2>1, <2>2, Constants
<1> QED  BY <1>3, <1>4 DEF Ready, WindowFull

\* What is ready is ready later.
LEMMA ReadyLater ==
  ASSUME NEW s \in State, NEW b \in Batches, NEW t \in Targets,
         NEW x \in Nat, NEW y \in Nat, x <= y
  PROVE  /\ Ready(s, b, t, x) => Ready(s, b, t, y)
         /\ InTurn(s, b, t, x) => InTurn(s, b, t, y)
<1>1. ASSUME NEW a \in Batches, Ready(s, a, t, x) PROVE Ready(s, a, t, y)
  <2>1. s.box[a][t].retryAt \in Nat /\ s.win[t] \in ImageWindow
    BY AttemptsType DEF State, Entry
  <2>2. GapEnd(s.win[t]) \in Nat
    BY <2>1, Constants DEF GapEnd, ImageWindow, Never
  <2> QED  BY <1>1, <2>1, <2>2, AllowsLater DEF Ready
<1> QED  BY <1>1 DEF InTurn

\* What is ready is admitted unless it is barred.
LEMMA ReadyIsAdmitted ==
  ASSUME Inductive, TextsAgree, pc \in {"look", "sleep"}, NEW t \in Targets,
         Ready(mem, cur, t, now)
  PROVE  IsOpen(t) /\ (Deferred(t) => Barred(t)) /\ ~GapOpen(t)
<1>1. cur \in Batches /\ mem \in State /\ now \in Nat
  BY DEF Inductive, EligibleIsOpen, InBatch, TypeOK
<1>2. mem.box[cur][t].retryAt \in Nat /\ mem.win[t] \in ImageWindow
  BY <1>1, AttemptsType DEF State, Entry
<1>3. GapEnd(mem.win[t]) \in Nat
  BY <1>2, Constants DEF GapEnd, ImageWindow, Never
<1>4. ~GapOpen(t)
  BY <1>1, <1>3 DEF Ready, GapOpen
<1>5. ~TooEarly(t)
  BY <1>1, <1>2 DEF Ready, TooEarly, TextsAgree
<1> QED  BY <1>4, <1>5 DEF Ready, IsOpen, Deferred, WindowFull

\* A drain that begins when next_outbox_due_at says "now" has due work ahead.
LEMMA StartDrainDue ==
  ASSUME Inductive, Throttled, StartDrain
  PROVE  DueAhead'
<1> DEFINE s == Load(disk)
           dues == {Earliest(s, c[1], c[2], clock) : c \in Candidates(s, clock)}
<1>1. SUFFICES ASSUME NextDue(s, clock) = clock
               PROVE  \E b \in Batches, t \in Targets : Ahead(b, t)'
  BY DEF StartDrain, BeginPass, DueAhead, Flying, Landed
<1>2. s \in State /\ clock \in Nat /\ clock >= 1
  BY CopyFacts DEF Inductive, TypeOK, Throttled
<1>3. clock \in dues
  <2>1. dues # {}
    BY <1>1, <1>2 DEF NextDue, Never
  <2>2. \A d \in dues : d \in Nat
    <3> SUFFICES ASSUME NEW b \in Batches, NEW t \in Targets
                 PROVE  Earliest(s, b, t, clock) \in Nat
      BY DEF Candidates
    <3> QED  BY <1>2, EarliestType
  <2>3. \E d \in dues : \A u \in dues : d <= u
    BY <2>1, <2>2, LeastNumber
  <2> QED  BY <1>1, <2>1, <2>3 DEF NextDue
<1>4. PICK b \in Batches, t \in Targets :
        /\ s.box[b][t].status \in Open /\ ~Behind(s, b, t, clock)
        /\ Earliest(s, b, t, clock) = clock
  BY <1>3 DEF Candidates
<1>5. ASSUME NEW a \in Batches, s.box[a][t].status \in Open, Earliest(s, a, t, clock) <= clock
      PROVE  Ready(s, a, t, clock)
  BY <1>2, <1>5, EarliestReady
<1>6. InTurn(s, b, t, clock)
  <2>1. Ready(s, b, t, clock)
    BY <1>2, <1>4, <1>5
  <2>2. ASSUME IsImage(b), NEW a \in Batches, a < b, GroupOf[a] = GroupOf[b],
               s.box[a][t].status \in Open
        PROVE  Ready(s, a, t, clock)
    <3>1. ~(Earliest(s, a, t, clock) > clock)
      BY <1>4, <2>2 DEF Behind
    <3> QED  BY <1>2, <1>5, <2>2, <3>1, EarliestType
  <2> QED  BY <2>1, <2>2 DEF InTurn
<1>7. b \in InOutbox(s)
  BY <1>4 DEF InOutbox, TargetsOf, Open
<1>8. mem' = s /\ now' = clock /\ todo' = InOutbox(s) /\ blocked' = {}
  BY DEF StartDrain, BeginPass
<1>9. InTurn(mem', b, t, now')
  BY <1>6, <1>8
<1>10. Ahead(b, t)'
  BY <1>7, <1>8, <1>9 DEF Ahead
<1> QED  BY <1>10

\* A target is looked at: it was due and is chosen, or the due work is another's.
LEMMA LookingDue ==
  ASSUME Inductive, TextsAgree, Throttled, Ordered, DueAhead, NEW u \in Targets,
         Skip(u) \/ Defer(u) \/ Admit(u) \/ AwaitGap(u) \/ GapOver(u)
  PROVE  DueAhead'
<1>1. /\ pc \in {"look", "sleep"} /\ First(left, u) /\ u \in left /\ InBatch
      /\ UNCHANGED <<mem, job, todo, cur, overdue>>
      /\ pc' \in {"look", "sleep", "send", "visit"}
      /\ elig' \in {elig, elig \cup {u}} /\ left' \in {left, left \ {u}}
      /\ elig' # {} => pc' # "visit"
      /\ left' # {} => pc' # "visit"
  BY DEF Skip, Defer, Admit, AwaitGap, GapOver, Look, Looked, First, InBatch
<1>2. InBatch' <=> pc' # "visit"
  BY <1>1 DEF InBatch, Flying, Landed
<1>3. SUFFICES ASSUME overdue, elig' = {}
               PROVE  \E b \in Batches, t \in Targets : Ahead(b, t)'
  BY <1>1, <1>2 DEF DueAhead, Flying, Landed
<1>4. PICK b \in Batches, t \in Targets : Ahead(b, t)
  BY <1>1, <1>3 DEF DueAhead
<1>5. /\ mem \in State /\ now \in Nat /\ clock \in Nat /\ now <= clock /\ cur \in Batches
      /\ u \in Nat /\ left \subseteq Nat
  BY <1>1, Constants DEF Inductive, TypeOK, EligibleIsOpen, Throttled
<1>6. now' \in Nat /\ now <= now'
  BY <1>5 DEF Skip, Defer, Admit, AwaitGap, GapOver
<1>7. InTurn(mem, b, t, now')
  BY <1>4, <1>5, <1>6, ReadyLater DEF Ahead
\* What is looked at is no page of the group before the due one, nor that itself.
<1>8. ASSUME u = t, cur = b \/ (IsImage(b) /\ cur < b /\ GroupOf[cur] = GroupOf[b]),
             IsOpen(u)
      PROVE  FALSE
  <2>1. Ready(mem, cur, u, now)
    BY <1>4, <1>5, <1>8 DEF Ahead, InTurn, IsOpen
  <2>2. ~Barred(u)
    BY <1>4, <1>8 DEF Ahead, Barred, IsImage
  <2>3. ~Deferred(u) /\ ~GapOpen(u)
    BY <1>1, <2>1, <2>2, ReadyIsAdmitted
  <2>4. pc # "sleep"
    BY <1>1, <1>5, <2>3 DEF Throttled, SleepFits, GapOpen
  <2>5. Admit(u)
    BY <1>1, <1>8, <2>3, <2>4 DEF Skip, Defer, Admit, AwaitGap, GapOver
  <2> QED  BY <1>3, <2>5 DEF Admit, Looked
<1>9. ASSUME IsImage(b) PROVE <<GroupOf[b], t>> \notin blocked'
  <2>1. <<GroupOf[b], t>> \notin blocked
    BY <1>4, <1>9 DEF Ahead
  <2>2. blocked' = blocked \/ (blocked' = Block(u) /\ IsOpen(u))
    BY <1>1 DEF Skip, Defer, Admit, AwaitGap, GapOver, Inductive, EligibleIsOpen
  <2>3. ASSUME blocked' = Block(u), IsOpen(u), IsImage(cur), GroupOf[cur] = GroupOf[b], u = t
        PROVE  FALSE
    <3>1. cur = b \/ cur < b
      BY <1>1, <1>4 DEF Ahead, Ordered, RestIsLater
    <3> QED  BY <1>8, <1>9, <2>3, <3>1
  <2> QED  BY <2>1, <2>2, <2>3 DEF Block
<1>10. b \in todo \/ (b = cur /\ t \in left /\ t # u)
  <2>1. SUFFICES ASSUME b = cur, t \in left, u = t PROVE FALSE
    BY <1>4 DEF Ahead
  <2>2. IsOpen(u)
    BY <1>4, <2>1 DEF Ahead, InTurn, Ready, IsOpen
  <2> QED  BY <1>8, <2>1, <2>2
<1>11. b \in todo' \/ (InBatch' /\ b = cur' /\ t \in left')
  BY <1>1, <1>2, <1>10
<1> QED  BY <1>1, <1>7, <1>9, <1>11 DEF Ahead, IsImage

\* The pass goes on to its next batch.
LEMMA NextBatchDue == ASSUME Inductive, DueAhead, NextBatch PROVE DueAhead'
<1>1. PICK c \in todo : cur' = c /\ todo' = todo \ {c} /\ left' = TargetsOf(mem, c)
  BY DEF NextBatch
<1>2. ~InBatch /\ InBatch' /\ pc' = "look" /\ UNCHANGED <<mem, job, now, blocked, overdue>>
  BY DEF NextBatch, InBatch, Flying, Landed
<1>3. SUFFICES ASSUME overdue PROVE \E b \in Batches, t \in Targets : Ahead(b, t)'
  BY <1>2 DEF DueAhead, Flying, Landed
<1>4. PICK b \in Batches, t \in Targets : Ahead(b, t)
  BY <1>2, <1>3 DEF DueAhead
<1>5. b = c => t \in TargetsOf(mem, c)
  BY <1>4 DEF Ahead, InTurn, Ready, TargetsOf, Open
<1>6. b \in todo' \/ (b = cur' /\ t \in left')
  BY <1>1, <1>2, <1>4, <1>5 DEF Ahead
<1>7. InTurn(mem', b, t, now') /\ (IsImage(b) => <<GroupOf[b], t>> \notin blocked')
  BY <1>2, <1>4 DEF Ahead
<1> QED  BY <1>2, <1>6, <1>7 DEF Ahead, IsImage

\* Every step keeps due work ahead until something is sent.
LEMMA NextDueAhead ==
  Inductive /\ Throttled /\ Ordered /\ TextsAgree /\ DueAhead /\ [Next]_vars => DueAhead'
<1> SUFFICES ASSUME Inductive, Throttled, Ordered, TextsAgree, DueAhead, [Next]_vars
             PROVE  DueAhead'
  OBVIOUS
<1>1. CASE UNCHANGED <<mem, job, pc, pass, overdue>>
  <2>1. UNCHANGED <<now, todo, cur, left, elig, blocked>> /\ (InBatch' <=> InBatch)
    BY <1>1 DEF pass, InBatch
  <2>2. \A b \in Batches, t \in Targets : Ahead(b, t)' <=> Ahead(b, t)
    BY <1>1, <2>1 DEF Ahead, InTurn, Ready, IsImage
  <2> QED  BY <1>1, <2>1, <2>2 DEF DueAhead
<1>2. CASE UNCHANGED vars \/ Tick
  BY <1>1, <1>2 DEF vars, Tick
<1>3. CASE StartDrain
  BY <1>3, StartDrainDue
<1>4. CASE ~overdue'
  BY <1>4 DEF DueAhead
<1>5. CASE pc \in {"idle", "detect"} \cup Flying \/ job # "drain"
  <2>1. ~overdue
    BY <1>5 DEF DueAhead, Flying, Landed
  <2>2. overdue' = overdue \/ overdue' = FALSE \/ StartDrain \/ Tick \/ UNCHANGED vars
    BY DEF Next, Step, StartCheck, LateError, Crash, NextBatch, FallBack, Skip, Defer, Admit,
           AwaitGap, GapOver, Look, Attempt, ReserveFails, Take, Succeed, Fail, Record,
           EndDrain, StartDetect, Detect, EndCheck, Abort, Leave
  <2> QED  BY <1>2, <1>3, <1>4, <2>1, <2>2
<1>6. CASE NextBatch
  BY <1>6, NextBatchDue
<1>7. ASSUME NEW t \in Targets, Skip(t) \/ Defer(t) \/ Admit(t) \/ AwaitGap(t) \/ GapOver(t)
      PROVE  DueAhead'
  BY <1>7, LookingDue
<1>8. ASSUME NEW t \in Targets, Attempt(t) \/ ReserveFails(t) PROVE DueAhead'
  BY <1>4, <1>8 DEF Attempt, ReserveFails, Abort, Leave
<1>9. CASE EndDrain \/ EndCheck \/ Crash
  BY <1>4, <1>9 DEF EndDrain, EndCheck, Crash, Leave
<1>10. ASSUME \/ StartCheck \/ StartDetect \/ Detect \/ LateError \/ FallBack
              \/ \E t \in Targets : Take(t) \/ Succeed(t) \/ Fail(t)
       PROVE  DueAhead'
  <2>1. pc \in {"idle", "detect"} \cup Flying \/ job # "drain"
    BY <1>10 DEF StartCheck, StartDetect, Detect, LateError, FallBack, Take, Succeed, Fail,
                 Flying, Landed
  <2> QED  BY <1>5, <2>1
<1>11. CASE Step
  BY <1>6, <1>7, <1>8, <1>9, <1>10, <1>11 DEF Step
<1>12. CASE StartCheck \/ LateError
  BY <1>10, <1>12
<1> QED  BY <1>2, <1>3, <1>9, <1>11, <1>12 DEF Next

\* A drain that begins when next_outbox_due_at says "now" sends something, unless
\* the text of some retry time is later than that of "now" and the time is not.
THEOREM DueDrainsSend == Spec /\ []TextsAgree => []DueDrainSends
<1>1. Inductive /\ DueAhead => DueDrainSends
  BY DEF DueAhead, DueDrainSends, PassOver, Ahead, InBatch, Flying, Landed
<1>2. Spec /\ []TextsAgree => []DueAhead
  BY InitDue, NextDueAhead, InductiveInvariant, ThrottleInvariant, OrderInvariant, PTL DEF Spec
<1> QED  BY <1>1, <1>2, InductiveInvariant, PTL

=============================================================================
