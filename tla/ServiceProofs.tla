--------------------------- MODULE ServiceProofs ----------------------------
(***************************************************************************)
(* Proofs about Service, for any commands, in any number, any number of    *)
(* saves that raise and any number of reloads: no save loses an update and *)
(* no pending work is left unwatched, as long as no command outlives its   *)
(* instance.                                                               *)
(***************************************************************************)
EXTENDS Service, TLAPS

\* Every task that is under way belongs to the instance that AstrBot calls.
Current ==
  /\ instance \in Instances /\ (phase # "up" => instance <= MaxReloads)
  /\ owner \in [Commands -> Instances]
  /\ \A c \in Commands : pc[c] \in {"queued", "in"} => owner[c] = instance
  /\ \A i \in Instances : i # instance \/ phase # "up" => pc[DrainLoop(i)] = "off"
  /\ \A i \in Instances : i # instance \/ phase = "down" => pc[AutoLoop(i)] = "off"

Typed ==
  /\ disk \in States /\ mem \in [Tasks -> States]
  /\ pc \in [Tasks -> Places] /\ DOMAIN lock = Instances

\* What the lock is for: only its holder is between its load and its last save,
\* and what it holds in memory is what is on disk.
Exclusive == \A t \in Tasks : pc[t] = "in" => lock[instance].holder = t /\ mem[t] = disk

Serial == Current /\ Typed /\ Exclusive

\* Keeps is reflexive.
LEMMA KeepsSame == ASSUME NEW s \in States PROVE Keeps(s, s)
<1>1. \A b \in Checkers : Rank(s.work[b]) \in Int
  BY DEF States, Status, Rank, Batches
<1> QED
  BY <1>1 DEF Keeps

\* A batch that moves on from none or pending to a later status, a subscription
\* and a change of the diagnostic batch keep what there is.
LEMMA KeepsUpdate ==
  ASSUME NEW s \in States, NEW b \in Batches, NEW status \in Status,
         b = Diag \/ (s.work[b] = "none" /\ status = "pending")
                  \/ (s.work[b] = "pending" /\ status = "done")
  PROVE  WithStatus(s, b, status) \in States /\ Keeps(s, WithStatus(s, b, status))
<1> DEFINE new == WithStatus(s, b, status)
<1>1. new \in States /\ new.edits = s.edits
      /\ \A c \in Batches : new.work[c] = IF c = b THEN status ELSE s.work[c]
  BY DEF WithStatus, States
<1>2. Diag \notin Checkers
  BY ServiceAssumption DEF Checkers, Tasks, Commands, Loops
<1>3. \A c \in Checkers : Rank(s.work[c]) <= Rank(new.work[c])
  BY <1>1, <1>2 DEF States, Status, Rank, Batches
<1> QED
  BY <1>1, <1>3 DEF Keeps

\* A subscription adds to the subscriptions.
LEMMA KeepsEdit ==
  ASSUME disk \in States, NEW e \in Edits
  PROVE  Subscribe(e) \in States /\ Keeps(disk, Subscribe(e))
<1>1. Subscribe(e) \in States /\ Subscribe(e).work = disk.work
      /\ disk.edits \subseteq Subscribe(e).edits
  BY DEF Subscribe, States
<1> QED
  BY <1>1, KeepsSame DEF Keeps

\* The first state is one.
LEMMA BlankState == Blank \in States
  BY DEF Blank, States, Status

\* At first nobody is in the lock.
LEMMA SerialInit == Init => Serial
<1> SUFFICES ASSUME Init PROVE Serial
  OBVIOUS
<1>1. 1 \in Instances /\ AutoStart \in {"waiting", "off"}
  BY ServiceAssumption DEF Instances, AutoStart
<1>2. \A i \in Instances : DrainLoop(i) \in Tasks \ Commands /\ AutoLoop(i) \in Tasks \ Commands
        /\ AutoLoop(i) # DrainLoop(1) /\ DrainLoop(i) # AutoLoop(1)
        /\ (i # 1 => DrainLoop(i) # DrainLoop(1) /\ AutoLoop(i) # AutoLoop(1))
  BY ServiceAssumption DEF DrainLoop, AutoLoop, Loops, Tasks
<1>3. pc \in [Tasks -> Places \ {"in"}]
  BY <1>1 DEF Init, Places
<1>4. Current
  BY <1>1, <1>2 DEF Init, Current, Tasks
<1> QED
  BY <1>3, <1>4, BlankState DEF Init, Serial, Typed, Exclusive

-----------------------------------------------------------------------------
(* One task moves *)

Moves(t, where) == pc' = [pc EXCEPT ![t] = where]

\* The task t is under way or a command that arrives now.
Frame(t) ==
  /\ UNCHANGED <<instance, phase>>
  /\ pc[t] # "off"
  /\ owner' \in [Commands -> Instances]
  /\ \A c \in Commands : owner'[c] = IF c = t THEN instance ELSE owner[c]

\* A task that moves within its instance leaves the others where they belong.
LEMMA CurrentStep ==
  ASSUME Serial, NEW t \in Tasks, Frame(t), NEW where \in Places, Moves(t, where)
  PROVE  Current'
<1>1. \A i \in Instances : DrainLoop(i) \in Tasks /\ AutoLoop(i) \in Tasks
  BY DEF DrainLoop, AutoLoop, Loops, Tasks
<1>2. Commands \subseteq Tasks /\ pc \in [Tasks -> Places]
  BY DEF Tasks, Serial, Typed
<1> QED
  BY <1>1, <1>2 DEF Serial, Current, Frame, Moves

\* A task that is under way is one of the current instance.
LEMMA Present ==
  ASSUME Serial, NEW t \in Tasks, pc[t] \notin {"new", "done", "off"},
         t \in Commands => pc[t] \in {"queued", "in"}
  PROVE  InstanceOf(t) = instance
<1>1. CASE t \in Commands
  BY <1>1, ServiceAssumption DEF InstanceOf, Serial, Current
<1>2. CASE t \in Loops
  BY <1>2 DEF InstanceOf, Loops, DrainLoop, AutoLoop, Serial, Current
<1> QED
  BY <1>1, <1>2 DEF Tasks

\* A task that moves during no reload keeps the frame.
LEMMA FrameStays ==
  ASSUME Serial, NEW t \in Tasks, UNCHANGED lifecycle, pc[t] # "off",
         t \in Commands => pc[t] \in {"queued", "in"}
  PROVE  Frame(t)
  BY DEF Serial, Current, Frame, lifecycle

\* The holder goes on inside the lock with what it has saved, or leaves it.
LEMMA HolderStep ==
  ASSUME Serial, UNCHANGED lifecycle,
         NEW t \in Tasks, pc[t] = "in", NEW new \in States, NEW where \in Places \ {"in"},
         disk' \in {disk, new},
         \/ UNCHANGED <<lock, pc>> /\ disk' = new /\ mem' = [mem EXCEPT ![t] = new]
         \/ /\ \/ lock' = [lock EXCEPT ![instance] = Freed(@)]
               \/ lock' = [lock EXCEPT ![instance] = Queued(Freed(@), t)]
            /\ Moves(t, where) /\ mem' = [mem EXCEPT ![t] = Blank]
  PROVE  Serial'
<1>1. Current'
  <2>1. Frame(t)
    BY FrameStays
  <2>2. Moves(t, pc[t]) \/ Moves(t, where)
    BY DEF Moves, Serial, Typed
  <2> QED
    BY <2>1, <2>2, CurrentStep DEF Serial, Typed
<1>2. Typed' /\ Exclusive'
  BY BlankState DEF Serial, Typed, Exclusive, Moves, lifecycle, Current
<1> QED
  BY <1>1, <1>2 DEF Serial

\* A task takes a free lock and loads the state, or waits for it.
LEMMA EnterStep ==
  ASSUME Serial, NEW t \in Tasks, Frame(t),
         lock[instance].holder = Nobody, NEW new \in States,
         Enter(t, instance), disk' = new, mem' = [mem EXCEPT ![t] = new]
  PROVE  Serial'
<1>1. Current'
  BY CurrentStep DEF Enter, Moves, Places
<1>2. Typed' /\ Exclusive'
  BY ServiceAssumption DEF Enter, Taken, Serial, Typed, Exclusive, Places, Frame, Current
<1> QED
  BY <1>1, <1>2 DEF Serial

\* A task outside the lock moves, and nothing else happens there.
LEMMA OutsideStep ==
  ASSUME Serial, NEW t \in Tasks, Frame(t),
         pc[t] # "in", NEW where \in Places \ {"in"}, Moves(t, where),
         UNCHANGED <<disk, mem>>,
         \/ UNCHANGED lock
         \/ lock' = [lock EXCEPT ![instance] = Queued(@, t)]
         \/ lock[instance].holder = Nobody /\ lock' = [lock EXCEPT ![instance] = Without(@, t)]
  PROVE  Serial'
<1>1. Current'
  BY CurrentStep
<1>2. Typed' /\ Exclusive'
  BY ServiceAssumption DEF Serial, Typed, Exclusive, Moves, Queued, Without, Frame, Current
<1> QED
  BY <1>1, <1>2 DEF Serial

\* A command that needs the lock for no more than one step runs while it is free.
LEMMA EditStep ==
  ASSUME Serial, NEW t \in Tasks, Frame(t),
         lock[instance].holder = Nobody, Moves(t, "done"), UNCHANGED mem,
         disk' \in States,
         UNCHANGED lock \/ lock' = [lock EXCEPT ![instance] = Without(@, t)]
  PROVE  Serial'
<1>1. Current'
  BY CurrentStep DEF Places
<1>2. Typed' /\ Exclusive'
  BY ServiceAssumption DEF Serial, Typed, Exclusive, Moves, Places, Frame, Current
<1> QED
  BY <1>1, <1>2 DEF Serial

-----------------------------------------------------------------------------
(* Checks, edits, deliveries, passes *)

\* What a command that arrives leaves of the rest.
LEMMA Arrives ==
  ASSUME Serial, NEW c \in Commands, Issue(c), UNCHANGED <<instance, phase>>
  PROVE  c \in Tasks /\ Frame(c) /\ pc[c] = "new"
  BY DEF Issue, Frame, Tasks, Serial, Current

\* A check that begins gives up, enters the lock or waits for it.
LEMMA CheckBegins ==
  ASSUME Serial, NEW t \in Checkers, pc[t] # "in", Frame(t), BeginCheck(t, instance),
         disk' = disk
  PROVE  Serial'
<1>0. t \in Tasks /\ Rest(t) \in Places \ {"in"}
  BY DEF Checkers, Tasks, Commands, Loops, Rest, Places
<1>1. CASE pc' = [pc EXCEPT ![t] = Rest(t)] /\ UNCHANGED <<lock, mem>>
  BY <1>0, <1>1, OutsideStep DEF Moves
<1>2. CASE AtOnce(instance) /\ Enter(t, instance) /\ mem' = [mem EXCEPT ![t] = disk]
  BY <1>0, <1>2, EnterStep DEF AtOnce, Locked, Serial, Typed
<1>3. CASE Wait(t, instance, "queued") /\ UNCHANGED mem
  BY <1>0, <1>3, OutsideStep DEF Wait, Moves, Places
<1> QED
  BY <1>1, <1>2, <1>3 DEF BeginCheck

\* An edit saves what it read and changed, or nothing.
LEMMA EditRuns ==
  ASSUME disk \in States, NEW e \in Edits, NEW i \in Instances, RunEdit(e, i)
  PROVE  disk' \in States /\ Keeps(disk, disk')
<1>1. Diag \in Batches /\ "held" \in Status /\ "none" \in Status
  BY DEF Batches, Status
<1> QED
  BY <1>1, KeepsSame, KeepsEdit, KeepsUpdate DEF RunEdit, Saves, Raises

\* A step of the holder that saves new, or fails.
LEMMA InsideSaved ==
  ASSUME Serial, NEW t \in Tasks, pc[t] = "in", NEW b \in Batches,
         NEW status \in {"pending", "done"},
         \/ mem[t].work[b] = "none" /\ status = "pending"
         \/ mem[t].work[b] = "pending" /\ status = "done",
         UNCHANGED lifecycle, NEW where \in Places \ {"in"},
         \/ /\ disk' = WithStatus(mem[t], b, status)
            /\ mem' = [mem EXCEPT ![t] = WithStatus(mem[t], b, status)]
            /\ UNCHANGED <<lock, pc>>
         \/ /\ disk' \in {disk, WithStatus(mem[t], b, status)}
            /\ mem' = [mem EXCEPT ![t] = Blank]
            /\ Leave(t, instance, where)
  PROVE  Serial' /\ Keeps(disk, disk')
<1>1. mem[t] = disk /\ disk \in States /\ status \in Status
  BY DEF Serial, Exclusive, Typed, Status
<1>2. WithStatus(disk, b, status) \in States /\ Keeps(disk, WithStatus(disk, b, status))
  BY <1>1, KeepsUpdate
<1>3. Serial'
  BY <1>1, <1>2, HolderStep DEF Leave, Moves
<1> QED
  BY <1>1, <1>2, <1>3, KeepsSame

-----------------------------------------------------------------------------
(* A reload *)

\* A reload cancels a loop, wherever it is.
LEMMA CancelStep ==
  ASSUME Serial, NEW t \in Loops, Cancel(t, instance),
         UNCHANGED <<disk, owner, instance>>,
         \/ phase = "up" /\ instance <= MaxReloads /\ phase' = "stopping"
            /\ t = DrainLoop(instance)
         \/ phase = "stopping" /\ phase' = "down" /\ t = AutoLoop(instance)
  PROVE  Serial'
<1>1. t \in Tasks /\ t \notin Commands /\ "off" \in Places
  BY ServiceAssumption DEF Tasks, Places
<1>2. \A i \in Instances : DrainLoop(i) \in Tasks /\ AutoLoop(i) \in Tasks
  BY DEF Tasks, Loops
<1>3. pc' = [pc EXCEPT ![t] = "off"]
  BY DEF Cancel
<1>4. Current'
  BY <1>1, <1>2, <1>3 DEF Serial, Typed, Current, Tasks
<1>5. Typed' /\ Exclusive'
  BY <1>1, <1>3, BlankState, ServiceAssumption
  DEF Cancel, Without, Serial, Typed, Exclusive, Current
<1> QED
  BY <1>4, <1>5 DEF Serial

\* Nobody is under way in an instance that was terminated, unless a command is.
LEMMA NobodyInside ==
  ASSUME Serial, phase = "down", ~Running
  PROVE  \A t \in Tasks : pc[t] # "in"
BY DEF Running, Serial, Current, Tasks, Loops

\* A subscription that takes no lock finds nobody in one.
LEMMA UnlockedStep ==
  ASSUME Serial, NEW e \in Edits, EditUnlocked(e), ~outlived'
  PROVE  Serial' /\ Keeps(disk, disk')
<1>1. e \in Tasks /\ e \in Commands /\ disk \in States /\ pc \in [Tasks -> Places]
  BY DEF Tasks, Commands, Serial, Typed
<1>2. \A t \in Tasks : pc[t] # "in"
  BY NobodyInside DEF EditUnlocked
<1>3. disk' \in States /\ Keeps(disk, disk')
  BY <1>1, KeepsSame, KeepsEdit DEF EditUnlocked, Saves, Raises
<1>4. Moves(e, "done") /\ UNCHANGED <<mem, lock, owner, instance, phase>> /\ pc[e] = "new"
  BY DEF EditUnlocked, Moves
<1>5. \A i \in Instances : DrainLoop(i) \in Tasks \ Commands /\ AutoLoop(i) \in Tasks \ Commands
  BY ServiceAssumption DEF DrainLoop, AutoLoop, Loops, Tasks
<1>6. Current'
  BY <1>1, <1>4, <1>5 DEF Serial, Current, Moves
<1>7. Typed' /\ Exclusive'
  BY <1>1, <1>2, <1>3, <1>4 DEF Serial, Typed, Exclusive, Moves, Places
<1> QED  BY <1>3, <1>6, <1>7 DEF Serial

\* The new instance finds no command under way: its lock is free, and so is
\* nothing in memory.
LEMMA InitializeStep ==
  ASSUME Serial, Initialize, ~outlived'
  PROVE  Serial'
<1> DEFINE next == instance + 1
<1>1. \A t \in Tasks : pc[t] # "in"
  BY NobodyInside DEF Initialize
<1>2. AutoStart \in {"waiting", "off"} /\ pc' = [pc EXCEPT ![DrainLoop(next)] = "top",
                                                    ![AutoLoop(next)] = AutoStart]
  BY DEF AutoStart, Initialize
<1>3. instance' = next /\ phase' = "up" /\ UNCHANGED <<disk, mem, lock, owner>>
  BY DEF Initialize
<1>4. next \in Instances
  BY ServiceAssumption DEF Initialize, Serial, Current, Instances
<1>5. \A i \in Instances : DrainLoop(i) \in Tasks \ Commands /\ AutoLoop(i) \in Tasks \ Commands
        /\ AutoLoop(i) # DrainLoop(next) /\ DrainLoop(i) # AutoLoop(next)
        /\ (i # next => DrainLoop(i) # DrainLoop(next) /\ AutoLoop(i) # AutoLoop(next))
  BY ServiceAssumption DEF DrainLoop, AutoLoop, Loops, Tasks
<1>6. pc' \in [Tasks -> Places] /\ \A t \in Tasks : pc'[t] # "in"
  BY <1>1, <1>2, <1>4, <1>5 DEF Serial, Typed, Places
<1>7. \A c \in Commands : pc'[c] = pc[c] /\ pc[c] \notin {"queued", "in"}
  BY <1>2, <1>4, <1>5 DEF Initialize, Running, Serial, Typed, Tasks
<1>8. \A i \in Instances : i # next => pc'[DrainLoop(i)] = "off" /\ pc'[AutoLoop(i)] = "off"
  BY <1>2, <1>4, <1>5 DEF Initialize, Serial, Typed, Current
<1>9. Current'
  BY <1>3, <1>4, <1>7, <1>8 DEF Current, Serial
<1> QED
  BY <1>3, <1>6, <1>9 DEF Serial, Typed, Exclusive

-----------------------------------------------------------------------------
(* The step *)

\* Every step keeps the lock exclusive and what was saved, while no command outlives its instance.
LEMMA SerialStep ==
  ASSUME Serial, [Next]_vars, ~outlived'
  PROVE  Serial' /\ Keeps(disk, disk')
<1>0. /\ disk \in States /\ Keeps(disk, disk) /\ instance \in Instances
      /\ Checkers \subseteq Tasks /\ Loops \subseteq Tasks /\ Edits \subseteq Commands
      /\ Delivers \subseteq Commands /\ Checks \subseteq Checkers \cap Commands
      /\ Commands \subseteq Tasks
      /\ Diag \in Batches /\ Checkers \subseteq Batches
  BY KeepsSame DEF Serial, Typed, Current, Checkers, Tasks, Commands, Loops, Batches
<1>1. ASSUME NEW c \in Checks, IssueCheck(c) PROVE Serial' /\ Keeps(disk, disk')
  BY <1>0, <1>1, Arrives, CheckBegins DEF IssueCheck
<1>2. ASSUME NEW e \in Edits, IssueEdit(e) PROVE Serial' /\ Keeps(disk, disk')
  <2>1. e \in Tasks /\ Frame(e) /\ pc[e] = "new"
    BY <1>0, <1>2, Arrives DEF IssueEdit
  <2>2. CASE AtOnce(instance) /\ RunEdit(e, instance) /\ Moves(e, "done") /\ UNCHANGED lock
    BY <1>0, <1>2, <2>1, <2>2, EditRuns, EditStep DEF IssueEdit, AtOnce, Locked
  <2>3. CASE Wait(e, instance, "queued") /\ UNCHANGED disk
    BY <1>0, <1>2, <2>1, <2>3, OutsideStep DEF IssueEdit, Wait, Moves, Places
  <2> QED
    BY <1>2, <2>2, <2>3 DEF IssueEdit, Moves
<1>3. ASSUME NEW e \in Edits, EditGranted(e) PROVE Serial' /\ Keeps(disk, disk')
  <2>1. e \in Tasks /\ Frame(e) /\ owner[e] = instance /\ InstanceOf(e) = instance
    BY <1>0, <1>3, FrameStays, Present DEF EditGranted, Serial, Current
  <2> QED
    BY <1>0, <1>3, <2>1, EditRuns, EditStep DEF EditGranted, Granted, Moves
<1>4. ASSUME NEW d \in Delivers, NEW i \in Instances, i = instance, Frame(d),
             lock[i].holder = Nobody, EnterDeliver(d, i)
      PROVE  Serial' /\ Keeps(disk, disk')
  <2>1. WithStatus(disk, Diag, "pending") \in States
        /\ Keeps(disk, WithStatus(disk, Diag, "pending"))
    BY <1>0, KeepsUpdate DEF Status
  <2>2. CASE Enter(d, i) /\ mem' = [mem EXCEPT ![d] = disk']
             /\ disk' \in {disk, WithStatus(disk, Diag, "pending")}
    BY <1>0, <1>4, <2>1, <2>2, EnterStep
  <2>3. CASE lock' = [lock EXCEPT ![i] = Without(@, d)] /\ Moves(d, "done") /\ UNCHANGED mem
             /\ disk' \in {disk, WithStatus(disk, Diag, "pending")}
    BY <1>0, <1>4, <2>1, <2>3, EditStep
  <2> QED
    BY <1>4, <2>2, <2>3 DEF EnterDeliver, Saves, Raises, Moves
<1>5. ASSUME NEW d \in Delivers, IssueDeliver(d) PROVE Serial' /\ Keeps(disk, disk')
  <2>1. d \in Tasks /\ Frame(d) /\ pc[d] = "new"
    BY <1>0, <1>5, Arrives DEF IssueDeliver
  <2>2. CASE AtOnce(instance) /\ EnterDeliver(d, instance)
    BY <1>0, <1>4, <2>1, <2>2 DEF AtOnce, Locked
  <2>3. CASE Wait(d, instance, "queued") /\ UNCHANGED <<disk, mem>>
    BY <1>0, <2>1, <2>3, OutsideStep DEF Wait, Moves, Places
  <2> QED
    BY <1>5, <2>2, <2>3 DEF IssueDeliver
<1>6. ASSUME NEW d \in Delivers, DeliverStep(d) PROVE Serial' /\ Keeps(disk, disk')
  <2>0. d \in Tasks /\ "done" \in Places \ {"in"}
    BY <1>0 DEF Places
  <2>1. CASE DeliverGranted(d)
    <3>1. Frame(d) /\ owner[d] = instance /\ InstanceOf(d) = instance
      BY <1>0, <2>0, <2>1, FrameStays, Present DEF DeliverGranted, Serial, Current
    <3> QED
      BY <1>0, <1>4, <2>1, <3>1 DEF DeliverGranted, Granted
  <2>2. CASE FinishDeliver(d)
    <3>1. /\ pc[d] = "in" /\ UNCHANGED <<disk, lifecycle>> /\ owner[d] = instance
          /\ lock' = [lock EXCEPT ![owner[d]] = Freed(@)]
          /\ Moves(d, "done") /\ mem' = [mem EXCEPT ![d] = Blank]
      BY <1>0, <2>2 DEF FinishDeliver, Leave, Moves, Serial, Current
    <3> QED
      BY <1>0, <2>0, <3>1, HolderStep
  <2> QED
    BY <1>6, <2>1, <2>2 DEF DeliverStep
<1>7. ASSUME NEW i \in Instances, AutoCheck(i) PROVE Serial' /\ Keeps(disk, disk')
  <2>1. AutoLoop(i) \in Checkers /\ AutoLoop(i) \in Loops /\ AutoLoop(i) \notin Commands
    BY ServiceAssumption DEF Checkers, Loops
  <2>2. Frame(AutoLoop(i)) /\ i = instance
    BY <1>0, <1>7, <2>1, FrameStays DEF AutoCheck, Serial, Current
  <2> QED
    BY <1>0, <1>7, <2>1, <2>2, CheckBegins DEF AutoCheck
<1>8. ASSUME NEW i \in Instances, PassStep(i) PROVE Serial' /\ Keeps(disk, disk')
  <2> DEFINE t == DrainLoop(i)
  <2>0. t \in Tasks /\ t \notin Commands /\ InstanceOf(t) = i /\ WaitFor(disk) \in Places \ {"in"}
    BY <1>0, ServiceAssumption DEF WaitFor, Places, Loops, InstanceOf, DrainLoop
  <2>1. pc[t] # "off" /\ UNCHANGED lifecycle
    BY <1>8 DEF PassStep, StartPass, PassGranted, FinishPass, DueGranted, Woken, Timeout
  <2>2. Frame(t) /\ i = instance
    BY <2>0, <2>1, FrameStays DEF Serial, Current
  <2>3. CASE StartPass(i)
    <3>1. CASE AtOnce(i) /\ Enter(t, i) /\ mem' = [mem EXCEPT ![t] = disk]
      BY <1>0, <2>0, <2>2, <2>3, <3>1, EnterStep DEF StartPass, AtOnce, Locked
    <3>2. CASE Wait(t, i, "queued") /\ UNCHANGED mem
      BY <1>0, <2>0, <2>2, <2>3, <3>2, OutsideStep DEF StartPass, Wait, Moves, Places
    <3> QED
      BY <2>3, <3>1, <3>2 DEF StartPass
  <2>4. CASE PassGranted(i)
    BY <1>0, <2>0, <2>2, <2>4, EnterStep DEF PassGranted, Granted
  <2>5. CASE FinishPass(i)
    <3>1. pc[t] = "in" /\ disk' = disk /\ mem' = [mem EXCEPT ![t] = Blank]
          /\ \E where \in Places \ {"in"} :
               /\ Moves(t, where)
               /\ \/ lock' = [lock EXCEPT ![instance] = Freed(@)]
                  \/ lock' = [lock EXCEPT ![instance] = Queued(Freed(@), t)]
      BY <2>0, <2>2, <2>5 DEF FinishPass, Leave, Moves, Places
    <3> QED
      BY <1>0, <2>0, <2>1, <3>1, HolderStep
  <2>6. CASE DueGranted(i)
    BY <1>0, <2>0, <2>2, <2>6, OutsideStep DEF DueGranted, Granted, Moves
  <2>7. CASE Woken(i) \/ Timeout(i)
    BY <1>0, <2>0, <2>2, <2>7, OutsideStep DEF Woken, Timeout, Moves, Places
  <2> QED
    BY <1>8, <2>3, <2>4, <2>5, <2>6, <2>7 DEF PassStep
<1>9. ASSUME NEW t \in Checkers, CheckStep(t) PROVE Serial' /\ Keeps(disk, disk')
  <2>0. t \in Tasks /\ Rest(t) \in Places \ {"in"} /\ t \in Batches
    BY <1>0 DEF Rest, Places
  <2>1. pc[t] \in {"queued", "in"} /\ UNCHANGED lifecycle
    BY <1>9 DEF CheckStep, CheckGranted, AddBatch, FinishCheck
  <2>2. InstanceOf(t) = instance /\ Frame(t)
    BY <2>0, <2>1, Present, FrameStays
  <2>3. CASE CheckGranted(t)
    BY <1>0, <2>0, <2>2, <2>3, EnterStep DEF CheckGranted, Granted
  <2>4. CASE AddBatch(t)
    <3>1. \/ /\ disk' = WithStatus(mem[t], t, "pending")
             /\ mem' = [mem EXCEPT ![t] = WithStatus(mem[t], t, "pending")]
             /\ UNCHANGED <<lock, pc>>
          \/ /\ disk' \in {disk, WithStatus(mem[t], t, "pending")}
             /\ mem' = [mem EXCEPT ![t] = Blank]
             /\ Leave(t, instance, Rest(t))
      BY <2>2, <2>4 DEF AddBatch, SaveInside, Saves, Raises, EndCheck
    <3> QED
      BY <2>0, <2>1, <2>4, <3>1, InsideSaved DEF AddBatch
  <2>5. CASE FinishCheck(t)
    <3>1. mem[t] = disk /\ disk' = disk
      BY <2>0, <2>5 DEF FinishCheck, Serial, Exclusive, Saves, Raises
    <3> QED
      BY <1>0, <2>0, <2>1, <2>2, <2>5, <3>1, HolderStep DEF FinishCheck, EndCheck, Leave, Moves
  <2> QED
    BY <1>9, <2>3, <2>4, <2>5 DEF CheckStep
<1>10. ASSUME NEW t \in Tasks \ Edits, SendBatch(t) PROVE Serial' /\ Keeps(disk, disk')
  <2>1. PICK b \in Batches :
          /\ mem[t].work[b] = "pending"
          /\ SaveInside(t, WithStatus(mem[t], b, "done"), PassFails(t))
    BY <1>10 DEF SendBatch
  <2>2. pc[t] = "in" /\ UNCHANGED lifecycle
    BY <1>10 DEF SendBatch
  <2>3. InstanceOf(t) = instance /\ Rest(t) \in Places \ {"in"}
        /\ (t \in Delivers => owner[t] = instance)
    BY <1>0, <2>2, Present DEF Rest, Places, Serial, Current
  <2>4. ASSUME PassFails(t) PROVE \E where \in Places \ {"in"} : Leave(t, instance, where)
    <3>1. EndCheck(t) \/ Leave(t, instance, "done") \/ Leave(t, instance, "timed")
      BY <2>3, <2>4 DEF PassFails
    <3> QED
      BY <2>3, <3>1 DEF EndCheck, Places
  <2>5. PICK where \in Places \ {"in"} :
        \/ /\ disk' = WithStatus(mem[t], b, "done")
           /\ mem' = [mem EXCEPT ![t] = WithStatus(mem[t], b, "done")]
           /\ UNCHANGED <<lock, pc>>
        \/ /\ disk' \in {disk, WithStatus(mem[t], b, "done")}
           /\ mem' = [mem EXCEPT ![t] = Blank]
           /\ Leave(t, instance, where)
    BY <2>1, <2>4 DEF SaveInside, Saves, Raises, Places
  <2> QED
    BY <2>1, <2>2, <2>5, InsideSaved
<1>11. CASE StopDrain
  BY <1>0, <1>11, CancelStep DEF StopDrain, Loops
<1>12. CASE StopAuto
  BY <1>0, <1>12, CancelStep DEF StopAuto, Loops
<1>13. CASE Initialize
  BY <1>0, <1>13, InitializeStep DEF Initialize
<1>14. CASE UNCHANGED vars
  BY <1>0, <1>14 DEF vars, Serial, Current, Typed, Exclusive
<1>15. CASE \/ \E c \in Checks : IssueCheck(c)
            \/ \E e \in Edits : IssueEdit(e) \/ EditGranted(e) \/ EditUnlocked(e)
            \/ \E d \in Delivers : IssueDeliver(d) \/ DeliverStep(d)
  BY <1>1, <1>2, <1>3, <1>5, <1>6, <1>15, UnlockedStep
<1>16. CASE \/ \E i \in Instances : AutoCheck(i) \/ PassStep(i)
            \/ \E t \in Checkers : CheckStep(t)
            \/ \E t \in Tasks \ Edits : SendBatch(t)
  BY <1>7, <1>8, <1>9, <1>10, <1>16
<1> QED
  BY <1>11, <1>12, <1>13, <1>14, <1>15, <1>16 DEF Next, Reload

\* Once a command has outlived its instance, one has for good.
LEMMA OutlivedStays == ASSUME outlived, [Next]_vars PROVE outlived'
<1>1. UNCHANGED outlived \/ Initialize \/ \E e \in Edits : EditUnlocked(e)
  BY DEF Next, vars, lifecycle, IssueCheck, IssueEdit, EditGranted, IssueDeliver, DeliverStep,
         DeliverGranted, FinishDeliver, AutoCheck, PassStep, StartPass, PassGranted, FinishPass,
         DueGranted, Woken, Timeout, CheckStep, CheckGranted, AddBatch, FinishCheck, SendBatch,
         Reload, StopDrain, StopAuto
<1> QED
  BY <1>1 DEF Initialize, EditUnlocked

\* Until a command outlives its instance no save of a check, a pass or a command
\* forgets what another one saved: each of them changes what it loaded under the
\* same lock, a cancelled loop saves nothing, and a subscription that takes no lock
\* finds nobody else between a load and a save.
THEOREM NothingOverwritten == Spec => NoLostUpdate
<1> DEFINE Inv == outlived \/ Serial
<1>1. Init => Inv
  BY SerialInit
<1>2. Inv /\ [Next]_vars => Inv' /\ [outlived' \/ Keeps(disk, disk')]_disk
  <2> SUFFICES ASSUME Inv, [Next]_vars
               PROVE  Inv' /\ (outlived' \/ Keeps(disk, disk'))
    OBVIOUS
  <2>1. CASE outlived
    BY <2>1, OutlivedStays
  <2>2. CASE ~outlived'
    BY <2>2, OutlivedStays, SerialStep
  <2> QED
    BY <2>1, <2>2
<1> QED
  BY <1>1, <1>2, PTL DEF Spec, NoLostUpdate

-----------------------------------------------------------------------------
(* No lost wake-up *)

Pending(s) == \E b \in Checkers : s.work[b] = "pending"

Active == {"top", "queued", "in", "due", "timed"}

\* The drain loop will look at the state.
OnItsWay ==
  \/ pc[DrainLoop(instance)] \in Active
  \/ wake
  \/ \E t \in Checkers : pc[t] = "in"

\* A check that is in the lock wakes the loop when it leaves; a delivery that fails
\* need not, because it found the loop on its way.
Watched == phase = "up" /\ Pending(disk) => OnItsWay

\* At first the drain loop is about to begin.
LEMMA WatchedInit == Init => Watched
<1> SUFFICES ASSUME Init PROVE ~Pending(disk)
  BY DEF Watched
<1> QED  BY DEF Init, Blank, Pending, Batches

\* The names of the tasks.
LEMMA Names ==
  /\ Checkers \subseteq Tasks /\ Checkers \subseteq Batches /\ Commands \subseteq Tasks
  /\ \A i \in Instances : /\ DrainLoop(i) \in Tasks /\ DrainLoop(i) \notin Checkers \cup Commands
                          /\ AutoLoop(i) \in Tasks
                          /\ \A j \in Instances : AutoLoop(i) # DrainLoop(j)
<1>1. \A i, j : AutoLoop(i) # DrainLoop(j)
  BY DEF AutoLoop, DrainLoop
<1> QED
  BY <1>1, ServiceAssumption DEF Checkers, Tasks, Commands, Loops, Batches

\* A task moves and does not leave the drain loop without a reason to look.
LEMMA WatchedMove ==
  ASSUME Serial, Watched, UNCHANGED <<instance, phase>>, NEW t \in Tasks, NEW where,
         UNCHANGED pc \/ Moves(t, where),
         t = DrainLoop(instance) => where \in Active,
         t \in Checkers /\ pc[t] = "in" => where = "in" \/ wake',
         wake => wake', Pending(disk') => Pending(disk)
  PROVE  Watched'
<1>1. DrainLoop(instance) \in Tasks /\ Checkers \subseteq Tasks /\ pc \in [Tasks -> Places]
  BY Names DEF Serial, Current, Typed
<1> QED  BY <1>1 DEF Watched, OnItsWay, Moves

\* The drain loop moves to where it will look again.
LEMMA WatchedDrain ==
  ASSUME Serial, UNCHANGED <<instance, phase>>, NEW where,
         Moves(DrainLoop(instance), where), Pending(disk') => where \in Active
  PROVE  Watched'
<1>1. DrainLoop(instance) \in Tasks /\ pc \in [Tasks -> Places]
  BY Names DEF Serial, Current, Typed
<1> QED  BY <1>1 DEF Watched, OnItsWay, Moves

\* The check that ends wakes the drain loop.
LEMMA WatchedEnd ==
  ASSUME Serial, UNCHANGED <<instance, phase>>, NEW t \in Checkers, pc[t] = "in", EndCheck(t)
  PROVE  Watched'
<1>1. t \in Tasks
  BY Names
<1>2. InstanceOf(t) = instance
  BY <1>1, Present
<1> QED  BY <1>2 DEF EndCheck, Wake, Watched, OnItsWay

\* A check that begins moves, and wakes the loop when it is told that another runs.
LEMMA WatchedCheck ==
  ASSUME Serial, Watched, UNCHANGED <<disk, instance, phase>>, NEW t \in Checkers, pc[t] # "in",
         BeginCheck(t, instance)
  PROVE  Watched'
<1>1. t \in Tasks /\ t # DrainLoop(instance)
  BY Names DEF Serial, Current
<1>2. \E where : Moves(t, where)
  BY DEF BeginCheck, Enter, Wait, Moves
<1>3. wake => wake'
  BY DEF BeginCheck, Wake
<1> QED  BY <1>1, <1>2, <1>3, WatchedMove

\* A later status, or another of the diagnostic batch, adds no pending batch.
LEMMA PendingAfter ==
  ASSUME NEW s \in States, NEW b \in Batches, NEW status \in Status,
         b = Diag \/ status # "pending"
  PROVE  Pending(WithStatus(s, b, status)) => Pending(s)
<1>1. Diag \notin Checkers
  BY ServiceAssumption DEF Checkers, Tasks, Commands, Loops
<1>2. \A c \in Checkers : WithStatus(s, b, status).work[c]
                            = IF c = b THEN status ELSE s.work[c]
  BY Names DEF WithStatus, States
<1> QED  BY <1>1, <1>2 DEF Pending

\* An edit adds no pending batch but the diagnostic one.
LEMMA WatchedEdit ==
  ASSUME Serial, Watched, UNCHANGED <<instance, phase>>, NEW e \in Edits, NEW i \in Instances,
         RunEdit(e, i), Moves(e, "done")
  PROVE  Watched'
<1>1. e \in Tasks /\ e # DrainLoop(instance) /\ e \notin Checkers
  BY Names, ServiceAssumption
  DEF Commands, Serial, Current, Tasks, Checkers, Loops
<1>2. disk \in States /\ Diag \in Batches /\ {"held", "none"} \subseteq Status
  BY DEF Serial, Typed, Batches, Status
<1>3. Subscribe(e).work = disk.work
  BY <1>2 DEF Subscribe, States
<1>4. Pending(disk') => Pending(disk)
  BY <1>2, <1>3, PendingAfter DEF RunEdit, Saves, Raises, Pending
<1>5. wake => wake'
  BY DEF RunEdit, Wake
<1> QED  BY <1>1, <1>4, <1>5, WatchedMove

\* A delivery that begins releases no batch but the diagnostic one.
LEMMA WatchedDeliver ==
  ASSUME Serial, Watched, UNCHANGED <<instance, phase, wake>>, NEW d \in Delivers,
         NEW i \in Instances, EnterDeliver(d, i), pc[d] # "in"
  PROVE  Watched'
<1>1. d \in Tasks /\ d # DrainLoop(instance) /\ d \notin Checkers
  BY Names, ServiceAssumption
  DEF Commands, Serial, Current, Tasks, Checkers, Loops
<1>2. disk \in States /\ Diag \in Batches /\ "pending" \in Status
  BY DEF Serial, Typed, Batches, Status
<1>3. Pending(disk') => Pending(disk)
  BY <1>2, PendingAfter DEF EnterDeliver, Saves, Raises
<1>4. \E where : Moves(d, where)
  BY DEF EnterDeliver, Enter, Moves
<1> QED  BY <1>1, <1>3, <1>4, WatchedMove

\* Every step leaves pending work watched, while no command outlives its instance.
LEMMA WatchedStep ==
  ASSUME Serial, Watched, [Next]_vars, ~outlived'
  PROVE  Watched'
<1>0. /\ instance \in Instances /\ DrainLoop(instance) \in Tasks
      /\ Checks \subseteq Checkers /\ Delivers \subseteq Commands /\ Edits \subseteq Commands
      /\ Commands \subseteq Tasks
      /\ pc \in [Tasks -> Places]
      /\ \A t \in Commands : t \notin Loops
  BY Names, ServiceAssumption DEF Serial, Current, Typed, Checkers, Commands
<1>1. ASSUME NEW c \in Checks, IssueCheck(c) PROVE Watched'
  BY <1>0, <1>1, WatchedCheck DEF IssueCheck, Issue
<1>2. ASSUME NEW i \in Instances, AutoCheck(i) PROVE Watched'
  <2>1. AutoLoop(i) \in Checkers /\ i = instance
    BY <1>2 DEF AutoCheck, Serial, Current, Checkers
  <2> QED  BY <1>2, <2>1, WatchedCheck DEF AutoCheck, lifecycle
<1>3. ASSUME NEW e \in Edits, IssueEdit(e) \/ EditGranted(e) PROVE Watched'
  <2>1. CASE Wait(e, instance, "queued") /\ UNCHANGED <<disk, wake, instance, phase>>
    <3>1. e \in Tasks /\ e \notin Checkers /\ e # DrainLoop(instance)
      BY <1>0, Names, ServiceAssumption DEF Checkers, Commands, Loops
    <3> QED  BY <2>1, <3>1, WatchedMove DEF Wait, Moves
  <2>2. CASE UNCHANGED <<instance, phase>> /\ Moves(e, "done")
             /\ (RunEdit(e, instance) \/ RunEdit(e, owner[e]))
    BY <1>0, <2>2, WatchedEdit DEF Serial, Current
  <2> QED  BY <1>3, <2>1, <2>2 DEF IssueEdit, EditGranted, Issue, Moves, lifecycle
<1>4. ASSUME NEW d \in Delivers, IssueDeliver(d) \/ DeliverStep(d) PROVE Watched'
  <2>1. d \in Tasks /\ d \notin Checkers /\ d # DrainLoop(instance)
        /\ owner[d] \in Instances
    BY <1>0, Names, ServiceAssumption DEF Checkers, Commands, Loops, Serial, Current
  <2>2. CASE Wait(d, instance, "queued") /\ UNCHANGED <<disk, wake, instance, phase>>
    BY <2>1, <2>2, WatchedMove DEF Wait, Moves
  <2>3. CASE UNCHANGED <<instance, phase, wake>> /\ pc[d] # "in"
             /\ (EnterDeliver(d, instance) \/ EnterDeliver(d, owner[d]))
    BY <1>0, <2>1, <2>3, WatchedDeliver
  <2>4. CASE FinishDeliver(d)
    BY <2>1, <2>4, WatchedMove DEF FinishDeliver, Leave, Moves, Wake, lifecycle
  <2> QED
    BY <1>4, <2>2, <2>3, <2>4
    DEF IssueDeliver, DeliverStep, DeliverGranted, Issue, lifecycle
<1>5. ASSUME NEW i \in Instances, PassStep(i) PROVE Watched'
  <2>1. i = instance /\ UNCHANGED <<instance, phase>>
    BY <1>0, <1>5 DEF PassStep, StartPass, PassGranted, FinishPass, DueGranted, Woken, Timeout,
                      lifecycle, Serial, Current
  <2>2. Pending(disk) => WaitFor(disk) \in Active
    BY Names DEF Pending, WaitFor, Active
  <2>3. disk' = disk /\ \E where \in Active \cup {WaitFor(disk)} : Moves(DrainLoop(i), where)
    BY <1>5 DEF PassStep, StartPass, PassGranted, FinishPass, DueGranted, Woken, Timeout,
                Enter, Wait, Leave, Moves, Active
  <2> QED  BY <2>1, <2>2, <2>3, WatchedDrain
<1>6. ASSUME NEW t \in Checkers, CheckStep(t) PROVE Watched'
  <2>1. t \in Tasks /\ t # DrainLoop(instance)
    BY <1>0, Names
  <2>2. CASE CheckGranted(t)
    BY <2>1, <2>2, WatchedMove DEF CheckGranted, Enter, Moves, lifecycle
  <2>3. CASE AddBatch(t)
    <3>1. CASE UNCHANGED pc
      BY <2>3, <3>1 DEF AddBatch, Watched, OnItsWay
    <3>2. CASE EndCheck(t)
      BY <2>3, <3>2, WatchedEnd DEF AddBatch, lifecycle
    <3> QED  BY <2>3, <3>1, <3>2 DEF AddBatch, SaveInside
  <2>4. CASE FinishCheck(t)
    BY <2>4, WatchedEnd DEF FinishCheck, lifecycle
  <2> QED  BY <1>6, <2>2, <2>3, <2>4 DEF CheckStep
<1>7. ASSUME NEW t \in Tasks \ Edits, SendBatch(t) PROVE Watched'
  <2>1. PICK b \in Batches :
          /\ mem[t].work[b] = "pending"
          /\ SaveInside(t, WithStatus(mem[t], b, "done"), PassFails(t))
    BY <1>7 DEF SendBatch
  <2>2. pc[t] = "in" /\ UNCHANGED <<instance, phase>> /\ mem[t] = disk /\ disk \in States
        /\ InstanceOf(t) = instance /\ "done" \in Status
    BY <1>7, Present DEF SendBatch, lifecycle, Serial, Exclusive, Typed, Status
  <2>3. Pending(disk') => Pending(disk)
    BY <2>1, <2>2, PendingAfter DEF SaveInside, Saves, Raises
  <2>4. CASE UNCHANGED <<pc, wake>>
    BY <1>0, <2>2, <2>3, <2>4, WatchedMove DEF Active
  <2>5. CASE PassFails(t)
    <3>1. CASE t \in Checkers
      <4>1. t \notin Delivers
        BY <3>1, ServiceAssumption DEF Checkers, Commands, Loops
      <4> QED  BY <2>2, <2>5, <3>1, <4>1, WatchedEnd DEF PassFails
    <3>2. CASE t \in Delivers
      <4>1. t \notin Checkers /\ t # DrainLoop(instance)
        BY <1>0, <3>2, Names, ServiceAssumption DEF Checkers, Commands, Loops
      <4> QED  BY <2>2, <2>3, <2>5, <3>2, <4>1, WatchedMove DEF PassFails, Leave, Moves
    <3>3. CASE t \notin Checkers \cup Delivers
      <4>1. t = DrainLoop(instance)
        BY <2>2, <3>3 DEF Tasks, Commands, Loops, Checkers, InstanceOf, DrainLoop
      <4> QED  BY <2>2, <2>3, <2>5, <3>3, <4>1, WatchedMove DEF PassFails, Leave, Moves, Active
    <3> QED  BY <3>1, <3>2, <3>3
  <2> QED  BY <2>1, <2>4, <2>5 DEF SaveInside
<1>8. CASE StopDrain \/ StopAuto \/ \E e \in Edits : EditUnlocked(e)
  BY <1>8 DEF StopDrain, StopAuto, EditUnlocked, Watched
<1>9. CASE Initialize
  <2>1. instance' = instance + 1 /\ instance' \in Instances
    BY <1>9, ServiceAssumption DEF Initialize, Serial, Current, Instances
  <2>2. DrainLoop(instance') \in Tasks /\ DrainLoop(instance') # AutoLoop(instance')
    BY <2>1, Names
  <2>3. pc'[DrainLoop(instance')] = "top"
    BY <1>0, <1>9, <2>1, <2>2 DEF Initialize
  <2> QED  BY <2>3 DEF Watched, OnItsWay, Active
<1>10. CASE UNCHANGED vars
  BY <1>10 DEF vars, Watched, OnItsWay
<1>11. CASE \/ \E c \in Checks : IssueCheck(c)
            \/ \E e \in Edits : IssueEdit(e) \/ EditGranted(e) \/ EditUnlocked(e)
            \/ \E d \in Delivers : IssueDeliver(d) \/ DeliverStep(d)
  BY <1>1, <1>3, <1>4, <1>8, <1>11
<1>12. CASE \/ \E i \in Instances : AutoCheck(i) \/ PassStep(i)
            \/ \E t \in Checkers : CheckStep(t)
            \/ \E t \in Tasks \ Edits : SendBatch(t)
  BY <1>2, <1>5, <1>6, <1>7, <1>12
<1> QED  BY <1>8, <1>9, <1>10, <1>11, <1>12 DEF Next, Reload

\* While a check's batch is pending, the drain loop is on its way to look at the
\* state, waits with a timeout, is about to be woken, or a check that will wake it
\* holds the lock: however the checks, commands, passes and reloads interleave.
THEOREM NoLostWakeUp == Spec => []WorkWatched
<1> DEFINE Inv == outlived \/ (Serial /\ Watched)
<1>1. Init => Inv
  BY SerialInit, WatchedInit
<1>2. Inv /\ [Next]_vars => Inv'
  <2> SUFFICES ASSUME Serial, Watched, [Next]_vars, ~outlived' PROVE Serial' /\ Watched'
    BY OutlivedStays
  <2> QED  BY SerialStep, WatchedStep
<1>3. Inv => WorkWatched
  <2> SUFFICES ASSUME Serial, Watched, Pending(disk), phase = "up"
               PROVE  \/ pc[DrainLoop(instance)] \in Active
                      \/ wake
                      \/ \E t \in Checkers \cup Delivers :
                           pc[t] = "in" /\ InstanceOf(t) = instance
    BY DEF WorkWatched, Pending, Active
  <2>1. ASSUME NEW t \in Checkers, pc[t] = "in" PROVE InstanceOf(t) = instance
    BY <2>1, Present, Names
  <2> QED  BY <2>1 DEF Watched, OnItsWay
<1> QED  BY <1>1, <1>2, <1>3, PTL DEF Spec

-----------------------------------------------------------------------------
(* Type correctness, of the lock's queues too, whatever outlives what *)

LockOK == lock \in [Instances -> [holder : Tasks \cup {Nobody}, queue : Seq(Tasks)]]

\* Who leaves a queue leaves a queue.
LEMMA RemovedType ==
  ASSUME NEW q \in Seq(Tasks), NEW t
  PROVE  Removed(q, t) \in Seq(Tasks)
<1>1. CASE \E i \in DOMAIN q : q[i] = t
  <2> DEFINE i == CHOOSE i \in DOMAIN q : q[i] = t
  <2>1. i \in 1..Len(q)
    BY <1>1
  <2> HIDE DEF i
  <2>2. SubSeq(q, 1, i - 1) \in Seq(Tasks) /\ SubSeq(q, i + 1, Len(q)) \in Seq(Tasks)
    BY <2>1
  <2>3. Removed(q, t) = SubSeq(q, 1, i - 1) \o SubSeq(q, i + 1, Len(q))
    BY <1>1 DEF Removed, i
  <2> QED  BY <2>2, <2>3
<1> QED  BY <1>1 DEF Removed

\* What the lock's operations make of a lock.
LEMMA LockTypes ==
  ASSUME NEW l \in [holder : Tasks \cup {Nobody}, queue : Seq(Tasks)], NEW t \in Tasks
  PROVE  {Taken(l, t), Queued(l, t), Freed(l), Without(l, t), Queued(Freed(l), t)}
           \subseteq [holder : Tasks \cup {Nobody}, queue : Seq(Tasks)]
BY RemovedType DEF Taken, Queued, Freed, Without

\* A step of one task that does with its lock what the lock's operations do.
LEMMA LockStep ==
  ASSUME LockOK, NEW t \in Tasks, NEW i \in Instances, NEW new,
         new \in {Taken(lock[i], t), Queued(lock[i], t), Freed(lock[i]), Without(lock[i], t),
                  Queued(Freed(lock[i]), t)},
         UNCHANGED lock \/ lock' = [lock EXCEPT ![i] = new]
  PROVE  LockOK'
<1>1. new \in [holder : Tasks \cup {Nobody}, queue : Seq(Tasks)]
  <2>1. lock[i] \in [holder : Tasks \cup {Nobody}, queue : Seq(Tasks)]
    BY DEF LockOK
  <2> QED  BY <2>1, LockTypes
<1> QED  BY <1>1 DEF LockOK

\* What the steps of one task have in common: they move it, and change its memory
\* and one lock.
LEMMA TaskStep ==
  ASSUME TypeOK, NEW t \in Tasks, NEW i \in Instances, NEW new, NEW where \in Places,
         NEW s \in States,
         new \in {Taken(lock[i], t), Queued(lock[i], t), Freed(lock[i]), Without(lock[i], t),
                  Queued(Freed(lock[i]), t)},
         UNCHANGED lock \/ lock' = [lock EXCEPT ![i] = new],
         UNCHANGED pc \/ pc' = [pc EXCEPT ![t] = where],
         UNCHANGED mem \/ mem' = [mem EXCEPT ![t] = s],
         disk' \in States, wake' \in BOOLEAN, faults' \in Nat,
         UNCHANGED <<instance, phase, outlived>>, owner' \in [Commands -> Instances]
  PROVE  TypeOK'
<1>1. LockOK
  BY DEF TypeOK, LockOK
<1>2. LockOK'
  BY <1>1, LockStep
<1>3. mem' \in [Tasks -> States] /\ pc' \in [Tasks -> Places]
  <2>1. mem \in [Tasks -> States] /\ pc \in [Tasks -> Places]
    BY Zenon DEF TypeOK
  <2> QED  BY <2>1
<1>4. instance' \in Instances /\ phase' \in {"up", "stopping", "down"} /\ outlived' \in BOOLEAN
  BY Zenon DEF TypeOK
<1> QED  BY <1>2, <1>3, <1>4, Zenon DEF TypeOK, LockOK

\* What a save leaves on disk, and of the task that saves.
LEMMA SaveTypes ==
  ASSUME TypeOK, NEW new \in States, Saves(new) \/ Raises(new)
  PROVE  disk' \in States /\ faults' \in Nat
BY DEF TypeOK, Saves, Raises

\* A change of status is one of the state.
LEMMA StatusTypes ==
  ASSUME NEW s \in States, NEW b \in Batches, NEW status \in Status
  PROVE  WithStatus(s, b, status) \in States
BY DEF States, WithStatus

\* A wake-up sets the event or not.
LEMMA WakeType == ASSUME wake \in BOOLEAN, NEW i, Wake(i) PROVE wake' \in BOOLEAN
<1>1. CASE i = instance /\ phase = "up"
  BY <1>1 DEF Wake
<1>2. CASE ~(i = instance /\ phase = "up")
  BY <1>2 DEF Wake
<1> QED  BY <1>1, <1>2

\* A check that begins.
LEMMA CheckTypes ==
  ASSUME TypeOK, NEW t \in Checkers, NEW i \in Instances, BeginCheck(t, i),
         UNCHANGED <<disk, instance, phase, outlived, faults>>,
         owner' \in [Commands -> Instances]
  PROVE  TypeOK'
<1>1. t \in Tasks /\ Rest(t) \in Places /\ {"in", "queued"} \subseteq Places
  BY Names DEF Rest, Places
<1>2. disk' \in States /\ faults' \in Nat /\ disk \in States /\ wake \in BOOLEAN
  BY DEF TypeOK
<1>3. wake' \in BOOLEAN
  BY <1>2, WakeType, Zenon DEF BeginCheck
<1>4. CASE pc' = [pc EXCEPT ![t] = Rest(t)] /\ UNCHANGED <<lock, mem>>
  BY <1>1, <1>2, <1>3, <1>4, TaskStep
<1>5. CASE Enter(t, i) /\ mem' = [mem EXCEPT ![t] = disk]
  BY <1>1, <1>2, <1>3, <1>5, TaskStep DEF Enter
<1>6. CASE Wait(t, i, "queued") /\ UNCHANGED mem
  BY <1>1, <1>2, <1>3, <1>6, TaskStep DEF Wait
<1> QED  BY <1>4, <1>5, <1>6 DEF BeginCheck

\* A task that leaves the lock.
LEMMA LeaveTypes ==
  ASSUME TypeOK, NEW t \in Tasks, NEW i \in Instances, NEW where \in Places,
         Leave(t, i, where), mem' = [mem EXCEPT ![t] = Blank], UNCHANGED lifecycle,
         disk' \in States, wake' \in BOOLEAN, faults' \in Nat
  PROVE  TypeOK'
BY TaskStep, BlankState DEF Leave, lifecycle, TypeOK

\* A command that edits.
LEMMA EditTypes ==
  ASSUME TypeOK, NEW e \in Edits, NEW i \in Instances, RunEdit(e, i)
  PROVE  disk' \in States /\ faults' \in Nat /\ wake' \in BOOLEAN
<1>1. disk \in States /\ wake \in BOOLEAN /\ Diag \in Batches
      /\ {"held", "none"} \subseteq Status
  BY DEF TypeOK, Batches, Status
<1>2. disk' \in States
  BY <1>1, EditRuns
<1>3. faults' \in Nat
  BY DEF TypeOK, RunEdit, Saves, Raises
<1>4. wake' \in BOOLEAN
  BY <1>1, WakeType, Zenon DEF RunEdit
<1> QED  BY <1>2, <1>3, <1>4

\* A delivery that begins.
LEMMA DeliverTypes ==
  ASSUME TypeOK, NEW d \in Delivers, NEW i \in Instances, EnterDeliver(d, i),
         UNCHANGED <<instance, phase, outlived, wake>>, owner' \in [Commands -> Instances]
  PROVE  TypeOK'
<1> DEFINE released == WithStatus(disk, Diag, "pending")
<1>1. d \in Tasks /\ {"in", "done"} \subseteq Places /\ wake' \in BOOLEAN /\ disk \in States
  BY DEF Tasks, Commands, Places, TypeOK
<1>2. released \in States
  BY <1>1, StatusTypes DEF Batches, Status
<1> HIDE DEF released
<1>3. disk' \in States /\ faults' \in Nat
  BY <1>1, <1>2 DEF EnterDeliver, Saves, Raises, released, TypeOK
<1>4. CASE Enter(d, i) /\ mem' = [mem EXCEPT ![d] = disk']
  BY <1>1, <1>3, <1>4, TaskStep DEF Enter
<1>5. CASE lock' = [lock EXCEPT ![i] = Without(@, d)] /\ pc' = [pc EXCEPT ![d] = "done"]
           /\ UNCHANGED mem
  BY <1>1, <1>3, <1>5, TaskStep
<1> QED  BY <1>4, <1>5 DEF EnterDeliver, Saves

\* A pass, or an operation that runs in the lock, saves a batch or fails.
LEMMA InsideTypes ==
  ASSUME TypeOK, NEW t \in Tasks, NEW new \in States, NEW i \in Instances,
         NEW where \in Places, NEW Failure,
         SaveInside(t, new, Failure), Failure => Leave(t, i, where) /\ wake' \in BOOLEAN,
         UNCHANGED lifecycle
  PROVE  TypeOK'
<1>1. disk' \in States /\ faults' \in Nat
  BY SaveTypes DEF SaveInside
<1>2. CASE mem' = [mem EXCEPT ![t] = new] /\ UNCHANGED <<lock, pc, wake>>
  BY <1>1, <1>2, TaskStep DEF lifecycle, TypeOK
<1>3. CASE mem' = [mem EXCEPT ![t] = Blank] /\ Failure
  BY <1>1, <1>3, LeaveTypes
<1> QED  BY <1>2, <1>3 DEF SaveInside

\* At first every variable has its type.
LEMMA TypeInit == Init => TypeOK
<1> SUFFICES ASSUME Init PROVE TypeOK
  OBVIOUS
<1>1. 1 \in Instances /\ AutoStart \in Places
  BY ServiceAssumption DEF Instances, AutoStart, Places
<1>2. pc \in [Tasks -> Places]
  BY <1>1 DEF Init, Places
<1>3. lock \in [Instances -> [holder : Tasks \cup {Nobody}, queue : Seq(Tasks)]]
  BY DEF Init
<1>4. mem \in [Tasks -> States] /\ disk \in States
  BY BlankState DEF Init
<1>5. /\ owner \in [Commands -> Instances] /\ instance \in Instances
      /\ phase \in {"up", "stopping", "down"} /\ wake \in BOOLEAN
      /\ outlived \in BOOLEAN /\ faults \in Nat
  BY <1>1 DEF Init
<1> QED  BY <1>2, <1>3, <1>4, <1>5, Zenon DEF TypeOK

\* The instance that is stopped is not the last one.
Reloadable == phase # "up" => instance <= MaxReloads

\* Every step keeps the types, if an instance that is stopped has a successor.
LEMMA TypeStep == TypeOK /\ Reloadable /\ [Next]_vars => TypeOK'
<1> SUFFICES ASSUME TypeOK, Reloadable, [Next]_vars PROVE TypeOK'
  OBVIOUS
<1>0. /\ disk \in States /\ \A t \in Tasks : mem[t] \in States /\ InstanceOf(t) \in Instances
      /\ wake \in BOOLEAN /\ faults \in Nat /\ instance \in Instances
      /\ owner \in [Commands -> Instances]
      /\ pc \in [Tasks -> Places] /\ mem \in [Tasks -> States]
      /\ Checkers \subseteq Tasks /\ Checkers \subseteq Batches /\ Commands \subseteq Tasks
      /\ Checks \subseteq Checkers /\ Delivers \subseteq Commands /\ Edits \subseteq Commands
      /\ \A i \in Instances : DrainLoop(i) \in Tasks /\ AutoLoop(i) \in Checkers
                             /\ InstanceOf(DrainLoop(i)) = i
      /\ \A s \in States : WaitFor(s) \in Places
      /\ \A t \in Tasks : Rest(t) \in Places
      /\ {"in", "queued", "done", "due", "top", "timed", "off"} \subseteq Places
      /\ {"pending", "done"} \subseteq Status /\ Blank \in States
  <2>1. \A t \in Tasks : InstanceOf(t) \in Instances
    BY DEF InstanceOf, Tasks, Loops, DrainLoop, AutoLoop, TypeOK
  <2>2. \A i \in Instances : InstanceOf(DrainLoop(i)) = i
    BY DEF InstanceOf, Loops, DrainLoop
  <2> QED
    BY <2>1, <2>2, Names, BlankState
    DEF TypeOK, Checkers, Commands, WaitFor, Rest, Places, Status
<1>1. ASSUME NEW c \in Checks, IssueCheck(c) PROVE TypeOK'
  <2>1. owner' \in [Commands -> Instances]
    BY <1>0, <1>1 DEF IssueCheck, Issue
  <2> QED  BY <1>0, <1>1, <2>1, CheckTypes DEF IssueCheck
<1>2. ASSUME NEW i \in Instances, AutoCheck(i) PROVE TypeOK'
  BY <1>0, <1>2, CheckTypes DEF AutoCheck, lifecycle
<1>3. ASSUME NEW e \in Edits, IssueEdit(e) PROVE TypeOK'
  <2>1. owner' \in [Commands -> Instances] /\ e \in Tasks
    BY <1>0, <1>3 DEF IssueEdit, Issue
  <2>2. CASE RunEdit(e, instance) /\ pc' = [pc EXCEPT ![e] = "done"] /\ UNCHANGED lock
    <3>1. disk' \in States /\ faults' \in Nat /\ wake' \in BOOLEAN
      BY <1>0, <2>2, EditTypes
    <3> QED  BY <1>0, <1>3, <2>1, <2>2, <3>1, TaskStep DEF IssueEdit
  <2>3. CASE Wait(e, instance, "queued") /\ UNCHANGED <<disk, wake, faults>>
    BY <1>0, <1>3, <2>1, <2>3, TaskStep DEF IssueEdit, Wait
  <2> QED  BY <1>3, <2>2, <2>3 DEF IssueEdit
<1>4. ASSUME NEW e \in Edits, EditGranted(e) PROVE TypeOK'
  <2>1. e \in Tasks /\ owner[e] \in Instances
    BY <1>0
  <2>2. disk' \in States /\ faults' \in Nat /\ wake' \in BOOLEAN
    BY <1>4, <2>1, EditTypes DEF EditGranted
  <2> QED  BY <1>0, <1>4, <2>1, <2>2, TaskStep DEF EditGranted, lifecycle
<1>5. ASSUME NEW d \in Delivers, IssueDeliver(d) PROVE TypeOK'
  <2>1. owner' \in [Commands -> Instances] /\ d \in Tasks
    BY <1>0, <1>5 DEF IssueDeliver, Issue
  <2>2. CASE EnterDeliver(d, instance)
    BY <1>0, <1>5, <2>1, <2>2, DeliverTypes DEF IssueDeliver
  <2>3. CASE Wait(d, instance, "queued") /\ UNCHANGED <<disk, mem, faults>>
    BY <1>0, <1>5, <2>1, <2>3, TaskStep DEF IssueDeliver, Wait
  <2> QED  BY <1>5, <2>2, <2>3 DEF IssueDeliver
<1>6. ASSUME NEW d \in Delivers, DeliverStep(d) PROVE TypeOK'
  <2>1. CASE DeliverGranted(d)
    BY <1>0, <2>1, DeliverTypes DEF DeliverGranted, lifecycle
  <2>2. CASE FinishDeliver(d)
    <3>1. wake' \in BOOLEAN
      BY <1>0, <2>2, WakeType, Zenon DEF FinishDeliver
    <3> QED  BY <1>0, <2>2, <3>1, LeaveTypes DEF FinishDeliver
  <2> QED  BY <1>6, <2>1, <2>2 DEF DeliverStep
<1>7. ASSUME NEW i \in Instances, PassStep(i) PROVE TypeOK'
  <2> DEFINE t == DrainLoop(i)
  <2>0. t \in Tasks /\ UNCHANGED <<disk, lifecycle, faults>> /\ WaitFor(disk) \in Places
    BY <1>0, <1>7 DEF PassStep, StartPass, PassGranted, FinishPass, DueGranted, Woken, Timeout
  <2>1. wake' \in BOOLEAN
    BY <1>0, <1>7 DEF PassStep, StartPass, PassGranted, FinishPass, DueGranted, Woken, Timeout
  <2>2. UNCHANGED <<disk, instance, phase, outlived, faults, owner>>
    BY <2>0 DEF lifecycle
  <2>3. CASE StartPass(i) \/ PassGranted(i)
    <3>1. CASE Enter(t, i) /\ mem' = [mem EXCEPT ![t] = disk]
      BY <1>0, <2>0, <2>1, <2>2, <3>1, TaskStep DEF Enter
    <3>2. CASE Wait(t, i, "queued") /\ UNCHANGED mem
      BY <1>0, <2>0, <2>1, <2>2, <3>2, TaskStep DEF Wait
    <3> QED  BY <2>3, <3>1, <3>2 DEF StartPass, PassGranted
  <2>4. CASE FinishPass(i)
    <3>1. CASE Leave(t, i, WaitFor(disk))
      BY <1>0, <2>0, <2>1, <2>4, <3>1, LeaveTypes DEF FinishPass
    <3>2. CASE lock' = [lock EXCEPT ![i] = Queued(Freed(@), t)] /\ pc' = [pc EXCEPT ![t] = "due"]
      BY <1>0, <2>0, <2>1, <2>2, <2>4, <3>2, TaskStep DEF FinishPass
    <3> QED  BY <2>4, <3>1, <3>2 DEF FinishPass
  <2>5. CASE DueGranted(i)
    BY <1>0, <2>0, <2>1, <2>2, <2>5, TaskStep DEF DueGranted
  <2>6. CASE Woken(i) \/ Timeout(i)
    BY <1>0, <2>0, <2>1, <2>2, <2>6, TaskStep DEF Woken, Timeout
  <2> QED  BY <1>7, <2>3, <2>4, <2>5, <2>6 DEF PassStep
<1>8. ASSUME NEW t \in Checkers, CheckStep(t) PROVE TypeOK'
  <2>1. t \in Tasks /\ t \in Batches /\ InstanceOf(t) \in Instances /\ Rest(t) \in Places
    BY <1>0
  <2>2. EndCheck(t) => Leave(t, InstanceOf(t), Rest(t)) /\ wake' \in BOOLEAN
    BY <1>0, WakeType, Zenon DEF EndCheck
  <2>3. CASE CheckGranted(t)
    BY <1>0, <2>1, <2>3, TaskStep DEF CheckGranted, Enter, lifecycle
  <2>4. CASE AddBatch(t)
    <3>1. WithStatus(mem[t], t, "pending") \in States
      BY <1>0, <2>1, StatusTypes
    <3> QED  BY <2>1, <2>2, <2>4, <3>1, InsideTypes DEF AddBatch
  <2>5. CASE FinishCheck(t)
    <3>1. disk' \in States /\ faults' \in Nat
      BY <1>0, <2>1, <2>5, SaveTypes DEF FinishCheck
    <3> QED  BY <2>1, <2>2, <2>5, <3>1, LeaveTypes DEF FinishCheck
  <2> QED  BY <1>8, <2>3, <2>4, <2>5 DEF CheckStep
<1>9. ASSUME NEW t \in Tasks \ Edits, SendBatch(t) PROVE TypeOK'
  <2>1. PICK b \in Batches : SaveInside(t, WithStatus(mem[t], b, "done"), PassFails(t))
    BY <1>9 DEF SendBatch
  <2>2. WithStatus(mem[t], b, "done") \in States
    BY <1>0, StatusTypes
  <2>3. PassFails(t) => /\ wake' \in BOOLEAN
                        /\ \E i \in Instances, where \in Places : Leave(t, i, where)
    <3>1. EndCheck(t) => wake' \in BOOLEAN /\ Leave(t, InstanceOf(t), Rest(t))
      BY <1>0, WakeType, Zenon DEF EndCheck
    <3> QED  BY <1>0, <3>1 DEF PassFails
  <2>4. PICK i \in Instances, where \in Places :
          PassFails(t) => Leave(t, i, where) /\ wake' \in BOOLEAN
    BY <1>0, <2>3
  <2> QED  BY <1>9, <2>1, <2>2, <2>4, InsideTypes DEF SendBatch
<1>10. CASE StopDrain \/ StopAuto
  <2>1. PICK t \in Loops : Cancel(t, instance)
    BY <1>0, <1>10 DEF StopDrain, StopAuto, Loops
  <2>2. t \in Tasks /\ UNCHANGED <<disk, owner, instance, outlived, wake, faults>>
        /\ phase' \in {"up", "stopping", "down"}
    BY <1>10 DEF StopDrain, StopAuto, Tasks
  <2>3. LockOK'
    BY <1>0, <2>1, <2>2, LockStep DEF Cancel, TypeOK, LockOK
  <2>4. pc' \in [Tasks -> Places] /\ mem' \in [Tasks -> States]
    BY <1>0, <2>1, <2>2 DEF Cancel
  <2> QED  BY <2>2, <2>3, <2>4, Zenon DEF TypeOK, LockOK
<1>11. CASE Initialize
  <2> DEFINE next == instance + 1
  <2>1. next \in Instances
    BY <1>0, <1>11, ServiceAssumption DEF Initialize, Reloadable, Instances
  <2>2. AutoStart \in Places
    BY DEF AutoStart, Places
  <2>3. pc' \in [Tasks -> Places]
    <3>1. pc' = [pc EXCEPT ![DrainLoop(next)] = "top", ![AutoLoop(next)] = AutoStart]
      BY <1>11 DEF Initialize
    <3> HIDE DEF next
    <3> QED  BY <1>0, <2>1, <2>2, <3>1
  <2>4. /\ instance' = next /\ phase' = "up" /\ wake' = FALSE
        /\ UNCHANGED <<disk, mem, lock, owner, faults>>
    BY <1>11 DEF Initialize
  <2>5. outlived' \in BOOLEAN
    BY <1>11, Zenon DEF Initialize, TypeOK
  <2> QED  BY <2>1, <2>3, <2>4, <2>5, Zenon DEF TypeOK
<1>12. CASE UNCHANGED vars
  BY <1>12, Zenon DEF vars, TypeOK
<1>15. ASSUME NEW e \in Edits, EditUnlocked(e) PROVE TypeOK'
  <2>1. disk' \in States /\ faults' \in Nat
    <3>1. Subscribe(e) \in States
      BY <1>0, KeepsEdit
    <3> QED  BY <1>15, <3>1, SaveTypes DEF EditUnlocked
  <2>2. pc' \in [Tasks -> Places] /\ UNCHANGED <<mem, lock, owner, instance, phase, wake>>
    BY <1>0, <1>15 DEF EditUnlocked
  <2>3. outlived' \in BOOLEAN
    BY <1>15, Zenon DEF EditUnlocked, TypeOK
  <2> QED  BY <2>1, <2>2, <2>3, Zenon DEF TypeOK
<1>13. CASE \/ \E c \in Checks : IssueCheck(c)
            \/ \E e \in Edits : IssueEdit(e) \/ EditGranted(e) \/ EditUnlocked(e)
            \/ \E d \in Delivers : IssueDeliver(d) \/ DeliverStep(d)
  BY <1>1, <1>3, <1>4, <1>5, <1>6, <1>13, <1>15
<1>14. CASE \/ \E i \in Instances : AutoCheck(i) \/ PassStep(i)
            \/ \E t \in Checkers : CheckStep(t)
            \/ \E t \in Tasks \ Edits : SendBatch(t)
  BY <1>2, <1>7, <1>8, <1>9, <1>14
<1> QED  BY <1>10, <1>11, <1>12, <1>13, <1>14 DEF Next, Reload

\* A stop is only begun of an instance that has a successor.
LEMMA ReloadableStep == Reloadable /\ [Next]_vars => Reloadable'
<1> SUFFICES ASSUME Reloadable, [Next]_vars PROVE Reloadable'
  OBVIOUS
<1>1. UNCHANGED <<instance, phase>> \/ StopDrain \/ StopAuto \/ Initialize
  BY DEF Next, vars, lifecycle, IssueCheck, IssueEdit, EditGranted, EditUnlocked, IssueDeliver,
         DeliverStep, DeliverGranted, FinishDeliver, AutoCheck, PassStep, StartPass, PassGranted,
         FinishPass, DueGranted, Woken, Timeout, CheckStep, CheckGranted, AddBatch, FinishCheck,
         SendBatch, Reload
<1> QED  BY <1>1 DEF Reloadable, StopDrain, StopAuto, Initialize

\* Every variable keeps its type, the queues of the lock included, for any commands
\* and any number of reloads, and even after a command has outlived its instance.
THEOREM TypeCorrect == Spec => []TypeOK
<1>1. Init => Reloadable
  BY DEF Init, Reloadable
<1> QED  BY <1>1, TypeInit, TypeStep, ReloadableStep, PTL DEF Spec

=============================================================================
