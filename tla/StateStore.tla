----------------------------- MODULE StateStore -----------------------------
(***************************************************************************)
(* JsonStateStore (market_watcher/state.py): one state file, its backup    *)
(* and two temporary files.  A save copies the state file to the backup,   *)
(* then replaces it; a load falls back to the backup.  The process may die *)
(* and an I/O call may raise between any two steps; a power loss may undo  *)
(* a rename that was not yet synced; a file may rot, or be unreadable for  *)
(* a moment.                                                               *)
(*                                                                         *)
(* The content of a file is the number of the state saved in it, or one of *)
(* four other things.  One operation at a time reads the state and then    *)
(* saves it any number of times: the callers hold the service's lock.      *)
(***************************************************************************)
EXTENDS Integers, FiniteSets

CONSTANTS
  SyncsDirectory,  \* whether the platform can open a directory to sync it
  LastState,       \* bound: the number of the last state that is saved
  MaxFaults,       \* bound: I/O errors and crashes
  MaxPowerLosses,  \* bound
  MaxRots,         \* bound: files that become unreadable, or are badly written
  MaxBlinks        \* bound: reads of a sound file that raise OSError

Missing == 0
Corrupt == -1   \* not JSON, or not a valid state
Newer   == -2   \* schema_version is greater than SCHEMA_VERSION
Foreign == -3   \* schema_version is another one that cannot be read
Failed  == -4   \* what a load that raises returns

ASSUME StoreAssumption ==
  /\ SyncsDirectory \in BOOLEAN
  /\ {LastState, MaxFaults, MaxPowerLosses, MaxRots, MaxBlinks} \subseteq Nat

Names   == {"state", "backup"}
Content == Nat \cup {Corrupt, Newer, Foreign}

VARIABLES
  file,      \* the content of the state file and the backup, as it is read
  synced,    \* what a power loss leaves of them
  temp,      \* the new state, before it replaces the state file
  copy,      \* the copy, before it replaces the backup
  pc,        \* where the save is
  loaded,    \* an operation holds a state it has read
  saving,    \* the state that is being saved; Missing when none is
  latest,    \* history: the last state given to a save
  floor,     \* history: the last state whose save returned, or an older one a load gave
  prior,     \* history: floor before the last save that returned
  began,     \* history: rots when the last save began
  sound,     \* history: rots when the last save that returned began
  unseen,    \* history: files of a newer schema that the last save could not look at
  faults, losses, rots, blinks

temps == <<temp, copy>>
counts == <<faults, losses, rots, blinks>>
history == <<latest, floor, prior, began, sound, unseen>>
vars == <<file, synced, temps, pc, loaded, saving, history, counts>>

Valid(content) == content > 0

-----------------------------------------------------------------------------
(* load *)

\* The state a load returns; Missing stands for the empty WatcherState.
LoadOf(f) ==
  IF f["state"] = Missing /\ f["backup"] = Missing THEN Missing
  ELSE IF Valid(f["state"]) THEN f["state"]
  ELSE IF f["state"] \in {Newer, Foreign} THEN Failed
  ELSE IF Valid(f["backup"]) THEN f["backup"]
  ELSE Failed

\* What a reader that fails to open the files of S sees of the disk.
Blinking(S) == [n \in Names |-> IF n \in S /\ file[n] # Missing THEN Corrupt ELSE file[n]]

Blink(S) == /\ blinks + Cardinality(S) <= MaxBlinks
            /\ blinks' = blinks + Cardinality(S)

\* Variant: what a load that raises returns is taken for a state.
ReadUnchecked ==
  /\ pc = "idle"
  /\ \E S \in SUBSET Names :
       LET seen == LoadOf(Blinking(S)) IN
       /\ Blink(S)
       /\ floor' = IF seen < floor THEN seen ELSE floor
  /\ loaded' = TRUE
  /\ UNCHANGED <<file, synced, temps, pc, saving, latest, prior, began, sound, unseen,
                 faults, losses, rots>>

\* An operation reads the state; from here on it builds on it.
Read ==
  /\ pc = "idle"
  /\ \E S \in SUBSET Names :
       LET seen == LoadOf(Blinking(S)) IN
       /\ Blink(S)
       /\ loaded' = (seen # Failed)
       /\ floor' = IF seen \in Nat /\ seen < floor THEN seen ELSE floor
  /\ UNCHANGED <<file, synced, temps, pc, saving, latest, prior, began, sound, unseen,
                 faults, losses, rots>>

-----------------------------------------------------------------------------
(* save *)

\* _reject_newer_disk_schema passes over a file that it fails to open.
Acceptable(S) ==
  /\ Blink(S)
  /\ \A n \in Names : Blinking(S)[n] # Newer
  /\ unseen' = {n \in S : file[n] = Newer}

\* Variant: the disk is not looked at before a save.
BeginBlind ==
  /\ pc = "idle" /\ loaded
  /\ latest < LastState
  /\ pc' = "temp"
  /\ latest' = latest + 1 /\ saving' = latest + 1
  /\ began' = rots
  /\ UNCHANGED <<file, synced, temps, loaded, floor, prior, sound, unseen, counts>>

\* A save that sees a file of a newer schema raises before it writes.
Begin ==
  /\ pc = "idle" /\ loaded
  /\ latest < LastState
  /\ \E S \in SUBSET Names : Acceptable(S)
  /\ pc' = "temp"
  /\ latest' = latest + 1
  /\ saving' = latest + 1
  /\ began' = rots
  /\ UNCHANGED <<file, synced, temps, loaded, floor, prior, sound, faults, losses, rots>>

\* A write that reaches the disk garbled counts as rot.
Written(content, result) ==
  \/ result = content /\ UNCHANGED rots
  \/ rots < MaxRots /\ rots' = rots + 1 /\ result = Corrupt

\* Variant: the state file is rewritten in place.
WriteInPlace ==
  /\ pc = "temp"
  /\ temp' = saving
  /\ file' = [file EXCEPT !["state"] = Corrupt]
  /\ pc' = "choose"
  /\ UNCHANGED <<synced, copy, loaded, saving, history, counts>>

WriteTemp ==
  /\ pc = "temp"
  /\ Written(saving, temp')
  /\ pc' = "choose"
  /\ UNCHANGED <<file, synced, copy, loaded, saving, history, faults, losses, blinks>>

\* Variant: a backup is made only once.
ChooseOnce ==
  /\ pc = "choose"
  /\ Valid(temp)
  /\ IF Valid(file["backup"]) \/ ~Valid(file["state"])
       THEN pc' = "replace" /\ UNCHANGED copy
       ELSE copy' = file["state"] /\ pc' = "backup"
  /\ UNCHANGED <<file, synced, temp, loaded, saving, history, counts>>

\* The backup becomes a copy of a valid state file, or of the new state when
\* neither file is valid.
Choose ==
  /\ pc = "choose"
  /\ Valid(temp)
  /\ \E S \in SUBSET Names :
       LET seen == Blinking(S)
           Copy(content) == Written(content, copy') /\ pc' = "backup" IN
       /\ Blink(S)
       /\ IF Valid(seen["state"]) THEN Copy(seen["state"])
          ELSE IF Valid(seen["backup"]) THEN pc' = "replace" /\ UNCHANGED <<copy, rots>>
          ELSE Copy(temp)
  /\ UNCHANGED <<file, synced, temp, loaded, saving, history, faults, losses>>

\* The copy has been read back before it replaces the backup.
ReplaceBackup ==
  /\ pc = "backup"
  /\ Valid(copy)
  /\ file' = [file EXCEPT !["backup"] = copy]
  /\ copy' = Missing
  /\ pc' = "syncBackup"
  /\ UNCHANGED <<synced, temp, loaded, saving, history, counts>>

ReplaceState ==
  /\ pc = "replace"
  /\ file' = [file EXCEPT !["state"] = temp]
  /\ temp' = Missing
  /\ pc' = "syncState"
  /\ UNCHANGED <<synced, copy, loaded, saving, history, counts>>

\* Variant: the directory is not synced.
SyncNothing ==
  /\ pc \in {"syncBackup", "syncState"}
  /\ pc' = IF pc = "syncBackup" THEN "replace" ELSE "verify"
  /\ UNCHANGED <<file, synced, temps, loaded, saving, history, counts>>

Sync ==
  /\ pc \in {"syncBackup", "syncState"}
  /\ IF SyncsDirectory THEN synced' = file ELSE UNCHANGED synced
  /\ pc' = IF pc = "syncBackup" THEN "replace" ELSE "verify"
  /\ UNCHANGED <<file, temps, loaded, saving, history, counts>>

\* The state file is read once more before the save returns.
Return ==
  /\ pc = "verify"
  /\ Valid(file["state"])
  /\ pc' = "idle"
  /\ saving' = Missing
  /\ prior' = floor
  /\ floor' = saving
  /\ sound' = began
  /\ UNCHANGED <<file, synced, temps, loaded, latest, began, unseen, counts>>

Stop == pc' = "idle" /\ saving' = Missing

\* The save has read back something it must not go on with.
Refused ==
  \/ pc = "choose" /\ ~Valid(temp)
  \/ pc = "backup" /\ ~Valid(copy)
  \/ pc = "verify" /\ ~Valid(file["state"])

\* The save raises, because of that or of an I/O error; the temporary files are
\* removed.  Its operation may save again.
Raise ==
  /\ pc # "idle"
  /\ \/ Refused /\ UNCHANGED faults
     \/ faults < MaxFaults /\ faults' = faults + 1
  /\ Stop
  /\ temp' = Missing /\ copy' = Missing
  /\ UNCHANGED <<file, synced, loaded, history, losses, rots, blinks>>

-----------------------------------------------------------------------------
(* The environment *)

\* What an interrupted write may leave of the temporary files.
Torn == temp' \in {temp, Corrupt} /\ copy' \in {copy, Corrupt}

\* The process dies.
Crash ==
  /\ pc # "idle" \/ loaded
  /\ faults < MaxFaults
  /\ faults' = faults + 1
  /\ Stop
  /\ loaded' = FALSE
  /\ Torn
  /\ UNCHANGED <<file, synced, history, losses, rots, blinks>>

\* Each rename since the last sync of the directory survives or does not.
PowerLoss ==
  /\ losses < MaxPowerLosses
  /\ losses' = losses + 1
  /\ Stop
  /\ loaded' = FALSE
  /\ \E S \in SUBSET Names :
       file' = [n \in Names |-> IF n \in S THEN synced[n] ELSE file[n]]
  /\ synced' = file'
  /\ Torn
  /\ UNCHANGED <<history, faults, rots, blinks>>

Rot ==
  /\ rots < MaxRots
  /\ rots' = rots + 1
  /\ \E n \in Names :
       /\ Valid(file[n])
       /\ file' = [file EXCEPT ![n] = Corrupt]
       /\ synced' = [synced EXCEPT ![n] = IF synced[n] = file[n] THEN Corrupt ELSE @]
  /\ UNCHANGED <<temps, pc, loaded, saving, history, faults, losses, blinks>>

-----------------------------------------------------------------------------
(* The specification *)

\* A first start, or the files of an earlier version of the program or of a
\* later one.
FirstFiles ==
  [Names -> {Missing}] \cup
  {[n \in Names |-> IF n = "state" THEN s ELSE b] :
     s \in {1, Newer, Foreign}, b \in {Missing, 1, Newer, Foreign}}

Init ==
  /\ file \in FirstFiles
  /\ synced = file
  /\ temp = Missing /\ copy = Missing
  /\ pc = "idle" /\ saving = Missing /\ loaded = FALSE
  /\ latest = 1
  /\ floor = IF Valid(file["state"]) THEN file["state"] ELSE Missing
  /\ prior = Missing /\ began = 0 /\ sound = 0 /\ unseen = {}
  /\ faults = 0 /\ losses = 0 /\ rots = 0 /\ blinks = 0

Save == WriteTemp \/ Choose \/ ReplaceBackup \/ ReplaceState \/ Sync

Next == Read \/ Begin \/ Save \/ Return \/ Raise \/ Crash \/ PowerLoss \/ Rot

Spec == Init /\ [][Next]_vars

-----------------------------------------------------------------------------
(* Properties *)

Steps == {"idle", "temp", "choose", "backup", "syncBackup", "replace",
          "syncState", "verify"}

\* The variables hold what the code can put there.
TypeOK ==
  /\ file \in [Names -> Content] /\ synced \in [Names -> Content]
  /\ temp \in Content /\ copy \in Content
  /\ pc \in Steps /\ loaded \in BOOLEAN
  /\ saving \in Nat /\ latest \in Nat /\ floor \in Nat /\ prior \in Nat
  /\ began \in Nat /\ sound \in Nat /\ unseen \subseteq Names
  /\ faults \in Nat /\ losses \in Nat /\ rots \in Nat /\ blinks \in Nat

Pristine == rots = 0 /\ blinks = 0 /\ (SyncsDirectory \/ losses = 0)

\* While no file has rotted and no sound file was unreadable, a load returns
\* at least the last state whose save returned, and nothing that was never
\* given to a save, whatever crash, I/O error or (where the directory can be
\* synced) power loss came between the steps of any save.
NeverLost ==
  Pristine /\ LoadOf(file) # Failed
  => LoadOf(file) \in floor..latest

\* The docstring's "while always retaining a valid recovery copy": once a save
\* has returned, one file that rots, be it during a later save that fails,
\* leaves a state that can be loaded; the next save that returns makes up for
\* the loss.
StaysReadable ==
  /\ rots - sound <= 1
  /\ floor > 1
  /\ SyncsDirectory \/ losses = 0
  => LoadOf(file) # Failed

\* The first file that rots costs at most the last save that returned: until
\* then the backup is never older than the one before it.  (A save that finds
\* the state file unreadable leaves the backup as it is, so a second file that
\* rots may cost more.)
OneStepBack ==
  /\ rots <= 1 /\ blinks = 0
  /\ SyncsDirectory \/ losses = 0
  /\ LoadOf(file) # Failed
  => LoadOf(file) >= prior

\* One file that rots is survived, and costs one save at most.
Recoverable == StaysReadable /\ OneStepBack

\* The file of a newer schema is overwritten in one case only, which the code does
\* not guard against: by a save whose one look at it, when it began, failed.  An
\* older save that missed it, a crash, a power loss or a load never costs it.
NewerUntouched ==
  [][\A n \in Names : file[n] = Newer =>
       file'[n] = Newer \/ (pc # "idle" /\ n \in unseen)]_file

\* To the rest of the program the file is a register that a save sets at one
\* moment and that survives crashes and I/O errors between any two steps of a
\* save: it implements Register until the first power loss, rot or momentary
\* read error.
AsRegister == INSTANCE Register WITH value <- LoadOf(file), Idle <- Missing,
                                     asked <- saving
Unharmed == losses = 0 /\ rots = 0 /\ blinks = 0
ImplementsRegister ==
  /\ AsRegister!Init
  /\ [][Unharmed' => AsRegister!Next]_<<LoadOf(file), saving>>
=============================================================================
