-------------------------- MODULE StateStoreProofs --------------------------
(***************************************************************************)
(* Five results on StateStore, for every bound on saves, faults, power     *)
(* losses, rot and unreadable files: TypeOK and NeverLost are invariants;  *)
(* without power loss and rot the file implements Register; one file that  *)
(* rots is survived and costs one save at most; and the file of a newer    *)
(* program is overwritten only by a save that could not look at it.        *)
(***************************************************************************)
EXTENDS StateStore, FiniteSetTheorems, TLAPS

-----------------------------------------------------------------------------
(* What makes NeverLost inductive *)

\* What a sound state file may hold, and a sound backup.
Kept(content) == content \in floor..latest \/ content \in {Newer, Foreign}
Backed(content) == content \in 0..latest \/ content \in {Newer, Foreign}

\* The files, and what a power loss may bring back of them, hold nothing older
\* than floor; the temporary files hold what their names say; a save gets past
\* its sync only with the state file in place and synced.
FilesKept ==
  /\ Kept(file["state"]) /\ Backed(file["backup"])
  /\ SyncsDirectory => Kept(synced["state"]) /\ Backed(synced["backup"])

TempsKept ==
  /\ pc \in {"choose", "backup", "syncBackup", "replace"} => temp = saving
  /\ pc = "backup" => copy \in 1..latest
  /\ pc \in {"syncState", "verify"} => file["state"] = saving
  /\ pc = "verify" /\ SyncsDirectory => synced["state"] = saving

SaveKept == /\ floor <= latest
            /\ pc # "idle" => saving = latest /\ saving > 0

Lossless == TypeOK /\ SaveKept /\ (Pristine => FilesKept /\ TempsKept)

\* The first files hold what was saved first.
LEMMA LosslessInit == Init => Lossless
<1> SUFFICES ASSUME Init PROVE Lossless
  OBVIOUS
<1> USE StoreAssumption
<1>1. /\ file \in [Names -> Content] /\ synced = file
      /\ file["state"] \in {0, 1, Newer, Foreign}
      /\ file["backup"] \in {0, 1, Newer, Foreign}
  BY DEF Init, FirstFiles, Names, Content, Missing, Corrupt, Newer, Foreign
<1>2. floor \in Nat /\ floor <= 1 /\ (file["state"] \in Nat => floor = file["state"])
  BY <1>1 DEF Init, Valid, Missing, Newer, Foreign
<1>3. TypeOK
  <2>1. temp = 0 /\ copy = 0 /\ 0 \in Content
    BY DEF Init, Missing, Content
  <2> QED
    BY <1>1, <1>2, <2>1 DEF Init, TypeOK, Steps, Missing
<1>4. SaveKept
  BY <1>2 DEF Init, SaveKept
<1> QED
  BY <1>1, <1>2, <1>3, <1>4
  DEF Init, Lossless, TypeOK, SaveKept, FilesKept, TempsKept, Kept, Backed, FirstFiles, Names,
      Content, Steps, Valid, Missing, Corrupt, Newer, Foreign

\* The invariant gives what the run checks.
LEMMA LosslessEnough == Lossless => NeverLost
  BY DEF Lossless, TypeOK, SaveKept, NeverLost, FilesKept, Kept, Backed, LoadOf, Names, Content, Valid,
         Missing, Corrupt, Newer, Foreign, Failed

\* The reads that fail are counted by a number.
LEMMA BlinkCounts ==
  ASSUME NEW S \in SUBSET Names, blinks \in Nat, Blink(S)
  PROVE  blinks' \in Nat /\ (blinks' = 0 => blinks = 0 /\ S = {})
<1>1. IsFiniteSet(Names)
  <2>1. IsFiniteSet({"state"})
    BY FS_Singleton
  <2>2. IsFiniteSet({"state"} \cup {"backup"})
    BY <2>1, FS_AddElement
  <2> QED
    BY <2>2, {"state"} \cup {"backup"} = Names DEF Names
<1>2. IsFiniteSet(S) /\ Cardinality(S) \in Nat
  BY <1>1, FS_Subset, FS_CardinalityType
<1> QED
  BY <1>2, FS_EmptySet DEF Blink

\* What a save that begins makes of the counters, and of the files it did not see.
LEMMA BeginCounts ==
  ASSUME TypeOK, Begin
  PROVE  /\ blinks' \in Nat /\ (blinks' = 0 => blinks = 0)
         /\ unseen' \subseteq Names
         /\ \A n \in Names : file[n] = Newer => n \in unseen'
<1>1. PICK S \in SUBSET Names : Acceptable(S)
  BY DEF Begin
<1>2. blinks' \in Nat /\ (blinks' = 0 => blinks = 0)
  BY <1>1, BlinkCounts DEF Acceptable, TypeOK
<1>3. \A n \in Names : file[n] = Newer => n \in S
  BY <1>1 DEF Acceptable, Blinking
<1> QED
  BY <1>1, <1>2, <1>3 DEF Acceptable

\* Every step keeps it.
LEMMA LosslessStep == Lossless /\ [Next]_vars => Lossless'
<1> SUFFICES ASSUME Lossless, [Next]_vars PROVE Lossless'
  OBVIOUS
<1> USE StoreAssumption DEF Lossless, TypeOK, SaveKept, Steps, Missing, Pristine, FilesKept, TempsKept, Kept, Backed
<1>1. CASE Read
  <2>1. /\ blinks' \in Nat /\ (blinks' = 0 => blinks = 0)
        /\ floor' \in Nat /\ floor' <= floor
        /\ loaded' \in BOOLEAN
    <3> PICK S \in SUBSET Names :
          /\ Blink(S)
          /\ loaded' = (LoadOf(Blinking(S)) # Failed)
          /\ floor' = IF LoadOf(Blinking(S)) \in Nat /\ LoadOf(Blinking(S)) < floor
                       THEN LoadOf(Blinking(S)) ELSE floor
      BY <1>1 DEF Read
    <3> QED
      BY BlinkCounts
  <2> QED
    BY <1>1, <2>1 DEF Read, temps
<1>2. CASE Begin
  <2>1. blinks' \in Nat /\ (blinks' = 0 => blinks = 0) /\ unseen' \subseteq Names
    BY <1>2, BeginCounts
  <2> QED
    BY <1>2, <2>1 DEF Begin, temps
<1>3. CASE WriteTemp
  BY <1>3 DEF WriteTemp, Written, history, Content, Corrupt
<1>4. CASE Choose
  <2>1. PICK S \in SUBSET Names :
          /\ Blink(S)
          /\ IF Valid(Blinking(S)["state"])
               THEN Written(Blinking(S)["state"], copy') /\ pc' = "backup"
             ELSE IF Valid(Blinking(S)["backup"])
               THEN pc' = "replace" /\ UNCHANGED <<copy, rots>>
             ELSE Written(temp, copy') /\ pc' = "backup"
    BY <1>4 DEF Choose
  <2>2. blinks' \in Nat /\ (blinks' = 0 => blinks = 0)
    BY <2>1, BlinkCounts
  <2>3. Valid(Blinking(S)["state"]) => Blinking(S)["state"] = file["state"] /\ file["state"] > 0
    BY DEF Blinking, Valid, Corrupt, Names
  <2>4. /\ rots' \in Nat /\ (rots' = 0 => rots = 0)
        /\ pc' \in {"backup", "replace"}
        /\ copy' \in Content
        /\ rots' = 0 /\ pc' = "backup" => copy' \in {file["state"], temp} /\ copy' > 0
    BY <1>4, <2>1, <2>3 DEF Choose, Written, Valid, Content, Corrupt, Names
  <2> QED
    BY <1>4, <2>2, <2>4 DEF Choose, history, Newer, Foreign
<1>5. CASE ReplaceBackup
  BY <1>5 DEF ReplaceBackup, history, counts, Names, Content
<1>6. CASE ReplaceState
  BY <1>6 DEF ReplaceState, history, counts, Names, Content
<1>7. CASE Sync
  BY <1>7 DEF Sync, temps, history, counts
<1>8. CASE Return
  BY <1>8 DEF Return, temps, counts
<1>9. CASE Raise
  BY <1>9 DEF Raise, Stop, history, Content
<1>10. CASE Crash
  <2>1. temp' \in Content /\ copy' \in Content
    BY <1>10 DEF Crash, Torn, Content, Corrupt
  <2>2. /\ faults' \in Nat /\ pc' = "idle" /\ saving' = 0 /\ loaded' = FALSE
        /\ UNCHANGED <<file, synced, latest, floor, prior, began, sound, unseen>>
        /\ UNCHANGED <<losses, rots, blinks>>
    BY <1>10 DEF Crash, Stop, history
  <2> QED
    BY <2>1, <2>2
<1>11. CASE PowerLoss
  <2>1. file' \in [Names -> Content] /\ synced' = file'
    BY <1>11 DEF PowerLoss
  <2>2. /\ file'["state"] \in {file["state"], synced["state"]}
        /\ file'["backup"] \in {file["backup"], synced["backup"]}
    BY <1>11 DEF PowerLoss, Names
  <2>3. losses' # 0
    BY <1>11 DEF PowerLoss
  <2>4. TypeOK' /\ SaveKept'
    <3>1. temp' \in Content /\ copy' \in Content
      BY <1>11 DEF PowerLoss, Torn, Content, Corrupt
    <3>2. /\ losses' \in Nat /\ pc' = "idle" /\ saving' = 0 /\ loaded' = FALSE
          /\ UNCHANGED <<latest, floor, prior, began, sound, unseen, faults, rots, blinks>>
      BY <1>11 DEF PowerLoss, Stop, history
    <3> QED
      BY <2>1, <3>1, <3>2
  <2>5. Pristine' => FilesKept' /\ TempsKept'
    BY <1>11, <2>1, <2>2, <2>3 DEF PowerLoss, Stop, Torn, history
  <2> QED
    BY <2>4, <2>5
<1>12. CASE Rot
  BY <1>12 DEF Rot, temps, history, Content, Names
<1>13. CASE UNCHANGED vars
  BY <1>13 DEF vars, temps, history, counts
<1> QED
  BY <1>1, <1>2, <1>3, <1>4, <1>5, <1>6, <1>7, <1>8, <1>9, <1>10, <1>11, <1>12, <1>13
  DEF Next, Save

\* The variables keep their types, whatever the bounds.
THEOREM StoreTypeCorrect == Spec => []TypeOK
<1>1. Lossless => TypeOK
  BY DEF Lossless
<1> QED
  BY <1>1, LosslessInit, LosslessStep, PTL DEF Spec

\* No crash, I/O error or power loss makes a load return a state older than the
\* last one whose save returned (or one that was never saved): JsonStateStore's
\* save, for any number of saves and of faults.
THEOREM NothingLost == Spec => []NeverLost
  BY LosslessInit, LosslessStep, LosslessEnough, PTL DEF Spec
-----------------------------------------------------------------------------
(* The file as a register *)

\* Without rot, unreadable files and power losses: what is loaded can be loaded,
\* and a save that is about to write a backup where there was no file at all
\* writes the new state there.
Registered ==
  /\ Lossless
  /\ rots = 0 /\ losses = 0 /\ blinks = 0
  /\ (pc = "idle") = (saving = Missing)
  /\ pc # "idle" => loaded
  /\ loaded => LoadOf(file) # Failed
  /\ pc = "backup" /\ ~Valid(file["state"]) =>
       file["state"] = Missing /\ file["backup"] = Missing /\ copy = saving

\* The first files are those of a register.
LEMMA RegisteredInit == Init => Registered
  BY LosslessInit DEF Init, Registered

\* A step keeps that, and is a step of Register or leaves it as it is.
LEMMA RegisterStep ==
  ASSUME Registered, [Next]_vars, Unharmed'
  PROVE  Registered' /\ [AsRegister!Next]_<<LoadOf(file), saving>>
<1> DEFINE Step == [AsRegister!Next]_<<LoadOf(file), saving>>
<1> USE DEF Registered, Unharmed, Missing, Failed, AsRegister!Next
<1>0. Lossless' /\ Lossless /\ TypeOK /\ SaveKept /\ FilesKept /\ TempsKept
  BY LosslessStep DEF Lossless, Pristine
<1>1. CASE Read
  <2>1. PICK S \in SUBSET Names :
          /\ Blink(S)
          /\ loaded' = (LoadOf(Blinking(S)) # Failed)
    BY <1>1 DEF Read
  <2>2. blinks' = 0 /\ S = {}
    <3>1. blinks' <= 0
      BY <2>1 DEF Blink
    <3> QED
      BY <1>0, <2>1, <3>1, BlinkCounts DEF TypeOK
  <2>3. Blinking(S) = file
    BY <1>0, <2>2 DEF Blinking, TypeOK
  <2> QED
    BY <1>0, <1>1, <2>1, <2>2, <2>3 DEF Read, temps
<1>2. CASE Begin
  <2>1. saving' \in Int \ {0}
    BY <1>0, <1>2 DEF Begin, SaveKept, TypeOK
  <2>2. AsRegister!Ask
    BY <1>2, <2>1 DEF Begin, AsRegister!Ask
  <2> QED
    BY <1>0, <1>2, <2>1, <2>2 DEF Begin, temps
<1>3. CASE WriteTemp
  BY <1>0, <1>3 DEF WriteTemp, Written, history, TypeOK
<1>4. CASE Choose
  <2>1. PICK S \in SUBSET Names :
          /\ Blink(S)
          /\ IF Valid(Blinking(S)["state"])
               THEN Written(Blinking(S)["state"], copy') /\ pc' = "backup"
             ELSE IF Valid(Blinking(S)["backup"])
               THEN pc' = "replace" /\ UNCHANGED <<copy, rots>>
             ELSE Written(temp, copy') /\ pc' = "backup"
    BY <1>4 DEF Choose
  <2>2. blinks' = 0 /\ S = {}
    <3>1. blinks' <= 0
      BY <2>1 DEF Blink
    <3> QED
      BY <1>0, <2>1, <3>1, BlinkCounts DEF TypeOK
  <2>3. Blinking(S) = file
    BY <1>0, <2>2 DEF Blinking, TypeOK
  <2>4. rots' = 0
    BY <2>1 DEF Written
  <2>5. pc' # "idle" /\ (pc' = "backup" /\ ~Valid(file["state"]) =>
                           ~Valid(file["backup"]) /\ copy' = saving)
    BY <1>0, <1>4, <2>1, <2>3 DEF Choose, Written, TempsKept
  <2>6. LoadOf(file) # Failed /\ ~Valid(file["state"]) /\ ~Valid(file["backup"]) =>
          file["state"] = Missing /\ file["backup"] = Missing
    BY DEF LoadOf
  <2> QED
    BY <1>0, <1>4, <2>2, <2>4, <2>5, <2>6 DEF Choose, history
<1>5. CASE ReplaceBackup
  <2>1. /\ file'["state"] = file["state"] /\ file'["backup"] = copy
        /\ Valid(copy) /\ pc' = "syncBackup"
    BY <1>0, <1>5 DEF ReplaceBackup, TypeOK, Names
  <2>2. CASE Valid(file["state"])
    <3>1. LoadOf(file') = LoadOf(file)
      BY <2>1, <2>2 DEF LoadOf, Valid
    <3> QED
      BY <1>0, <1>5, <3>1 DEF ReplaceBackup, history, counts
  <2>3. CASE ~Valid(file["state"])
    <3>1. LoadOf(file') = saving
      BY <1>0, <1>5, <2>1, <2>3 DEF ReplaceBackup, LoadOf, Valid, Newer, Foreign
    <3>2. saving > 0 /\ saving' = saving
      BY <1>0, <1>5 DEF ReplaceBackup, SaveKept
    <3>3. AsRegister!Apply
      BY <1>0, <3>1, <3>2 DEF AsRegister!Apply, TypeOK
    <3> QED
      BY <1>0, <1>5, <3>1, <3>2, <3>3 DEF ReplaceBackup, history, counts
  <2> QED
    BY <2>2, <2>3
<1>6. CASE ReplaceState
  <2>1. /\ file'["state"] = saving /\ saving' = saving /\ saving > 0
        /\ saving \in Nat /\ pc' = "syncState"
    BY <1>0, <1>6 DEF ReplaceState, TypeOK, Names, SaveKept, TempsKept
  <2>2. LoadOf(file') = saving
    BY <2>1 DEF LoadOf, Valid
  <2>3. AsRegister!Apply
    BY <2>1, <2>2 DEF AsRegister!Apply
  <2> QED
    BY <1>0, <1>6, <2>1, <2>2, <2>3 DEF ReplaceState, history, counts
<1>7. CASE Sync
  BY <1>0, <1>7 DEF Sync, temps, history, counts
<1>8. CASE Return
  <2>1. LoadOf(file) = saving
    BY <1>0, <1>8 DEF Return, LoadOf, TempsKept, Valid
  <2>2. AsRegister!Return
    BY <1>8, <2>1 DEF Return, AsRegister!Return
  <2> QED
    BY <1>0, <1>8, <2>2 DEF Return, temps, counts
<1>9. CASE Raise
  <2>1. AsRegister!GiveUp
    BY <1>9 DEF Raise, Stop, AsRegister!GiveUp
  <2> QED
    BY <1>0, <1>9, <2>1 DEF Raise, Stop, history
<1>10. CASE Crash
  <2>1. Step
    BY <1>10 DEF Crash, Stop, AsRegister!GiveUp
  <2> QED
    BY <1>0, <1>10, <2>1 DEF Crash, Stop, history
<1>11. CASE PowerLoss
  BY <1>11 DEF PowerLoss
<1>12. CASE Rot
  BY <1>12 DEF Rot
<1>13. CASE UNCHANGED vars
  BY <1>0, <1>13 DEF vars, temps, history, counts
<1> QED
  BY <1>1, <1>2, <1>3, <1>4, <1>5, <1>6, <1>7, <1>8, <1>9, <1>10, <1>11, <1>12, <1>13
  DEF Next, Save

\* What has been harmed stays harmed.
LEMMA HarmStays == ASSUME TypeOK, [Next]_vars, Unharmed' PROVE Unharmed
<1>1. CASE Read \/ Choose
  <2>1. PICK S \in SUBSET Names : Blink(S)
    BY <1>1 DEF Read, Choose
  <2> QED
    BY <1>1, <2>1, BlinkCounts DEF Read, Choose, Written, TypeOK, Unharmed
<1>2. CASE WriteTemp \/ ReplaceBackup \/ ReplaceState \/ Sync
  BY <1>2 DEF WriteTemp, Written, ReplaceBackup, ReplaceState, Sync, counts, TypeOK, Unharmed
<1>3. CASE Return \/ Raise \/ Crash \/ PowerLoss \/ Rot \/ UNCHANGED vars
  BY <1>3 DEF Return, Raise, Crash, PowerLoss, Rot, vars, counts, TypeOK, Unharmed
<1>4. CASE Begin
  BY <1>4, BeginCounts DEF Begin, TypeOK, Unharmed
<1> QED
  BY <1>1, <1>2, <1>3, <1>4 DEF Next, Save

\* As long as only crashes and I/O errors come between the steps of a save,
\* JsonStateStore is to its callers a register: a save sets the value at one
\* moment, before it returns, or not at all, and nothing else changes it.
THEOREM CrashSafeRegister == Spec => ImplementsRegister
<1>1. Init => AsRegister!Init
  <2> SUFFICES ASSUME Init PROVE AsRegister!Init
    OBVIOUS
  <2>1. file["state"] \in Int /\ file["backup"] \in Int
    BY DEF Init, FirstFiles, Names, Missing, Newer, Foreign
  <2> QED
    BY <2>1 DEF Init, AsRegister!Init, LoadOf, Missing, Failed
<1> DEFINE Inv == Lossless /\ (Unharmed => Registered)
<1>2. Init => Inv
  BY RegisteredInit, LosslessInit
<1>3. Inv /\ [Next]_vars
      => Inv' /\ [Unharmed' => AsRegister!Next]_<<LoadOf(file), saving>>
  <2> SUFFICES ASSUME Inv, [Next]_vars
               PROVE  Inv' /\ [Unharmed' => AsRegister!Next]_<<LoadOf(file), saving>>
    OBVIOUS
  <2>1. Lossless' /\ TypeOK
    BY LosslessStep DEF Lossless
  <2>2. ASSUME Unharmed'
        PROVE  Registered' /\ [AsRegister!Next]_<<LoadOf(file), saving>>
    BY <2>1, <2>2, HarmStays, RegisterStep
  <2> QED
    BY <2>1, <2>2
<1> QED
  BY <1>1, <1>2, <1>3, PTL DEF Spec, ImplementsRegister

-----------------------------------------------------------------------------
(* One file that rots *)

\* What power losses do is undone by the syncs, or there were none.
Durable == SyncsDirectory \/ losses = 0

\* The content was saved by this program and may have rotted since.
Ours(content) == Valid(content) \/ content = Corrupt

\* The file can be read, and so can what a power loss makes of it.
Safe(n) == Valid(file[n]) /\ (SyncsDirectory => Valid(synced[n]))

\* The temporary file holds the new state, and so does the state file once it has
\* been replaced.
SaveHolds ==
  /\ pc = "choose" => temp \in {saving, Corrupt}
  /\ pc \in {"backup", "syncBackup", "replace"} => temp = saving
  /\ pc \in {"syncState", "verify"} => file["state"] \in {saving, Corrupt}
  /\ pc = "verify" /\ SyncsDirectory => synced = file

\* Once a save has returned, the state file is never again missing or a stranger's.
StateIsOurs ==
  floor > 0 \/ prior > 0 =>
    Ours(file["state"]) /\ (SyncsDirectory => Ours(synced["state"]))

\* Both files are safe after a save, and one of them after the first rot since it
\* began; a save on its way brings that about.
Sheltered ==
  /\ floor > 1 =>
       /\ rots = sound => Safe("state") /\ Safe("backup")
       /\ rots = sound + 1 => Safe("state") \/ Safe("backup")
  /\ pc \in {"syncBackup", "replace"} /\ rots = began => Valid(file["backup"])
  /\ pc \in {"syncState", "verify"} =>
       /\ rots = began => Valid(file["state"]) /\ Valid(file["backup"])
       /\ rots = began + 1 => Valid(file["state"]) \/ Valid(file["backup"])

Recent(content) == Valid(content) => content >= prior

\* The state file is not older than the save before the last one that returned, and
\* nor is the backup if it may have to stand in for it.
StepBack ==
  /\ Recent(file["state"]) /\ (SyncsDirectory => Recent(synced["state"]))
  /\ rots = 0 \/ ~Valid(file["state"]) \/ (SyncsDirectory /\ ~Valid(synced["state"])) =>
       Recent(file["backup"]) /\ (SyncsDirectory => Recent(synced["backup"]))
  /\ pc = "backup" => Recent(copy)

\* Before the first rot, a save makes its backup of the last state that was saved.
BackupFollows ==
  /\ pc = "backup" => copy >= floor
  /\ pc \in {"syncBackup", "replace", "syncState", "verify"} /\ Valid(file["backup"]) =>
       file["backup"] >= floor

RecoverInv ==
  /\ Lossless
  /\ began <= rots /\ sound <= rots /\ prior <= latest
  /\ SaveHolds
  /\ Durable => StateIsOurs /\ Sheltered
  /\ Durable /\ rots <= 1 /\ blinks = 0 => StepBack
  /\ Pristine => BackupFollows

\* The first files, and the counters that are still 0, satisfy it.
LEMMA RecoverInit == Init => RecoverInv
<1> SUFFICES ASSUME Init PROVE RecoverInv
  OBVIOUS
<1>1. /\ file \in [Names -> Content] /\ synced = file
      /\ file["state"] \in {0, 1, Newer, Foreign}
      /\ file["backup"] \in {0, 1, Newer, Foreign}
      /\ floor = IF Valid(file["state"]) THEN file["state"] ELSE 0
  BY DEF Init, FirstFiles, Names, Content, Missing, Corrupt, Newer, Foreign
<1>2. /\ pc = "idle" /\ prior = 0 /\ began = 0 /\ sound = 0 /\ latest = 1
      /\ floor \in Nat /\ floor <= 1 /\ (floor > 0 => Valid(file["state"]))
  BY <1>1 DEF Init, Valid, Missing, Newer, Foreign
<1>3. Recent(file["state"]) /\ Recent(file["backup"])
  BY <1>1, <1>2 DEF Recent, Valid, Newer, Foreign
<1>4. began <= rots /\ sound <= rots /\ prior <= latest
  BY <1>2 DEF Init
<1>5. SaveHolds /\ BackupFollows
  BY <1>2 DEF SaveHolds, BackupFollows
<1>6. StateIsOurs /\ Sheltered
  BY <1>1, <1>2 DEF StateIsOurs, Sheltered, Ours
<1>7. StepBack
  BY <1>1, <1>2, <1>3 DEF StepBack
<1> QED
  BY LosslessInit, <1>4, <1>5, <1>6, <1>7 DEF RecoverInv

\* What a step that reads the files finds, when no read has ever failed.
LEMMA BlinksSeen ==
  ASSUME TypeOK, NEW S \in SUBSET Names, Blink(S), blinks' = 0
  PROVE  blinks = 0 /\ Blinking(S) = file
<1>1. blinks = 0 /\ S = {}
  BY BlinkCounts DEF TypeOK
<1> QED
  BY <1>1 DEF TypeOK, Blinking

\* Every step keeps it.
LEMMA RecoverStep == RecoverInv /\ [Next]_vars => RecoverInv'
<1> SUFFICES ASSUME RecoverInv, [Next]_vars PROVE RecoverInv'
  OBVIOUS
<1> DEFINE Simple == began <= rots /\ sound <= rots /\ prior <= latest /\ SaveHolds
           Kind == (Durable => StateIsOurs /\ Sheltered)
           Past == (Durable /\ rots <= 1 /\ blinks = 0 => StepBack)
           Follows == (Pristine => BackupFollows)
<1>0. /\ Lossless' /\ Lossless /\ TypeOK /\ TypeOK' /\ SaveKept /\ SaveKept'
      /\ began <= rots /\ sound <= rots /\ prior <= latest /\ SaveHolds
      /\ Kind /\ Past /\ Follows
  BY LosslessStep DEF RecoverInv, Lossless
<1>a. (Simple /\ Kind /\ Past /\ Follows)' => RecoverInv'
  BY <1>0 DEF RecoverInv
<1> USE DEF SaveHolds, Durable, StateIsOurs, Sheltered, StepBack, BackupFollows, Ours, Safe, Recent,
            Pristine, TypeOK, SaveKept, Names, Content, Valid, Corrupt, Newer, Foreign, Missing
<1>1. CASE Read
  <2>1. /\ blinks' = 0 => blinks = 0
        /\ floor' \in Nat /\ floor' <= floor
    <3> PICK S \in SUBSET Names :
          /\ Blink(S)
          /\ floor' = IF LoadOf(Blinking(S)) \in Nat /\ LoadOf(Blinking(S)) < floor
                       THEN LoadOf(Blinking(S)) ELSE floor
      BY <1>1 DEF Read
    <3> QED
      BY <1>0, BlinkCounts
  <2>2. Simple'
    BY <1>0, <1>1 DEF Read, temps
  <2>3. Kind'
    BY <1>0, <1>1, <2>1 DEF Read, temps
  <2>4. Past'
    BY <1>0, <1>1, <2>1 DEF Read, temps
  <2>5. Follows'
    BY <1>0, <1>1 DEF Read, temps
  <2> QED
    BY <2>2, <2>3, <2>4, <2>5, <1>a
<1>2. CASE Begin
  <2>0. blinks' \in Nat /\ (blinks' = 0 => blinks = 0)
    BY <1>0, <1>2, BeginCounts
  <2>1. Simple'
    BY <1>0, <1>2 DEF Begin, temps
  <2>2. Kind'
    BY <1>0, <1>2 DEF Begin, temps
  <2>3. Past'
    BY <1>0, <1>2, <2>0 DEF Begin, temps
  <2>4. Follows'
    BY <1>0, <1>2, <2>0 DEF Begin, temps, Lossless, FilesKept, TempsKept, Kept, Backed
  <2> QED
    BY <2>1, <2>2, <2>3, <2>4, <1>a
<1>3. CASE WriteTemp
  <2>1. Simple'
    BY <1>0, <1>3 DEF WriteTemp, Written, history
  <2>2. Kind'
    BY <1>0, <1>3 DEF WriteTemp, Written, history
  <2>3. Past'
    BY <1>0, <1>3 DEF WriteTemp, Written, history
  <2>4. Follows'
    BY <1>0, <1>3 DEF WriteTemp, Written, history, Lossless, FilesKept, TempsKept, Kept, Backed
  <2> QED
    BY <2>1, <2>2, <2>3, <2>4, <1>a
<1>4. CASE Choose
  <2>1. PICK S \in SUBSET Names :
          /\ Blink(S)
          /\ IF Valid(Blinking(S)["state"])
               THEN Written(Blinking(S)["state"], copy') /\ pc' = "backup"
             ELSE IF Valid(Blinking(S)["backup"])
               THEN pc' = "replace" /\ UNCHANGED <<copy, rots>>
             ELSE Written(temp, copy') /\ pc' = "backup"
    BY <1>4 DEF Choose
  <2>2. /\ Valid(Blinking(S)["state"]) => Blinking(S)["state"] = file["state"]
        /\ Valid(Blinking(S)["backup"]) => Blinking(S)["backup"] = file["backup"]
    BY DEF Blinking
  <2>3. /\ rots' \in Nat /\ rots' >= rots
        /\ pc' \in {"backup", "replace"}
        /\ pc' = "replace" => Valid(file["backup"]) /\ rots' = rots
        /\ temp = saving
        /\ UNCHANGED <<file, synced, temp, loaded, saving, latest, floor, prior, began, sound>>
        /\ UNCHANGED <<faults, losses>>
    BY <1>0, <1>4, <2>1, <2>2 DEF Choose, Written, history
  <2>4. /\ pc' = "backup" => \/ copy' = Corrupt /\ rots' = rots + 1
                            \/ copy' = file["state"]
                            \/ copy' = temp
    BY <2>1, <2>2 DEF Written
  <2>5. blinks' = 0 => blinks = 0
    BY <1>0, <2>1, BlinkCounts
  <2>6. Simple'
    BY <1>0, <1>4, <2>3 DEF Choose
  <2>7. Kind'
    BY <1>0, <1>4, <2>3 DEF Choose
  <2>8. Past'
    BY <1>0, <2>3, <2>4, <2>5
  <2>9. Follows'
    <3>1. SUFFICES ASSUME Pristine' PROVE BackupFollows'
      OBVIOUS
    <3>2. Pristine /\ rots' = 0 /\ FilesKept
      BY <1>0, <2>3, <2>5, <3>1 DEF Lossless
    <3>3. CASE pc' = "backup"
      BY <1>0, <1>4, <2>1, <2>2, <2>3, <3>2, <3>3 DEF Choose, Written, FilesKept, Kept
    <3>4. CASE pc' = "replace"
      <4>1. ~Valid(file["state"])
        <5>1. blinks' = 0
          BY <3>1
        <5>2. Blinking(S) = file
          BY <1>0, <2>1, <5>1, BlinksSeen
        <5> QED
          BY <2>1, <3>4, <5>2
      <4>2. floor = 0
        BY <1>0, <3>2, <4>1 DEF FilesKept, Kept
      <4> QED
        BY <1>0, <2>3, <3>4, <4>2
    <3> QED
      BY <2>3, <3>3, <3>4
  <2> QED
    BY <2>6, <2>7, <2>8, <2>9, <1>a
<1>5. CASE ReplaceBackup
  <2>1. Simple'
    BY <1>0, <1>5 DEF ReplaceBackup, history, counts
  <2>2. Kind'
    BY <1>0, <1>5 DEF ReplaceBackup, history, counts
  <2>3. Past'
    BY <1>0, <1>5 DEF ReplaceBackup, history, counts
  <2>4. Follows'
    BY <1>0, <1>5 DEF ReplaceBackup, history, counts, Lossless, FilesKept, TempsKept, Kept, Backed
  <2> QED
    BY <2>1, <2>2, <2>3, <2>4, <1>a
<1>6. CASE ReplaceState
  <2>1. Simple'
    BY <1>0, <1>6 DEF ReplaceState, history, counts
  <2>2. Kind'
    BY <1>0, <1>6 DEF ReplaceState, history, counts
  <2>3. Past'
    BY <1>0, <1>6 DEF ReplaceState, history, counts
  <2>4. Follows'
    BY <1>0, <1>6 DEF ReplaceState, history, counts, Lossless, FilesKept, TempsKept, Kept, Backed
  <2> QED
    BY <2>1, <2>2, <2>3, <2>4, <1>a
<1>7. CASE Sync
  <2>1. Simple'
    BY <1>0, <1>7 DEF Sync, temps, history, counts
  <2>2. Kind'
    BY <1>0, <1>7 DEF Sync, temps, history, counts
  <2>3. Past'
    BY <1>0, <1>7 DEF Sync, temps, history, counts
  <2>4. Follows'
    BY <1>0, <1>7 DEF Sync, temps, history, counts, Lossless, FilesKept, TempsKept, Kept, Backed
  <2> QED
    BY <2>1, <2>2, <2>3, <2>4, <1>a
<1>8. CASE Return
  <2>1. Simple'
    BY <1>0, <1>8 DEF Return, temps, counts
  <2>2. Kind'
    BY <1>0, <1>8 DEF Return, temps, counts
  <2>3. Past'
    BY <1>0, <1>8 DEF Return, temps, counts
  <2>4. Follows'
    BY <1>0, <1>8 DEF Return, temps, counts, Lossless, FilesKept, TempsKept, Kept, Backed
  <2> QED
    BY <2>1, <2>2, <2>3, <2>4, <1>a
<1>9. CASE Raise
  <2>1. Simple'
    BY <1>0, <1>9 DEF Raise, Stop, history
  <2>2. Kind'
    BY <1>0, <1>9 DEF Raise, Stop, history
  <2>3. Past'
    BY <1>0, <1>9 DEF Raise, Stop, history
  <2>4. Follows'
    BY <1>0, <1>9 DEF Raise, Stop, history, Lossless, FilesKept, TempsKept, Kept, Backed
  <2> QED
    BY <2>1, <2>2, <2>3, <2>4, <1>a
<1>10. CASE Crash
  <2>1. Simple'
    BY <1>0, <1>10 DEF Crash, Stop, history
  <2>2. Kind'
    BY <1>0, <1>10 DEF Crash, Stop, history
  <2>3. Past'
    BY <1>0, <1>10 DEF Crash, Stop, history
  <2>4. Follows'
    BY <1>0, <1>10 DEF Crash, Stop, history, Lossless, FilesKept, TempsKept, Kept, Backed
  <2> QED
    BY <2>1, <2>2, <2>3, <2>4, <1>a
<1>11. CASE PowerLoss
  <2>1. Simple'
    BY <1>0, <1>11 DEF PowerLoss, Stop, history
  <2>2. Kind'
    BY <1>0, <1>11 DEF PowerLoss, Stop, history
  <2>3. Past'
    BY <1>0, <1>11 DEF PowerLoss, Stop, history
  <2>4. Follows'
    BY <1>0, <1>11 DEF PowerLoss, Stop, history, Lossless, FilesKept, TempsKept, Kept, Backed
  <2> QED
    BY <2>1, <2>2, <2>3, <2>4, <1>a
<1>12. CASE Rot
  <2>1. PICK n \in Names :
          /\ Valid(file[n])
          /\ file' = [file EXCEPT ![n] = Corrupt]
          /\ synced' = [synced EXCEPT ![n] = IF synced[n] = file[n] THEN Corrupt ELSE @]
    BY <1>12 DEF Rot
  <2>2. /\ rots' = rots + 1
        /\ UNCHANGED <<temp, copy, pc, loaded, saving, latest, floor, prior, began, sound>>
        /\ UNCHANGED <<faults, losses, blinks>>
    BY <1>12 DEF Rot, temps, history
  <2>3. \A m \in Names : /\ file'[m] \in {file[m], Corrupt}
                         /\ synced'[m] \in {synced[m], Corrupt}
                         /\ m # n => file'[m] = file[m] /\ synced'[m] = synced[m]
    BY <1>0, <2>1
  <2>4. Simple'
    <3>1. pc = "verify" /\ SyncsDirectory => synced' = file'
      BY <1>0, <2>1
    <3>2. file'["state"] \in {file["state"], Corrupt}
      BY <2>3
    <3> QED
      BY <1>0, <2>2, <3>1, <3>2
  <2>5. Kind'
    BY <1>0, <2>1, <2>2, <2>3
  <2>6. Past'
    BY <1>0, <2>2, <2>3
  <2>7. Follows'
    BY <1>0, <2>2
  <2> QED
    BY <2>4, <2>5, <2>6, <2>7, <1>a
<1>13. CASE UNCHANGED vars
  <2>1. Simple'
    BY <1>0, <1>13 DEF vars, temps, history, counts
  <2>2. Kind'
    BY <1>0, <1>13 DEF vars, temps, history, counts
  <2>3. Past'
    BY <1>0, <1>13 DEF vars, temps, history, counts
  <2>4. Follows'
    BY <1>0, <1>13 DEF vars, temps, history, counts, Lossless, FilesKept, TempsKept, Kept, Backed
  <2> QED
    BY <2>1, <2>2, <2>3, <2>4, <1>a
<1> QED
  BY <1>1, <1>2, <1>3, <1>4, <1>5, <1>6, <1>7, <1>8, <1>9, <1>10, <1>11, <1>12, <1>13
  DEF Next, Save

\* The invariant gives what the run checks.
LEMMA RecoverEnough == RecoverInv => Recoverable
<1> SUFFICES ASSUME RecoverInv PROVE StaysReadable /\ OneStepBack
  BY DEF Recoverable
<1>0. Lossless /\ TypeOK /\ SaveKept
  BY DEF RecoverInv, Lossless
<1>1. StaysReadable
  BY <1>0 DEF RecoverInv, StaysReadable, LoadOf, StateIsOurs, Sheltered, Durable, Ours, Safe,
              TypeOK, Names, Content, Valid, Corrupt, Newer, Foreign, Missing, Failed
<1>2. OneStepBack
  BY <1>0 DEF RecoverInv, OneStepBack, LoadOf, StateIsOurs, StepBack, Recent, Durable, Ours,
              TypeOK, Names, Content, Valid, Corrupt, Newer, Foreign, Missing, Failed
<1> QED
  BY <1>1, <1>2

\* One file that rots never leaves the program without a state once a save has
\* returned, and costs at most the last save: save's copy to the backup before it
\* replaces the state file, for any number of saves, faults and power losses.
THEOREM OneRotSurvived == Spec => []Recoverable
  BY RecoverInit, RecoverStep, RecoverEnough, PTL DEF Spec

-----------------------------------------------------------------------------
(* The files of a newer program *)

\* A file of a newer schema is what a power loss brings back too, and a save is on
\* its way only if it could not look at it; the program never writes one.
Untouched ==
  /\ temp # Newer /\ copy # Newer
  /\ \A n \in Names : file[n] = Newer => synced[n] = Newer /\ (pc = "idle" \/ n \in unseen)

\* It holds of the first files.
LEMMA UntouchedInit == Init => Untouched
  BY DEF Init, Untouched, Missing, Newer

\* No step but one of a save that could not look at it changes such a file.
Spares == \A n \in Names : file[n] = Newer =>
            file'[n] = Newer \/ (pc # "idle" /\ n \in unseen)

\* Every step keeps it, and spares such a file.
LEMMA UntouchedStep == TypeOK /\ Untouched /\ [Next]_vars => Untouched' /\ Spares
<1> SUFFICES ASSUME TypeOK, Untouched, [Next]_vars PROVE Untouched' /\ Spares
  OBVIOUS
<1> USE DEF Untouched, Spares, TypeOK
<1>1. CASE Read
  BY <1>1 DEF Read, temps
<1>2. CASE Begin
  BY <1>2, BeginCounts DEF Begin, temps
<1>3. CASE WriteTemp
  BY <1>3 DEF WriteTemp, Written, Corrupt, Newer, history
<1>4. CASE Choose
  <2>1. PICK S \in SUBSET Names :
          IF Valid(Blinking(S)["state"])
            THEN Written(Blinking(S)["state"], copy') /\ pc' = "backup"
          ELSE IF Valid(Blinking(S)["backup"])
            THEN pc' = "replace" /\ UNCHANGED <<copy, rots>>
          ELSE Written(temp, copy') /\ pc' = "backup"
    BY <1>4 DEF Choose
  <2>2. copy' # Newer
    BY <2>1 DEF Written, Valid, Corrupt, Newer
  <2> QED
    BY <1>4, <2>2 DEF Choose, history
<1>5. CASE ReplaceBackup
  BY <1>5 DEF ReplaceBackup, Names, Missing, Newer, history
<1>6. CASE ReplaceState
  BY <1>6 DEF ReplaceState, Names, Missing, Newer, history
<1>7. CASE Sync
  BY <1>7 DEF Sync, temps, history
<1>8. CASE Return
  BY <1>8 DEF Return, temps
<1>9. CASE Raise
  BY <1>9 DEF Raise, Stop, Missing, Newer, history
<1>10. CASE Crash
  BY <1>10 DEF Crash, Stop, Torn, Corrupt, Newer, history
<1>11. CASE PowerLoss
  <2>1. temp' # Newer /\ copy' # Newer /\ pc' = "idle" /\ synced' = file'
    BY <1>11 DEF PowerLoss, Stop, Torn, Corrupt, Newer
  <2>2. \A n \in Names : file'[n] \in {file[n], synced[n]}
    BY <1>11 DEF PowerLoss
  <2> QED
    BY <2>1, <2>2
<1>12. CASE Rot
  <2>1. PICK n \in Names :
          /\ Valid(file[n])
          /\ file' = [file EXCEPT ![n] = Corrupt]
          /\ synced' = [synced EXCEPT ![n] = IF synced[n] = file[n] THEN Corrupt ELSE @]
    BY <1>12 DEF Rot
  <2>2. \A m \in Names \ {n} : file'[m] = file[m] /\ synced'[m] = synced[m]
    BY <2>1
  <2>3. file[n] # Newer /\ file'[n] # Newer
    BY <2>1 DEF Valid, Corrupt, Newer
  <2> QED
    BY <1>12, <2>2, <2>3 DEF Rot, temps, history
<1>13. CASE UNCHANGED vars
  BY <1>13 DEF vars, temps, history
<1> QED
  BY <1>1, <1>2, <1>3, <1>4, <1>5, <1>6, <1>7, <1>8, <1>9, <1>10, <1>11, <1>12, <1>13
  DEF Next, Save

\* After a downgrade the newer program finds its files as it left them, unless a save
\* failed to open one when it began: no load, crash or power loss changes one, nor a
\* save that saw it or a later one, although _reject_newer_disk_schema is asked only
\* once in a save.
THEOREM NewerFilesKept == Spec => NewerUntouched
<1>1. Untouched /\ TypeOK /\ [Next]_vars => [Spares]_file
  BY UntouchedStep
<1> QED
  BY <1>1, StoreTypeCorrect, UntouchedInit, UntouchedStep, PTL DEF Spec, NewerUntouched, Spares

=============================================================================
