---------------------------- MODULE BootStageProofs ----------------------------
(* Theorems about BootStage, for every set of cards that are used.               *)
EXTENDS BootStage, TLAPS

USE DEF Apkft, Files, Copies

\* Type correctness of the device's files and scripts.
THEOREM TypeCorrect == Spec => []TypeOK
<1>1. Init => TypeOK
  BY DEF Init, TypeOK, Steps, Stays, AllCards
<1>2. TypeOK /\ [Next]_vars => TypeOK'
  <2> SUFFICES ASSUME TypeOK, [Next]_vars PROVE TypeOK'
    OBVIOUS
  <2> USE BootAssumption DEF TypeOK, Steps, Stays, AllCards
  <2>1. CASE Power
    <3>1. ASSUME NEW c \in Cards, BootNothing(c) \/ BootCard(c) PROVE TypeOK'
      BY <3>1 DEF BootNothing, BootCard, Runs
    <3>2. CASE BootProduct \/ BootTest \/ BootIdle
      BY <3>2 DEF BootProduct, BootTest, CanTest, BootIdle, Runs
    <3>3. CASE PowerLoss \/ WriteBack
      <4>1. fs' \in [Files -> {"none", "part", "orig", "test", "full", "all", "aging"}]
        BY <3>3 DEF PowerLoss, WriteBack
      <4>2. at' \in {at, "off"} /\ dir' = dir
        BY <3>3 DEF PowerLoss, WriteBack
      <4>3. at' \in Steps \cup Stays /\ (at' \in Copies \cup {"backup"} => dir')
        BY <4>2
      <4>4. dirty' \subseteq Files /\ dir' \in BOOLEAN
        BY <3>3 DEF PowerLoss, WriteBack
      <4>5. card' \in AllCards /\ copied' \in BOOLEAN /\ removing' \in BOOLEAN
        BY <3>3 DEF PowerLoss, WriteBack
      <4> HIDE DEF Apkft, Files, Copies, Steps, Stays, AllCards
      <4> QED
        BY <4>1, <4>3, <4>4, <4>5
    <3> QED
      BY <2>1, <3>1, <3>2, <3>3 DEF Power
  <2>2. CASE Install
    <3>1. ASSUME NEW f \in Copies, CopyStarts(f) \/ CopyEnds(f) PROVE TypeOK'
      BY <3>1 DEF CopyStarts, CopyEnds, After, Content, Truncate, Write
    <3>2. CASE Start \/ Exists \/ MakeDir
      BY <3>2 DEF Start, Exists, MakeDir
    <3>3. CASE ForceRemoves
      BY <3>3 DEF ForceRemoves, RemovesAll, Remove
    <3>4. CASE Backup
      <4>1. CASE fs["dh"] # "none"
        BY <3>4, <4>1 DEF Backup
      <4>2. CASE Rename("rcS", "dh")
        BY <3>4, <4>2 DEF Backup, Rename
      <4> QED
        BY <3>4, <4>1, <4>2 DEF Backup
    <3> QED
      BY <2>2, <3>1, <3>2, <3>3, <3>4 DEF Install
  <2>3. CASE Server
    <3>1. CASE StageAll \/ StageAging \/ StageSync \/ KeyHeld
      BY <3>1 DEF StageAll, StageAging, StageSync, KeyHeld, Write, Sync
    <3>2. CASE Restore \/ RemoveTest \/ RemoveSync
      <4>1. fs' \in [Files -> {"none", "part", "orig", "test", "full", "all", "aging"}]
        BY <3>2 DEF Restore, RemoveTest, RemoveSync, RemovesAll, Remove, Rename, Sync
      <4>2. dirty' \subseteq Files
        BY <3>2 DEF Restore, RemoveTest, RemoveSync, RemovesAll, Remove, Rename, Sync
      <4>3. at' \in {"remove", "removed", "blink"} /\ dir' \in BOOLEAN
        BY <3>2 DEF Restore, RemoveTest, RemoveSync, RemovesAll, Sync
      <4>4. at' \in Steps \cup Stays /\ at' \notin Copies \cup {"backup"}
        BY <4>3
      <4>5. card' = card /\ copied' = copied /\ removing' = removing
        BY <3>2 DEF Restore, RemoveTest, RemoveSync, RemovesAll, Sync
      <4> HIDE DEF Apkft, Files, Copies, Steps, Stays, AllCards
      <4> QED
        BY <4>1, <4>2, <4>3, <4>4, <4>5
    <3> QED
      BY <2>3, <3>1, <3>2 DEF Server
  <2>4. CASE UNCHANGED vars
    BY <2>4 DEF vars
  <2> QED
    BY <2>1, <2>2, <2>3, <2>4 DEF Next
<1> QED
  BY <1>1, <1>2, PTL DEF Spec

-----------------------------------------------------------------------------
(* The original rcS                                                              *)

\* A file whose data can still be lost is never the original rcS, nor the backup.
OriginalIsWritten == "dh" \notin dirty /\ \A f \in dirty : fs[f] # "orig"

\* copyapkft.sh overwrites rcS only when there is a backup.
BackedUp == at \in {"rcS", "tail"} => fs["dh"] = "orig"

OriginalInv == TypeOK /\ OriginalKept /\ OriginalIsWritten /\ BackedUp

\* However installations and removals are cut off, the original rcS is there.
THEOREM OriginalInvariant == Spec => []OriginalInv
<1>1. Init => OriginalInv
  BY DEF Init, OriginalInv, OriginalKept, OriginalIsWritten, BackedUp, TypeOK, Steps, Stays, AllCards
<1>2. OriginalInv /\ TypeOK' /\ [Next]_vars => OriginalInv'
  <2> SUFFICES ASSUME OriginalInv, TypeOK', [Next]_vars PROVE OriginalInv'
    OBVIOUS
  <2> USE DEF OriginalInv, OriginalKept, OriginalIsWritten, BackedUp, TypeOK
  <2>1. CASE Power
    <3>1. CASE PowerLoss
      <4>1. PICK lost \in SUBSET dirty :
              fs' = [f \in Files |-> IF f \in lost THEN "part" ELSE fs[f]]
        BY <3>1 DEF PowerLoss
      <4>2. \A f \in Files : fs[f] = "orig" => fs'[f] = "orig"
        BY <4>1
      <4>3. "dh" \notin lost /\ fs'["dh"] = fs["dh"]
        BY <4>1
      <4> QED
        BY <3>1, <4>2, <4>3 DEF PowerLoss
    <3>2. CASE WriteBack
      BY <3>2 DEF WriteBack
    <3>3. CASE \/ \E c \in Cards : BootNothing(c) \/ BootCard(c)
               \/ BootProduct \/ BootTest \/ BootIdle
      BY <3>3 DEF BootNothing, BootCard, BootProduct, BootTest, BootIdle, CanTest, Runs
    <3> QED
      BY <2>1, <3>1, <3>2, <3>3 DEF Power
  <2>2. CASE Install
    <3>1. ASSUME NEW f \in Copies, CopyStarts(f) \/ CopyEnds(f) PROVE OriginalInv'
      BY <3>1 DEF CopyStarts, CopyEnds, After, Content, Truncate, Write
    <3>2. CASE Start \/ ForceRemoves \/ Exists \/ MakeDir
      BY <3>2 DEF Start, ForceRemoves, RemovesAll, Remove, Exists, MakeDir
    <3>3. CASE Backup
      BY <3>3 DEF Backup, Rename
    <3> QED
      BY <2>2, <3>1, <3>2, <3>3 DEF Install
  <2>3. CASE Server
    BY <2>3 DEF Server, StageAll, StageAging, StageSync, KeyHeld, Restore, RemoveTest,
                RemoveSync, RemovesAll, Remove, Rename, Write, Sync
  <2>4. CASE UNCHANGED vars
    BY <2>4 DEF vars
  <2> QED
    BY <2>1, <2>2, <2>3, <2>4 DEF Next
<1> QED
  BY <1>1, <1>2, TypeCorrect, PTL DEF Spec

\* OriginalKept is a conjunct of the invariant.
THEOREM OriginalIsKept == Spec => []OriginalKept
  BY OriginalInvariant, PTL DEF OriginalInv

-----------------------------------------------------------------------------
(* Installation                                                                  *)

Written(S) == \A f \in S : fs[f] = Content(f)

\* At each step of copyapkft.sh that copies, the files of the steps before it are there.
Progress ==
    /\ at \in {"pcm", "stage", "script", "backup", "rcS", "tail"} => Written({"app"})
    /\ at \in {"stage", "script", "backup", "rcS", "tail"} => Written({"pcm"})
    /\ at \in {"script", "backup", "rcS", "tail"} => Written({"stage"})
    /\ at \in {"backup", "rcS", "tail"} => Written({"script"})
    /\ at = "tail" => Written({"rcS"})

\* After forcecopy.kpa there is no stage file to be found.
ForceIsClean == card = "force" /\ at = "look" => fs["stage"] = "none"

\* Nothing but the server of the SN stage runs on what this boot has installed.
CopiedStays == copied => at = "sn"

InstallInv == TypeOK /\ Progress /\ ForceIsClean /\ CopiedStays /\ InstallCompletes

\* The copies of copyapkft.sh build on each other, whatever power losses left before.
THEOREM InstallInvariant == Spec => []InstallInv
<1> USE DEF InstallInv, Progress, ForceIsClean, CopiedStays, InstallCompletes, Complete,
            Written, Content
<1>1. Init => InstallInv
  BY DEF Init, TypeOK, Steps, Stays, AllCards
<1>2. InstallInv /\ TypeOK' /\ [Next]_vars => InstallInv'
  <2> SUFFICES ASSUME InstallInv, TypeOK', [Next]_vars PROVE InstallInv'
    OBVIOUS
  <2> USE DEF TypeOK
  <2>1. CASE Power
    <3>1. CASE PowerLoss \/ WriteBack
      BY <3>1 DEF PowerLoss, WriteBack
    <3>2. CASE \E c \in Cards : BootNothing(c) \/ BootCard(c)
      BY <3>2 DEF BootNothing, BootCard, Runs
    <3>3. CASE BootProduct \/ BootTest \/ BootIdle
      BY <3>3 DEF BootProduct, BootTest, BootIdle, CanTest, Runs
    <3> QED
      BY <2>1, <3>1, <3>2, <3>3 DEF Power
  <2>2. CASE Install
    <3>1. ASSUME NEW f \in Copies, CopyStarts(f) PROVE InstallInv'
      BY <3>1 DEF CopyStarts, Truncate
    <3>2. ASSUME NEW f \in Copies, CopyEnds(f) PROVE InstallInv'
      BY <3>2 DEF CopyEnds, After, Write
    <3>3. CASE Start \/ Exists \/ MakeDir
      BY <3>3 DEF Start, Exists, MakeDir
    <3>4. CASE ForceRemoves
      BY <3>4 DEF ForceRemoves, RemovesAll, Remove
    <3>5. CASE Backup
      BY <3>5 DEF Backup, Rename
    <3> QED
      BY <2>2, <3>1, <3>2, <3>3, <3>4, <3>5 DEF Install
  <2>3. CASE Server
    <3>1. CASE StageAll \/ StageAging \/ StageSync \/ KeyHeld
      BY <3>1 DEF StageAll, StageAging, StageSync, KeyHeld, Write, Sync
    <3>2. CASE Restore \/ RemoveTest \/ RemoveSync
      BY <3>2 DEF Restore, RemoveTest, RemoveSync, RemovesAll, Remove, Rename, Sync
    <3> QED
      BY <2>3, <3>1, <3>2 DEF Server
  <2>4. CASE UNCHANGED vars
    BY <2>4 DEF vars
  <2> QED
    BY <2>1, <2>2, <2>3, <2>4 DEF Next
<1> QED
  BY <1>1, <1>2, TypeCorrect, PTL DEF Spec

\* An installation that was not cut off is complete, whatever was there before it.
THEOREM InstallIsComplete == Spec => []InstallCompletes
  BY InstallInvariant, PTL DEF InstallInv

-----------------------------------------------------------------------------
(* Removal                                                                       *)

\* The aging test runs from files that are on flash, and the removal that it starts puts
\* the original rcS in its place before it takes anything away.
AgingInv ==
    /\ at \in {"aging", "restore"} => CanTest /\ fs["stage"] = "aging"
    /\ at \in {"off", "idle", "product", "aging", "restore", "dead"} => dirty = {}
    /\ at \in {"remove", "removed", "blink"} => fs["rcS"] = "orig" /\ "rcS" \notin dirty
    /\ removing => at \in {"off", "idle", "product", "aging", "restore", "remove",
                          "removed", "blink"}

RemovalInv == OriginalInv /\ AgingInv /\ RemovalIsSafe

\* From the key of the aging test to the next card, a runnable rcS is in its place.
THEOREM RemovalInvariant == Spec => []RemovalInv
<1> USE DEF RemovalInv, AgingInv, RemovalIsSafe, CanTest
<1>1. Init => RemovalInv
  BY DEF Init, OriginalInv, OriginalKept, OriginalIsWritten, BackedUp, TypeOK, Steps, Stays, AllCards
<1>2. RemovalInv /\ OriginalInv' /\ [Next]_vars => RemovalInv'
  <2> SUFFICES ASSUME RemovalInv, OriginalInv', [Next]_vars PROVE RemovalInv'
    OBVIOUS
  <2> USE DEF OriginalInv, OriginalKept, TypeOK
  <2>1. CASE Power
    <3>1. CASE PowerLoss
      <4>1. dirty # {} => at \notin {"off", "idle", "product", "aging", "restore", "dead"}
        OBVIOUS
      <4>2. PICK lost \in SUBSET dirty :
              fs' = [f \in Files |-> IF f \in lost THEN "part" ELSE fs[f]]
        BY <3>1 DEF PowerLoss
      <4>3. removing /\ fs["rcS"] = "orig" => fs'["rcS"] = "orig"
        BY <4>2 DEF OriginalIsWritten
      <4>4. removing /\ fs["rcS"] # "orig" => lost = {}
        BY <4>1, <4>2
      <4> QED
        BY <3>1, <4>2, <4>3, <4>4 DEF PowerLoss
    <3>2. CASE WriteBack
      BY <3>2 DEF WriteBack
    <3>3. CASE \E c \in Cards : BootNothing(c) \/ BootCard(c)
      BY <3>3 DEF BootNothing, BootCard, Runs
    <3>4. CASE BootProduct \/ BootTest \/ BootIdle
      BY <3>4 DEF BootProduct, BootTest, BootIdle, Runs
    <3> QED
      BY <2>1, <3>1, <3>2, <3>3, <3>4 DEF Power
  <2>2. CASE Install
    <3>1. ~removing /\ ~removing'
      BY <2>2 DEF Install, CopyStarts, CopyEnds, Start, Exists, MakeDir, ForceRemoves, RemovesAll,
                  Backup, Copies
    <3>2. at' \in Steps \cup {"sn"}
      BY <2>2 DEF Install, CopyStarts, CopyEnds, Start, Exists, MakeDir, ForceRemoves, RemovesAll,
                  Backup, Copies, After, Steps
    <3> QED
      BY <3>1, <3>2 DEF Steps
  <2>3. CASE Server
    <3>1. CASE StageAll \/ StageAging \/ StageSync \/ KeyHeld
      BY <3>1 DEF StageAll, StageAging, StageSync, KeyHeld, Write, Sync
    <3>2. CASE Restore
      BY <3>2 DEF Restore, Rename
    <3>3. CASE RemoveTest \/ RemoveSync
      BY <3>3 DEF RemoveTest, RemoveSync, RemovesAll, Remove, Sync
    <3> QED
      BY <2>3, <3>1, <3>2, <3>3 DEF Server
  <2>4. CASE UNCHANGED vars
    BY <2>4 DEF vars
  <2> QED
    BY <2>1, <2>2, <2>3, <2>4 DEF Next
<1> QED
  BY <1>1, <1>2, OriginalInvariant, PTL DEF Spec

\* A removal that is cut off leaves a device that boots its product or its aging test.
THEOREM RemovalAlwaysSafe == Spec => []RemovalIsSafe
  BY RemovalInvariant, PTL DEF RemovalInv
=============================================================================
