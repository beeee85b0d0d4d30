------------------------------- MODULE BootStage -------------------------------
(* What a device boots, and the files that decide it: /etc/init.d/rcS, its backup *)
(* rcS.dh, and /etc/apkft with the stage file. The cards of the stations install  *)
(* them (sharetronic_check-sn/copyapkft.sh), the test server moves the stage on,  *)
(* and the aging test removes them again (server.c, StartAgainTest). Power may    *)
(* fail before, in and after every command.                                       *)
(*                                                                                *)
(* A rename or a removal is on flash when its command is over; the data of a file *)
(* some time later, or with "sync". Until then a power loss leaves a part of it.  *)

CONSTANT Cards     \* the cards that are used: see AllCards

\* No card, the SN card without and with forcecopy.kpa, the SMT card.
AllCards == {"none", "plain", "force", "smt"}

ASSUME BootAssumption == Cards \subseteq AllCards

VARIABLES
    fs,            \* fs[f]: what file f holds
    dir,           \* the directory /etc/apkft exists
    dirty,         \* files whose data are not on flash yet
    at,            \* what runs: a step of a script, or a program that stays
    card,          \* the card in the slot since the device was switched on
    copied,        \* this boot has installed the files (history)
    removing       \* the key of the aging test was pressed, no card came since (history)

vars == <<fs, dir, dirty, at, card, copied, removing>>

\* The files of /etc/apkft; "tail" stands for those copied after rcS.
Apkft == {"app", "pcm", "stage", "script", "tail"}
Files == Apkft \cup {"rcS", "dh"}

\* The steps of copyapkft.sh that copy a file, and what follows each.
Copies == Apkft \cup {"rcS"}
After(f) == CASE f = "app" -> "pcm" [] f = "pcm" -> "stage" [] f = "stage" -> "script"
              [] f = "script" -> "backup" [] f = "rcS" -> "tail" [] f = "tail" -> "sn"

\* What a finished copy of f holds.
Content(f) == CASE f = "stage" -> "all" [] f = "rcS" -> "test" [] OTHER -> "full"

Init ==
    /\ fs = [f \in Files |-> IF f = "rcS" THEN "orig" ELSE "none"]
    /\ dir = FALSE /\ dirty = {} /\ at = "off" /\ card = "none"
    /\ copied = FALSE /\ removing = FALSE

-----------------------------------------------------------------------------
(* What commands do to files                                                      *)

Write(f, v) == fs' = [fs EXCEPT ![f] = v] /\ dirty' = dirty \cup {f}

Truncate(f) == fs' = [fs EXCEPT ![f] = "part"] /\ dirty' = dirty \ {f}

Remove(f) == fs' = [fs EXCEPT ![f] = "none"] /\ dirty' = dirty \ {f}

Rename(f, g) ==
    /\ fs' = [fs EXCEPT ![g] = fs[f], ![f] = "none"]
    /\ dirty' = (dirty \ {f, g}) \cup (IF f \in dirty THEN {g} ELSE {})

\* rm -rf /etc/apkft, one file at a time, and then the directory.
RemovesAll(step, next) ==
    /\ at = step
    /\ \/ \E f \in Apkft : fs[f] # "none" /\ Remove(f) /\ UNCHANGED <<dir, at>>
       \/ /\ \A f \in Apkft : fs[f] = "none"
          /\ dir' = FALSE /\ at' = next /\ UNCHANGED <<fs, dirty>>
    /\ UNCHANGED <<card, copied, removing>>

-----------------------------------------------------------------------------
(* Power, and rcS                                                                 *)

Runs(program, c) ==
    /\ at = "off" /\ at' = program /\ card' = c
    /\ UNCHANGED <<fs, dir, dirty, copied>>

\* init finds no rcS, or a part of one, whose last "if" is never closed.
BootNothing(c) == fs["rcS"] \in {"none", "part"} /\ Runs("dead", c) /\ UNCHANGED removing

\* With a card, the original and the test rcS start its test, first of all copyapkft.sh,
\* which the SMT card does not have.
BootCard(c) ==
    /\ fs["rcS"] \in {"orig", "test"} /\ c # "none"
    /\ Runs(IF c = "smt" THEN "sn" ELSE "start", c) /\ removing' = FALSE

BootProduct == fs["rcS"] = "orig" /\ Runs("product", "none") /\ UNCHANGED removing

\* apkft.sh runs appApkft in the mode of the stage; a part of the script may do so too.
CanTest == /\ fs["rcS"] = "test" /\ fs["stage"] \in {"all", "aging"}
           /\ fs["script"] \in {"part", "full"} /\ fs["app"] = "full"

BootTest == CanTest /\ Runs(fs["stage"], "none") /\ UNCHANGED removing

BootIdle ==
    /\ fs["rcS"] = "test" /\ ~(CanTest /\ fs["script"] = "full")
    /\ Runs("idle", "none") /\ UNCHANGED removing

PowerLoss ==
    /\ at # "off" /\ at' = "off"
    /\ \E lost \in SUBSET dirty : fs' = [f \in Files |-> IF f \in lost THEN "part" ELSE fs[f]]
    /\ dirty' = {} /\ card' = "none" /\ copied' = FALSE
    /\ UNCHANGED <<dir, removing>>

WriteBack ==
    /\ \E f \in dirty : dirty' = dirty \ {f}
    /\ UNCHANGED <<fs, dir, at, card, copied, removing>>

-----------------------------------------------------------------------------
(* copyapkft.sh                                                                   *)

\* Mutant: forcecopy.kpa is not looked for.
MutStart ==
    /\ at = "start" /\ at' = "look"
    /\ UNCHANGED <<fs, dir, dirty, card, copied, removing>>

Start ==
    /\ at = "start" /\ at' = (IF card = "force" THEN "rm" ELSE "look")
    /\ UNCHANGED <<fs, dir, dirty, card, copied, removing>>

ForceRemoves == RemovesAll("rm", "look")

\* "apkft exist...": nothing is copied.
Exists ==
    /\ at = "look" /\ fs["stage"] # "none" /\ at' = "sn"
    /\ UNCHANGED <<fs, dir, dirty, card, copied, removing>>

\* Mutant: the directory is not made.
MutMakeDir ==
    /\ at = "look" /\ fs["stage"] = "none" /\ at' = "app"
    /\ UNCHANGED <<fs, dir, dirty, card, copied, removing>>

MakeDir ==
    /\ at = "look" /\ fs["stage"] = "none" /\ at' = "app" /\ dir' = TRUE
    /\ UNCHANGED <<fs, dirty, card, copied, removing>>

\* cp truncates the file and writes it; the stage is echoed, the script made executable.
CopyStarts(f) ==
    /\ at = f /\ fs[f] # "part" /\ Truncate(f)
    /\ UNCHANGED <<dir, at, card, copied, removing>>

CopyEnds(f) ==
    /\ at = f /\ fs[f] = "part" /\ Write(f, Content(f)) /\ at' = After(f)
    /\ copied' = (f = "tail")
    /\ UNCHANGED <<dir, card, removing>>

\* Mutant: rcS is backed up whether or not there is a backup.
MutBackup ==
    /\ at = "backup" /\ at' = "rcS" /\ Rename("rcS", "dh")
    /\ UNCHANGED <<dir, card, copied, removing>>

Backup ==
    /\ at = "backup" /\ at' = "rcS"
    /\ IF fs["dh"] # "none" THEN UNCHANGED <<fs, dirty>> ELSE Rename("rcS", "dh")
    /\ UNCHANGED <<dir, card, copied, removing>>

-----------------------------------------------------------------------------
(* The test server                                                                *)

\* A good microphone test of the SN or SMT stage; the shell cannot create the file
\* without its directory.
StageAll ==
    /\ at = "sn" /\ dir /\ Write("stage", "all")
    /\ UNCHANGED <<dir, at, card, copied, removing>>

\* tnp_test_done, answered after the sync.
StageAging ==
    /\ at = "all" /\ Write("stage", "aging") /\ at' = "staged"
    /\ UNCHANGED <<dir, card, copied, removing>>

Sync(step, next) ==
    /\ at = step /\ at' = next /\ dirty' = {}
    /\ UNCHANGED <<fs, dir, card, copied, removing>>

StageSync == Sync("staged", "all")

\* StartAgainTest: six readings of a pressed key remove the test software.
KeyHeld ==
    /\ at = "aging" /\ at' = "restore" /\ removing' = TRUE
    /\ UNCHANGED <<fs, dir, dirty, card, copied>>

\* Mutant: the test software is removed first, and the original rcS put back after it.
MutRestore ==
    /\ at = "restore"
    /\ IF \E f \in Apkft : fs[f] # "none"
       THEN \E f \in Apkft : fs[f] # "none" /\ Remove(f) /\ UNCHANGED at
       ELSE at' = "remove" /\ Rename("dh", "rcS")
    /\ UNCHANGED <<dir, card, copied, removing>>

\* mv rcS.dh rcS, which fails without a backup.
Restore ==
    /\ at = "restore" /\ at' = "remove"
    /\ IF fs["dh"] = "none" THEN UNCHANGED <<fs, dirty>> ELSE Rename("dh", "rcS")
    /\ UNCHANGED <<dir, card, copied, removing>>

RemoveTest == RemovesAll("remove", "removed")
RemoveSync == Sync("removed", "blink")

-----------------------------------------------------------------------------
Power == \/ \E c \in Cards : BootNothing(c) \/ BootCard(c)
         \/ BootProduct \/ BootTest \/ BootIdle \/ PowerLoss \/ WriteBack

Install == \/ Start \/ ForceRemoves \/ Exists \/ MakeDir \/ Backup
           \/ \E f \in Copies : CopyStarts(f) \/ CopyEnds(f)

Server == StageAll \/ StageAging \/ StageSync \/ KeyHeld \/ Restore \/ RemoveTest \/ RemoveSync

Next == Power \/ Install \/ Server

Spec == Init /\ [][Next]_vars

-----------------------------------------------------------------------------
(* Properties                                                                     *)

Steps == {"start", "rm", "look", "backup"} \cup Copies
Stays == {"off", "dead", "product", "idle", "sn", "all", "aging", "staged", "restore", "remove",
          "removed", "blink"}

\* The type invariant.
TypeOK ==
    /\ fs \in [Files -> {"none", "part", "orig", "test", "full", "all", "aging"}]
    /\ dir \in BOOLEAN /\ dirty \subseteq Files
    /\ at \in Steps \cup Stays /\ card \in AllCards
    /\ copied \in BOOLEAN /\ removing \in BOOLEAN
    /\ at \in Copies \cup {"backup"} => dir

\* The rcS that the device was made with is never lost: wherever installations, repeated
\* ones too, and removals are cut off, it is in its place or in the backup, and the
\* backup is never the test's own rcS.
OriginalKept ==
    /\ fs["dh"] \in {"none", "orig"}
    /\ fs["dh"] = "none" => fs["rcS"] = "orig"

Complete == /\ fs["rcS"] = "test" /\ fs["stage"] = "all"
            /\ \A f \in {"app", "pcm", "script", "tail"} : fs[f] = "full"

\* Once copyapkft.sh has copied, or has run with forcecopy.kpa, everything is in its place,
\* whatever an earlier run that was cut off has left there.
InstallCompletes == at = "sn" /\ (copied \/ card = "force") => Complete

\* The removal of the test software can be cut off anywhere: without a card, the device
\* boots its product, or the aging test from the files that have started it before, where
\* the key can be held once more.
RemovalIsSafe == removing => fs["rcS"] = "orig" \/ (CanTest /\ fs["stage"] = "aging")

\* "apkft exist..." (copyapkft.sh:8): the test software has been installed.
ExistsIsComplete == [][Exists => \A f \in Apkft \ {"stage"} : fs[f] = "full"]_vars
=============================================================================
