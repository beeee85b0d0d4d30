# FactoryTestI8: a verification project

FactoryTestI8 is the production test of an IP camera: four Windows stations (MFC
dialogs) that test a device over the network, the test server that runs on the device,
and the scripts that install, stage and remove it. The TLA+ modules here model the parts
in which several threads, processes and machines act on the same state, or in which power
may fail; TLC checks small instances, and TLAPS proves the theorems of the eight
`...Proofs.tla` modules, one for each component, for every instance. Paths below are relative to `src/`.

## 1. The system

    operator, MES            device (Linux)
       |                        heart_beat_thread --UDP 8989--+
    dialog (UI thread) <--posted messages-- detection thread <+
       | creates, waits for       device_list (shared, no lock)
    test thread --TNP requests over one TCP connection--> server main loop
       | iperf3                 button_monitor_thread, audio threads, /etc/apkft/stage

| component | state | operations | correct when |
|---|---|---|---|
| Serial-number station, `FactoryTestI8SN/FactoryTestI8SNDlg.cpp` | attached device, scanned SN and MAC, results, `m_hTestThread`, `m_bTestCancel`: all shared by UI and test thread without a lock | device found / lost, scan of a label, destroy; StartDeviceTest, StopDeviceTest, DoDeviceTest | rounds never overlap; a round keeps its device; what is reported was measured; the UI thread's wait ends |
| Device detection, `common/TestNetProtocol.cpp:42-120` | `device_list[256]`, `devlost_timeout`: shared with the dialog's thread without a lock | heartbeat, scan for losses; `tnp_connect`, `tnp_connect_by_sn`, `tnp_set_timeout` from the dialog | losses only after silence; announcements agree with the list; connection by SN reaches that SN |
| Test requests, `common/TestNetProtocol.cpp:195-574` | the socket, `TNP_TEST_CANCEL` | connect, disconnect, eight kinds of request, cancel | an answer is that of the request; what a good answer says is true of the device |
| Device server, main loop, `device-testsw-source-code/src/server.c:783-875` | the connection, the SN in flash, the stage file | accept, receive, burn, check, measure, stage, answer | serves every connection; stages survive power losses |
| Heartbeat and button threads, `server.c:477-664` | `g_button_test`, `g_LedTestAuto`, `g_IrTestAuto`, network flags | heartbeat every second, button every 100 ms | the heartbeat names the device's SN; threads do not close each other's files |
| Audio tests, `appMicSn.c` | `g_play_stop`, `g_TestOK`, `g_play_loop`, thread ids | TEST_SPK_MIC, TEST_PLAY_MUSIC, play and record threads | the joins return; a result is that of this test |
| SMT station, `FactoryTestI8SMT/` | as the SN station, without scan and upload | found / lost, network type, StartDeviceTest, manual results | a result shown is that of the device shown |
| Full-test station, `FactoryTestI8Full/` | single-threaded: scanned SN, device, eleven results, two timers | scan, found / lost, type changed, buttons, upload, NEXT_TEST | an upload is of the device and SN tested; a finished device is staged for aging |
| Focus station, `FactoryTestI8Focus/` | device, player | found / lost, buttons | (no logic of its own) |
| Boot scripts, `device-testsw-source-code/{rtsp,uvc}/sharetronic_check-sn/*.sh, rcS` | `/etc/apkft`, `/etc/init.d/rcS` | install, start the stage's test, remove | a power loss at any step leaves a device that completes the sequence |
| Log, application classes, FFT, MES and player libraries | - | - | (left out, section 6) |

What is hard: the UI and the test thread share every field of the dialog; posted
messages are handled late, and inside message boxes; the UI thread waits for the test
thread without a timeout; the detection thread and the dialog write the same list;
answers have no identity and may come after their request was given up; the device is
unplugged at any moment; five threads of the device share descriptors, flags and an LED;
power is cut between any two commands of a script. `PROJECT.json` lists these hazards at
their lines, each with the properties that cover it or the reason why none does.

## 2. The modules

| module | models | state and actions |
|---|---|---|
| `SNStation` | the SN station: UI thread, test threads, iperf3, posted messages, and the MES answers | `ui`, `scan`, `pc[t]` say where each thread is; the `m_...` fields have their names. One action per stretch of code between two points at which another thread can be seen: MES calls and message boxes in the handlers, CreateThread and the storing of its handle, the two reads of `m_hTestThread` and the wait in StopDeviceTest, every read of `m_bTestCancel` and every blocking call in DoDeviceTest. `shown` is the text in the control of `m_strTestResult`, which UpdateData copies in either direction: ShowTexts for UpdateData(FALSE), at the end of the handlers and in UpdateUI for the messages that the test thread posts (`updates`), ReadTexts for the UpdateData(TRUE) that every change of the scan control begins with (`Keystroke`, `Scan`) |
| `StationRound` | the abstract station: attach, begin, report at most once, end, detach only between rounds | `attached`, `testing`, `filed` |
| `SMTStation` | the SMT station: UI thread, test threads that outlive their device, posted messages, the context's one socket | `ui` and `pc[t]`; OnTnpDeviceLost is cut between its two halves, CreateThread from the storing of its handle, the writing of each result and of each button's text from the next |
| `FullStation` | the full-test station: its single thread, whose message boxes dispatch messages and the timer, the device list it chooses by, the check of a device, upload and aging stage | the `m_...` fields, `box` (the message box that is open), `timer`, `res[c]` for the eleven results; one action per handler, cut at the message boxes |
| `DeviceDetect` | the detection thread, cut between its writes of a slot and its posts, and the dialog's handlers that use the list, cut at every slot they read | `slots` is `device_list`, `now % TickModulus` is GetTickCount(); `msg` is the number in the datagram at hand. `dpc` says where the dialog is: `look` compares slot `j` with the number `wanted` (line 244), `take` reads its address (246) into `target`, `connect` is tnp_connect |
| `TestLink` | the TNP requests, the connections, and the server's main loop with the SN in flash and the stage file | `toDev[c]`, `toApp[c]` are what connection `c` holds; a call is sent, looks at the cancel flag, receives, retries or gives up; a power loss breaks every connection and undoes what was not synced; `halfOpen` are the connections whose close does not reach the device |
| `DeviceServer` | the device's program: main and its connection, the heartbeat and the button thread, with the descriptors of the process, `g_button_test`, `g_IrTestAuto`, the IR LED and its filter | `files[x]` is what descriptor `x` is open on, `srv`, `hb`, `btn` are where each thread is and the descriptor it has in a variable; `open` gives the lowest free one |
| `AudioTest` | the sound tests: players, recorder, TEST_SPK_MIC in main, TEST_PLAY_MUSIC(0, 0) in the button thread | `loop`, `stop`, `sinOver`, `testOK` are the globals; a recording is what was played when it was taken |
| `BootStage` | `rcS`, `copyapkft.sh`, `apkft.sh`, the moves of the stage and StartAgainTest, with a power loss before, in and after every command | `fs[f]` is what a file holds, `dirty` the files whose data are not on flash yet, `at` what runs |
| `MC...` | instances for TLC | symmetry of devices, SNs and threads, where no property orders them |
| `SNStationProofs`, `SMTStationProofs`, `FullStationProofs`, `DeviceDetectProofs`, `TestLinkProofs`, `DeviceServerProofs`, `AudioTestProofs`, `BootStageProofs` | theorems about the module of their name | section 5 |

Which module has which side of an interaction: `SNStation` sees of the network what
`DeviceDetect` posts and takes answers of requests as outcomes; `TestLink` has those
requests with the main loop of the server; `DeviceServer` has that loop again, reduced to
what the other threads of the device see of it, and the sound tests of `AudioTest` reduced
to their end; `BootStage` begins where `TestLink` says that a stage is on flash.

History variables record what happened for the properties; no guard of an action that
models code reads them: `report`, `round`, `passed`, `overwritten`
(`SNStation`); `heard`, `said`, `told`, `dropped`, `stirred` (`DeviceDetect`); `last`, `givenUp`, `confirmed`, `finished` (`TestLink`);
`uploaded`, `tested`, `untested`, `aged` (`FullStation`); `own`, `by`, `stale`, `early`,
`refused` (`SMTStation`); `seen`, `crossed`, `unread`, `late` (`DeviceServer`); `spoiled`
(`AudioTest`); `copied`, `removing` (`BootStage`). Operators named `Mut...` are variants of
the operator below them with a plausible bug: they are not part of the specification, and
each documents a bug that the named property finds.

Some properties have an exception that is such a history variable: the code does break the
plain property, and the exception says in exactly which schedules. The property then shows
that nothing else breaks it; it does not show that the exception is harmless, and section 4
says what happens in it. They are:
- `overwritten` of `SNStation`: a change of the scan control put the text that the dialog
  still showed over the verdict before its upload.
- `stirred` of `DeviceDetect`: the senders of datagrams that were being handled at, or came after,
  the comparison of a slot with the number, before its address was read.
- `halfOpen` of `TestLink`: the device did not learn of the close of an earlier connection.
- `stale`, `early`, `refused` of `SMTStation`: a round outlived its device; a round ended
  before its handle was stored; a round was not started because an earlier one runs.
- `crossed` of `DeviceServer`: main's second close (`server.c:874`) hit a descriptor that
  another thread has opened since the first. `unread`: a reading of the button failed, or
  read another file. `late`: the heartbeat had looked at `g_IrTestAuto` already when the
  button cleared it.
- `spoiled` of `AudioTest`: a call of the audio library failed, the button stopped the
  tone, or the recording was not taken while the tone played.

Abstractions, all of them. In `SNStation`: a device is its address; an SN is the name of
the MAC that the MES allots to it; burn, throughput and microphone results are
nondeterministic; texts of the dialog are reduced to `testResult` and its control (the others that
UpdateData copies are of no consequence, or, as those of the serial number and the MAC, are
read-only controls that are shown before anything can read them back); any number of posted
WM_TNP_UPDATE_UI is one, dispatched before or after the messages of the detection thread; a
CString that two threads write has the value of one of the writes; a failing
CreateThread or CreateProcess, and the redrawing of the dialog, are left out; the
`DEVICE_LOST` of address 0 that the detection thread can post when `tnp_connect`
clears the slot between its test and its post is left out (no station is attached to
address 0). In `DeviceDetect`: time moves in units of the receive timeout; every datagram
names some serial number, whichever its sender named before; a serial number is written and
compared in one step (`strncpy`, `strcmp`), a slot is cleared in one step; and the two tests
of line 244 are one, taken at the comparison of the number. In `TestLink`: one struct is one message (a `recv` never gets part
of one); a measurement is an outcome; the answer to a `check` is computed from the SN
in flash, and to a `burn` is what the device reads back. A connection that is closed
with requests in it may still deliver them, or not; the device learns of a close or does
not, and if it does not, an answer that it sends on the connection tells it. In `FullStation`: the detection
thread is reduced to what the station can see of it (`DeviceDetect` has its details;
there is no time here, a device may be announced as lost at any moment); a request is
answered or not within its handler, or read as an answer of zeros from a connection that
the device has closed; a device and its SN are one; `Checks` chooses
which of the eleven results are told apart. In `SMTStation`: the network is its
announcements; the socket holds one request or answer; the version text and the video
player are left out. In `DeviceServer`: files that main, the players and WriteAndCheckSN
open and close themselves are left out, and so is the LED of the heartbeat; commands
succeed; a descriptor that another thread has taken over is read as another file. In
`AudioTest`: threads are always created; nobody asks for the speaker and microphone test in
the stage in which the music plays (`StageWithoutMusic`: the SMT and the SN station ask for
it, the full station does not; `appMicSn.c` itself does not forbid it); Is1Khz may say either of a recording, since it
reads 2048 bytes of a buffer of 1025. In `BootStage`: a copy is a truncation and a write;
a rename or a removal is on flash when its command is over, data later or with `sync`;
the files copied after `rcS` are one.

## 3. The runs

| run | question | instance and bounds | outcome |
|---|---|---|---|
| `sn_safe` | do rounds stay apart, keep their device, report what they measured, and implement `StationRound`? | 2 devices, 1 SN, 2 threads, 1 queued message, MES logged in, no route check: 3.1 million states | holds |
| `sn_live` | does StopDeviceTest return? | 1 device, 1 SN, 1 thread, with and without MES, with route check: 784 000 states | holds |
| `sn_stale_burn` | is a reported burn one of this round? (docs/错误代码定义.txt:11) | 1 device, 2 threads | violated |
| `detect` | do list, announcements and heartbeats agree, when exactly is a loss announced for nothing, and to whom does a serial number lead? | 2 addresses that share one of 2 slots, 2 SNs that either may name, timeouts 1 and 2, 7 units of time, tick modulo 5, 2 queued messages: 5.4 million states | holds |
| `link` | do answers match requests, do burns and stages last, and is every connection served that the station keeps, after closes that reach the device and closes that do not? | 4 kinds of request, 2 SNs, 3 calls, 2 connections, 1 power loss, 2 attempts: 1.3 million states | holds |
| `full_safe` | is a device sent to aging by its own results, is a scan uploaded once, are measured results cleared with their device? | 2 addresses, 2 devices, 1 queued message, a manual, a measured and an announced result, with and without MES: 2.9 million states | holds |
| `full_untested` | has an upload without an error code been tested? (docs/错误代码定义.txt:8) | the same with the measured SN alone | violated |
| `smt_safe` | do rounds stay apart, are green results the attached device's own, do buttons and results agree, is a device at rest tested? | 2 addresses, 2 devices, 2 threads, 2 queued messages, 2 measured results, one of the operator's and one announced, 2 attempts: 2.2 million states | holds |
| `device` | does each thread keep its own file, is a good key one that was read pressed and released, is the IR LED the button's once it took it? | 5 descriptors, the three stages: 4.9 million states | holds |
| `audio` | is the verdict about this test's tone, and do the joins return? | the whole module, 214 states | holds |
| `boot_safe` | do power losses leave a device that has its rcS, completes its installation or removal? | all cards: 7 099 states | holds |
| `boot_install` | is what `copyapkft.sh` takes for an installation one? (copyapkft.sh:8) | no card and the plain card | violated |

Why the bounds are enough. Two test threads allow a round to start while another one
ends; a third could not start in any state of the first two that differs. Two
devices allow a message of a lost device to be handled while another is attached. In
`sn_safe` one message is queued at a time, which may be as old as the schedule likes, and
`WM_TNP_UPDATE_UI` waits beside it; all nine properties are theorems for every length of
the queue (section 5). The route check is one more box of the scan handler, which
`sn_live` has. One SN suffices
where a property does not tell SNs apart. In `detect`, a behaviour of seven units with a
tick counter of five lets a device come, go silent for longer than the longest timeout,
come back, and all of it across the wrap; two addresses in one slot replace each other,
the empty slot beside it is one that a look-up passes. In `link`, three calls on two connections are a
call given up, a reconnect, and the calls that meet its late answer; a device with two
attempts has a first, an intermediate and a last one. In `full_safe`, two addresses and
two devices let a device move to the address of another, or take its place under a
stale list; a handler reads one message at a time, and the one that is queued may be as
old as the schedule likes. In `smt_safe`, two measured results let a loss come between
them. In `device`, two of the five descriptors are the sockets, and the three threads
want one each: every one of them can find none, or one that another has just closed; each
look-up that leaks takes one away for good, so that fewer than three are reached too.
`AudioTest` and `BootStage` have no bounds: TLC explores them whole. Every bound is a
CONSTANT named `Max...` (and `SlowTries` and `Tries`, ten in the code, and `TickModulus`,
2^32).

Deadlock is checked in `device`, `audio` and the two `boot_` runs. In the others it is
not: the dialog may be destroyed (`Destroy`), time and calls are bounded, and a station
whose handle went stale (section 4) rests.

Fairness, for three runs. `sn_live`: a handler of the UI thread goes
on; calls of the test thread return (`recv` has a timeout of one second, MES calls and
CreateProcess return); Windows gets a started `cmd` to run iperf3; the operator closes
the box of a refused upload. Nothing is assumed of iperf3's own end, of MES answers'
contents, of devices or of the operator's scans. `link`: the server's loop goes on,
and its measurements come to an end (they are bounded loops); nothing is assumed of
the station, the network or power. In particular the close of a connection is not assumed
to reach the device: `recv` at `server.c:792` has no timeout, and the socket no keepalive,
so that the server goes on (ServerClose) only from connections outside `halfOpen`. A
connection can enter `halfOpen` only by its own close, so that the ones made before the
station's present one are in it, or not, from the moment this one is made: the exception in
`ConnectionIsServed` does not change under it, but for the better. `audio`: every thread is scheduled, and a file that is
played comes to its end; nothing is assumed of the button, and no call has to fail.

## 4. What the runs show

The SN station keeps its rounds apart although the only thing that says "a round is
running" is a handle written by two threads, because UI thread handlers run one at a
time and StopDeviceTest waits before anything is cleared. The property is fragile in
exactly one place: a wait with a timeout breaks both `RoundKeepsDevice` and the
refinement. The SMT station does not wait at all, and rounds still never overlap
(`OneRound`): what suffers is the next device, whose round is refused.

The disagreements, one run each:
- `sn_stale_burn`: the return value of `tnp_burn_snmac` is ignored and the burn
  results are never reset, so a burn without an answer is reported as the last one was.
- `full_untested`: a label whose device is not reached is uploaded with the results of
  the device before it. This is why `AgedIsTested` speaks of labels that were tested:
  then, a stale list or a reused address is caught by the check on the device itself.
- `boot_install`: the stage file is the mark of an installation, but the third of six
  files: a power loss behind it leaves one that is never completed without forcecopy.kpa.

Seen in the models, with no run of their own:
- SN station: UpdateData(TRUE), with which every change of the scan control begins
  (`FactoryTestI8SNDlg.cpp:470`), copies the text that the dialog shows over
  `m_strTestResult`. A character scanned between the verdict (203, 205) and its upload
  (234), before the posted WM_TNP_UPDATE_UI is dispatched, gives MES neither OK nor NG but
  the text of a running test, with the error codes of the verdict. `ReportAgrees` shows that
  nothing else does. `m_strCurSN` is overwritten by a scan during a round and before the MES has
  agreed to it (`FactoryTestI8SNDlg.cpp:472`, `482`), so a report may be filed under
  another SN and a burn may pair the new SN with the old MAC. The device stages itself for
  the full test on the microphone test alone (`server.c:818`). A test thread that ends
  before its handle is stored leaves a closed handle behind, and the station refuses every
  later round. A device found while another is attached is not announced again.
- Detection: `tick + devlost_timeout` wraps every 49.7 days; `NoFalseLoss` names exactly
  the losses that come of it. A look-up by serial number compares a slot (line 244) and then
  reads its address (246), while a datagram may be filling the slot, address first and
  number last (82 to 90): it may then connect to the device of that datagram, which is
  another than the label's. `ConnectsToSN` shows that it goes wrong in this way only. If the
  slot is cleared in between, it connects to address 0, fails, and clears slot 0. Two
  devices on two networks whose addresses end in the same byte share a slot and replace each
  other, each being announced whenever it comes back; `ToldMatchesList` and `ConnectsToSN`
  hold for them as well.
- Link: a station that gives its device up while the network is down (`OnTnpDeviceLost`)
  leaves a connection that the server waits on, in `recv`, until its power is cut; later
  connections are accepted by the kernel and never served.
- Full-test station: a label that the MES refuses stays scanned and its device is
  tested when it is found, with the MAC of the label before; and `m_bSnScaned` outlives
  the timer that a loss starts (line 705 is commented out), so that an upload with an
  empty serial number, which is then NG, is possible.
- SMT station: the answer of a lost device may be shown for the next one, or for none;
  a device found in the meantime is connected and never tested; a result that a loss sets
  to -1 between the writing and its button says "PASS". A connection that the device has
  closed reads as a good answer of zeros.
- Device: look-ups of an address leak a descriptor each second until the network is up;
  main's second close may close the button's file; the button counts as pressed at first.
  A button pressed during the microphone test stops its tone. A recorder that the tone
  outruns judges an uninitialised buffer.
- Boot: a part of `rcS`, or none, leaves a device that does not boot without a card that
  does; `OriginalKept` says that the product's own rcS is in the backup then.

## 5. The proofs

Every type invariant, safety invariant and action property of the passing runs is a
theorem, and so is the refinement of `StationRound`. Every theorem holds for all values
of the constants. What is assumed is one named assumption per module, which TLC
evaluates in the runs of that module: the empty values are not among the real ones,
flags are Booleans, bounds are natural numbers (`ConstAssumption`, `LinkAssumption`,
`FullAssumption`, the last also that the serial number is among the checks;
`SMTAssumption`, also that measured, manual and announced results are different ones),
there is a longest timeout (`DetectAssumption`: 3, 5 and 10 s in the code), there are at
least two descriptors (`MaxFdsAssumption`: main and the heartbeat have opened one socket
each), and the cards are ones that exist (`BootAssumption`).

`SNStationProofs`. `TypeCorrect` is type correctness, inductive by itself. `OneTest`
(two rounds never run at a time) is not: the code decides by a handle that two threads
write, and nothing in `OneTest` says what the handle means. The inductive invariant
`RoundInv` does:
- `RunningIsKnown`: a running round is the one in `m_hTestThread`, or the one that
  StartDeviceTest has created and not yet stored;
- `WorkingIsOpen`: a round that is still working has not closed its handle;
- `WaitIsForWorking`: the wait of StopDeviceTest is for the working round, if any;
- `ScanIsAlone`: while the scan handler is past its first step, no other handler is
  in the middle of its own, and there is an SN;
- `AttachedIsConnected`: the device, the connection state and the socket agree;
- `RoundIsRunning`: a round on record has its thread.

`AtMostOneTest`, `NothingTakenFromRound` (`RoundKeepsDevice`) and `ScanNeverLeftOver`
(`ScanWaitsForDevice`) follow: the last two properties are conjuncts of the invariant.
The argument is one case for each action of the UI thread (`RoundUI`) and one for the
test thread (`RoundTest`), with `StepFrame` for what a step of a round leaves alone.

Of the reports: `CancelIsFinal` (`CancelStays`): a round that was asked to end is never
told to go on, because StartDeviceTest, which clears the flag, does so only when no
round runs, by `RoundInv`. `ReportInvariant`: `ReportInv` adds to `RoundInv` that a
verdict stands until it is uploaded, or until a change of the scan control has put another
text over it (`VerdictStands`, with `overwritten` for the latter), that a report exists only at the
end of its round (`ReportIsLast`), and that a good result a round will report was
measured by it, unless the round has been cancelled and cannot reach the verdict
(`MeasuredSoFar`). `ReportsAgree`, `ReportsAreMeasured` and `ResultsAreSettled` follow.
The burn is not among the measured checks: `sn_stale_burn` shows why.

`Refinement`: `SNStation` implements `StationRound`. `PromiseSteps`
names the steps of the abstract station, `RefineUI` and `RefineTest` map each action to
one of them or to a stutter; the step that detaches a device needs `RoundInv`.

`FullStationProofs`. The station has one thread, but every message box of it dispatches
messages and its timer, so that a handler may run in the middle of another. `UploadedOnce`
rests on `UploadInv`: an upload that is not over has its box open, and while it has, no
scan and no second upload begins. `ResultsHaveDeviceHolds`: the timer's reset is the only step
that gives a device up, and it clears every result (what the station calls its device may
be gone for some time by then: a refused `tnp_disconnect_by_sn` keeps it). `AgedIsTestedHolds` rests on
`CheckedInv`: if the last label was tested and its check found the serial number good,
that number is the checked device's, and the socket leads to this device or to none.

`DeviceDetectProofs`. The list is written by two threads without a lock, and every theorem
is about a state in the middle of a handler, too. `SlotInv` says what may be relied on there: an
address is only ever in its slot (`Placed`); while a datagram is handled, its sender's slot
is its own or was emptied (`SlotIsSenders`); and every other slot in use has the tick of
the last datagram of its device (`Stamped`), which is what the scan compares.
`NoFalseLossHolds` then needs that ticks are never further apart than the times they stand
for (`TicksNoFurther`), and `SilenceIsBoundedHolds` that within one turn of the counter
they are exactly as far apart (`SameTurn`); its invariant is `FreshInv`: the scan leaves fresh
devices behind it, and recvfrom waits one unit at most. `ToldMatchesListHolds` is
inductive with `ClearsTheLost` (the slot to be cleared is that of a device whose loss has
been announced). `ConnectsToSNHolds` rests on `SNInv`: the number of the datagram at hand is
the one last said by its sender (`MsgIsSaid`); a slot that is in use, and not that of the
sender at hand, has the number its device last said (`SlotAgrees`); and so has the slot that
the dialog has found, unless it is empty by now or its device was handled since
(`HitAgrees`). All four hold for devices that share a slot as well: a slot that changes
hands is one that a datagram is being handled for.

`TestLinkProofs`. Answers have no identity, connections overlap, and a call that was given
up may still be served. `LinkInv` is what keeps it all in order: the station
sends on its last connection and the server works on the oldest that has anything
(`Links`), messages are of the calls made (`Numbered`), and so the requests of all
connections are served in the order of the calls, and every answer under way is of an
earlier call than every request still to be served (`InOrder`). `InStepUntilGivenUpHolds`
adds `InStep`: while no call has given up, the connection holds nothing but the present
call's. `ConfirmedHolds` adds `ConfirmInv`: once an answer says that a serial number
is good, read or unread, no burn is on its way, because it would be of an
earlier call and have been served before. `FinishedHolds` adds `FinishInv`: by the
same order nothing is on its way that would stage a finished device again, and what
`sync` has written is what a power loss leaves.

`SMTStationProofs` proves all five invariants of `smt_safe`, each with the invariants
before it. `RoundInv`: whoever runs is in `m_hTestThread`, or is the thread just created
while `m_hTestThread` is NULL; a round that ends is then the only one, and may set the
handle to NULL (`AlwaysOneRound`). `OwnInv`: the socket is the attached device's
(`AttachedInv`), and unless a round has outlived its device no round runs without one, and
what a round has received is from the attached one (`AnswerInv`); so a green result is too
(`PassAlwaysOwn`). `DoneInv`: a stored handle is that of a running thread or was stored
too late (`HandleInv`), a round is refused only for such a handle (`RefusedInv`), and the
progress of a round tells which results there are (`WrittenInv`), which gives
`RestIsAlwaysTested`. `ColorInv`: until a round shows its results the measured ones say
"NG", which gives `TextAlwaysHasColor`.

`DeviceServerProofs`. `FilesInv`: the descriptors of the sockets are nobody's to close
(`SocketsStay`), and each thread's is open on its own file, for it alone, until main has
closed another's (`OwnFiles`); that `open` gives the lowest free descriptor is proved from
the well-foundedness of `<` (`HasLeast`). `FilesAlwaysHeld` follows. `KeyAlwaysSeen` and
`ButtonAlwaysHasIR` have an invariant each: what is in `g_button_test`, and the key about to
be counted, was read from the button (`KeysAreRead`); and the heartbeat is not on its way
to the IR filter when the button has it (`BeatStaysAway`).

`AudioTestProofs`. `VerdictHolds` rests on `ToneInv`, which follows a recording from its
start to its verdict: a tone that is over and has not been recorded, a recording of silence,
and a verdict on anything but the tone are all of them noted. The recorder is
told to end only when the tone has (`sinOver`), so that a recording that is still empty
then is one that something went wrong with.

`BootStageProofs`. `OriginalIsKept`: a file whose data can still be lost is never the
original rcS, and rcS is overwritten only when there is a backup. `InstallIsComplete`: the
files before the one that is copied are complete. `RemovalAlwaysSafe`: the aging test runs
from files that are on flash, and the original rcS is back before anything is removed.

Every strengthened invariant was checked by TLC on the instance of its run before it was
proved, and `SoundInv` of `AudioTestProofs` also for being inductive, from every state that
satisfies it. Only model-checked: the three liveness properties, `StopReturns`,
`ConnectionIsServed` and `WaitsEnd` (fairness and ENABLED are out of the prover's reach), and
the three violations, which TLC shows by a behaviour.

## 6. What is not modelled

The FFT and the analysis of sound are arithmetic on floating-point numbers. The focus
station shares detection and connection with the others and adds no state. The log, the
MFC application classes and the headers of the MES and player libraries have no logic of
their own; what the stations use of the MES is an external answer. Within the modelled
parts: partial `recv`, `tnp_free`, freed memory after OnDestroy (of any dialog), the texts
that answers carry, the video player and its timer; on the device, the measurements
themselves, the requests of single tests that no station sends, the LEDs, the SN that the
heartbeat reads once at its start, the record thread without reference (never started),
and the uvc variant of the scripts; in the scripts, drivers and the joining of a network,
which change no file.

## 7. Plan

What is left, the most important first:
1. Proofs: an abstract device (a serial number and a stage, changed by calls that take
   effect once and in order) that `TestLink` implements, on top of `InOrder`.
2. A refinement of `StationRound` by `SMTStation` for the rounds of devices that are not
   lost: `own` for `attached`, and no report.
3. Composition of `DeviceServer` with `AudioTest`: the button thread's wait for the music
   while the heartbeat goes on.
