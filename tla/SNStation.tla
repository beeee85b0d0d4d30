------------------------------ MODULE SNStation ------------------------------
(* The serial-number station, FactoryTestI8SN: the dialog's UI thread, the test *)
(* thread it creates for every round (DoDeviceTest), the messages that the      *)
(* detection thread posts to the dialog, the TCP connection of the protocol     *)
(* context, and the answers of the MES.                                         *)
(*                                                                              *)
(* One action is one stretch of code between two points where another thread    *)
(* can be seen: the UI handlers are cut at their calls of the MES, at their     *)
(* message boxes (which dispatch posted messages), and around the creation of   *)
(* and the wait for the test thread; the test thread is cut at every read of    *)
(* m_bTestCancel and at every call that blocks.                                 *)
EXTENDS Naturals, Sequences, FiniteSets

CONSTANTS
    Devices,      \* devices on the network, by address
    SNs,          \* serial numbers on the labels; the MES allots SN s the MAC named s
    Threads,      \* identities of test threads, reused once a thread has ended
    NoDev,        \* the empty m_strDeviceIP, and a NULL socket
    NoSN,         \* the empty m_strCurSN, and the empty m_strCurMac
    BadMac,       \* "xxxxxxxxxxxx", what a failed GetAddressRangeByMO leaves
    FixedMac,     \* "4637E68F43E5", the MAC used without a MES
    NoThread,     \* the NULL m_hTestThread
    MesLogins,    \* outcomes of the MES login in OnInitDialog that are considered
    RouteCheck,   \* routecheck = yes in the ini file
    SkipSpkMic,   \* testspkmic # yes in the ini file
    MaxQueue      \* bound: posted messages not yet dispatched

ASSUME ConstAssumption ==
    /\ NoDev \notin Devices /\ NoSN \notin SNs /\ NoThread \notin Threads
    /\ {BadMac, FixedMac} \cap (SNs \cup {NoSN}) = {}
    /\ MesLogins \subseteq BOOLEAN /\ RouteCheck \in BOOLEAN /\ SkipSpkMic \in BOOLEAN
    /\ MaxQueue \in Nat

VARIABLES
    ui,           \* where a message handler, or StartDeviceTest, of the UI thread is
    scan,         \* where OnEnChangeEdtScanSn is
    queue,        \* posted WM_TNP_DEVICE_FOUND and WM_TNP_DEVICE_LOST messages
    spawned,      \* handle returned by CreateThread that the UI thread has still to store
    waitFor,      \* handle that StopDeviceTest passed to WaitForSingleObject
    shown,        \* the text in the control of m_strTestResult
    listed,       \* devices that have a slot of the detection thread's device_list
    sock,         \* the device the context's socket was opened to
    ctx,          \* "live", or "freed" after tnp_free
    deviceIP, connectState, snScaned, curSN, curMac,    \* m_...
    mesLoginOK,   \* m_bMesLoginOK, fixed by OnInitDialog
    cancel,       \* m_bTestCancel
    tnpCancel,    \* TNP_TEST_CANCEL of the context's test_status
    handle,       \* m_hTestThread
    open,         \* thread handles not yet closed
    pc,           \* pc[t]: where test thread t is in DoDeviceTest, "idle" if there is none
    iperf,        \* the iperf3 process: "none", "cmd" (its shell only), "run", "exit"
    res,          \* res[c]: m_bResultBurnSN, ...BurnMac, ...TestNet, ...TestSpkMic
    resultDone,   \* m_bResultDone
    testResult,   \* m_strTestResult
    updates,      \* a posted WM_TNP_UPDATE_UI is not yet dispatched
    report,       \* what this round handed to SetMobileData (history)
    round,        \* the device that this round's burn was sent to (history)
    passed,       \* the checks that this round measured and saw pass (history)
    overwritten   \* a keystroke put an older text over this round's verdict (history)

uiVars   == <<ui, scan, queue, spawned, waitFor, shown>>
linkVars == <<listed, sock, ctx, mesLoginOK>>
snVars   == <<deviceIP, connectState, snScaned, curSN, curMac>>
ctlVars  == <<cancel, tnpCancel, handle, open>>
testVars == <<pc, iperf, res, resultDone, testResult, updates>>
histVars == <<report, round, passed, overwritten>>
vars     == <<uiVars, linkVars, snVars, ctlVars, testVars, histVars>>

Found(d) == [type |-> "found", dev |-> d]
Lost(d)  == [type |-> "lost",  dev |-> d]
Messages == [type : {"found", "lost"}, dev : Devices]

Checks   == {"sn", "mac", "net", "spkmic"}
Required == IF SkipSpkMic THEN Checks \ {"spkmic"} ELSE Checks

NoReport == [sn |-> NoSN, result |-> "prompt", err |-> {}]

UiStates   == {"idle", "store", "stop", "arm", "wait"}
ScanStates == {"idle", "route", "mac", "begin", "boxRoute", "boxMac"}
Results    == {"prompt", "busy", "OK", "NG", "refused"}
PcStates   == {"idle", "start", "burn", "burnWait", "net", "netWait", "mic", "micWait",
               "verdict", "upload", "box", "close", "null"}

-----------------------------------------------------------------------------
Init ==
    /\ ui = "idle" /\ scan = "idle" /\ queue = <<>>
    /\ spawned = NoThread /\ waitFor = NoThread /\ shown = "prompt"
    /\ listed = {} /\ sock = NoDev /\ ctx = "live"
    /\ deviceIP = NoDev /\ connectState = FALSE /\ snScaned = FALSE
    /\ curSN = NoSN /\ curMac = NoSN
    /\ mesLoginOK \in MesLogins
    /\ cancel = FALSE /\ tnpCancel = FALSE /\ handle = NoThread /\ open = {}
    /\ pc = [t \in Threads |-> "idle"] /\ iperf = "none"
    /\ res = [c \in Checks |-> FALSE] /\ resultDone = FALSE /\ testResult = "prompt"
    /\ updates = FALSE
    /\ report = NoReport /\ round = NoDev /\ passed = {} /\ overwritten = FALSE

-----------------------------------------------------------------------------
(* Detection thread, as the dialog sees it: a device is announced once when it  *)
(* gets a slot, and once when its slot is cleared.                              *)

PostFound(d) ==
    /\ ctx = "live" /\ d \notin listed /\ Len(queue) < MaxQueue
    /\ listed' = listed \cup {d} /\ queue' = Append(queue, Found(d))
    /\ UNCHANGED <<ui, scan, spawned, waitFor, shown, sock, ctx, mesLoginOK, snVars,
                   ctlVars, testVars, histVars>>

PostLost(d) ==
    /\ ctx = "live" /\ d \in listed /\ Len(queue) < MaxQueue
    /\ listed' = listed \ {d} /\ queue' = Append(queue, Lost(d))
    /\ UNCHANGED <<ui, scan, spawned, waitFor, shown, sock, ctx, mesLoginOK, snVars,
                   ctlVars, testVars, histVars>>

-----------------------------------------------------------------------------
(* UI thread: UpdateData, which copies between m_strTestResult and its control.  *)
(* The other texts of the dialog are shown before anything can read them back.   *)

ShowTexts == shown' = testResult'

\* UpdateData(TRUE), which every change of the scan control begins with.
ReadTexts ==
    /\ testResult' = shown
    /\ overwritten' = \/ overwritten
                      \/ shown # testResult /\ \E t \in Threads : pc[t] = "upload"

-----------------------------------------------------------------------------
(* UI thread: StartDeviceTest and StopDeviceTest                                *)

\* Mutant: a round starts whether or not one is running.
MutStartDeviceTest ==
    /\ cancel' = FALSE /\ tnpCancel' = FALSE
    /\ \E t \in Threads : /\ pc[t] = "idle" /\ pc' = [pc EXCEPT ![t] = "start"]
                          /\ spawned' = t /\ open' = open \cup {t}
    /\ ui' = "store" /\ UNCHANGED <<handle, shown>>

\* A round starts unless m_hTestThread is set. The new thread runs from here on;
\* its handle is stored by a later step of the UI thread (StoreHandle), before the
\* UpdateData(FALSE) that ends both handlers which start a round.
StartDeviceTest ==
    IF handle # NoThread
    THEN /\ ui' = "idle" /\ ShowTexts
         /\ UNCHANGED <<ctlVars, spawned, pc>>
    ELSE /\ cancel' = FALSE /\ tnpCancel' = FALSE
         /\ \E t \in Threads :
               /\ pc[t] = "idle"
               /\ pc' = [pc EXCEPT ![t] = "start"]
               /\ spawned' = t /\ open' = open \cup {t}
         /\ ui' = "store" /\ UNCHANGED <<handle, shown>>

StoreHandle ==
    /\ ui = "store" /\ UNCHANGED testVars /\ ShowTexts
    /\ handle' = spawned /\ spawned' = NoThread /\ ui' = "idle"
    /\ UNCHANGED <<scan, queue, waitFor, linkVars, snVars, cancel, tnpCancel, open,
                   histVars>>

\* The UI thread dispatches posted messages when no handler is running, and from
\* the message loop of a box that OnEnChangeEdtScanSn has opened.
Dispatching == ctx = "live" /\ ui = "idle" /\ scan \in {"idle", "boxRoute", "boxMac"}

\* OnTnpUpdateUI.
UpdateUI ==
    /\ Dispatching /\ updates /\ updates' = FALSE /\ UNCHANGED testResult /\ ShowTexts
    /\ UNCHANGED <<ui, scan, queue, spawned, waitFor, linkVars, snVars, ctlVars, pc, iperf,
                   res, resultDone, histVars>>

Receive(m) == Dispatching /\ queue # <<>> /\ Head(queue) = m /\ queue' = Tail(queue)

-----------------------------------------------------------------------------
(* UI thread: OnTnpDeviceFound                                                  *)

FoundIgnored(d) ==
    /\ Receive(Found(d)) /\ deviceIP # NoDev
    /\ UNCHANGED <<ui, scan, spawned, waitFor, shown, linkVars, snVars, ctlVars, testVars,
                   histVars>>

\* tnp_connect succeeds: the station is attached, and a waiting scan starts its round.
FoundConnected(d) ==
    /\ Receive(Found(d)) /\ deviceIP = NoDev
    /\ sock' = d /\ deviceIP' = d /\ connectState' = TRUE /\ snScaned' = FALSE
    /\ IF snScaned
       THEN UNCHANGED testResult /\ StartDeviceTest
       ELSE /\ testResult' = "prompt" /\ ShowTexts
            /\ UNCHANGED <<ui, spawned, ctlVars, pc>>
    /\ UNCHANGED <<scan, waitFor, listed, ctx, mesLoginOK, curSN, curMac, iperf, res,
                   resultDone, updates, histVars>>

\* tnp_connect fails: it clears the device's slot, so that the next heartbeat
\* announces the device again, and leaves an unconnected socket behind.
FoundConnectFailed(d) ==
    /\ Receive(Found(d)) /\ deviceIP = NoDev
    /\ sock' = d /\ listed' = listed \ {d} /\ connectState' = FALSE
    /\ UNCHANGED testVars /\ ShowTexts
    /\ UNCHANGED <<ui, scan, spawned, waitFor, ctx, mesLoginOK, deviceIP, snScaned,
                   curSN, curMac, ctlVars, histVars>>

-----------------------------------------------------------------------------
(* UI thread: OnTnpDeviceLost and the StopDeviceTest in it                      *)

LostIgnored(d) ==
    /\ Receive(Lost(d)) /\ deviceIP # d
    /\ UNCHANGED <<ui, scan, spawned, waitFor, shown, linkVars, snVars, ctlVars, testVars,
                   histVars>>

\* Mutant: StopDeviceTest calls tnp_test_cancel and forgets m_bTestCancel.
MutLostCurrent(d) ==
    /\ Receive(Lost(d)) /\ deviceIP = d /\ tnpCancel' = TRUE /\ ui' = "stop"
    /\ UNCHANGED <<scan, spawned, waitFor, shown, linkVars, snVars, cancel, handle, open,
                   testVars, histVars>>

LostCurrent(d) ==
    /\ Receive(Lost(d)) /\ deviceIP = d
    /\ cancel' = TRUE /\ tnpCancel' = TRUE /\ ui' = "stop"
    /\ UNCHANGED <<scan, spawned, waitFor, shown, linkVars, snVars, handle, open, testVars,
                   histVars>>

\* StopDeviceTest reads m_hTestThread twice: to test it, and to wait for it.
StopTestsHandle ==
    /\ ui = "stop" /\ handle # NoThread /\ ui' = "arm"
    /\ UNCHANGED <<scan, queue, spawned, waitFor, shown, linkVars, snVars, ctlVars,
                   testVars, histVars>>

StopWaits ==
    /\ ui = "arm" /\ waitFor' = handle /\ ui' = "wait"
    /\ UNCHANGED <<scan, queue, spawned, shown, linkVars, snVars, ctlVars, testVars,
                   histVars>>

\* Mutant: a wait with a timeout, which may elapse before the thread has ended.
MutWaitOver == TRUE

\* The wait ends when the thread has ended, or when the handle is not a valid one:
\* NULL by the second read, or closed by the thread.
WaitOver == waitFor \in open => pc[waitFor] = "idle"

LostClears ==
    /\ \/ ui = "stop" /\ handle = NoThread
       \/ ui = "wait" /\ WaitOver
    /\ ui' = "idle" /\ waitFor' = NoThread
    /\ deviceIP' = NoDev /\ connectState' = FALSE /\ snScaned' = FALSE
    /\ curSN' = NoSN /\ curMac' = NoSN /\ sock' = NoDev
    /\ resultDone' = FALSE /\ testResult' = "prompt" /\ ShowTexts
    /\ UNCHANGED <<scan, queue, spawned, listed, ctx, mesLoginOK, ctlVars, pc, iperf,
                   res, updates, histVars>>

-----------------------------------------------------------------------------
(* UI thread: OnEnChangeEdtScanSn                                               *)

Typing == ctx = "live" /\ ui = "idle" /\ scan = "idle"

\* A change of the scan control that leaves fewer than 16 characters in it.
Keystroke ==
    /\ Typing /\ ReadTexts
    /\ UNCHANGED <<uiVars, linkVars, snVars, ctlVars, pc, iperf, res, resultDone, updates,
                   report, round, passed>>

\* The change that completes the serial number s.
Scan(s) ==
    /\ Typing /\ ReadTexts
    /\ curSN' = s
    /\ IF mesLoginOK THEN scan' = (IF RouteCheck THEN "route" ELSE "mac") /\ UNCHANGED curMac
                     ELSE scan' = "begin" /\ curMac' = FixedMac
    /\ UNCHANGED <<ui, queue, spawned, waitFor, shown, linkVars, deviceIP, connectState,
                   snScaned, ctlVars, pc, iperf, res, resultDone, updates, report, round,
                   passed>>

ScanRoute(yes) ==
    /\ scan = "route"
    /\ scan' = (IF yes THEN "mac" ELSE "boxRoute")
    /\ UNCHANGED <<ui, queue, spawned, waitFor, shown, linkVars, snVars, ctlVars, testVars,
                   histVars>>

ScanMac(yes) ==
    /\ scan = "mac"
    /\ IF yes THEN scan' = "begin" /\ curMac' = curSN
              ELSE scan' = "boxMac" /\ UNCHANGED curMac
    /\ UNCHANGED <<ui, queue, spawned, waitFor, shown, linkVars, deviceIP, connectState,
                   snScaned, curSN, ctlVars, testVars, histVars>>

ScanBoxClosed ==
    /\ ui = "idle" /\ scan \in {"boxRoute", "boxMac"}
    /\ scan' = "idle"
    /\ IF scan = "boxMac" THEN curMac' = BadMac /\ shown' = testResult
                          ELSE UNCHANGED <<curMac, shown>>
    /\ UNCHANGED <<ui, queue, spawned, waitFor, linkVars, deviceIP, connectState,
                   snScaned, curSN, ctlVars, testVars, histVars>>

\* Mutant: the handler prepares to wait for a device before it looks for one.
MutScanBegins ==
    /\ scan = "begin" /\ scan' = "idle" /\ snScaned' = TRUE /\ testResult' = "prompt"
    /\ IF connectState THEN StartDeviceTest ELSE ShowTexts /\ UNCHANGED <<ui, spawned, ctlVars, pc>>
    /\ UNCHANGED <<queue, waitFor, linkVars, deviceIP, connectState, curSN, curMac, iperf,
                   res, resultDone, updates, histVars>>

ScanBegins ==
    /\ scan = "begin" /\ scan' = "idle"
    /\ IF connectState
       THEN snScaned' = FALSE /\ UNCHANGED testResult /\ StartDeviceTest
       ELSE /\ snScaned' = TRUE /\ testResult' = "prompt" /\ ShowTexts
            /\ UNCHANGED <<ui, spawned, ctlVars, pc>>
    /\ UNCHANGED <<queue, waitFor, linkVars, deviceIP, connectState, curSN, curMac,
                   iperf, res, resultDone, updates, histVars>>

-----------------------------------------------------------------------------
(* UI thread: OnDestroy. The test thread is not waited for.                     *)

Destroy ==
    /\ ctx = "live" /\ ui = "idle" /\ scan = "idle"
    /\ tnpCancel' = TRUE /\ sock' = NoDev /\ ctx' = "freed"
    /\ UNCHANGED <<uiVars, listed, mesLoginOK, snVars, cancel, handle, open, testVars,
                   histVars>>

-----------------------------------------------------------------------------
(* Test thread: DoDeviceTest                                                    *)

\* Thread t goes from l to m; no step of it writes the state of the UI handlers.
Step(t, l, m) ==
    /\ pc[t] = l /\ pc' = [pc EXCEPT ![t] = m]
    /\ UNCHANGED <<uiVars, linkVars, snVars, cancel, tnpCancel>>

\* Mutant: recording a result drops the others.
MutMeasured(which, good) ==
    /\ res' = [c \in which |-> c \in good] /\ passed' = passed \cup (which \cap good)

\* The checks of the set "which" were measured, and those of the set "good" passed.
Measured(which, good) ==
    /\ res' = [c \in Checks |-> IF c \in which THEN c \in good ELSE res[c]]
    /\ passed' = passed \cup (which \cap good)

\* Mutant: the round begins without m_bResultDone = FALSE.
MutTestStart(t) ==
    /\ Step(t, "start", "burn")
    /\ UNCHANGED <<handle, open, iperf, res, resultDone, testResult, updates, histVars>>

TestStart(t) ==
    /\ Step(t, "start", "burn") /\ resultDone' = FALSE
    /\ UNCHANGED <<handle, open, iperf, res, testResult, updates, histVars>>

\* A step that the round leaves out, because of m_bTestCancel or of the ini file.
TestSkip(t) ==
    /\ \/ cancel /\ Step(t, "burn", "net")
       \/ cancel /\ Step(t, "net", "mic")
       \/ (cancel \/ SkipSpkMic) /\ Step(t, "mic", "verdict")
       \/ cancel /\ Step(t, "verdict", "close")
    /\ UNCHANGED <<handle, open, iperf, res, resultDone, testResult, updates, histVars>>

\* tnp_burn_snmac sends m_strCurSN and m_strCurMac as they are now to the socket's device.
BurnSend(t) ==
    /\ ~cancel /\ Step(t, "burn", "burnWait")
    /\ testResult' = "busy" /\ round' = sock
    /\ UNCHANGED <<handle, open, iperf, res, resultDone, updates, report, passed,
                   overwritten>>

BurnReply(t, good) ==
    /\ Step(t, "burnWait", "net") /\ Measured({"sn", "mac"}, good)
    /\ updates' = TRUE
    /\ UNCHANGED <<handle, open, iperf, resultDone, testResult, report, round,
                   overwritten>>

\* No socket, or a failed send, or no reply in time: tnp_burn_snmac returns -1,
\* which DoDeviceTest does not look at, and its two results keep their values.
BurnFails(t) ==
    /\ Step(t, "burnWait", "net")
    /\ updates' = TRUE
    /\ UNCHANGED <<handle, open, iperf, res, resultDone, testResult, histVars>>

NetStart(t) ==
    /\ ~cancel /\ Step(t, "net", "netWait")
    /\ testResult' = "busy" /\ iperf' = "cmd"
    /\ updates' = TRUE
    /\ UNCHANGED <<handle, open, res, resultDone, histVars>>

\* Every 100 ms without an end of the process, kill_process_by_name if cancelled:
\* it finds no process to kill before the shell has started iperf3.
NetKill(t) ==
    /\ cancel /\ iperf = "run" /\ Step(t, "netWait", "netWait")
    /\ iperf' = "exit"
    /\ UNCHANGED <<handle, open, res, resultDone, testResult, updates, histVars>>

NetResult(t, good) ==
    /\ iperf = "exit" /\ Step(t, "netWait", "mic")
    /\ iperf' = "none" /\ Measured({"net"}, good)
    /\ updates' = TRUE
    /\ UNCHANGED <<handle, open, resultDone, testResult, report, round, overwritten>>

MicSend(t) ==
    /\ ~cancel /\ ~SkipSpkMic /\ Step(t, "mic", "micWait")
    /\ testResult' = "busy"
    /\ updates' = TRUE
    /\ UNCHANGED <<handle, open, iperf, res, resultDone, histVars>>

MicResult(t, good) ==
    /\ Step(t, "micWait", "verdict") /\ Measured({"spkmic"}, good)
    /\ updates' = TRUE
    /\ UNCHANGED <<handle, open, iperf, resultDone, testResult, report, round,
                   overwritten>>

Failed == {c \in Required : ~res[c]}

\* Mutant: a cancelled round gives its verdict all the same.
MutVerdict(t) ==
    /\ Step(t, "verdict", "upload")
    /\ testResult' = (IF Failed = {} THEN "OK" ELSE "NG") /\ resultDone' = TRUE
    /\ updates' = TRUE
    /\ UNCHANGED <<handle, open, iperf, res, histVars>>

Verdict(t) ==
    /\ ~cancel /\ Step(t, "verdict", "upload")
    /\ testResult' = (IF Failed = {} THEN "OK" ELSE "NG") /\ resultDone' = TRUE
    /\ updates' = TRUE
    /\ UNCHANGED <<handle, open, iperf, res, histVars>>

\* SetMobileData with m_strCurSN and m_strTestResult as they are now, and an error
\* code for every failed check; a refusal is shown in a box.
Upload(t, accepted) ==
    /\ mesLoginOK /\ Step(t, "upload", IF accepted THEN "close" ELSE "box")
    /\ report' = [sn |-> curSN, result |-> testResult, err |-> Failed]
    /\ IF accepted THEN UNCHANGED <<testResult, updates>>
                   ELSE testResult' = "refused" /\ updates' = TRUE
    /\ UNCHANGED <<handle, open, iperf, res, resultDone, round, passed, overwritten>>

NoUpload(t) ==
    /\ ~mesLoginOK /\ Step(t, "upload", "close")
    /\ UNCHANGED <<handle, open, iperf, res, resultDone, testResult, updates, histVars>>

UploadBoxClosed(t) ==
    /\ Step(t, "box", "close")
    /\ UNCHANGED <<handle, open, iperf, res, resultDone, testResult, updates, histVars>>

\* CloseHandle closes whatever m_hTestThread holds, nothing if it is still NULL.
TestClosesHandle(t) ==
    /\ Step(t, "close", "null") /\ open' = open \ {handle}
    /\ UNCHANGED <<handle, iperf, res, resultDone, testResult, updates, histVars>>

TestEnds(t) ==
    /\ Step(t, "null", "idle") /\ handle' = NoThread
    /\ report' = NoReport /\ round' = NoDev /\ passed' = {} /\ overwritten' = FALSE
    /\ UNCHANGED <<open, iperf, res, resultDone, testResult, updates>>

-----------------------------------------------------------------------------
(* The iperf3 process, which ends by itself when the device answers it.         *)

IperfRuns ==
    /\ iperf = "cmd" /\ iperf' = "run"
    /\ UNCHANGED <<uiVars, linkVars, snVars, ctlVars, pc, res, resultDone, testResult,
                   updates, histVars>>

IperfExits ==
    /\ iperf = "run" /\ iperf' = "exit"
    /\ UNCHANGED <<uiVars, linkVars, snVars, ctlVars, pc, res, resultDone, testResult,
                   updates, histVars>>

-----------------------------------------------------------------------------
Detection == \E d \in Devices : PostFound(d) \/ PostLost(d)

FoundHandler == \E d \in Devices : FoundIgnored(d) \/ FoundConnected(d) \/ FoundConnectFailed(d)
LostHandler  == \E d \in Devices : LostIgnored(d) \/ LostCurrent(d)
StopSteps    == StopTestsHandle \/ StopWaits \/ LostClears
ScanSteps    == \/ \E s \in SNs : Scan(s)
                \/ \E yes \in BOOLEAN : ScanRoute(yes) \/ ScanMac(yes)
                \/ ScanBoxClosed \/ ScanBegins \/ Keystroke

TestStep(t) ==
    \/ TestStart(t) \/ TestSkip(t)
    \/ BurnSend(t) \/ BurnFails(t) \/ NetStart(t) \/ NetKill(t) \/ MicSend(t)
    \/ \E good \in SUBSET {"sn", "mac"} : BurnReply(t, good)
    \/ \E good \in SUBSET {"net"} : NetResult(t, good)
    \/ \E good \in SUBSET {"spkmic"} : MicResult(t, good)
    \/ Verdict(t) \/ (\E a \in BOOLEAN : Upload(t, a)) \/ NoUpload(t)
    \/ TestClosesHandle(t) \/ TestEnds(t)

Next ==
    \/ Detection
    \/ FoundHandler \/ LostHandler \/ StopSteps \/ StoreHandle \/ ScanSteps \/ UpdateUI
    \/ Destroy
    \/ \E t \in Threads : TestStep(t) \/ UploadBoxClosed(t)
    \/ IperfRuns \/ IperfExits

Spec == Init /\ [][Next]_vars

(* Fairness, for liveness only. The UI thread goes on with a handler it is in.    *)
(* The calls of the test thread return: recv has a timeout of 1 s, CreateProcess  *)
(* and the MES calls return. Windows gets a started shell to run iperf3; iperf3   *)
(* itself is not assumed to end. The operator closes the box of a refused upload. *)
Fairness ==
    /\ WF_vars(StoreHandle) /\ WF_vars(StopSteps)
    /\ \A t \in Threads : WF_vars(TestStep(t)) /\ WF_vars(UploadBoxClosed(t))
    /\ WF_vars(IperfRuns)

FairSpec == Spec /\ Fairness

-----------------------------------------------------------------------------
(* Properties                                                                   *)

Macs == SNs \cup {NoSN, BadMac, FixedMac}

UiType ==
    /\ ui \in UiStates /\ scan \in ScanStates /\ queue \in Seq(Messages)
    /\ spawned \in Threads \cup {NoThread} /\ waitFor \in Threads \cup {NoThread}
    /\ shown \in Results

LinkType ==
    /\ listed \subseteq Devices /\ sock \in Devices \cup {NoDev}
    /\ ctx \in {"live", "freed"} /\ mesLoginOK \in BOOLEAN

SnType ==
    /\ deviceIP \in Devices \cup {NoDev} /\ connectState \in BOOLEAN
    /\ snScaned \in BOOLEAN /\ curSN \in SNs \cup {NoSN} /\ curMac \in Macs

CtlType ==
    /\ cancel \in BOOLEAN /\ tnpCancel \in BOOLEAN
    /\ handle \in Threads \cup {NoThread} /\ open \subseteq Threads

TestType ==
    /\ pc \in [Threads -> PcStates] /\ iperf \in {"none", "cmd", "run", "exit"}
    /\ res \in [Checks -> BOOLEAN] /\ resultDone \in BOOLEAN /\ testResult \in Results
    /\ updates \in BOOLEAN

HistType ==
    /\ report \in [sn : SNs \cup {NoSN}, result : Results, err : SUBSET Checks]
    /\ round \in Devices \cup {NoDev}
    /\ passed \subseteq Checks /\ overwritten \in BOOLEAN

\* The type invariant, one part for each group of variables.
TypeOK == UiType /\ LinkType /\ SnType /\ CtlType /\ TestType /\ HistType

\* Where the test thread still works for its round; at "null" it has only
\* m_hTestThread = NULL left to do.
Working == PcStates \ {"idle", "null"}

\* StartDeviceTest never lets two rounds run at a time, although a round is known
\* to run only by m_hTestThread, which two threads write (DoDeviceTest has no lock).
OneTest == \A t, u \in Threads : pc[t] # "idle" /\ pc[u] # "idle" => t = u

\* OnTnpDeviceLost takes nothing away from a working round: the device, the socket
\* and the SN stay those of the attached device until StopDeviceTest has returned.
RoundKeepsDevice ==
    \A t \in Threads : pc[t] \in Working =>
        /\ deviceIP # NoDev /\ connectState /\ curSN # NoSN
        /\ ctx = "live" => sock = deviceIP
        /\ round \in {NoDev, deviceIP}

\* A check of the network or of speaker and microphone that SetMobileData reports
\* as passed was measured by this round, not left in the dialog by an earlier one:
\* a round that was cancelled halfway reports nothing.
ReportIsMeasured ==
    report # NoReport =>
        \A c \in Required \cap {"net", "spkmic"} : c \notin report.err => c \in passed

\* MES gets OK exactly when it gets no error code, unless a change of the scan control
\* put an older text over the verdict before its upload: whatever else the UI thread
\* handles in between (a loss, a device, a completed scan) leaves the verdict alone.
ReportAgrees ==
    report # NoReport /\ ~overwritten =>
        /\ report.result \in {"OK", "NG"}
        /\ report.result = "OK" <=> report.err = {}

\* OnCtlColor colours the result only when no round is measuring: a result of an
\* earlier round never stands for the one in progress.
DoneIsSettled ==
    resultDone => \A t \in Threads :
        pc[t] \in {"idle", "start", "upload", "box", "close", "null"}

\* A scan that waits for its device (m_bSnScaned) is never left over on a connected
\* station, where no later message would start its round, and never loses its SN.
ScanWaitsForDevice == snScaned => ~connectState /\ curSN # NoSN

\* Once StopDeviceTest has asked a round to end, nothing asks it to go on:
\* StartDeviceTest clears the flags only when the round has ended.
CancelStays == [][(cancel /\ \E t \in Threads : pc[t] \in Working) => cancel']_vars

\* The station keeps the promise of StationRound: rounds one at a time, on the attached
\* device, one report at most in each, and no detaching in the middle of one.
Promise == INSTANCE StationRound WITH
    attached <- deviceIP,
    testing  <- \E t \in Threads : pc[t] \in Working,
    filed    <- report # NoReport /\ \E t \in Threads : pc[t] \in Working

RoundsAsPromised == Promise!Spec

\* The wait without a timeout in StopDeviceTest ends, and the UI thread with it, even
\* if iperf3 never ends by itself.
StopReturns == ui \in {"stop", "arm", "wait"} ~> ui = "idle"

\* What docs/ promises of error code L011 and L012 (SN, MAC writing NG): a burn that
\* SetMobileData reports without the code was answered as good in this round.
BurnIsMeasured ==
    report # NoReport => \A c \in {"sn", "mac"} : c \notin report.err => c \in passed
=============================================================================
