--------------------------- MODULE SNStationProofs ----------------------------
(* What SNStation guarantees for any set of devices, serial numbers and threads, *)
(* any settings of the ini file and any length of the message queue: its rounds,  *)
(* what it reports of them, and that it keeps the promise of StationRound.        *)
EXTENDS SNStation, TLAPS

-----------------------------------------------------------------------------
(* Type correctness                                                             *)

\* A group of variables that a step leaves alone keeps its types.
LEMMA TypeFrame ==
    ASSUME TypeOK
    PROVE  /\ UNCHANGED uiVars   => UiType'
           /\ UNCHANGED linkVars => LinkType'
           /\ UNCHANGED snVars   => SnType'
           /\ UNCHANGED ctlVars  => CtlType'
           /\ UNCHANGED testVars => TestType'
           /\ UNCHANGED histVars => HistType'
<1> USE DEF TypeOK
<1>1. UNCHANGED uiVars => UiType'
  BY DEF uiVars, UiType
<1>2. UNCHANGED linkVars => LinkType'
  BY DEF linkVars, LinkType
<1>3. UNCHANGED snVars => SnType'
  BY DEF snVars, SnType
<1>4. UNCHANGED ctlVars => CtlType'
  BY DEF ctlVars, CtlType
<1>5. UNCHANGED testVars => TestType'
  BY DEF testVars, TestType
<1>6. UNCHANGED histVars => HistType'
  BY DEF histVars, HistType
<1>7. QED BY <1>1, <1>2, <1>3, <1>4, <1>5, <1>6

\* StartDeviceTest leaves its own variables of the right type.
LEMMA StartType ==
    ASSUME TypeOK, StartDeviceTest
    PROVE  /\ ui' \in UiStates /\ spawned' \in Threads \cup {NoThread}
           /\ shown' \in {shown, testResult'}
           /\ CtlType' /\ pc' \in [Threads -> PcStates]
<1> USE DEF ShowTexts, TypeOK, UiType, CtlType, TestType, StartDeviceTest, ctlVars, UiStates
<1>1. CASE handle # NoThread
  BY <1>1
<1>2. CASE handle = NoThread
  BY <1>2 DEF PcStates
<1>3. QED BY <1>1, <1>2

\* A step of a test thread leaves the groups of the UI thread alone.
LEMMA StepType ==
    ASSUME TypeOK, NEW t, NEW l, NEW m \in PcStates, Step(t, l, m)
    PROVE  /\ UiType' /\ LinkType' /\ SnType'
           /\ cancel' \in BOOLEAN /\ tnpCancel' \in BOOLEAN
           /\ pc' \in [Threads -> PcStates]
<1>1. UNCHANGED <<uiVars, linkVars, snVars>>
  BY DEF Step
<1>2. UiType' /\ LinkType' /\ SnType'
  BY <1>1, TypeFrame
<1>3. /\ cancel' \in BOOLEAN /\ tnpCancel' \in BOOLEAN
      /\ pc' \in [Threads -> PcStates]
  BY DEF Step, TypeOK, CtlType, TestType
<1>4. QED BY <1>2, <1>3

\* Recording the results of some checks keeps the types.
LEMMA MeasuredType ==
    ASSUME TypeOK, NEW which \in SUBSET Checks, NEW good, Measured(which, good)
    PROVE  res' \in [Checks -> BOOLEAN] /\ passed' \subseteq Checks
<1>1. res' \in [Checks -> BOOLEAN]
  <2>1. \A c \in Checks : (IF c \in which THEN c \in good ELSE res[c]) \in BOOLEAN
    <3>1. \A c \in Checks : res[c] \in BOOLEAN
      BY DEF TypeOK, TestType
    <3>2. \A c \in Checks : (c \in good) \in BOOLEAN
      OBVIOUS
    <3>3. QED BY <3>1, <3>2, Zenon
  <2>2. QED BY <2>1, Zenon DEF Measured
<1>2. passed' \subseteq Checks
  BY DEF Measured, TypeOK, HistType
<1>3. QED BY <1>1, <1>2

\* Posting a message and taking the first one keep the queue one of messages.
LEMMA QueueType ==
    ASSUME queue \in Seq(Messages)
    PROVE  /\ \A m \in Messages : Append(queue, m) \in Seq(Messages)
           /\ queue # <<>> => Tail(queue) \in Seq(Messages)
OBVIOUS

\* The two messages of the detection thread are of type Messages.
LEMMA MessageType == \A d \in Devices : Found(d) \in Messages /\ Lost(d) \in Messages
BY DEF Found, Lost, Messages

\* Only checks can fail.
LEMMA FailedType == Failed \subseteq Checks /\ Required \subseteq Checks
BY DEF Failed, Required

\* The steps of the UI thread and of the detection thread keep the types.
LEMMA TypeUI ==
    ASSUME TypeOK,
           Detection \/ FoundHandler \/ LostHandler \/ StopSteps \/ StoreHandle
             \/ ScanSteps \/ UpdateUI \/ Destroy
    PROVE  TypeOK'
<1>0. ASSUME NEW m, Receive(m) PROVE queue' \in Seq(Messages)
  BY <1>0, QueueType DEF Receive, TypeOK, UiType
<1>1. ASSUME NEW d \in Devices, PostFound(d) PROVE TypeOK'
  <2>1. SnType' /\ CtlType' /\ TestType' /\ HistType'
    BY <1>1, TypeFrame DEF PostFound
  <2>2. queue' \in Seq(Messages)
    BY <1>1, QueueType, MessageType DEF PostFound, TypeOK, UiType
  <2>3. UiType'
    BY <1>1, <2>1, <2>2 DEF PostFound, TypeOK, UiType
  <2>4. LinkType'
    BY <1>1, <2>1, <2>2, <2>3 DEF PostFound, TypeOK, LinkType
  <2>5. QED BY <2>1, <2>2, <2>3, <2>4 DEF TypeOK
<1>2. ASSUME NEW d \in Devices, PostLost(d) PROVE TypeOK'
  <2>1. SnType' /\ CtlType' /\ TestType' /\ HistType'
    BY <1>2, TypeFrame DEF PostLost
  <2>2. queue' \in Seq(Messages)
    BY <1>2, QueueType, MessageType DEF PostLost, TypeOK, UiType
  <2>3. UiType'
    BY <1>2, <2>1, <2>2 DEF PostLost, TypeOK, UiType
  <2>4. LinkType'
    BY <1>2, <2>1, <2>2, <2>3 DEF PostLost, TypeOK, LinkType
  <2>5. QED BY <2>1, <2>2, <2>3, <2>4 DEF TypeOK
<1>3. ASSUME NEW d \in Devices, FoundIgnored(d) PROVE TypeOK'
  <2>1. LinkType' /\ SnType' /\ CtlType' /\ TestType' /\ HistType'
    BY <1>3, TypeFrame DEF FoundIgnored
  <2>2. queue' \in Seq(Messages)
    BY <1>0, <1>3 DEF FoundIgnored
  <2>3. UiType'
    BY <1>3, <2>1, <2>2 DEF FoundIgnored, TypeOK, UiType
  <2>4. QED BY <2>1, <2>2, <2>3 DEF TypeOK
<1>4. ASSUME NEW d \in Devices, FoundConnected(d) PROVE TypeOK'
  <2>1. HistType'
    BY <1>4, TypeFrame DEF FoundConnected
  <2>2. queue' \in Seq(Messages)
    BY <1>0, <1>4 DEF FoundConnected
  <2>3. /\ ui' \in UiStates /\ spawned' \in Threads \cup {NoThread}
         /\ CtlType' /\ pc' \in [Threads -> PcStates]
    <3>1. CASE snScaned
      BY <1>4, <3>1, StartType DEF FoundConnected
    <3>2. CASE ~snScaned
      BY <1>4, <3>2 DEF FoundConnected, TypeOK, UiType, CtlType, TestType, ctlVars
    <3>3. QED BY <3>1, <3>2 DEF TypeOK, SnType
  <2>a. shown' \in {shown, testResult'} /\ testResult' \in {testResult, "prompt"}
    BY <1>4, StartType DEF FoundConnected, ShowTexts
  <2>4. UiType'
    BY <1>4, <2>1, <2>2, <2>3, <2>a
    DEF FoundConnected, TypeOK, UiType, ScanStates, TestType, Results
  <2>5. LinkType'
    BY <1>4, <2>1, <2>2, <2>3, <2>4 DEF FoundConnected, TypeOK, LinkType
  <2>6. SnType'
    BY <1>4, <2>1, <2>2, <2>3, <2>4, <2>5 DEF FoundConnected, TypeOK, SnType, Macs
  <2>7. TestType'
    BY <1>4, <2>1, <2>2, <2>3, <2>4, <2>5, <2>6 DEF FoundConnected, TypeOK, TestType, Results
  <2>8. QED BY <2>1, <2>2, <2>3, <2>4, <2>5, <2>6, <2>7 DEF TypeOK
<1>5. ASSUME NEW d \in Devices, FoundConnectFailed(d) PROVE TypeOK'
  <2>1. CtlType' /\ TestType' /\ HistType'
    BY <1>5, TypeFrame DEF FoundConnectFailed
  <2>2. queue' \in Seq(Messages)
    BY <1>0, <1>5 DEF FoundConnectFailed
  <2>3. UiType'
    BY <1>5, <2>1, <2>2 DEF FoundConnectFailed, ShowTexts, TypeOK, UiType, TestType
  <2>4. LinkType'
    BY <1>5, <2>1, <2>2, <2>3 DEF FoundConnectFailed, TypeOK, LinkType
  <2>5. SnType'
    BY <1>5, <2>1, <2>2, <2>3, <2>4 DEF FoundConnectFailed, TypeOK, SnType, Macs
  <2>6. QED BY <2>1, <2>2, <2>3, <2>4, <2>5 DEF TypeOK
<1>6. ASSUME NEW d \in Devices, LostIgnored(d) PROVE TypeOK'
  <2>1. LinkType' /\ SnType' /\ CtlType' /\ TestType' /\ HistType'
    BY <1>6, TypeFrame DEF LostIgnored
  <2>2. queue' \in Seq(Messages)
    BY <1>0, <1>6 DEF LostIgnored
  <2>3. UiType'
    BY <1>6, <2>1, <2>2 DEF LostIgnored, TypeOK, UiType
  <2>4. QED BY <2>1, <2>2, <2>3 DEF TypeOK
<1>7. ASSUME NEW d \in Devices, LostCurrent(d) PROVE TypeOK'
  <2>1. LinkType' /\ SnType' /\ TestType' /\ HistType'
    BY <1>7, TypeFrame DEF LostCurrent
  <2>2. queue' \in Seq(Messages)
    BY <1>0, <1>7 DEF LostCurrent
  <2>3. UiType'
    BY <1>7, <2>1, <2>2 DEF LostCurrent, TypeOK, UiType, UiStates
  <2>4. CtlType'
    BY <1>7, <2>1, <2>2, <2>3 DEF LostCurrent, TypeOK, CtlType
  <2>5. QED BY <2>1, <2>2, <2>3, <2>4 DEF TypeOK
<1>8. CASE StopTestsHandle
  <2>1. LinkType' /\ SnType' /\ CtlType' /\ TestType' /\ HistType'
    BY <1>8, TypeFrame DEF StopTestsHandle
  <2>2. UiType'
    BY <1>8, <2>1 DEF StopTestsHandle, TypeOK, UiType, UiStates
  <2>3. QED BY <2>1, <2>2 DEF TypeOK
<1>9. CASE StopWaits
  <2>1. LinkType' /\ SnType' /\ TestType' /\ HistType'
    BY <1>9, TypeFrame DEF StopWaits
  <2>2. UiType'
    BY <1>9, <2>1 DEF StopWaits, TypeOK, UiType, UiStates, CtlType, ctlVars
  <2>3. CtlType'
    BY <1>9, <2>1, <2>2 DEF StopWaits, TypeOK, CtlType, ctlVars
  <2>4. QED BY <2>1, <2>2, <2>3 DEF TypeOK
<1>10. CASE LostClears
  <2>1. CtlType' /\ HistType'
    BY <1>10, TypeFrame DEF LostClears
  <2>2. UiType'
    BY <1>10, <2>1 DEF LostClears, ShowTexts, TypeOK, UiType, UiStates, Results
  <2>3. LinkType'
    BY <1>10, <2>1, <2>2 DEF LostClears, TypeOK, LinkType
  <2>4. SnType'
    BY <1>10, <2>1, <2>2, <2>3 DEF LostClears, TypeOK, SnType, Macs
  <2>5. TestType'
    BY <1>10, <2>1, <2>2, <2>3, <2>4 DEF LostClears, TypeOK, TestType, UiStates, Results
  <2>6. QED BY <2>1, <2>2, <2>3, <2>4, <2>5 DEF TypeOK
<1>11. CASE StoreHandle
  <2>1. LinkType' /\ SnType' /\ TestType' /\ HistType'
    BY <1>11, TypeFrame DEF StoreHandle
  <2>2. UiType'
    BY <1>11, <2>1
    DEF StoreHandle, ShowTexts, TypeOK, UiType, UiStates, CtlType, ctlVars, TestType
  <2>3. CtlType'
    BY <1>11, <2>1, <2>2 DEF StoreHandle, TypeOK, CtlType, UiType
  <2>4. QED BY <2>1, <2>2, <2>3 DEF TypeOK
<1>12. ASSUME NEW s \in SNs, Scan(s) PROVE TypeOK'
  <2>1. LinkType' /\ CtlType'
    BY <1>12, TypeFrame DEF Scan
  <2>a. TestType' /\ HistType'
    BY <1>12 DEF Scan, ReadTexts, TypeOK, UiType, TestType, HistType
  <2>2. UiType'
    BY <1>12, <2>1 DEF Scan, TypeOK, UiType, ScanStates
  <2>3. SnType'
    BY <1>12, <2>1, <2>2 DEF Scan, TypeOK, SnType, Macs
  <2>4. QED BY <2>1, <2>a, <2>2, <2>3 DEF TypeOK
<1>13. ASSUME NEW yes \in BOOLEAN, ScanRoute(yes) PROVE TypeOK'
  <2>1. LinkType' /\ SnType' /\ CtlType' /\ TestType' /\ HistType'
    BY <1>13, TypeFrame DEF ScanRoute
  <2>2. UiType'
    BY <1>13, <2>1 DEF ScanRoute, TypeOK, UiType, ScanStates
  <2>3. QED BY <2>1, <2>2 DEF TypeOK
<1>14. ASSUME NEW yes \in BOOLEAN, ScanMac(yes) PROVE TypeOK'
  <2>1. LinkType' /\ CtlType' /\ TestType' /\ HistType'
    BY <1>14, TypeFrame DEF ScanMac
  <2>2. UiType'
    BY <1>14, <2>1 DEF ScanMac, TypeOK, UiType, ScanStates
  <2>3. SnType'
    BY <1>14, <2>1, <2>2 DEF ScanMac, TypeOK, SnType, Macs
  <2>4. QED BY <2>1, <2>2, <2>3 DEF TypeOK
<1>15. CASE ScanBoxClosed
  <2>1. LinkType' /\ CtlType' /\ TestType' /\ HistType'
    BY <1>15, TypeFrame DEF ScanBoxClosed
  <2>2. UiType'
    BY <1>15, <2>1 DEF ScanBoxClosed, TypeOK, UiType, ScanStates, TestType
  <2>3. SnType'
    BY <1>15, <2>1, <2>2 DEF ScanBoxClosed, TypeOK, SnType, Macs
  <2>4. QED BY <2>1, <2>2, <2>3 DEF TypeOK
<1>16. CASE ScanBegins
  <2>1. LinkType' /\ HistType'
    BY <1>16, TypeFrame DEF ScanBegins
  <2>2. /\ ui' \in UiStates /\ spawned' \in Threads \cup {NoThread}
         /\ CtlType' /\ pc' \in [Threads -> PcStates]
    <3>1. CASE connectState
      BY <1>16, <3>1, StartType DEF ScanBegins
    <3>2. CASE ~connectState
      BY <1>16, <3>2 DEF ScanBegins, TypeOK, UiType, CtlType, TestType, ctlVars
    <3>3. QED BY <3>1, <3>2 DEF TypeOK, SnType
  <2>a. shown' \in {shown, testResult'} /\ testResult' \in {testResult, "prompt"}
    BY <1>16, StartType DEF ScanBegins, ShowTexts
  <2>3. UiType'
    BY <1>16, <2>1, <2>2, <2>a DEF ScanBegins, TypeOK, UiType, ScanStates, TestType, Results
  <2>4. SnType'
    BY <1>16, <2>1, <2>2, <2>3 DEF ScanBegins, TypeOK, SnType, Macs
  <2>5. TestType'
    BY <1>16, <2>1, <2>2, <2>3, <2>4 DEF ScanBegins, TypeOK, TestType, Results
  <2>6. QED BY <2>1, <2>2, <2>3, <2>4, <2>5 DEF TypeOK
<1>17. CASE Destroy
  <2>1. UiType' /\ SnType' /\ TestType' /\ HistType'
    BY <1>17, TypeFrame DEF Destroy
  <2>2. LinkType'
    BY <1>17, <2>1 DEF Destroy, TypeOK, LinkType
  <2>3. CtlType'
    BY <1>17, <2>1, <2>2 DEF Destroy, TypeOK, CtlType
  <2>4. QED BY <2>1, <2>2, <2>3 DEF TypeOK
<1>18. CASE UpdateUI
  <2>1. LinkType' /\ SnType' /\ CtlType' /\ HistType'
    BY <1>18, TypeFrame DEF UpdateUI
  <2>2. UiType' /\ TestType'
    BY <1>18 DEF UpdateUI, ShowTexts, TypeOK, UiType, TestType
  <2>3. QED BY <2>1, <2>2 DEF TypeOK
<1>19. CASE Keystroke
  <2>1. UiType' /\ LinkType' /\ SnType' /\ CtlType'
    BY <1>19, TypeFrame DEF Keystroke
  <2>2. TestType' /\ HistType'
    BY <1>19 DEF Keystroke, ReadTexts, TypeOK, UiType, TestType, HistType
  <2>3. QED BY <2>1, <2>2 DEF TypeOK
<1>20. QED
  BY <1>1, <1>2, <1>3, <1>4, <1>5, <1>6, <1>7, <1>8, <1>9, <1>10,
     <1>11, <1>12, <1>13, <1>14, <1>15, <1>16, <1>17, <1>18, <1>19
  DEF Detection, FoundHandler, LostHandler, StopSteps, ScanSteps

\* The steps of a test thread keep the types.
LEMMA TypeTest ==
    ASSUME TypeOK, NEW t \in Threads, TestStep(t) \/ UploadBoxClosed(t)
    PROVE  TypeOK'
<1> USE DEF TypeOK, CtlType, TestType, HistType, histVars
<1>0. {"burn", "burnWait", "net", "netWait", "mic", "micWait", "verdict", "upload", "box",
       "close", "null", "idle"} \subseteq PcStates
  BY DEF PcStates
<1>1. CASE TestStart(t)
  BY <1>0, <1>1, StepType DEF TestStart
<1>2. CASE UploadBoxClosed(t)
  BY <1>0, <1>2, StepType DEF UploadBoxClosed
<1>3. CASE BurnSend(t)
  BY <1>0, <1>3, StepType DEF BurnSend, Results, LinkType, SnType
<1>4. CASE BurnFails(t)
  BY <1>0, <1>4, StepType DEF BurnFails
<1>5. CASE NetStart(t)
  BY <1>0, <1>5, StepType DEF NetStart, Results
<1>6. CASE NetKill(t)
  BY <1>0, <1>6, StepType DEF NetKill
<1>7. CASE MicSend(t)
  BY <1>0, <1>7, StepType DEF MicSend, Results
<1>8. CASE Verdict(t)
  BY <1>0, <1>8, StepType DEF Verdict, Results
<1>9. CASE NoUpload(t)
  BY <1>0, <1>9, StepType DEF NoUpload
<1>10. CASE TestClosesHandle(t)
  BY <1>0, <1>10, StepType DEF TestClosesHandle
<1>11. CASE TestEnds(t)
  BY <1>0, <1>11, StepType DEF TestEnds, NoReport, Results, Macs
<1>12. ASSUME NEW good, BurnReply(t, good) PROVE TypeOK'
  <2>1. Measured({"sn", "mac"}, good) /\ {"sn", "mac"} \subseteq Checks
    BY <1>12 DEF BurnReply, Checks
  <2>2. res' \in [Checks -> BOOLEAN] /\ passed' \subseteq Checks
    BY <2>1, MeasuredType
  <2>3. QED BY <1>0, <1>12, <2>2, StepType DEF BurnReply
<1>13. ASSUME NEW good, NetResult(t, good) PROVE TypeOK'
  <2>1. Measured({"net"}, good) /\ {"net"} \subseteq Checks
    BY <1>13 DEF NetResult, Checks
  <2>2. res' \in [Checks -> BOOLEAN] /\ passed' \subseteq Checks
    BY <2>1, MeasuredType
  <2>3. QED BY <1>0, <1>13, <2>2, StepType DEF NetResult
<1>14. ASSUME NEW good, MicResult(t, good) PROVE TypeOK'
  <2>1. Measured({"spkmic"}, good) /\ {"spkmic"} \subseteq Checks
    BY <1>14 DEF MicResult, Checks
  <2>2. res' \in [Checks -> BOOLEAN] /\ passed' \subseteq Checks
    BY <2>1, MeasuredType
  <2>3. QED BY <1>0, <1>14, <2>2, StepType DEF MicResult
<1>15. ASSUME NEW a \in BOOLEAN, Upload(t, a) PROVE TypeOK'
  <2>1. report' \in [sn : SNs \cup {NoSN}, result : Results, err : SUBSET Checks]
    BY <1>15, FailedType DEF Upload, SnType
  <2>2. QED BY <1>0, <1>15, <2>1, StepType DEF Upload, Results
<1>16. CASE TestSkip(t)
  <2>1. /\ UiType' /\ LinkType' /\ SnType' /\ pc' \in [Threads -> PcStates]
        /\ cancel' \in BOOLEAN /\ tnpCancel' \in BOOLEAN
    BY <1>0, <1>16, StepType DEF TestSkip
  <2>2. QED BY <1>16, <2>1 DEF TestSkip
<1>17. QED
  BY <1>1, <1>2, <1>3, <1>4, <1>5, <1>6, <1>7, <1>8, <1>9,
     <1>10, <1>11, <1>12, <1>13, <1>14, <1>15, <1>16
  DEF TestStep

\* The steps of iperf3 keep the types.
LEMMA TypeIperf == ASSUME TypeOK, IperfRuns \/ IperfExits PROVE TypeOK'
<1>1. UiType' /\ LinkType' /\ SnType' /\ CtlType' /\ HistType'
  BY TypeFrame DEF IperfRuns, IperfExits
<1>2. TestType'
  BY DEF IperfRuns, IperfExits, TypeOK, TestType
<1>3. QED BY <1>1, <1>2 DEF TypeOK

\* OnInitDialog gives every variable its type.
LEMMA TypeInit == Init => TypeOK
<1> SUFFICES ASSUME Init PROVE TypeOK
  OBVIOUS
<1> USE DEF Init
<1>1. UiType /\ LinkType /\ SnType
  <2>1. UiType
    BY DEF UiType, UiStates, ScanStates, Results
  <2>2. LinkType
    BY ConstAssumption DEF LinkType
  <2>3. SnType
    BY DEF SnType, Macs
  <2>4. QED BY <2>1, <2>2, <2>3
<1>2. CtlType /\ TestType
  BY DEF CtlType, TestType, PcStates, Results
<1>3. HistType
  BY DEF HistType, NoReport, Results, Macs
<1>4. QED BY <1>1, <1>2, <1>3 DEF TypeOK

\* Every step keeps the types.
LEMMA TypeNext == TypeOK /\ [Next]_vars => TypeOK'
<1> SUFFICES ASSUME TypeOK, [Next]_vars PROVE TypeOK'
  OBVIOUS
<1>1. CASE Detection \/ FoundHandler \/ LostHandler \/ StopSteps \/ StoreHandle
             \/ ScanSteps \/ UpdateUI \/ Destroy
  BY <1>1, TypeUI
<1>2. CASE \E t \in Threads : TestStep(t) \/ UploadBoxClosed(t)
  BY <1>2, TypeTest
<1>3. CASE IperfRuns \/ IperfExits
  BY <1>3, TypeIperf
<1>4. CASE UNCHANGED vars
  BY <1>4, TypeFrame DEF vars, TypeOK
<1>5. QED BY <1>1, <1>2, <1>3, <1>4 DEF Next

\* Every variable of SNStation keeps its type.
THEOREM TypeCorrect == Spec => []TypeOK
BY TypeInit, TypeNext, PTL DEF Spec

-----------------------------------------------------------------------------
(* A round and the device it tests                                              *)

\* The inductive invariant. A running thread is known to the UI thread, by its handle
\* or as the thread just created; a working one has an open handle, and a wait in
\* StopDeviceTest is a wait for it. That is why OnTnpDeviceLost finds no working
\* thread when it clears the state of the device.
RunningIsKnown ==
    \A t \in Threads : pc[t] # "idle" => t = IF ui = "store" THEN spawned ELSE handle

WorkingIsOpen == \A t \in Threads : pc[t] \in Working => t \in open

WaitIsForWorking == ui = "wait" => \A t \in Threads : pc[t] \in Working => waitFor = t

ScanIsAlone == scan \in {"route", "mac", "begin"} => ui = "idle" /\ curSN # NoSN

AttachedIsConnected ==
    /\ connectState <=> deviceIP # NoDev
    /\ ctx = "live" /\ deviceIP # NoDev => sock = deviceIP
    /\ ctx = "freed" => sock = NoDev

RoundIsRunning == round # NoDev => \E t \in Threads : pc[t] # "idle"

RoundInv ==
    /\ RunningIsKnown /\ WorkingIsOpen /\ WaitIsForWorking /\ ScanIsAlone
    /\ AttachedIsConnected /\ RoundIsRunning /\ RoundKeepsDevice /\ ScanWaitsForDevice

\* The steps of the detection thread and of the UI thread keep the invariant.
LEMMA RoundUI ==
    ASSUME TypeOK, RoundInv,
           Detection \/ FoundHandler \/ LostHandler \/ StopSteps \/ StoreHandle
             \/ ScanSteps \/ UpdateUI \/ Destroy
    PROVE  RoundInv'
<1> USE ConstAssumption DEF TypeOK, UiType, LinkType, SnType, CtlType, TestType, RoundInv,
      RunningIsKnown, WorkingIsOpen, WaitIsForWorking, ScanIsAlone, AttachedIsConnected,
      RoundIsRunning, RoundKeepsDevice, ScanWaitsForDevice,
      uiVars, linkVars, snVars, ctlVars, testVars, histVars
<1>1. ASSUME NEW d \in Devices, PostFound(d) PROVE RoundInv'
  BY <1>1 DEF PostFound
<1>2. ASSUME NEW d \in Devices, PostLost(d) PROVE RoundInv'
  BY <1>2 DEF PostLost
<1>3. ASSUME NEW d \in Devices, FoundIgnored(d) PROVE RoundInv'
  BY <1>3 DEF FoundIgnored, Receive, Dispatching
<1>4. ASSUME NEW d \in Devices, FoundConnected(d) PROVE RoundInv'
  BY <1>4 DEF FoundConnected, Receive, Dispatching, StartDeviceTest, Working
<1>5. ASSUME NEW d \in Devices, FoundConnectFailed(d) PROVE RoundInv'
  BY <1>5 DEF FoundConnectFailed, Receive, Dispatching
<1>6. ASSUME NEW d \in Devices, LostIgnored(d) PROVE RoundInv'
  BY <1>6 DEF LostIgnored, Receive, Dispatching
<1>7. ASSUME NEW d \in Devices, LostCurrent(d) PROVE RoundInv'
  BY <1>7 DEF LostCurrent, Receive, Dispatching
<1>8. CASE StopTestsHandle
  BY <1>8 DEF StopTestsHandle
<1>9. CASE StopWaits
  BY <1>9 DEF StopWaits, Working
<1>10. CASE LostClears
  BY <1>10 DEF LostClears, WaitOver, Working
<1>11. CASE StoreHandle
  BY <1>11 DEF StoreHandle
<1>12. ASSUME NEW s \in SNs, Scan(s) PROVE RoundInv'
  BY <1>12 DEF Scan, Typing
<1>13. ASSUME NEW yes \in BOOLEAN, ScanRoute(yes) PROVE RoundInv'
  BY <1>13 DEF ScanRoute
<1>14. ASSUME NEW yes \in BOOLEAN, ScanMac(yes) PROVE RoundInv'
  BY <1>14 DEF ScanMac
<1>15. CASE ScanBoxClosed
  BY <1>15 DEF ScanBoxClosed
<1>16. CASE ScanBegins
  BY <1>16 DEF ScanBegins, StartDeviceTest, Working
<1>17. CASE Destroy
  BY <1>17 DEF Destroy
<1>18. CASE UpdateUI \/ Keystroke
  BY <1>18 DEF UpdateUI, Keystroke
<1>19. QED
  BY <1>1, <1>2, <1>3, <1>4, <1>5, <1>6, <1>7, <1>8, <1>9,
     <1>10, <1>11, <1>12, <1>13, <1>14, <1>15, <1>16, <1>17, <1>18
  DEF Detection, FoundHandler, LostHandler, StopSteps, ScanSteps

\* A step of a test thread changes pc, and what else its action names.
LEMMA StepFrame ==
    ASSUME TypeOK, NEW t \in Threads, NEW l, NEW m, Step(t, l, m)
    PROVE  /\ pc[t] = l /\ pc'[t] = m
           /\ \A u \in Threads : u # t => pc'[u] = pc[u]
           /\ UNCHANGED <<ui, scan, queue, spawned, waitFor, listed, sock, ctx, deviceIP,
                          connectState, snScaned, curSN>>
BY DEF Step, TypeOK, TestType, uiVars, linkVars, snVars

\* The steps of a test thread keep the invariant.
LEMMA RoundTest ==
    ASSUME TypeOK, RoundInv, NEW t \in Threads, TestStep(t) \/ UploadBoxClosed(t)
    PROVE  RoundInv'
<1> USE ConstAssumption DEF RoundInv, RunningIsKnown, WorkingIsOpen, WaitIsForWorking,
      ScanIsAlone, AttachedIsConnected, RoundIsRunning, RoundKeepsDevice, ScanWaitsForDevice,
      histVars
<1>1. ASSUME NEW l \in Working, NEW m \in Working, Step(t, l, m),
             UNCHANGED <<handle, open>>, round' = round \/ round' = sock
      PROVE  RoundInv'
  BY <1>1, StepFrame DEF Working, TypeOK, LinkType, SnType
<1>2. {"start", "burn", "burnWait", "net", "netWait", "mic", "micWait", "verdict", "upload",
       "box", "close"} \subseteq Working
  BY DEF Working, PcStates
<1>3. CASE BurnSend(t)
  BY <1>1, <1>2, <1>3 DEF BurnSend
<1>4. CASE TestStart(t) \/ NetStart(t) \/ NetKill(t) \/ MicSend(t) \/ BurnFails(t)
  BY <1>1, <1>2, <1>4 DEF TestStart, NetStart, NetKill, MicSend, BurnFails
<1>5. CASE TestSkip(t)
  BY <1>1, <1>2, <1>5 DEF TestSkip
<1>6. CASE \E good : BurnReply(t, good) \/ NetResult(t, good) \/ MicResult(t, good)
  BY <1>1, <1>2, <1>6 DEF BurnReply, NetResult, MicResult
<1>7. CASE Verdict(t) \/ NoUpload(t) \/ UploadBoxClosed(t)
  BY <1>1, <1>2, <1>7 DEF Verdict, NoUpload, UploadBoxClosed
<1>8. CASE \E a \in BOOLEAN : Upload(t, a)
  BY <1>1, <1>2, <1>8 DEF Upload
<1>9. CASE TestClosesHandle(t)
  <2>1. Step(t, "close", "null") /\ open' = open \ {handle} /\ UNCHANGED <<handle, round>>
    BY <1>9 DEF TestClosesHandle
  <2>2. QED BY <2>1, StepFrame DEF Working, TypeOK, CtlType, TestType
<1>10. CASE TestEnds(t)
  <2>1. Step(t, "null", "idle") /\ handle' = NoThread /\ round' = NoDev /\ UNCHANGED open
    BY <1>10 DEF TestEnds
  <2>2. QED BY <2>1, StepFrame DEF Working, TypeOK, CtlType, TestType
<1>11. QED
  BY <1>3, <1>4, <1>5, <1>6, <1>7, <1>8, <1>9, <1>10 DEF TestStep

\* The invariant holds when the dialog opens.
LEMMA RoundInit == Init => RoundInv
BY ConstAssumption DEF Init, RoundInv, RunningIsKnown, WorkingIsOpen, WaitIsForWorking,
   ScanIsAlone, AttachedIsConnected, RoundIsRunning, RoundKeepsDevice, ScanWaitsForDevice,
   Working

\* Every step keeps the invariant.
LEMMA RoundNext == TypeOK /\ RoundInv /\ [Next]_vars => RoundInv'
<1> SUFFICES ASSUME TypeOK, RoundInv, [Next]_vars PROVE RoundInv'
  OBVIOUS
<1>1. CASE Detection \/ FoundHandler \/ LostHandler \/ StopSteps \/ StoreHandle
             \/ ScanSteps \/ UpdateUI \/ Destroy
  BY <1>1, RoundUI
<1>2. CASE \E t \in Threads : TestStep(t) \/ UploadBoxClosed(t)
  BY <1>2, RoundTest
<1>3. CASE IperfRuns \/ IperfExits \/ UNCHANGED vars
  <2>1. UNCHANGED <<uiVars, linkVars, snVars, ctlVars, pc, round>>
    BY <1>3 DEF IperfRuns, IperfExits, vars, testVars, histVars
  <2>2. QED
    BY <2>1 DEF uiVars, linkVars, snVars, ctlVars, RoundInv, RunningIsKnown, WorkingIsOpen,
       WaitIsForWorking, ScanIsAlone, AttachedIsConnected, RoundIsRunning,
       RoundKeepsDevice, ScanWaitsForDevice
<1>4. QED BY <1>1, <1>2, <1>3 DEF Next

\* The UI thread knows the running round, and waits for it before it clears anything.
THEOREM RoundInvariant == Spec => []RoundInv
BY TypeInit, TypeNext, RoundInit, RoundNext, PTL DEF Spec

\* At no time do two test threads run, whatever the schedule of the two threads that
\* write m_hTestThread.
THEOREM AtMostOneTest == Spec => []OneTest
<1>1. RoundInv => OneTest
  BY DEF RoundInv, RunningIsKnown, OneTest
<1>2. QED BY <1>1, RoundInvariant, PTL

\* OnTnpDeviceLost never clears the device, the socket or the SN under a working round.
THEOREM NothingTakenFromRound == Spec => []RoundKeepsDevice
<1>1. RoundInv => RoundKeepsDevice
  BY DEF RoundInv
<1>2. QED BY <1>1, RoundInvariant, PTL

\* A scan that waits for its device is never left over on a connected station.
THEOREM ScanNeverLeftOver == Spec => []ScanWaitsForDevice
<1>1. RoundInv => ScanWaitsForDevice
  BY DEF RoundInv
<1>2. QED BY <1>1, RoundInvariant, PTL

-----------------------------------------------------------------------------
(* What the station reports                                                  *)

UISteps == Detection \/ FoundHandler \/ LostHandler \/ StopSteps \/ StoreHandle
             \/ ScanSteps \/ UpdateUI \/ Destroy

\* The text of the verdict, which is in m_strTestResult for its upload.
VerdictText == IF Failed = {} THEN "OK" ELSE "NG"

\* What a step of the UI thread or of the detection thread may do to a round: start one
\* where none runs, and ask one to end. It takes no result from a working one, and a
\* verdict only by a change of the scan control, which is noted in "overwritten".
LEMMA UIFrame ==
    ASSUME TypeOK, RoundInv, UISteps
    PROVE  /\ UNCHANGED <<res, report, round, passed>> /\ resultDone' \in {resultDone, FALSE}
           /\ overwritten => overwritten'
           /\ (\E t \in Threads : pc[t] \in Working) => UNCHANGED pc /\ (cancel => cancel')
           /\ (\E t \in Threads : pc[t] = "upload") /\ ~overwritten' => UNCHANGED testResult
           /\ \A t \in Threads : pc'[t] # pc[t] =>
                 pc'[t] = "start" /\ \A u \in Threads : pc[u] = "idle"
<1> DEFINE Kept == /\ UNCHANGED <<res, report, round, passed>>
                   /\ resultDone' \in {resultDone, FALSE} /\ (overwritten => overwritten')
           Goal == /\ Kept
                   /\ (\E t \in Threads : pc[t] \in Working) => UNCHANGED pc /\ (cancel => cancel')
                   /\ (\E t \in Threads : pc[t] = "upload") /\ ~overwritten'
                        => UNCHANGED testResult
                   /\ \A t \in Threads : pc'[t] # pc[t] =>
                         pc'[t] = "start" /\ \A u \in Threads : pc[u] = "idle"
<1>0. (\E t \in Threads : pc[t] = "upload") => \E t \in Threads : pc[t] \in Working
  BY DEF Working, PcStates
<1>1. CASE Kept /\ UNCHANGED <<pc, testResult>> /\ (cancel => cancel')
  BY <1>1
<1>2. ASSUME StartDeviceTest, ui = "idle" PROVE
        /\ (\E t \in Threads : pc[t] \in Working) => UNCHANGED <<pc, cancel>>
        /\ \A t \in Threads : pc'[t] # pc[t] =>
              pc'[t] = "start" /\ \A u \in Threads : pc[u] = "idle"
  <2>1. CASE handle # NoThread
    BY <1>2, <2>1 DEF StartDeviceTest, ctlVars
  <2>2. CASE handle = NoThread
    <3>1. \A t \in Threads : pc[t] = "idle"
      BY <1>2, <2>2, ConstAssumption DEF RoundInv, RunningIsKnown
    <3>2. QED BY <1>2, <2>2, <3>1 DEF StartDeviceTest, Working, TypeOK, TestType
  <2>3. QED BY <2>1, <2>2
<1>3. ASSUME ~connectState \/ deviceIP = NoDev PROVE ~\E t \in Threads : pc[t] \in Working
  BY <1>3 DEF RoundInv, RoundKeepsDevice
<1>4. ASSUME NEW d \in Devices, FoundConnected(d) PROVE Goal
  <2>1. Kept /\ deviceIP = NoDev /\ ui = "idle"
    BY <1>4 DEF FoundConnected, Receive, Dispatching, histVars
  <2>2. CASE snScaned
    BY <1>2, <1>3, <1>4, <2>1, <2>2 DEF FoundConnected
  <2>3. CASE ~snScaned
    BY <1>0, <1>3, <1>4, <2>1, <2>3 DEF FoundConnected, ctlVars
  <2>4. QED BY <2>2, <2>3
<1>5. CASE ScanBegins
  <2>1. Kept /\ ui = "idle"
    BY <1>5 DEF ScanBegins, RoundInv, ScanIsAlone, histVars
  <2>2. CASE connectState
    BY <1>2, <1>5, <2>1, <2>2 DEF ScanBegins
  <2>3. CASE ~connectState
    BY <1>0, <1>3, <1>5, <2>1, <2>3 DEF ScanBegins, ctlVars
  <2>4. QED BY <2>2, <2>3
<1>6. CASE LostClears
  <2>1. ~\E t \in Threads : pc[t] \in Working
    <3>1. CASE ui = "stop" /\ handle = NoThread
      BY <3>1, ConstAssumption DEF RoundInv, RunningIsKnown, Working
    <3>2. CASE ui = "wait" /\ WaitOver
      BY <3>2 DEF RoundInv, WaitIsForWorking, WorkingIsOpen, WaitOver, Working
    <3>3. QED BY <1>6, <3>1, <3>2 DEF LostClears
  <2>2. QED BY <1>0, <1>6, <2>1 DEF LostClears, histVars
<1>7. CASE Detection \/ StoreHandle \/ StopTestsHandle \/ StopWaits
  BY <1>1, <1>7 DEF Detection, PostFound, PostLost, StoreHandle, StopTestsHandle, StopWaits,
     ctlVars, testVars, histVars
<1>8. ASSUME NEW d \in Devices, LostIgnored(d) \/ LostCurrent(d) PROVE Goal
  <2>1. Kept /\ UNCHANGED <<pc, testResult>>
    <3>1. UNCHANGED testVars /\ UNCHANGED histVars
      BY <1>8 DEF LostIgnored, LostCurrent
    <3>2. QED BY <3>1 DEF testVars, histVars
  <2>2. cancel' = cancel \/ cancel' = TRUE
    BY <1>8 DEF LostIgnored, LostCurrent, ctlVars
  <2>3. QED BY <1>1, <2>1, <2>2
<1>9. ASSUME NEW d \in Devices, FoundIgnored(d) \/ FoundConnectFailed(d) PROVE Goal
  BY <1>1, <1>9 DEF FoundIgnored, FoundConnectFailed, ctlVars, testVars, histVars
<1>10. ASSUME ReadTexts, UNCHANGED <<ctlVars, pc, res, resultDone, report, round, passed>>
       PROVE  Goal
  BY <1>10 DEF ReadTexts, ctlVars
<1>11. CASE Keystroke \/ \E s \in SNs : Scan(s)
  BY <1>10, <1>11 DEF Keystroke, Scan
<1>12. ASSUME NEW yes, ScanRoute(yes) \/ ScanMac(yes) PROVE Goal
  BY <1>1, <1>12 DEF ScanRoute, ScanMac, ctlVars, testVars, histVars
<1>13. CASE ScanBoxClosed \/ UpdateUI \/ Destroy
  BY <1>1, <1>13 DEF ScanBoxClosed, UpdateUI, Destroy, ctlVars, testVars, histVars
<1>14. QED
  BY <1>4, <1>5, <1>6, <1>7, <1>8, <1>9, <1>11, <1>12, <1>13
  DEF UISteps, FoundHandler, LostHandler, StopSteps, ScanSteps

-----------------------------------------------------------------------------
(* Cancelling                                                                   *)

\* Once StopDeviceTest has asked a round to end, no step asks it to go on.
THEOREM CancelIsFinal == Spec => CancelStays
<1>1. TypeOK /\ RoundInv /\ [Next]_vars =>
        ((cancel /\ \E t \in Threads : pc[t] \in Working) => cancel')
  <2> SUFFICES ASSUME TypeOK, RoundInv, [Next]_vars, cancel,
                      \E t \in Threads : pc[t] \in Working
               PROVE  cancel'
    OBVIOUS
  <2>1. CASE UISteps
    BY <2>1, UIFrame
  <2>2. CASE \E t \in Threads : TestStep(t) \/ UploadBoxClosed(t)
    <3>1. UNCHANGED cancel
      BY <2>2 DEF TestStep, UploadBoxClosed, TestStart, TestSkip, BurnSend, BurnReply,
         BurnFails, NetStart, NetKill, NetResult, MicSend, MicResult, Verdict, Upload,
         NoUpload, TestClosesHandle, TestEnds, Step
    <3>2. QED BY <3>1
  <2>3. CASE IperfRuns \/ IperfExits \/ UNCHANGED vars
    BY <2>3 DEF IperfRuns, IperfExits, vars, ctlVars
  <2>4. QED BY <2>1, <2>2, <2>3 DEF Next, UISteps
<1>2. QED BY <1>1, TypeCorrect, RoundInvariant, PTL DEF Spec, CancelStays

-----------------------------------------------------------------------------
(* The report of a round                                                        *)

\* The inductive invariant, on top of RoundInv. A verdict stands until its upload, unless
\* a keystroke put an older text over it; a report is there only in the last steps of its
\* round; a check that was not skipped and whose result is good was measured by this round.
VerdictStands ==
    \A t \in Threads : pc[t] = "upload" /\ ~overwritten => testResult = VerdictText

ReportIsLast == report # NoReport => \E t \in Threads : pc[t] \in {"box", "close", "null"}

Good(c) == c \in Required /\ res[c] => c \in passed

MeasuredSoFar ==
    \A t \in Threads :
        /\ pc[t] \in {"mic", "micWait", "verdict"} /\ ~cancel => Good("net")
        /\ pc[t] = "verdict" /\ ~cancel => Good("spkmic")
        /\ pc[t] = "upload" => Good("net") /\ Good("spkmic")

ReportInv == DoneIsSettled /\ VerdictStands /\ ReportIsLast /\ MeasuredSoFar
                /\ ReportAgrees /\ ReportIsMeasured

\* The steps of the UI thread and of the detection thread keep the invariant.
LEMMA ReportUI ==
    ASSUME TypeOK, RoundInv, ReportInv, UISteps
    PROVE  ReportInv'
<1> USE DEF ReportInv
<1>1. /\ UNCHANGED <<res, report, passed>> /\ resultDone' \in {resultDone, FALSE}
      /\ overwritten => overwritten'
  BY UIFrame
<1>2. \A t \in Threads : pc'[t] # pc[t] => pc[t] = "idle" /\ pc'[t] = "start"
  BY UIFrame
<1>3. ASSUME NEW t \in Threads, pc[t] \in Working
      PROVE  UNCHANGED pc /\ (cancel => cancel')
  BY <1>3, UIFrame
<1>4. DoneIsSettled'
  BY <1>1, <1>2 DEF DoneIsSettled
<1>5. VerdictStands'
  <2> SUFFICES ASSUME NEW t \in Threads, pc'[t] = "upload", ~overwritten'
               PROVE  testResult' = VerdictText'
    BY DEF VerdictStands
  <2>1. pc[t] = "upload" /\ ~overwritten
    BY <1>1, <1>2
  <2>2. UNCHANGED testResult
    BY <2>1, UIFrame
  <2>3. UNCHANGED VerdictText
    BY <1>1 DEF VerdictText, Failed
  <2>4. QED BY <2>1, <2>2, <2>3 DEF VerdictStands
<1>6. ReportIsLast' /\ ReportAgrees' /\ ReportIsMeasured'
  BY <1>1, <1>2 DEF ReportIsLast, ReportAgrees, ReportIsMeasured
<1>7. MeasuredSoFar'
  <2> SUFFICES ASSUME NEW t \in Threads
               PROVE /\ pc'[t] \in {"mic", "micWait", "verdict"} /\ ~cancel' => Good("net")'
                     /\ pc'[t] = "verdict" /\ ~cancel' => Good("spkmic")'
                     /\ pc'[t] = "upload" => Good("net")' /\ Good("spkmic")'
    BY DEF MeasuredSoFar
  <2>1. pc'[t] \in {"mic", "micWait", "verdict", "upload"} => pc'[t] = pc[t] /\ (cancel => cancel')
    BY <1>2, <1>3 DEF Working, PcStates, TypeOK, TestType
  <2>2. Good("net")' <=> Good("net")
    BY <1>1 DEF Good
  <2>3. Good("spkmic")' <=> Good("spkmic")
    BY <1>1 DEF Good
  <2>4. QED BY <2>1, <2>2, <2>3 DEF MeasuredSoFar
<1>8. QED BY <1>4, <1>5, <1>6, <1>7

\* A step of a test thread is one of the only thread that runs.
LEMMA OnlyStep ==
    ASSUME TypeOK, RoundInv, NEW t \in Threads, NEW l, NEW m, Step(t, l, m), l # "idle"
    PROVE  /\ pc[t] = l /\ pc'[t] = m /\ cancel' = cancel
           /\ \A u \in Threads : u # t => pc[u] = "idle" /\ pc'[u] = "idle"
<1>1. OneTest
  BY DEF RoundInv, RunningIsKnown, OneTest
<1>2. pc[t] = l /\ pc'[t] = m /\ \A u \in Threads : u # t => pc'[u] = pc[u]
  BY StepFrame
<1>3. QED BY <1>1, <1>2 DEF OneTest, Step

\* What recording results does to the results that count.
LEMMA MeasuredGood ==
    ASSUME TypeOK, NEW which \in SUBSET Checks, NEW good, Measured(which, good)
    PROVE  /\ \A c \in which : Good(c)'
           /\ \A c \in Checks : Good(c) => Good(c)'
<1>1. ASSUME NEW c \in which PROVE res'[c] => c \in passed'
  <2>1. res'[c] = (c \in good)
    BY Zenon DEF Measured
  <2>2. QED BY <2>1 DEF Measured
<1>2. ASSUME NEW c \in Checks \ which PROVE res'[c] = res[c] /\ (c \in passed => c \in passed')
  BY DEF Measured
<1>3. QED BY <1>1, <1>2 DEF Good

\* The steps before the verdict keep the invariant: no report is there yet, and a check
\* is left out only by a round that is cancelled, or by the ini file.
LEMMA ReportMeasuring ==
    ASSUME TypeOK, RoundInv, ReportInv, NEW t \in Threads,
           \/ TestStart(t) \/ BurnSend(t) \/ BurnFails(t) \/ NetStart(t) \/ NetKill(t)
           \/ MicSend(t) \/ TestSkip(t)
           \/ \E good : BurnReply(t, good) \/ NetResult(t, good) \/ MicResult(t, good)
    PROVE  ReportInv'
<1> USE DEF ReportInv
<1>1. \A l \in PcStates \ {"idle", "upload", "box", "close", "null"} : pc[t] = l =>
        report = NoReport
  <2>1. OneTest
    BY DEF RoundInv, RunningIsKnown, OneTest
  <2>2. QED BY <2>1 DEF ReportIsLast, OneTest
<1>2. ASSUME NEW l, NEW m, Step(t, l, m), UNCHANGED <<report, resultDone, overwritten>>,
             l \in {"burn", "burnWait", "net", "netWait", "mic", "micWait", "verdict"},
             m \in {"burnWait", "net", "netWait", "mic", "micWait", "verdict", "close"},
             m \in {"mic", "micWait", "verdict"} /\ ~cancel => Good("net")',
             m = "verdict" /\ ~cancel => Good("spkmic")',
             l = "verdict" => m = "close"
      PROVE  ReportInv'
  <2>1. /\ pc[t] = l /\ pc'[t] = m /\ cancel' = cancel
        /\ \A u \in Threads : u # t => pc[u] = "idle" /\ pc'[u] = "idle"
    BY <1>2, OnlyStep
  <2>2. report' = NoReport
    BY <1>1, <1>2, <2>1 DEF PcStates
  <2>3. DoneIsSettled'
    BY <1>2, <2>1 DEF DoneIsSettled
  <2>4. VerdictStands' /\ MeasuredSoFar'
    BY <1>2, <2>1 DEF VerdictStands, MeasuredSoFar
  <2>5. ReportIsLast' /\ ReportAgrees' /\ ReportIsMeasured'
    BY <2>2 DEF ReportIsLast, ReportAgrees, ReportIsMeasured, NoReport
  <2>6. QED BY <2>3, <2>4, <2>5
<1>3. CASE TestStart(t)
  <2>1. /\ pc[t] = "start" /\ pc'[t] = "burn" /\ cancel' = cancel
        /\ \A u \in Threads : u # t => pc[u] = "idle" /\ pc'[u] = "idle"
    BY <1>3, OnlyStep DEF TestStart
  <2>2. report' = NoReport /\ resultDone' = FALSE
    BY <1>1, <1>3, <2>1 DEF TestStart, PcStates, histVars
  <2>3. DoneIsSettled' /\ VerdictStands' /\ MeasuredSoFar'
    BY <2>1, <2>2 DEF DoneIsSettled, VerdictStands, MeasuredSoFar
  <2>4. QED BY <2>2, <2>3 DEF ReportIsLast, ReportAgrees, ReportIsMeasured, NoReport
<1>4. CASE BurnSend(t) \/ BurnFails(t) \/ NetStart(t) \/ NetKill(t)
  BY <1>2, <1>4 DEF BurnSend, BurnFails, NetStart, NetKill, histVars
<1>5. ASSUME NEW good, BurnReply(t, good) PROVE ReportInv'
  BY <1>2, <1>5 DEF BurnReply
<1>6. ASSUME NEW good, NetResult(t, good) PROVE ReportInv'
  <2>1. Good("net")'
    BY <1>6, MeasuredGood DEF NetResult, Checks
  <2>2. QED BY <1>2, <1>6, <2>1 DEF NetResult
<1>7. UNCHANGED <<res, passed>> => (Good("net") => Good("net")') /\ (Good("spkmic") => Good("spkmic")')
  BY DEF Good
<1>8. pc[t] \in {"mic", "micWait", "verdict"} /\ ~cancel => Good("net")
  BY DEF MeasuredSoFar
<1>9. CASE MicSend(t)
  <2>1. Step(t, "mic", "micWait") /\ UNCHANGED <<res, passed, report, resultDone, overwritten>>
    BY <1>9 DEF MicSend, histVars
  <2>2. pc[t] = "mic"
    BY <2>1, OnlyStep
  <2>3. QED BY <1>2, <1>7, <1>8, <2>1, <2>2
<1>10. ASSUME NEW good, MicResult(t, good) PROVE ReportInv'
  <2>1. Step(t, "micWait", "verdict") /\ UNCHANGED <<report, resultDone, overwritten>>
    BY <1>10 DEF MicResult
  <2>2. Good("spkmic")' /\ (Good("net") => Good("net")')
    BY <1>10, MeasuredGood DEF MicResult, Checks
  <2>3. pc[t] = "micWait"
    BY <2>1, OnlyStep
  <2>4. QED BY <1>2, <1>8, <2>1, <2>2, <2>3
<1>11. CASE TestSkip(t)
  <2>1. UNCHANGED <<res, passed, report, resultDone, overwritten>>
    BY <1>11 DEF TestSkip, histVars
  <2>2. CASE (cancel \/ SkipSpkMic) /\ Step(t, "mic", "verdict")
    <3>1. pc[t] = "mic"
      BY <2>2, OnlyStep
    <3>2. SkipSpkMic => Good("spkmic")'
      BY DEF Good, Required
    <3>3. QED BY <1>2, <1>7, <1>8, <2>1, <2>2, <3>1, <3>2
  <2>3. CASE cancel /\ (Step(t, "burn", "net") \/ Step(t, "net", "mic") \/ Step(t, "verdict", "close"))
    BY <1>2, <2>1, <2>3
  <2>4. QED BY <1>11, <2>2, <2>3 DEF TestSkip
<1>12. QED BY <1>3, <1>4, <1>5, <1>6, <1>9, <1>10, <1>11

\* The verdict, the upload and the end of the round keep the invariant.
LEMMA ReportEnding ==
    ASSUME TypeOK, RoundInv, ReportInv, NEW t \in Threads,
           \/ Verdict(t) \/ (\E a \in BOOLEAN : Upload(t, a)) \/ NoUpload(t)
           \/ UploadBoxClosed(t) \/ TestClosesHandle(t) \/ TestEnds(t)
    PROVE  ReportInv'
<1> USE DEF ReportInv
<1>1. ASSUME NEW l, NEW m, Step(t, l, m), l # "idle"
      PROVE  /\ pc[t] = l /\ pc'[t] = m
             /\ \A u \in Threads : u # t => pc[u] = "idle" /\ pc'[u] = "idle"
  BY <1>1, OnlyStep
<1>2. CASE Verdict(t)
  <2>1. /\ pc[t] = "verdict" /\ pc'[t] = "upload" /\ UNCHANGED <<res, report, passed>>
        /\ \A u \in Threads : u # t => pc[u] = "idle" /\ pc'[u] = "idle"
    BY <1>1, <1>2 DEF Verdict, histVars
  <2>2. Good("net")' /\ Good("spkmic")'
    BY <1>2, <2>1 DEF Verdict, MeasuredSoFar, Good
  <2>3. report' = NoReport
    BY <2>1 DEF ReportIsLast
  <2>4. VerdictStands'
    BY <1>2, <2>1 DEF Verdict, VerdictStands, VerdictText, Failed
  <2>5. QED
    BY <2>1, <2>2, <2>3, <2>4 DEF DoneIsSettled, MeasuredSoFar, ReportIsLast, ReportAgrees,
       ReportIsMeasured, NoReport
<1>3. ASSUME NEW a \in BOOLEAN, Upload(t, a) PROVE ReportInv'
  <2>1. /\ pc[t] = "upload" /\ pc'[t] \in {"close", "box"} /\ UNCHANGED <<res, passed>>
        /\ \A u \in Threads : u # t => pc[u] = "idle" /\ pc'[u] = "idle"
    BY <1>1, <1>3 DEF Upload
  <2>2. report' = [sn |-> curSN, result |-> testResult, err |-> Failed]
    BY <1>3 DEF Upload
  <2>3. ~overwritten' => testResult = VerdictText
    BY <1>3, <2>1 DEF Upload, VerdictStands
  <2>4. ReportAgrees'
    BY <2>2, <2>3 DEF ReportAgrees, VerdictText
  <2>5. ReportIsMeasured'
    <3>1. Good("net") /\ Good("spkmic")
      BY <2>1 DEF MeasuredSoFar
    <3>2. QED BY <2>1, <2>2, <3>1 DEF ReportIsMeasured, Failed, Good
  <2>6. QED
    BY <2>1, <2>4, <2>5 DEF DoneIsSettled, VerdictStands, ReportIsLast, MeasuredSoFar
<1>4. CASE NoUpload(t) \/ UploadBoxClosed(t) \/ TestClosesHandle(t)
  <2>1. /\ pc[t] \in {"upload", "box", "close"} /\ pc'[t] \in {"close", "null"}
        /\ \A u \in Threads : u # t => pc[u] = "idle" /\ pc'[u] = "idle"
    BY <1>1, <1>4 DEF NoUpload, UploadBoxClosed, TestClosesHandle
  <2>2. UNCHANGED <<res, resultDone, report, passed, overwritten>>
    BY <1>4 DEF NoUpload, UploadBoxClosed, TestClosesHandle, histVars
  <2>3. QED
    BY <2>1, <2>2 DEF DoneIsSettled, VerdictStands, ReportIsLast, MeasuredSoFar, ReportAgrees,
       ReportIsMeasured
<1>5. CASE TestEnds(t)
  <2>1. /\ pc[t] = "null" /\ pc'[t] = "idle" /\ report' = NoReport
        /\ \A u \in Threads : u # t => pc[u] = "idle" /\ pc'[u] = "idle"
    BY <1>1, <1>5 DEF TestEnds
  <2>2. QED
    BY <2>1 DEF DoneIsSettled, VerdictStands, ReportIsLast, MeasuredSoFar, ReportAgrees,
       ReportIsMeasured
<1>6. QED BY <1>2, <1>3, <1>4, <1>5

\* Every step keeps the invariant.
LEMMA ReportNext == TypeOK /\ RoundInv /\ ReportInv /\ [Next]_vars => ReportInv'
<1> SUFFICES ASSUME TypeOK, RoundInv, ReportInv, [Next]_vars PROVE ReportInv'
  OBVIOUS
<1>1. CASE UISteps
  BY <1>1, ReportUI
<1>2. ASSUME NEW t \in Threads, TestStep(t) \/ UploadBoxClosed(t) PROVE ReportInv'
  BY <1>2, ReportMeasuring, ReportEnding DEF TestStep
<1>3. CASE IperfRuns \/ IperfExits \/ UNCHANGED vars
  <2>1. UNCHANGED <<cancel, pc, res, resultDone, testResult, report, passed, overwritten>>
    BY <1>3 DEF IperfRuns, IperfExits, vars, ctlVars, testVars, histVars
  <2>2. QED
    BY <2>1 DEF ReportInv, DoneIsSettled, VerdictStands, ReportIsLast, MeasuredSoFar,
       VerdictText, ReportAgrees, ReportIsMeasured, Failed, Good
<1>4. QED BY <1>1, <1>2, <1>3 DEF Next, UISteps

\* What is reported of a round was measured by it, and is its verdict unless a change of the
\* scan control put an older text over it.
THEOREM ReportInvariant == Spec => []ReportInv
<1>1. Init => ReportInv
  BY DEF Init, ReportInv, DoneIsSettled, VerdictStands, ReportIsLast, MeasuredSoFar,
     ReportAgrees, ReportIsMeasured
<1>2. QED BY <1>1, ReportNext, TypeCorrect, RoundInvariant, PTL DEF Spec

\* MES gets OK exactly when it gets no error code, whatever the UI thread does between the
\* verdict and the upload, short of a change of the scan control that puts an older text
\* over the verdict.
THEOREM ReportsAgree == Spec => []ReportAgrees
<1>1. ReportInv => ReportAgrees
  BY DEF ReportInv
<1>2. QED BY <1>1, ReportInvariant, PTL

\* A throughput or microphone test that is reported as passed was measured by this round.
THEOREM ReportsAreMeasured == Spec => []ReportIsMeasured
<1>1. ReportInv => ReportIsMeasured
  BY DEF ReportInv
<1>2. QED BY <1>1, ReportInvariant, PTL

\* A result of an earlier round is never shown for the one in progress.
THEOREM ResultsAreSettled == Spec => []DoneIsSettled
<1>1. ReportInv => DoneIsSettled
  BY DEF ReportInv
<1>2. QED BY <1>1, ReportInvariant, PTL

-----------------------------------------------------------------------------
(* SNStation implements StationRound                                         *)

\* The abstract state: a round is in progress, and it has filed its report.
Testing == \E t \in Threads : pc[t] \in Working
Filed   == report # NoReport /\ Testing

PromiseVars == <<deviceIP, Testing, Filed>>

PromiseStep == Promise!Next \/ UNCHANGED Promise!vars

\* The steps of StationRound, on that state.
LEMMA PromiseSteps ==
    /\ UNCHANGED PromiseVars => PromiseStep
    /\ \A d \in Devices :
         deviceIP = NoDev /\ deviceIP' = d /\ ~Testing /\ ~Filed /\ ~Filed' => PromiseStep
    /\ deviceIP # NoDev /\ deviceIP' = deviceIP /\ ~Testing /\ Testing' /\ ~Filed /\ ~Filed'
         => PromiseStep
    /\ deviceIP' = deviceIP /\ Testing /\ Testing' /\ ~Filed /\ Filed' => PromiseStep
    /\ deviceIP' = deviceIP /\ Testing /\ ~Testing' /\ ~Filed' => PromiseStep
    /\ deviceIP # NoDev /\ deviceIP' = NoDev /\ ~Testing /\ ~Testing' /\ ~Filed /\ ~Filed'
         => PromiseStep
<1> USE DEF PromiseStep, Promise!Next, Promise!vars, Promise!Attach, Promise!AttachAndBegin,
      Promise!Begin, Promise!File, Promise!End, Promise!Detach, Testing, Filed, PromiseVars
<1>1. UNCHANGED PromiseVars => PromiseStep
  OBVIOUS
<1>2. \A d \in Devices :
        deviceIP = NoDev /\ deviceIP' = d /\ ~Testing /\ ~Filed /\ ~Filed' => PromiseStep
  OBVIOUS
<1>3. deviceIP # NoDev /\ deviceIP' = deviceIP /\ ~Testing /\ Testing' /\ ~Filed /\ ~Filed'
        => PromiseStep
  OBVIOUS
<1>4. deviceIP' = deviceIP /\ Testing /\ Testing' /\ ~Filed /\ Filed' => PromiseStep
  OBVIOUS
<1>5. deviceIP' = deviceIP /\ Testing /\ ~Testing' /\ ~Filed' => PromiseStep
  OBVIOUS
<1>6. deviceIP # NoDev /\ deviceIP' = NoDev /\ ~Testing /\ ~Testing' /\ ~Filed /\ ~Filed'
        => PromiseStep
  OBVIOUS
<1>7. QED BY <1>1, <1>2, <1>3, <1>4, <1>5, <1>6

\* The steps of the UI thread and of the detection thread attach, begin, detach or stutter.
LEMMA RefineUI ==
    ASSUME TypeOK, RoundInv, ReportInv, RoundKeepsDevice', UISteps
    PROVE  PromiseStep
<1>1. /\ UNCHANGED report
      /\ Testing => UNCHANGED pc
      /\ \A t \in Threads : pc'[t] # pc[t] => \A u \in Threads : pc[u] = "idle"
  BY UIFrame DEF Testing
<1>2. ~Testing => ~Filed'
  <2> SUFFICES ASSUME ~Testing, Testing' PROVE report = NoReport
    BY <1>1 DEF Filed
  <2>1. PICK t \in Threads : pc'[t] \in Working
    BY DEF Testing
  <2>2. \A u \in Threads : pc[u] = "idle"
    BY <1>1, <2>1 DEF Testing
  <2>3. QED BY <2>2 DEF ReportInv, ReportIsLast
<1>3. deviceIP = NoDev => ~Testing
  BY DEF Testing, RoundInv, RoundKeepsDevice
<1>4. Testing => Testing' /\ (Filed' <=> Filed)
  BY <1>1 DEF Testing, Filed
<1>5. ASSUME NEW d \in Devices, FoundConnected(d) PROVE PromiseStep
  <2>1. deviceIP = NoDev /\ deviceIP' = d
    BY <1>5 DEF FoundConnected
  <2>2. QED BY <1>2, <1>3, <2>1, PromiseSteps DEF Filed
<1>6. CASE LostClears
  <2>1. deviceIP' = NoDev /\ UNCHANGED pc
    BY <1>6 DEF LostClears
  <2>2. ~Testing
    <3>1. ~Testing'
      BY <2>1 DEF Testing, RoundKeepsDevice
    <3>2. QED BY <1>4, <3>1
  <2>3. ~Testing'
    BY <2>1, <2>2 DEF Testing
  <2>4. ~Filed /\ ~Filed'
    BY <1>2, <2>2 DEF Filed
  <2>5. CASE deviceIP = NoDev
    <3>1. UNCHANGED deviceIP
      BY <2>1, <2>5
    <3>2. UNCHANGED Testing /\ UNCHANGED Filed
      BY <2>2, <2>3 DEF Testing, Filed
    <3>3. QED BY <3>1, <3>2, PromiseSteps DEF PromiseVars
  <2>6. CASE deviceIP # NoDev
    BY <2>1, <2>2, <2>3, <2>4, <2>6, PromiseSteps
  <2>7. QED BY <2>5, <2>6
<1>7. CASE UNCHANGED deviceIP
  <2>1. CASE Testing
    BY <1>4, <1>7, <2>1, PromiseSteps DEF PromiseVars, Testing, Filed
  <2>2. CASE ~Testing /\ Testing'
    <3>1. deviceIP # NoDev
      BY <1>7, <2>2 DEF Testing, RoundKeepsDevice
    <3>2. QED BY <1>2, <1>7, <2>2, <3>1, PromiseSteps DEF Filed
  <2>3. CASE ~Testing /\ ~Testing'
    <3>1. UNCHANGED Testing /\ UNCHANGED Filed
      BY <2>3 DEF Testing, Filed
    <3>2. QED BY <1>7, <3>1, PromiseSteps DEF PromiseVars
  <2>4. QED BY <2>1, <2>2, <2>3
<1>8. CASE Detection \/ StoreHandle \/ StopTestsHandle \/ StopWaits \/ Destroy \/ ScanBoxClosed
             \/ ScanBegins \/ UpdateUI \/ Keystroke
  BY <1>7, <1>8 DEF Detection, PostFound, PostLost, StoreHandle, StopTestsHandle, StopWaits,
     Destroy, ScanBoxClosed, ScanBegins, UpdateUI, Keystroke, snVars
<1>9. ASSUME NEW d \in Devices,
             FoundIgnored(d) \/ FoundConnectFailed(d) \/ LostIgnored(d) \/ LostCurrent(d)
      PROVE  PromiseStep
  BY <1>7, <1>9 DEF FoundIgnored, FoundConnectFailed, LostIgnored, LostCurrent, snVars
<1>10. ASSUME NEW s, Scan(s) PROVE PromiseStep
  BY <1>7, <1>10 DEF Scan
<1>11. ASSUME NEW yes, ScanRoute(yes) \/ ScanMac(yes) PROVE PromiseStep
  BY <1>7, <1>11 DEF ScanRoute, ScanMac, snVars
<1>12. QED
  BY <1>5, <1>6, <1>8, <1>9, <1>10, <1>11
  DEF UISteps, FoundHandler, LostHandler, StopSteps, ScanSteps

\* The steps of a test thread file the report, end the round or stutter.
LEMMA RefineTest ==
    ASSUME TypeOK, RoundInv, ReportInv, NEW t \in Threads, TestStep(t) \/ UploadBoxClosed(t)
    PROVE  PromiseStep
<1>1. ASSUME NEW l, NEW m, Step(t, l, m), l # "idle"
      PROVE  /\ UNCHANGED deviceIP /\ pc[t] = l /\ pc'[t] = m
             /\ Testing <=> l \in Working
             /\ Testing' <=> m \in Working
  <2>1. UNCHANGED deviceIP
    BY <1>1, StepFrame
  <2>2. /\ pc[t] = l /\ pc'[t] = m
        /\ \A u \in Threads : u # t => pc[u] = "idle" /\ pc'[u] = "idle"
    BY <1>1, OnlyStep
  <2>3. QED BY <2>1, <2>2 DEF Testing, Working
<1>2. ASSUME NEW l \in Working, NEW m \in Working, Step(t, l, m), UNCHANGED report
      PROVE  PromiseStep
  <2>1. UNCHANGED deviceIP /\ Testing /\ Testing'
    BY <1>1, <1>2 DEF Working
  <2>2. QED BY <1>2, <2>1, PromiseSteps DEF PromiseVars, Testing, Filed
<1>3. {"start", "burn", "burnWait", "net", "netWait", "mic", "micWait", "verdict", "upload",
       "box", "close"} \subseteq Working
  BY DEF Working, PcStates
<1>4. CASE TestStart(t) \/ BurnSend(t) \/ BurnFails(t) \/ NetStart(t) \/ NetKill(t) \/ MicSend(t)
  BY <1>2, <1>3, <1>4
  DEF TestStart, BurnSend, BurnFails, NetStart, NetKill, MicSend, histVars
<1>5. CASE TestSkip(t) \/ Verdict(t) \/ NoUpload(t) \/ UploadBoxClosed(t)
  BY <1>2, <1>3, <1>5 DEF TestSkip, Verdict, NoUpload, UploadBoxClosed, histVars
<1>6. CASE \E good : BurnReply(t, good) \/ NetResult(t, good) \/ MicResult(t, good)
  BY <1>2, <1>3, <1>6 DEF BurnReply, NetResult, MicResult
<1>7. ASSUME NEW a \in BOOLEAN, Upload(t, a) PROVE PromiseStep
  <2>1. /\ UNCHANGED deviceIP /\ pc[t] = "upload" /\ Testing /\ Testing'
    BY <1>1, <1>3, <1>7 DEF Upload
  <2>2. report = NoReport
    <3>1. OneTest
      BY DEF RoundInv, RunningIsKnown, OneTest
    <3>2. QED BY <2>1, <3>1 DEF ReportInv, ReportIsLast, OneTest
  <2>3. curSN # NoSN
    BY <1>3, <2>1 DEF RoundInv, RoundKeepsDevice
  <2>4. report'.sn = curSN /\ NoReport.sn = NoSN
    BY <1>7 DEF Upload, NoReport
  <2>5. QED BY <2>1, <2>2, <2>3, <2>4, PromiseSteps DEF Filed
<1>8. CASE TestClosesHandle(t)
  <2>1. UNCHANGED deviceIP /\ Testing /\ ~Testing'
    BY <1>1, <1>3, <1>8 DEF TestClosesHandle, Working
  <2>2. QED BY <2>1, PromiseSteps DEF Filed
<1>9. CASE TestEnds(t)
  <2>1. UNCHANGED deviceIP /\ ~Testing /\ ~Testing'
    BY <1>1, <1>9 DEF TestEnds, Working
  <2>2. QED BY <2>1, PromiseSteps DEF PromiseVars, Testing, Filed
<1>10. QED BY <1>4, <1>5, <1>6, <1>7, <1>8, <1>9 DEF TestStep

\* The station keeps the promise of StationRound: rounds one at a time, on the attached
\* device, with one report at most in each, and no detaching in the middle of one.
THEOREM Refinement == Spec => RoundsAsPromised
<1>1. Init => Promise!Init
  BY DEF Init, Promise!Init, Working
<1>2. TypeOK /\ RoundInv /\ ReportInv /\ RoundInv' /\ [Next]_vars => PromiseStep
  <2> SUFFICES ASSUME TypeOK, RoundInv, ReportInv, RoundInv', [Next]_vars PROVE PromiseStep
    OBVIOUS
  <2>1. CASE UISteps
    BY <2>1, RefineUI DEF RoundInv
  <2>2. CASE \E t \in Threads : TestStep(t) \/ UploadBoxClosed(t)
    BY <2>2, RefineTest
  <2>3. CASE IperfRuns \/ IperfExits \/ UNCHANGED vars
    <3>1. UNCHANGED <<deviceIP, pc, report>>
      BY <2>3 DEF IperfRuns, IperfExits, vars, snVars, testVars, histVars
    <3>2. QED BY <3>1, PromiseSteps DEF PromiseVars, Testing, Filed
  <2>4. QED BY <2>1, <2>2, <2>3 DEF Next, UISteps
<1>3. PromiseStep => [Promise!Next]_Promise!vars
  BY DEF PromiseStep
<1>4. QED
  BY <1>1, <1>2, <1>3, TypeCorrect, RoundInvariant, ReportInvariant, PTL
  DEF Spec, RoundsAsPromised, Promise!Spec
=============================================================================
