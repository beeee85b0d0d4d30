--------------------------- MODULE FullStationProofs ----------------------------
(* Theorems about FullStation, for every set of addresses, serial numbers and     *)
(* results, with and without a MES, and every bound of the message queue.         *)
EXTENDS FullStation, TLAPS

\* The results of the buttons, of the check and of the announcements.
LEMMA ResultSets ==
  /\ Manual \subseteq Checks /\ Measured \subseteq Checks /\ Announced \subseteq Checks
  /\ Manual \cap (Measured \cup Announced) = {}
  /\ "sn" \in Checks /\ "sn" \in Measured /\ "sn" \notin Manual /\ "sn" \notin Announced
BY FullAssumption DEF Manual, Measured, Announced

-----------------------------------------------------------------------------
(* Types                                                                         *)

Message == [type : {"found", "lost", "type"}, addr : Addrs, bits : SUBSET Announced]
Numbers   == SNs \cup {NoSN}

NetType  == /\ dev \in [Addrs -> Numbers] /\ clearing \in Addrs \cup {NoAddr}
            /\ queue \in Seq(Message)
ListType == listed \subseteq Addrs /\ listSN \in [Addrs -> Numbers]
LinkType == conn \in Addrs \cup {NoAddr} /\ peer \in Numbers
ScanType == /\ mesLoginOK \in BOOLEAN /\ curSN \in Numbers /\ curMac \in SNs \cup {NoSN, FixedMac}
            /\ deviceIP \in Addrs \cup {NoAddr}
UIType   == snScaned \in BOOLEAN /\ timer \in BOOLEAN /\ box \in {"none", "scan", "upload"}
ResType  == res \in [Checks -> {"none", "NG", "OK"}]
HistType == /\ aged \in Numbers /\ uploaded \in BOOLEAN /\ tested \in Numbers
            /\ untested \in BOOLEAN

Types == NetType /\ ListType /\ LinkType /\ ScanType /\ UIType /\ ResType /\ HistType

\* The type invariant, part by part.
LEMMA TypeParts == Types <=> TypeOK
BY DEF Types, NetType, ListType, LinkType, ScanType, UIType, ResType, HistType, Message, Numbers,
       TypeOK

\* Posting keeps the queue a sequence of messages.
LEMMA PostKeepsType ==
  ASSUME NetType, NEW type \in {"found", "lost", "type"}, NEW a \in Addrs,
         NEW bits \in SUBSET Announced, Post(type, a, bits)
  PROVE  queue' \in Seq(Message)
<1>1. [type |-> type, addr |-> a, bits |-> bits] \in Message
  BY DEF Message
<1> QED
  BY <1>1 DEF Post, NetType

\* Dispatching keeps it.
LEMMA DispatchKeepsType ==
  ASSUME NetType, NEW type, NEW a, NEW bits, Dispatch(type, a, bits)
  PROVE  queue' \in Seq(Message)
BY DEF Dispatch, NetType

\* The results after a check are results, and that of the serial number compares it with
\* the one in the device's flash.
LEMMA AnsweredResults ==
  ASSUME ResType, NEW p, NEW s, NEW mac, Answered(p, s, mac)
  PROVE  /\ ResType' /\ tested' = p /\ untested' = FALSE
         /\ res'["sn"] = "OK" => p = s
         /\ \A c \in Checks : c \notin Measured => res'[c] = res[c]
<1>1. PICK good \in SUBSET (Measured \ {"sn", "mac"}) :
        res' = [c \in Checks |->
                  CASE c = "sn"      -> Outcome(CheckSN(p, s))
                    [] c = "mac"     -> Outcome(p = mac)
                    [] c \in Measured \ {"sn", "mac"} -> Outcome(c \in good)
                    [] OTHER         -> res[c]]
  BY DEF Answered
<1>2. \A good_ : Outcome(good_) \in {"NG", "OK"} /\ (Outcome(good_) = "OK" => good_)
  BY DEF Outcome
<1>3. /\ \A c \in Checks : res'[c] \in {"NG", "OK"} \/ res'[c] = res[c]
      /\ DOMAIN res' = Checks /\ res' = [c \in Checks |-> res'[c]]
  BY <1>1, <1>2
<1>4. ResType'
  BY <1>3 DEF ResType
<1>5. res'["sn"] = "OK" => p = s
  BY <1>1, <1>2, ResultSets DEF CheckSN
<1>6. ASSUME NEW c \in Checks, c \notin Measured PROVE res'[c] = res[c]
  <2>1. c # "sn" /\ (c = "mac" => FALSE)
    BY <1>6, ResultSets DEF Measured
  <2> QED
    BY <1>1, <1>6, <2>1
<1> QED
  BY <1>4, <1>5, <1>6 DEF Answered

\* What the station makes of a scanned serial number keeps the types.
LEMMA ReachKeepsType ==
  ASSUME Types, NEW s, NEW mac, Reach(s, mac)
  PROVE  /\ ListType' /\ LinkType' /\ ResType' /\ deviceIP' \in Addrs \cup {NoAddr}
         /\ tested' \in Numbers /\ untested' \in BOOLEAN
<1> USE DEF Types
<1>1. CASE NotListed(s)
  BY <1>1 DEF NotListed, linkVars, ListType, LinkType, ResType, ScanType, HistType
<1>2. ASSUME NEW a \in Addrs, ConnectFailed(a, s)
      PROVE  /\ ListType' /\ LinkType' /\ ResType' /\ deviceIP' \in Addrs \cup {NoAddr}
             /\ tested' \in Numbers /\ untested' \in BOOLEAN
  BY <1>2 DEF ConnectFailed, ListType, LinkType, ResType, ScanType, HistType, Numbers
<1>3. ASSUME NEW a \in Addrs, Reached(a, s, mac)
      PROVE  /\ ListType' /\ LinkType' /\ ResType' /\ deviceIP' \in Addrs \cup {NoAddr}
             /\ tested' \in Numbers /\ untested' \in BOOLEAN
  <2>1. dev[a] \in Numbers
    BY DEF NetType
  <2>2. ListType' /\ LinkType' /\ deviceIP' \in Addrs \cup {NoAddr}
    BY <1>3, <2>1 DEF Reached, NotAnswered, ReadsZeros, ListType, LinkType, Numbers
  <2>3. CASE Answered(dev[a], s, mac)
    BY <2>1, <2>2, <2>3, AnsweredResults
  <2>4. CASE (NotAnswered(dev[a]) \/ ReadsZeros) /\ untested' = TRUE /\ UNCHANGED tested
    <3>1. ResType'
      BY <2>4 DEF NotAnswered, ReadsZeros, ResType
    <3> QED
      BY <2>2, <2>4, <3>1 DEF HistType
  <2> QED
    BY <1>3, <2>3, <2>4 DEF Reached
<1> QED
  BY <1>1, <1>2, <1>3 DEF Reach

\* Type correctness of the station, for every set of labels, devices and results.
THEOREM TypeCorrect == Spec => []TypeOK
<1>1. Init => Types
  <2> SUFFICES ASSUME Init PROVE Types
    OBVIOUS
  <2>1. NetType /\ ListType /\ LinkType
    BY DEF Init, NetType, ListType, LinkType, Numbers
  <2>2. ScanType /\ UIType
    BY FullAssumption DEF Init, ScanType, UIType, Numbers
  <2>3. ResType /\ HistType
    BY DEF Init, NoResults, ResType, HistType, Numbers
  <2> QED
    BY <2>1, <2>2, <2>3 DEF Types
<1>2. Types /\ [Next]_vars => Types'
  <2> SUFFICES ASSUME Types, [Next]_vars PROVE Types'
    OBVIOUS
  <2> USE DEF Types, netVars, linkVars, scanVars, uiVars, histVars
  <2>1. CASE Devices
    <3>1. UNCHANGED <<clearing, queue, listed, listSN, conn, uiVars, res, aged, histVars>>
      BY <2>1 DEF Devices, PowerOn, PowerOff
    <3>2. dev' \in [Addrs -> Numbers] /\ peer' \in Numbers
      BY <2>1 DEF Devices, PowerOn, PowerOff, NetType, LinkType, Numbers
    <3> QED
      BY <3>1, <3>2 DEF NetType, ListType, LinkType, ScanType, UIType, ResType, HistType
  <2>2. CASE Detection
    <3>1. UNCHANGED <<dev, linkVars, uiVars, res, aged, histVars>>
      BY <2>2 DEF Detection, ClearSlot, PostFound, StoreSN, PostLost, PostType
    <3>2. ListType' /\ clearing' \in Addrs \cup {NoAddr}
      BY <2>2 DEF Detection, ClearSlot, PostFound, StoreSN, PostLost, PostType, ListType, NetType,
                  Numbers
    <3>3. queue' \in Seq(Message)
      <4>1. ASSUME NEW a \in Addrs, PostFound(a) \/ PostLost(a) PROVE queue' \in Seq(Message)
        BY <4>1, PostKeepsType DEF PostFound, PostLost
      <4>2. ASSUME NEW a \in Addrs, NEW bits \in SUBSET Announced, PostType(a, bits)
            PROVE  queue' \in Seq(Message)
        BY <4>2, PostKeepsType DEF PostType
      <4>3. ASSUME NEW a \in Addrs, ClearSlot \/ StoreSN(a) PROVE queue' \in Seq(Message)
        BY <4>3 DEF ClearSlot, StoreSN, NetType
      <4>4. CASE ClearSlot
        BY <4>4 DEF ClearSlot, NetType
      <4> QED
        BY <2>2, <4>1, <4>2, <4>3, <4>4 DEF Detection
    <3> QED
      BY <3>1, <3>2, <3>3 DEF NetType, LinkType, ScanType, UIType, ResType, HistType
  <2>3. ASSUME NEW a \in Addrs, DeviceFound(a) PROVE Types'
    <3>1. queue' \in Seq(Message)
      BY <2>3, DispatchKeepsType DEF DeviceFound
    <3>2. CASE Reach(curSN, curMac)
      <4>1. /\ ListType' /\ LinkType' /\ ResType' /\ deviceIP' \in Addrs \cup {NoAddr}
            /\ tested' \in Numbers /\ untested' \in BOOLEAN
        BY <3>2, ReachKeepsType
      <4> QED
        BY <2>3, <3>1, <4>1 DEF DeviceFound, NetType, ScanType, UIType, HistType
    <3>3. CASE UNCHANGED <<listed, listSN, linkVars, deviceIP, res, tested, untested>>
      BY <2>3, <3>1, <3>3 DEF DeviceFound, NetType, ListType, LinkType, ScanType, UIType, ResType,
                              HistType
    <3> QED
      BY <2>3, <3>2, <3>3 DEF DeviceFound
  <2>4. ASSUME NEW a \in Addrs, DeviceLost(a) PROVE Types'
    <3>1. queue' \in Seq(Message)
      BY <2>4, DispatchKeepsType DEF DeviceLost
    <3>2. conn' \in Addrs \cup {NoAddr} /\ peer' \in Numbers /\ timer' \in BOOLEAN
      BY <2>4 DEF DeviceLost, LinkType, UIType, Numbers
    <3> QED
      BY <2>4, <3>1, <3>2
         DEF DeviceLost, NetType, ListType, LinkType, ScanType, UIType, ResType, HistType
  <2>5. ASSUME NEW a \in Addrs, NEW bits \in SUBSET Announced, TypeChanged(a, bits) PROVE Types'
    <3>1. queue' \in Seq(Message)
      BY <2>5, DispatchKeepsType DEF TypeChanged
    <3>2. ResType'
      BY <2>5 DEF TypeChanged, ResType
    <3> QED
      BY <2>5, <3>1, <3>2 DEF TypeChanged, NetType, ListType, LinkType, ScanType, UIType, HistType
  <2>6. ASSUME NEW s \in SNs, ScanRefused(s) PROVE Types'
    BY <2>6 DEF ScanRefused, NetType, ListType, LinkType, ScanType, UIType, ResType, HistType,
                Numbers
  <2>7. ASSUME NEW s \in SNs, Scan(s) PROVE Types'
    <3>1. Reach(s, curMac') /\ curMac' \in SNs \cup {NoSN, FixedMac} /\ curSN' \in Numbers
      BY <2>7 DEF Scan, Numbers
    <3>2. PICK mac : mac = curMac'
      OBVIOUS
    <3>3. Reach(s, mac)
      BY <3>1, <3>2 DEF Reach, NotListed, Reached, ConnectFailed, Answered
    <3>4. /\ ListType' /\ LinkType' /\ ResType' /\ deviceIP' \in Addrs \cup {NoAddr}
          /\ tested' \in Numbers /\ untested' \in BOOLEAN
      BY <3>3, ReachKeepsType
    <3> QED
      BY <2>7, <3>1, <3>4 DEF Scan, NetType, ScanType, UIType, HistType
  <2>8. ASSUME NEW c \in Manual, Button(c) PROVE Types'
    <3>1. ResType'
      BY <2>8 DEF Button, ResType, Outcome
    <3> QED
      BY <2>8, <3>1 DEF Button, NetType, ListType, LinkType, ScanType, UIType, HistType
  <2>9. ASSUME NEW accepted \in BOOLEAN, UploadToMes(accepted) PROVE Types'
    <3>1. aged' \in Numbers
      BY <2>9 DEF UploadToMes, TestDone, HistType, LinkType, Numbers
    <3> QED
      BY <2>9, <3>1
         DEF UploadToMes, NetType, ListType, LinkType, ScanType, UIType, ResType, HistType
  <2>10. CASE UploadWithoutMes \/ UploadBoxClosed
    BY <2>10 DEF UploadWithoutMes, UploadBoxClosed, UploadOver, NetType, ListType, LinkType,
                 ScanType, UIType, ResType, HistType, Numbers
  <2>11. CASE ScanBoxClosed
    BY <2>11 DEF ScanBoxClosed, NetType, ListType, LinkType, ScanType, UIType, ResType, HistType
  <2>12. CASE NextTest
    BY <2>12 DEF NextTest, NoResults, NetType, ListType, LinkType, ScanType, UIType, ResType,
                 HistType, Numbers
  <2>13. CASE UNCHANGED vars
    BY <2>13 DEF vars, NetType, ListType, LinkType, ScanType, UIType, ResType, HistType
  <2> QED
    BY <2>1, <2>2, <2>3, <2>4, <2>5, <2>6, <2>7, <2>8, <2>9, <2>10, <2>11, <2>12, <2>13
       DEF Next, Messages, Operator
<1> QED
  BY <1>1, <1>2, TypeParts, PTL DEF Spec

-----------------------------------------------------------------------------
(* The inductive invariants                                                      *)

\* An upload that is not over has its box open.
UploadInv == uploaded /\ snScaned => box = "upload"

\* If the last scan ended in a check that found the serial number good, that number is the
\* checked device's, and the socket leads to this device or to none.
CheckedInv == ~untested /\ res["sn"] = "OK" => curSN = tested /\ peer \in {tested, NoSN}

\* The steps that scan, reset or upload are the only ones that touch the upload's state.
LEMMA UploadStep ==
  ASSUME UIType, UploadInv, [Next]_vars
  PROVE  UploadInv'
<1> USE DEF netVars, linkVars, scanVars, uiVars, histVars, UploadInv
<1>1. CASE Devices \/ Detection
  <2>1. UNCHANGED <<uploaded, snScaned, box>>
    BY <1>1 DEF Devices, PowerOn, PowerOff, Detection, ClearSlot, PostFound, StoreSN, PostLost,
                PostType
  <2> QED
    BY <2>1
<1>2. CASE Messages \/ NextTest \/ UNCHANGED vars
  <2>1. UNCHANGED <<uploaded, snScaned, box>>
    BY <1>2 DEF Messages, DeviceFound, DeviceLost, TypeChanged, NextTest, vars
  <2> QED
    BY <2>1
<1>3. CASE Operator
  <2>1. ASSUME NEW s \in SNs, ScanRefused(s) \/ Scan(s) PROVE uploaded' = FALSE
    BY <2>1 DEF ScanRefused, Scan
  <2>2. ASSUME NEW c \in Manual, Button(c) PROVE UNCHANGED <<uploaded, snScaned, box>>
    BY <2>2 DEF Button
  <2>3. ASSUME NEW accepted \in BOOLEAN, UploadToMes(accepted) PROVE box' = "upload"
    BY <2>3 DEF UploadToMes
  <2>4. UploadWithoutMes \/ UploadBoxClosed => snScaned' = FALSE
    BY DEF UploadWithoutMes, UploadBoxClosed, UploadOver
  <2>5. ScanBoxClosed => box = "scan" /\ UNCHANGED <<uploaded, snScaned>>
    BY DEF ScanBoxClosed
  <2> QED
    BY <1>3, <2>1, <2>2, <2>3, <2>4, <2>5 DEF Operator
<1> QED
  BY <1>1, <1>2, <1>3 DEF Next

\* A serial number is uploaded once for each scan of a label, whatever is dispatched while
\* the box of the upload is open (OnBnClickedBtnUploadReport clears m_bSnScaned after it).
THEOREM UploadedOnce == Spec => UploadedOncePerScan
<1>1. Spec => []UIType
  <2>1. TypeOK => UIType
    BY TypeParts DEF Types
  <2> QED
    BY <2>1, TypeCorrect, PTL
<1>2. Init => UploadInv
  BY DEF Init, UploadInv
<1>3. Spec => []UploadInv
  BY <1>1, <1>2, UploadStep, PTL DEF Spec
<1>4. UploadInv => [(\E accepted \in BOOLEAN : UploadToMes(accepted)) => ~uploaded]_vars
  BY DEF UploadInv, UploadToMes
<1> QED
  BY <1>3, <1>4, PTL DEF Spec, UploadedOncePerScan

-----------------------------------------------------------------------------
(* Results and devices                                                           *)

\* What a scan leads to: no check, or the check of the device that it is connected to; the
\* station attaches the device, or keeps the one that it has.
LEMMA ReachSteps ==
  ASSUME Types, NEW s, NEW mac, Reach(s, mac)
  PROVE  /\ \/ untested' = TRUE
            \/ /\ untested' = FALSE /\ peer' = tested' /\ (res'["sn"] = "OK" => tested' = s)
               /\ deviceIP' # NoAddr
         /\ deviceIP' = NoAddr => deviceIP = NoAddr /\ UNCHANGED res
<1> USE DEF Types
<1>1. CASE NotListed(s)
  BY <1>1 DEF NotListed
<1>2. ASSUME NEW a \in Addrs, ConnectFailed(a, s)
      PROVE  untested' = TRUE /\ UNCHANGED <<res, deviceIP>>
  BY <1>2 DEF ConnectFailed
<1>3. ASSUME NEW a \in Addrs, Reached(a, s, mac)
      PROVE  /\ \/ untested' = TRUE
                \/ untested' = FALSE /\ peer' = tested' /\ (res'["sn"] = "OK" => tested' = s)
             /\ deviceIP' # NoAddr
  <2>1. /\ deviceIP' = a /\ a # NoAddr
        /\ untested' = TRUE \/ (peer' = dev[a] /\ Answered(dev[a], s, mac))
    BY <1>3, FullAssumption DEF Reached
  <2>2. Answered(dev[a], s, mac) => /\ untested' = FALSE /\ tested' = dev[a]
                                    /\ res'["sn"] = "OK" => dev[a] = s
    BY AnsweredResults
  <2> QED
    BY <1>3, <2>1, <2>2 DEF Reached
<1> QED
  BY <1>1, <1>2, <1>3 DEF Reach

\* Resets, attached devices and the buttons: without a device no result is measured.
LEMMA ResultsStep ==
  ASSUME Types, ResultsHaveDevice, [Next]_vars
  PROVE  ResultsHaveDevice'
<1> USE DEF netVars, linkVars, scanVars, uiVars, histVars, ResultsHaveDevice
<1>1. CASE UNCHANGED <<deviceIP, res>>
  BY <1>1
<1>2. CASE Devices \/ Detection
  <2>1. UNCHANGED <<deviceIP, res>>
    BY <1>2 DEF Devices, PowerOn, PowerOff, Detection, ClearSlot, PostFound, StoreSN, PostLost,
                PostType
  <2> QED
    BY <1>1, <2>1
<1>3. ASSUME NEW s, NEW mac, Reach(s, mac) PROVE ResultsHaveDevice'
  BY <1>3, ReachSteps
<1>4. ASSUME NEW a \in Addrs, DeviceFound(a) PROVE ResultsHaveDevice'
  <2>1. Reach(curSN, curMac) \/ UNCHANGED <<deviceIP, res>>
    BY <1>4 DEF DeviceFound
  <2> QED
    BY <1>1, <1>3, <2>1
<1>5. ASSUME NEW a \in Addrs, NEW bits \in SUBSET Announced, TypeChanged(a, bits)
      PROVE  ResultsHaveDevice'
  <2>1. deviceIP' = deviceIP
    BY <1>5 DEF TypeChanged
  <2>2. deviceIP # a => \A c \in Checks : res'[c] = res[c]
    BY <1>5 DEF TypeChanged
  <2>3. a # NoAddr
    BY FullAssumption
  <2> QED
    BY <2>1, <2>2, <2>3, ResultSets
<1>6. ASSUME NEW a \in Addrs, DeviceLost(a) PROVE ResultsHaveDevice'
  BY <1>1, <1>6 DEF DeviceLost
<1>7. ASSUME NEW s \in SNs, Scan(s) PROVE ResultsHaveDevice'
  <2>1. PICK mac : mac = curMac'
    OBVIOUS
  <2>2. Reach(s, mac)
    BY <1>7, <2>1 DEF Scan, Reach, NotListed, Reached, ConnectFailed, Answered
  <2> QED
    BY <1>3, <2>2
<1>8. ASSUME NEW c \in Manual, Button(c) PROVE ResultsHaveDevice'
  <2>1. deviceIP' = deviceIP /\ \A d \in Checks : d # c => res'[d] = res[d]
    BY <1>8 DEF Button, Types, ResType
  <2> QED
    BY <2>1, ResultSets
<1>9. CASE NextTest
  BY <1>9, ResultSets DEF NextTest, NoResults
<1>10. CASE ScanBoxClosed \/ UploadBoxClosed \/ UploadWithoutMes \/ UNCHANGED vars
            \/ (\E s \in SNs : ScanRefused(s)) \/ (\E accepted \in BOOLEAN : UploadToMes(accepted))
  <2>1. UNCHANGED <<deviceIP, res>>
    BY <1>10 DEF ScanBoxClosed, UploadBoxClosed, UploadWithoutMes, UploadOver, ScanRefused,
                 UploadToMes, vars
  <2> QED
    BY <1>1, <2>1
<1> QED
  BY <1>2, <1>4, <1>5, <1>6, <1>7, <1>8, <1>9, <1>10 DEF Next, Messages, Operator

\* With no device attached there is no result that was measured or told: the timer's reset
\* is the only step that gives a device up, and it clears every result.
THEOREM ResultsHaveDeviceHolds == Spec => []ResultsHaveDevice
<1>1. Spec => []Types
  BY TypeCorrect, TypeParts, PTL
<1>2. Init => ResultsHaveDevice
  BY ResultSets DEF Init, NoResults, ResultsHaveDevice
<1> QED
  BY <1>1, <1>2, ResultsStep, PTL DEF Spec

\* A good check stays that of the scanned number and of the device at the socket.
LEMMA CheckedStep ==
  ASSUME Types, CheckedInv, [Next]_vars
  PROVE  CheckedInv'
<1> USE DEF netVars, linkVars, scanVars, uiVars, histVars, CheckedInv
<1>0. "sn" \in Checks
  BY ResultSets
<1>1. CASE UNCHANGED <<untested, tested, curSN>> /\ peer' \in {peer, NoSN} /\ res'["sn"] = res["sn"]
  BY <1>1
<1>2. CASE Devices \/ Detection
  <2>1. UNCHANGED <<untested, tested, curSN, res>> /\ peer' \in {peer, NoSN}
    BY <1>2 DEF Devices, PowerOn, PowerOff, Detection, ClearSlot, PostFound, StoreSN, PostLost,
                PostType
  <2> QED
    BY <1>1, <2>1
<1>3. ASSUME NEW s, NEW mac, Reach(s, mac), curSN' = s PROVE CheckedInv'
  BY <1>3, ReachSteps
<1>4. ASSUME NEW a \in Addrs, DeviceFound(a) PROVE CheckedInv'
  <2>1. curSN' = curSN
    BY <1>4 DEF DeviceFound
  <2>2. CASE Reach(curSN, curMac)
    BY <1>3, <2>1, <2>2
  <2>3. CASE UNCHANGED <<peer, res, tested, untested>>
    BY <1>1, <2>1, <2>3
  <2> QED
    BY <1>4, <2>2, <2>3 DEF DeviceFound
<1>5. ASSUME NEW a \in Addrs, NEW bits \in SUBSET Announced, TypeChanged(a, bits)
      PROVE  CheckedInv'
  <2>1. res'["sn"] = res["sn"]
    BY <1>0, <1>5, ResultSets DEF TypeChanged
  <2> QED
    BY <1>1, <1>5, <2>1 DEF TypeChanged
<1>6. ASSUME NEW a \in Addrs, DeviceLost(a) PROVE CheckedInv'
  BY <1>1, <1>6 DEF DeviceLost
<1>7. ASSUME NEW s \in SNs, Scan(s) PROVE CheckedInv'
  <2>1. PICK mac : mac = curMac'
    OBVIOUS
  <2>2. Reach(s, mac) /\ curSN' = s
    BY <1>7, <2>1 DEF Scan, Reach, NotListed, Reached, ConnectFailed, Answered
  <2> QED
    BY <1>3, <2>2
<1>8. ASSUME NEW c \in Manual, Button(c) PROVE CheckedInv'
  <2>1. res'["sn"] = res["sn"]
    BY <1>0, <1>8, ResultSets DEF Button, Types, ResType
  <2> QED
    BY <1>1, <1>8, <2>1 DEF Button
<1>9. CASE NextTest
  BY <1>0, <1>9 DEF NextTest, NoResults
<1>10. ASSUME NEW s \in SNs, ScanRefused(s) PROVE CheckedInv'
  BY <1>10 DEF ScanRefused
<1>11. CASE ScanBoxClosed \/ UploadBoxClosed \/ UploadWithoutMes \/ UNCHANGED vars
            \/ (\E accepted \in BOOLEAN : UploadToMes(accepted))
  <2>1. UNCHANGED <<untested, tested, curSN, peer, res>>
    BY <1>11 DEF ScanBoxClosed, UploadBoxClosed, UploadWithoutMes, UploadOver, UploadToMes, vars
  <2> QED
    BY <1>1, <2>1
<1> QED
  BY <1>2, <1>4, <1>5, <1>6, <1>7, <1>8, <1>9, <1>10, <1>11 DEF Next, Messages, Operator

\* A device is staged for aging only on the results of its own check and under its own
\* serial number, if the last label was tested: however stale the list by which
\* tnp_connect_by_sn found it, whatever was plugged, lost or announced since.
THEOREM AgedIsTestedHolds == Spec => AgedIsTested
<1>1. Spec => []Types
  BY TypeCorrect, TypeParts, PTL
<1>2. Init => CheckedInv
  BY ResultSets DEF Init, NoResults, CheckedInv
<1>3. Spec => []CheckedInv
  BY <1>1, <1>2, CheckedStep, PTL DEF Spec
<1>4. ASSUME Types, CheckedInv, [Next]_vars
      PROVE  [aged' \notin {aged, NoSN} => untested \/ (aged' = tested /\ curSN = tested)]_vars
  <2> USE <1>4
  <2> SUFFICES ASSUME aged' \notin {aged, NoSN}
               PROVE  untested \/ (aged' = tested /\ curSN = tested)
    OBVIOUS
  <2>1. CASE \E accepted \in BOOLEAN : UploadToMes(accepted)
    <3>1. Verdict = "OK" /\ aged' = peer
      BY <2>1 DEF UploadToMes, TestDone
    <3>2. res["sn"] = "OK"
      BY <3>1, ResultSets DEF Verdict, Outcome
    <3> QED
      BY <2>1, <3>1, <3>2 DEF CheckedInv
  <2>2. CASE ~ \E accepted \in BOOLEAN : UploadToMes(accepted)
    <3>1. CASE Devices \/ Detection
      BY <3>1 DEF Devices, PowerOn, PowerOff, Detection, ClearSlot, PostFound, StoreSN, PostLost,
                  PostType
    <3>2. CASE Messages \/ NextTest \/ UNCHANGED vars
      BY <3>2 DEF Messages, DeviceFound, DeviceLost, TypeChanged, NextTest, vars
    <3>3. CASE Operator
      BY <2>2, <3>3 DEF Operator, ScanRefused, Scan, Button, UploadWithoutMes, ScanBoxClosed,
                        UploadBoxClosed, UploadOver
    <3> QED
      BY <3>1, <3>2, <3>3 DEF Next
  <2> QED
    BY <2>1, <2>2
<1> QED
  BY <1>1, <1>3, <1>4, PTL DEF Spec, AgedIsTested
=============================================================================
