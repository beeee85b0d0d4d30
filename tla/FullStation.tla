----------------------------- MODULE FullStation ------------------------------
(* The full-test station, FactoryTestI8Full: one thread, whose handlers run one    *)
(* at a time, but the message boxes of OnEnChangeEdtScanSn and of                  *)
(* OnBnClickedBtnUploadReport dispatch posted messages and timers. The detection   *)
(* thread fills the device list meanwhile. The station chooses its device by the   *)
(* scanned serial number, as the list has it, and the device checks that number    *)
(* against its flash.                                                              *)
EXTENDS Naturals, Sequences, FiniteSets

CONSTANTS
    Addrs, NoAddr,   \* addresses of the network, and the empty m_strDeviceIP
    SNs, NoSN,       \* serial numbers of labels and devices, and the empty one
    FixedMac,        \* "4637E68F43E5", the MAC used without a MES
    Checks,          \* the results that are told apart
    MesLogins,       \* what m_bMesLoginOK may be
    MaxQueue         \* bound: posted messages not yet dispatched

\* Results set by the buttons, and results of tnp_test_sensor_snmac_version.
Manual    == Checks \cap {"led", "camera", "ir", "spk", "mic"}
Measured  == Checks \cap {"key", "lsensor", "sn", "mac", "version"}
Announced == Checks \cap {"wifi", "key"}

ASSUME FullAssumption ==
    /\ NoAddr \notin Addrs /\ NoSN \notin SNs /\ FixedMac \notin SNs \cup {NoSN}
    /\ Checks \subseteq {"led", "camera", "ir", "spk", "mic", "wifi", "key", "lsensor",
                         "sn", "mac", "version"}
    /\ "sn" \in Checks /\ MesLogins \subseteq BOOLEAN /\ MaxQueue \in Nat

VARIABLES
    dev,           \* dev[a]: the device that is powered at address a, or NoSN
    listed,        \* addresses in device_list
    listSN,        \* listSN[a]: the serial number in the slot of a
    clearing,      \* the slot that the detection thread is about to clear
    queue,         \* posted messages
    conn,          \* tcp_conn_addr
    peer,          \* the device at the other end of the socket, NoSN if it is broken
    mesLoginOK, snScaned, curSN, curMac, deviceIP,   \* m_...
    timer,         \* TIMER_ID_NEXT_TEST is set
    box,           \* the message box that is open
    res,           \* res[c]: m_n...TestResult: "none" is -1, "NG" 0, "OK" 1
    aged,          \* the device that the upload at hand has staged for aging (history)
    uploaded,      \* the current scan has been uploaded (history)
    tested,        \* the device of the last check, since the last reset (history)
    untested       \* a scan since then ended without a check (history)

netVars  == <<dev, listed, listSN, clearing, queue>>
linkVars == <<conn, peer>>
scanVars == <<mesLoginOK, curSN, curMac, deviceIP>>
uiVars   == <<scanVars, snScaned, timer, box>>
histVars == <<uploaded, tested, untested>>
vars     == <<netVars, linkVars, uiVars, res, aged, histVars>>

NoResults == [c \in Checks |-> "none"]
Outcome(good) == IF good THEN "OK" ELSE "NG"

Init ==
    /\ dev = [a \in Addrs |-> NoSN] /\ listed = {} /\ listSN = [a \in Addrs |-> NoSN]
    /\ clearing = NoAddr /\ queue = <<>> /\ conn = NoAddr /\ peer = NoSN
    /\ mesLoginOK \in MesLogins
    /\ snScaned = FALSE /\ curSN = NoSN /\ curMac = NoSN /\ deviceIP = NoAddr
    /\ timer = FALSE /\ box = "none" /\ res = NoResults /\ aged = NoSN
    /\ uploaded = FALSE /\ tested = NoSN /\ untested = FALSE

-----------------------------------------------------------------------------
(* Devices come and go; what the detection thread makes of it                     *)

PowerOn(a, s) ==
    /\ dev[a] = NoSN /\ (\A b \in Addrs : dev[b] # s) /\ dev' = [dev EXCEPT ![a] = s]
    /\ UNCHANGED <<listed, listSN, clearing, queue, linkVars, uiVars, res, aged, histVars>>

PowerOff(a) ==
    /\ dev[a] # NoSN /\ dev' = [dev EXCEPT ![a] = NoSN]
    /\ peer' = (IF peer = dev[a] THEN NoSN ELSE peer)
    /\ UNCHANGED <<listed, listSN, clearing, queue, conn, uiVars, res, aged, histVars>>

Post(type, a, bits) ==
    /\ Len(queue) < MaxQueue
    /\ queue' = Append(queue, [type |-> type, addr |-> a, bits |-> bits])

\* The first heartbeat announces the device; its serial number is stored after that.
PostFound(a) ==
    /\ clearing = NoAddr /\ dev[a] # NoSN /\ a \notin listed
    /\ listed' = listed \cup {a} /\ Post("found", a, {})
    /\ UNCHANGED <<dev, listSN, clearing, linkVars, uiVars, res, aged, histVars>>

PostType(a, bits) ==
    /\ clearing = NoAddr /\ dev[a] # NoSN /\ a \in listed /\ conn = a
    /\ Post("type", a, bits)
    /\ UNCHANGED <<dev, listed, listSN, clearing, linkVars, uiVars, res, aged, histVars>>

StoreSN(a) ==
    /\ clearing = NoAddr /\ dev[a] # NoSN /\ a \in listed /\ listSN[a] # dev[a]
    /\ listSN' = [listSN EXCEPT ![a] = dev[a]]
    /\ UNCHANGED <<dev, listed, clearing, queue, linkVars, uiVars, res, aged, histVars>>

\* Mutant: the slot is cleared before its address is announced.
MutPostLost(a) ==
    /\ clearing = NoAddr /\ a \in listed /\ clearing' = a /\ Post("lost", NoAddr, {})
    /\ UNCHANGED <<dev, listed, listSN, linkVars, uiVars, res, aged, histVars>>

\* A loss, which may come of lost heartbeats, is announced before the slot is cleared.
PostLost(a) ==
    /\ clearing = NoAddr /\ a \in listed /\ clearing' = a /\ Post("lost", a, {})
    /\ UNCHANGED <<dev, listed, listSN, linkVars, uiVars, res, aged, histVars>>

ClearSlot ==
    /\ clearing # NoAddr /\ clearing' = NoAddr
    /\ listed' = listed \ {clearing} /\ listSN' = [listSN EXCEPT ![clearing] = NoSN]
    /\ UNCHANGED <<dev, queue, linkVars, uiVars, res, aged, histVars>>

-----------------------------------------------------------------------------
(* Connecting to the scanned device, and checking it                              *)

Holds(a, s) == a \in listed /\ listSN[a] = s

\* Mutant: the device compares only the MAC address.
MutCheckSN(p, s) == TRUE

\* The device compares the serial number in its flash with the one it is sent.
CheckSN(p, s) == p = s

\* tnp_test_sensor_snmac_version on device p is answered: it overwrites its five results.
Answered(p, s, mac) ==
    /\ \E good \in SUBSET (Measured \ {"sn", "mac"}) :
          res' = [c \in Checks |->
                    CASE c = "sn"      -> Outcome(CheckSN(p, s))
                      [] c = "mac"     -> Outcome(p = mac)
                      [] c \in Measured \ {"sn", "mac"} -> Outcome(c \in good)
                      [] OTHER         -> res[c]]
    /\ tested' = p /\ untested' = FALSE

\* recv fails, and the results stay; or it returns 0, for a connection that the device
\* has closed, which counts as an answer whose five results are 0.
NotAnswered(p) == peer' = p /\ UNCHANGED res
ReadsZeros     == peer' = NoSN /\ res' = [c \in Checks |-> IF c \in Measured THEN "NG" ELSE res[c]]

\* tnp_connect_by_sn finds the device and connects to it: the check is answered, or not.
Reached(a, s, mac) ==
    /\ Holds(a, s) /\ dev[a] # NoSN
    /\ conn' = a /\ deviceIP' = a
    /\ \/ peer' = dev[a] /\ Answered(dev[a], s, mac)
       \/ (NotAnswered(dev[a]) \/ ReadsZeros) /\ untested' = TRUE /\ UNCHANGED tested
    /\ UNCHANGED <<listed, listSN>>

\* The connection fails, which closes the previous one and takes the device off the list.
ConnectFailed(a, s) ==
    /\ Holds(a, s) /\ peer' = NoSN
    /\ listed' = listed \ {a} /\ listSN' = [listSN EXCEPT ![a] = NoSN]
    /\ untested' = TRUE /\ UNCHANGED <<conn, deviceIP, res, tested>>

\* No device of that number is on the list: a connection to another one stays.
NotListed(s) ==
    /\ \A a \in Addrs : ~Holds(a, s)
    /\ untested' = TRUE /\ UNCHANGED <<listed, listSN, linkVars, deviceIP, res, tested>>

Reach(s, mac) == NotListed(s) \/ \E a \in Addrs : Reached(a, s, mac) \/ ConnectFailed(a, s)

-----------------------------------------------------------------------------
(* OnEnChangeEdtScanSn                                                            *)

\* The label is taken before the MES is asked; a refused one stays, with the old MAC.
ScanRefused(s) ==
    /\ box = "none" /\ mesLoginOK
    /\ curSN' = s /\ snScaned' = TRUE /\ box' = "scan"
    /\ uploaded' = FALSE /\ untested' = TRUE
    /\ UNCHANGED <<netVars, linkVars, mesLoginOK, curMac, deviceIP, timer, res, aged, tested>>

Scan(s) ==
    /\ box = "none"
    /\ curSN' = s /\ snScaned' = TRUE /\ uploaded' = FALSE
    /\ curMac' = (IF mesLoginOK THEN s ELSE FixedMac)
    /\ Reach(s, curMac')
    /\ UNCHANGED <<dev, clearing, queue, mesLoginOK, timer, box, aged>>

ScanBoxClosed ==
    /\ box = "scan" /\ box' = "none"
    /\ UNCHANGED <<netVars, linkVars, scanVars, snScaned, timer, res, aged, histVars>>

-----------------------------------------------------------------------------
(* Posted messages                                                                *)

Dispatch(type, a, bits) ==
    /\ queue # <<>> /\ Head(queue) = [type |-> type, addr |-> a, bits |-> bits]
    /\ queue' = Tail(queue)

DeviceFound(a) ==
    /\ Dispatch("found", a, {})
    /\ IF snScaned /\ deviceIP = NoAddr
       THEN Reach(curSN, curMac)
       ELSE UNCHANGED <<listed, listSN, linkVars, deviceIP, res, tested, untested>>
    /\ UNCHANGED <<dev, clearing, mesLoginOK, snScaned, curSN, curMac, timer, box, aged,
                  uploaded>>

\* tnp_disconnect_by_sn refuses while the scanned number is on the list, and the loss is
\* then forgotten; otherwise any loss disconnects the station.
DeviceLost(a) ==
    /\ Dispatch("lost", a, {})
    /\ IF \E b \in Addrs : Holds(b, curSN)
       THEN UNCHANGED <<linkVars, timer>>
       ELSE /\ conn' = NoAddr /\ peer' = NoSN
            /\ timer' = (timer \/ deviceIP = a)
    /\ UNCHANGED <<dev, listed, listSN, clearing, scanVars, snScaned, box, res, aged,
                  histVars>>

TypeChanged(a, bits) ==
    /\ Dispatch("type", a, bits)
    /\ res' = [c \in Checks |-> IF deviceIP = a /\ c \in bits THEN "OK" ELSE res[c]]
    /\ UNCHANGED <<dev, listed, listSN, clearing, linkVars, uiVars, aged, histVars>>

-----------------------------------------------------------------------------
(* Buttons, upload, timer                                                         *)

Button(c) ==
    /\ box = "none" /\ res' = [res EXCEPT ![c] = Outcome(@ # "OK")]
    /\ UNCHANGED <<netVars, linkVars, uiVars, aged, histVars>>

\* Mutant: the reset after the upload keeps the results.
MutNextTest ==
    /\ timer /\ timer' = FALSE
    /\ curSN' = NoSN /\ curMac' = NoSN /\ deviceIP' = NoAddr
    /\ tested' = NoSN /\ untested' = FALSE
    /\ UNCHANGED <<netVars, linkVars, mesLoginOK, snScaned, box, res, aged, uploaded>>

\* The timer clears the station for its next device, but for m_bSnScaned.
NextTest ==
    /\ timer /\ timer' = FALSE
    /\ curSN' = NoSN /\ curMac' = NoSN /\ deviceIP' = NoAddr /\ res' = NoResults
    /\ tested' = NoSN /\ untested' = FALSE
    /\ UNCHANGED <<netVars, linkVars, mesLoginOK, snScaned, box, aged, uploaded>>

Verdict == Outcome(\A c \in Checks : res[c] = "OK")

\* tnp_test_done reaches the device at the other end of the socket, or nobody.
TestDone == aged' \in {NoSN, peer}

\* Mutant: the device is staged for aging whatever the verdict.
MutUploadToMes(accepted) ==
    /\ box = "none" /\ snScaned /\ mesLoginOK
    /\ uploaded' = TRUE
    /\ TestDone /\ box' = "upload"
    /\ UNCHANGED <<netVars, linkVars, scanVars, snScaned, timer, res, tested, untested>>

\* SetMobileData, then tnp_test_done for a good device; an upload that the MES calls a
\* repeated one counts as accepted.
UploadToMes(accepted) ==
    /\ box = "none" /\ snScaned /\ mesLoginOK
    /\ uploaded' = TRUE
    /\ IF accepted /\ Verdict = "OK" THEN TestDone ELSE UNCHANGED aged
    /\ box' = "upload"
    /\ UNCHANGED <<netVars, linkVars, scanVars, snScaned, timer, res, tested, untested>>

\* Mutant: the scan is not taken back after its upload.
MutUploadOver ==
    /\ box' = "none" /\ timer' = TRUE /\ aged' = NoSN
    /\ UNCHANGED <<netVars, linkVars, scanVars, snScaned, res, histVars>>

UploadOver ==
    /\ box' = "none" /\ timer' = TRUE /\ snScaned' = FALSE /\ aged' = NoSN
    /\ UNCHANGED <<netVars, linkVars, scanVars, res, histVars>>

UploadBoxClosed    == box = "upload" /\ UploadOver
UploadWithoutMes   == box = "none" /\ snScaned /\ ~mesLoginOK /\ UploadOver

-----------------------------------------------------------------------------
Devices == \E a \in Addrs : PowerOff(a) \/ \E s \in SNs : PowerOn(a, s)

Detection == \/ ClearSlot
             \/ \E a \in Addrs : \/ PostFound(a) \/ StoreSN(a) \/ PostLost(a)
                                 \/ \E bits \in SUBSET Announced : PostType(a, bits)

Messages == \E a \in Addrs : \/ DeviceFound(a) \/ DeviceLost(a)
                             \/ \E bits \in SUBSET Announced : TypeChanged(a, bits)

Operator == \/ \E s \in SNs : ScanRefused(s) \/ Scan(s)
            \/ \E c \in Manual : Button(c)
            \/ \E accepted \in BOOLEAN : UploadToMes(accepted)
            \/ UploadWithoutMes \/ ScanBoxClosed \/ UploadBoxClosed

Next == Devices \/ Detection \/ Messages \/ Operator \/ NextTest

Spec == Init /\ [][Next]_vars

-----------------------------------------------------------------------------
(* Properties                                                                    *)

\* The type invariant.
TypeOK ==
    /\ dev \in [Addrs -> SNs \cup {NoSN}] /\ listed \subseteq Addrs
    /\ listSN \in [Addrs -> SNs \cup {NoSN}] /\ clearing \in Addrs \cup {NoAddr}
    /\ queue \in Seq([type : {"found", "lost", "type"}, addr : Addrs, bits : SUBSET Announced])
    /\ conn \in Addrs \cup {NoAddr} /\ peer \in SNs \cup {NoSN}
    /\ snScaned \in BOOLEAN /\ curSN \in SNs \cup {NoSN}
    /\ curMac \in SNs \cup {NoSN, FixedMac} /\ deviceIP \in Addrs \cup {NoAddr}
    /\ timer \in BOOLEAN /\ box \in {"none", "scan", "upload"}
    /\ res \in [Checks -> {"none", "NG", "OK"}] /\ aged \in SNs \cup {NoSN}
    /\ mesLoginOK \in BOOLEAN /\ uploaded \in BOOLEAN
    /\ tested \in SNs \cup {NoSN} /\ untested \in BOOLEAN

\* A serial number is uploaded once for each scan of a label, although messages and the
\* timer are handled while the box of the upload is open.
UploadedOncePerScan ==
    [][(\E accepted \in BOOLEAN : UploadToMes(accepted)) => ~uploaded]_vars

\* A device goes to aging only if the results were its own and its serial number the one
\* uploaded, if the last label was tested: however stale the list by which the station
\* found the device, whatever was plugged, lost or found since.
AgedIsTested ==
    [][aged' \notin {aged, NoSN} => untested \/ (aged' = tested /\ curSN = tested)]_vars

\* What the station measures and is told goes when the station gives its device up: with
\* no m_strDeviceIP there is no such result for the next device. It may stay for longer
\* than the device itself does, whose loss tnp_disconnect_by_sn may refuse to handle.
ResultsHaveDevice ==
    deviceIP = NoAddr => \A c \in Measured \cup Announced : res[c] = "none"

\* docs/ names error code L008 for a serial number that is not right: an upload without an
\* error code is of a serial number that its own device has answered for.
UploadedIsTested ==
    [][\A accepted \in BOOLEAN : UploadToMes(accepted) /\ Verdict = "OK" => curSN = tested]_vars
=============================================================================
