------------------------------- MODULE SMTStation ------------------------------
(* The SMT station, FactoryTestI8SMT: as soon as a device is found its light      *)
(* sensor, sound and version are tested on a thread of their own; wifi and key    *)
(* come with the heartbeats. Other than the station for serial numbers, this one  *)
(* does not stop the test when its device is lost: the round goes on with         *)
(* whatever the context's socket is then, and ends in its own time.               *)
(*                                                                                *)
(* The network is what DeviceDetect shows of it: every device that is on the list *)
(* is announced, and every loss.                                                  *)
EXTENDS Naturals, Sequences

CONSTANTS
    Addrs, NoAddr,      \* addresses of devices, and the empty m_strDeviceIP
    Devices, NoDevice,  \* devices, and none
    Threads, NoThread,  \* test threads, and the NULL of m_hTestThread
    Order,              \* the measured results, in the order in which they are written
    Manual,             \* the results that the operator sets
    Announced,          \* the results that come with the heartbeats
    Tries,              \* turns of the recv loop of tnp_test_smt (10)
    MaxQueue            \* bound: posted messages not yet dispatched

Measured == {Order[k] : k \in 1 .. Len(Order)}
Results  == Measured \cup Manual \cup Announced

ASSUME SMTAssumption ==
    /\ NoAddr \notin Addrs /\ NoDevice \notin Devices /\ NoThread \notin Threads
    /\ Order \in Seq({"lsensor", "spkmic", "version"}) /\ Order # <<>>
    /\ Manual \subseteq {"led", "camera", "ir"} /\ Announced \subseteq {"wifi", "key"}
    /\ Tries \in Nat \ {0} /\ MaxQueue \in Nat

VARIABLES
    dev,           \* dev[a]: the device that is powered at address a
    listed,        \* addresses in device_list
    queue,         \* posted messages
    conn,          \* tcp_conn_addr
    peer,          \* the device that the context's socket is connected to
    wire,          \* the connection holds nothing, a request or its answer, or has ended
    deviceIP,      \* m_strDeviceIP
    handle,        \* m_hTestThread
    ui,            \* where the UI thread is, and the thread it has just created
    res,           \* res[c]: m_n...TestResult: "none" is -1, "NG" 0, "OK" 1
    text,          \* text[c]: what the button of c says
    pc, n,         \* where test thread t is, and the counter of its loop
    data,          \* what its recv has given it
    own,           \* the device that OnTnpDeviceFound has connected to (history)
    by,            \* by[c]: the device whose answer gave c its value (history)
    stale,         \* a round has outlived its device (history)
    early,         \* a round ended before its handle was stored (history)
    refused        \* the round of the attached device was not started (history)

netVars   == <<dev, listed, queue>>
linkVars  == <<conn, peer, wire>>
uiVars    == <<deviceIP, handle, ui>>
showVars  == <<res, text>>
roundVars == <<pc, n, data>>
histVars  == <<own, by, stale, early, refused>>
vars      == <<netVars, linkVars, uiVars, showVars, roundVars, histVars>>

NoData == [from |-> NoDevice, good |-> {}]
Idle   == [at |-> "loop", thread |-> NoThread]

Init ==
    /\ dev = [a \in Addrs |-> NoDevice] /\ listed = {} /\ queue = <<>>
    /\ conn = NoAddr /\ peer = NoDevice /\ wire = "empty"
    /\ deviceIP = NoAddr /\ handle = NoThread /\ ui = Idle
    /\ res = [c \in Results |-> "none"] /\ text = [c \in Results |-> "NG"]
    /\ pc = [t \in Threads |-> "idle"] /\ n = [t \in Threads |-> 0]
    /\ data = [t \in Threads |-> NoData]
    /\ own = NoDevice /\ by = [c \in Results |-> NoDevice]
    /\ stale = FALSE /\ early = FALSE /\ refused = FALSE

-----------------------------------------------------------------------------
(* Devices, their server, and the detection thread                                *)

PowerOn(a, d) ==
    /\ dev[a] = NoDevice /\ (\A b \in Addrs : dev[b] # d) /\ dev' = [dev EXCEPT ![a] = d]
    /\ UNCHANGED <<listed, queue, linkVars, uiVars, showVars, roundVars, histVars>>

\* The connection to the device ends; what has arrived can still be read.
PowerOff(a) ==
    /\ dev[a] # NoDevice /\ dev' = [dev EXCEPT ![a] = NoDevice]
    /\ wire' = (IF peer = dev[a] /\ wire # "answer" THEN "ended" ELSE wire)
    /\ UNCHANGED <<listed, queue, conn, peer, uiVars, showVars, roundVars, histVars>>

DeviceAnswers ==
    /\ wire = "request" /\ wire' = "answer"
    /\ UNCHANGED <<netVars, conn, peer, uiVars, showVars, roundVars, histVars>>

Post(type, a, bits) ==
    /\ Len(queue) < MaxQueue
    /\ queue' = Append(queue, [type |-> type, addr |-> a, bits |-> bits])

PostFound(a) ==
    /\ dev[a] # NoDevice /\ a \notin listed /\ listed' = listed \cup {a} /\ Post("found", a, {})
    /\ UNCHANGED <<dev, linkVars, uiVars, showVars, roundVars, histVars>>

PostType(a, bits) ==
    /\ dev[a] # NoDevice /\ a \in listed /\ conn = a /\ Post("type", a, bits)
    /\ UNCHANGED <<dev, listed, linkVars, uiVars, showVars, roundVars, histVars>>

\* A device is lost when it is off, or when its heartbeats are.
PostLost(a) ==
    /\ a \in listed /\ listed' = listed \ {a} /\ Post("lost", a, {})
    /\ UNCHANGED <<dev, linkVars, uiVars, showVars, roundVars, histVars>>

-----------------------------------------------------------------------------
(* The UI thread                                                                  *)

Dispatch(type, a, bits) ==
    /\ ui = Idle /\ queue # <<>>
    /\ Head(queue) = [type |-> type, addr |-> a, bits |-> bits] /\ queue' = Tail(queue)

\* tnp_connect closes the socket there is; a failure leaves one that is not connected, and
\* takes the device off the list.
Connects(a) ==
    /\ dev[a] # NoDevice
    /\ conn' = a /\ peer' = dev[a] /\ wire' = "empty" /\ UNCHANGED listed

ConnectFails(a) ==
    /\ peer' = NoDevice /\ wire' = "empty" /\ listed' = listed \ {a} /\ UNCHANGED conn

\* Mutant: a handle that is not NULL is overwritten.
MutStartDeviceTest ==
    \E t \in Threads :
        /\ pc[t] = "idle" /\ pc' = [pc EXCEPT ![t] = "send"]
        /\ ui' = [at |-> "store", thread |-> t] /\ refused' = FALSE

\* One round at a time: while m_hTestThread is not NULL, none is started.
StartDeviceTest ==
    \/ handle # NoThread /\ refused' = TRUE /\ UNCHANGED <<pc, ui>>
    \/ \E t \in Threads :
           /\ handle = NoThread /\ pc[t] = "idle" /\ pc' = [pc EXCEPT ![t] = "send"]
           /\ ui' = [at |-> "store", thread |-> t] /\ refused' = FALSE

FoundIgnored(a) ==
    /\ Dispatch("found", a, {}) /\ deviceIP # NoAddr
    /\ UNCHANGED <<dev, listed, linkVars, uiVars, showVars, roundVars, histVars>>

FoundConnects(a) ==
    /\ Dispatch("found", a, {}) /\ deviceIP = NoAddr /\ Connects(a)
    /\ deviceIP' = a /\ own' = dev[a] /\ StartDeviceTest
    /\ UNCHANGED <<dev, handle, showVars, n, data, by, stale, early>>

FoundFails(a) ==
    /\ Dispatch("found", a, {}) /\ deviceIP = NoAddr /\ ConnectFails(a)
    /\ UNCHANGED <<dev, uiVars, showVars, roundVars, histVars>>

\* CreateThread returns: the new thread may have got anywhere by now.
StoreHandle ==
    /\ ui.at = "store" /\ ui' = Idle /\ handle' = ui.thread
    /\ early' = (early \/ pc[ui.thread] = "idle")
    /\ UNCHANGED <<netVars, linkVars, deviceIP, showVars, roundVars, own, by, stale, refused>>

LostIgnored(a) ==
    /\ Dispatch("lost", a, {}) /\ deviceIP # a
    /\ UNCHANGED <<dev, listed, linkVars, uiVars, showVars, roundVars, histVars>>

\* Mutant: the results of the lost device are left for the next one.
MutLostClears(a) ==
    /\ Dispatch("lost", a, {}) /\ deviceIP = a
    /\ deviceIP' = NoAddr /\ ui' = [Idle EXCEPT !.at = "lost"]
    /\ own' = NoDevice /\ refused' = FALSE /\ stale' = (\E t \in Threads : pc[t] # "idle")
    /\ UNCHANGED <<dev, listed, linkVars, handle, showVars, roundVars, by, early>>

\* OnTnpDeviceLost clears the results, and then disconnects and clears the buttons. It
\* does not stop the round.
LostClears(a) ==
    /\ Dispatch("lost", a, {}) /\ deviceIP = a
    /\ deviceIP' = NoAddr /\ ui' = [Idle EXCEPT !.at = "lost"]
    /\ res' = [c \in Results |-> "none"]
    /\ own' = NoDevice /\ by' = [c \in Results |-> NoDevice]
    /\ refused' = FALSE /\ stale' = (\E t \in Threads : pc[t] # "idle")
    /\ UNCHANGED <<dev, listed, linkVars, handle, text, roundVars, early>>

\* Mutant: the buttons keep what they say.
MutLostDisconnects ==
    /\ ui.at = "lost" /\ ui' = Idle
    /\ conn' = NoAddr /\ peer' = NoDevice /\ wire' = "empty"
    /\ UNCHANGED <<netVars, deviceIP, handle, showVars, roundVars, histVars>>

LostDisconnects ==
    /\ ui.at = "lost" /\ ui' = Idle
    /\ conn' = NoAddr /\ peer' = NoDevice /\ wire' = "empty"
    /\ text' = [c \in Results |-> "NG"]
    /\ UNCHANGED <<netVars, deviceIP, handle, res, roundVars, histVars>>

TypeChanged(a, bits) ==
    /\ Dispatch("type", a, bits)
    /\ LET told == IF deviceIP = a THEN bits ELSE {} IN
          /\ res'  = [c \in Results |-> IF c \in told THEN "OK" ELSE res[c]]
          /\ text' = [c \in Results |-> IF c \in told THEN "PASS" ELSE text[c]]
    /\ UNCHANGED <<dev, listed, linkVars, uiVars, roundVars, histVars>>

Button(c) ==
    /\ ui = Idle
    /\ res'  = [res  EXCEPT ![c] = IF @ # "OK" THEN "OK" ELSE "NG"]
    /\ text' = [text EXCEPT ![c] = IF res[c] # "OK" THEN "PASS" ELSE "NG"]
    /\ UNCHANGED <<netVars, linkVars, uiVars, roundVars, histVars>>

-----------------------------------------------------------------------------
(* The test thread: DoDeviceTest, with tnp_test_smt                               *)

Goto(t, from, to) == pc[t] = from /\ pc' = [pc EXCEPT ![t] = to]

\* The request goes to whatever the socket is connected to by now.
Send(t) ==
    /\ Goto(t, "send", "recv") /\ peer # NoDevice
    /\ wire' = (IF wire = "ended" THEN wire ELSE "request")
    /\ n' = [n EXCEPT ![t] = 1]
    /\ UNCHANGED <<data, netVars, conn, peer, uiVars, showVars, histVars>>

SendFails(t) ==
    /\ Goto(t, "send", "close") /\ (peer = NoDevice \/ wire = "ended")
    /\ UNCHANGED <<netVars, linkVars, uiVars, showVars, n, data, histVars>>

Recv(t, good) ==
    /\ Goto(t, "recv", "write") /\ peer # NoDevice /\ wire = "answer" /\ wire' = "empty"
    /\ n' = [n EXCEPT ![t] = 1] /\ data' = [data EXCEPT ![t] = [from |-> peer, good |-> good]]
    /\ UNCHANGED <<netVars, conn, peer, uiVars, showVars, histVars>>

\* A connection that the device has closed reads as an answer of zero bytes: the zeros of
\* the request count as results.
RecvEnd(t) ==
    /\ Goto(t, "recv", "write") /\ peer # NoDevice /\ wire = "ended"
    /\ n' = [n EXCEPT ![t] = 1]
    /\ UNCHANGED <<netVars, linkVars, uiVars, showVars, data, histVars>>

\* Mutant: after the last attempt nothing is written.
MutRecvFails(t) ==
    /\ pc[t] = "recv" /\ (peer = NoDevice \/ wire # "answer")
    /\ \/ /\ n[t] < Tries /\ n' = [n EXCEPT ![t] = @ + 1] /\ UNCHANGED pc
       \/ /\ n[t] = Tries /\ n' = [n EXCEPT ![t] = 1] /\ pc' = [pc EXCEPT ![t] = "close"]
    /\ UNCHANGED <<netVars, linkVars, uiVars, showVars, data, histVars>>

\* Mutant: the recv loop makes one turn too many.
MutTurns(t) ==
    /\ pc[t] = "recv" /\ (peer = NoDevice \/ wire # "answer")
    /\ \/ /\ n[t] <= Tries /\ n' = [n EXCEPT ![t] = @ + 1] /\ UNCHANGED pc
       \/ /\ n[t] > Tries /\ n' = [n EXCEPT ![t] = 1] /\ pc' = [pc EXCEPT ![t] = "zero"]
    /\ UNCHANGED <<netVars, linkVars, uiVars, showVars, data, histVars>>

\* Each recv has a timeout. After the last one the zeros are written too, but not shown.
RecvFails(t) ==
    /\ pc[t] = "recv" /\ (peer = NoDevice \/ wire # "answer")
    /\ \/ /\ n[t] < Tries /\ n' = [n EXCEPT ![t] = @ + 1] /\ UNCHANGED pc
       \/ /\ n[t] = Tries /\ n' = [n EXCEPT ![t] = 1] /\ pc' = [pc EXCEPT ![t] = "zero"]
    /\ UNCHANGED <<netVars, linkVars, uiVars, showVars, data, histVars>>

\* The counter of a loop over Order: on to the next result, or to the step after the loop.
EachResult(t, next) ==
    IF n[t] < Len(Order) THEN n' = [n EXCEPT ![t] = @ + 1] /\ UNCHANGED pc
    ELSE n' = [n EXCEPT ![t] = 1] /\ pc' = [pc EXCEPT ![t] = next]

\* The results are written through pointers into the dialog, whoever is attached now.
Write(t) ==
    /\ pc[t] \in {"write", "zero"} /\ EachResult(t, IF pc[t] = "write" THEN "text" ELSE "close")
    /\ LET c == Order[n[t]] IN
          /\ res' = [res EXCEPT ![c] = IF c \in data[t].good THEN "OK" ELSE "NG"]
          /\ by'  = [by EXCEPT ![c] = data[t].from]
    /\ UNCHANGED <<netVars, linkVars, uiVars, text, data, own, stale, early, refused>>

\* SetWindowText waits for the UI thread. A result that is -1 again by now says "PASS".
ShowText(t) ==
    /\ pc[t] = "text" /\ ui = Idle /\ EachResult(t, "close")
    /\ text' = [text EXCEPT ![Order[n[t]]] = IF res[Order[n[t]]] = "NG" THEN "NG" ELSE "PASS"]
    /\ UNCHANGED <<netVars, linkVars, uiVars, res, data, histVars>>

\* Mutant: the handle is closed and not set to NULL.
MutFinish(t) ==
    /\ Goto(t, "close", "idle")
    /\ n' = [n EXCEPT ![t] = 0] /\ data' = [data EXCEPT ![t] = NoData]
    /\ UNCHANGED <<handle, netVars, linkVars, deviceIP, ui, showVars, histVars>>

\* CloseHandle, and m_hTestThread = NULL, which may be too early for StoreHandle.
Finish(t) ==
    /\ Goto(t, "close", "idle") /\ handle' = NoThread
    /\ n' = [n EXCEPT ![t] = 0] /\ data' = [data EXCEPT ![t] = NoData]
    /\ UNCHANGED <<netVars, linkVars, deviceIP, ui, showVars, histVars>>

-----------------------------------------------------------------------------
Network == \/ \E a \in Addrs : \/ PowerOff(a) \/ \E d \in Devices : PowerOn(a, d)
                               \/ PostFound(a) \/ PostLost(a)
                               \/ \E bits \in SUBSET Announced : PostType(a, bits)
           \/ DeviceAnswers

Handlers == \/ \E a \in Addrs : \/ FoundIgnored(a) \/ FoundConnects(a) \/ FoundFails(a)
                                \/ LostIgnored(a) \/ LostClears(a)
                                \/ \E bits \in SUBSET Announced : TypeChanged(a, bits)
            \/ StoreHandle \/ LostDisconnects

TestThread(t) == \/ Send(t) \/ SendFails(t) \/ RecvEnd(t) \/ RecvFails(t) \/ Write(t)
                 \/ ShowText(t) \/ Finish(t) \/ \E good \in SUBSET Measured : Recv(t, good)

Next == \/ Network \/ Handlers \/ \E c \in Manual : Button(c)
        \/ \E t \in Threads : TestThread(t)

Spec == Init /\ [][Next]_vars

-----------------------------------------------------------------------------
(* Properties                                                                     *)

\* The type invariant.
TypeOK ==
    /\ dev \in [Addrs -> Devices \cup {NoDevice}] /\ listed \subseteq Addrs
    /\ queue \in Seq([type : {"found", "lost", "type"}, addr : Addrs, bits : SUBSET Announced])
    /\ conn \in Addrs \cup {NoAddr} /\ peer \in Devices \cup {NoDevice}
    /\ wire \in {"empty", "request", "answer", "ended"}
    /\ deviceIP \in Addrs \cup {NoAddr} /\ handle \in Threads \cup {NoThread}
    /\ ui \in [at : {"loop", "store", "lost"}, thread : Threads \cup {NoThread}]
    /\ res \in [Results -> {"none", "NG", "OK"}] /\ text \in [Results -> {"NG", "PASS"}]
    /\ pc \in [Threads -> {"idle", "send", "recv", "write", "zero", "text", "close"}]
    /\ n \in [Threads -> Nat]
    /\ \A t \in Threads : /\ pc[t] = "recv" => n[t] \in 1 .. Tries
                          /\ pc[t] \in {"write", "zero", "text"} => n[t] \in 1 .. Len(Order)
    /\ data \in [Threads -> [from : Devices \cup {NoDevice}, good : SUBSET Measured]]
    /\ own \in Devices \cup {NoDevice} /\ by \in [Results -> Devices \cup {NoDevice}]
    /\ stale \in BOOLEAN /\ early \in BOOLEAN /\ refused \in BOOLEAN

\* Rounds never overlap, although the round writes m_hTestThread too, and although it is
\* not waited for when its device is lost.
OneRound == \A t, u \in Threads : pc[t] # "idle" /\ pc[u] # "idle" => t = u

\* A measured result that is green comes from an answer of the very device that was found
\* and connected to, unless an earlier round was still running when its device was lost.
PassIsOwn == ~stale => \A c \in Measured : res[c] = "OK" => own # NoDevice /\ by[c] = own

\* GetBackColorByCtrlId.
BackColor(c) == CASE res[c] = "NG" -> "red" [] res[c] = "OK" -> "green" [] OTHER -> "grey"

\* A button that says "PASS" is green, unless a round has outlived its device, and while the
\* handler of the loss is not in between the two.
TextHasColor ==
    ~stale /\ ui.at # "lost" => \A c \in Results : text[c] = "PASS" => BackColor(c) = "green"

\* When everything has come to rest, a device that is attached has all its results, unless
\* its connection broke, or its round was refused because the round of a lost device was
\* still running, or because an earlier handle was stored too late.
RestIsTested ==
    /\ deviceIP # NoAddr /\ ui = Idle /\ \A t \in Threads : pc[t] = "idle"
    /\ wire # "ended" /\ ~(refused /\ (stale \/ early))
    => \A c \in Measured : res[c] # "none"
=============================================================================
