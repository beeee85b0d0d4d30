---------------------------- MODULE SMTStationProofs ----------------------------
(* Theorems about SMTStation, for every set of addresses, devices and threads,   *)
(* every order of the results, number of attempts and bound of the queue.        *)
EXTENDS SMTStation, TLAPS

-----------------------------------------------------------------------------
(* Types                                                                         *)

Messages == [type : {"found", "lost", "type"}, addr : Addrs, bits : SUBSET Announced]
Places   == {"idle", "send", "recv", "write", "zero", "text", "close"}

NetType   == /\ dev \in [Addrs -> Devices \cup {NoDevice}] /\ listed \subseteq Addrs
             /\ queue \in Seq(Messages)
LinkType  == /\ conn \in Addrs \cup {NoAddr} /\ peer \in Devices \cup {NoDevice}
             /\ wire \in {"empty", "request", "answer", "ended"}
UIType    == /\ deviceIP \in Addrs \cup {NoAddr} /\ handle \in Threads \cup {NoThread}
             /\ ui \in [at : {"loop", "store", "lost"}, thread : Threads \cup {NoThread}]
ShowType  == res \in [Results -> {"none", "NG", "OK"}] /\ text \in [Results -> {"NG", "PASS"}]
RoundType == /\ pc \in [Threads -> Places] /\ n \in [Threads -> Nat]
             /\ data \in [Threads -> [from : Devices \cup {NoDevice}, good : SUBSET Measured]]
LoopType  == \A t \in Threads : /\ pc[t] = "recv" => n[t] \in 1 .. Tries
                                /\ pc[t] \in {"write", "zero", "text"} => n[t] \in 1 .. Len(Order)
HistType  == /\ own \in Devices \cup {NoDevice} /\ by \in [Results -> Devices \cup {NoDevice}]
             /\ stale \in BOOLEAN /\ early \in BOOLEAN /\ refused \in BOOLEAN

Types == NetType /\ LinkType /\ UIType /\ ShowType /\ RoundType /\ LoopType /\ HistType

\* The type invariant of the station, part by part.
LEMMA TypeParts == Types <=> TypeOK
BY DEF Types, TypeOK, NetType, LinkType, UIType, ShowType, RoundType, LoopType, HistType, Messages, Places

\* Posting keeps the queue a sequence of messages.
LEMMA PostKeepsType ==
  ASSUME NetType, NEW type \in {"found", "lost", "type"}, NEW a \in Addrs,
         NEW bits \in SUBSET Announced, Post(type, a, bits)
  PROVE  queue' \in Seq(Messages)
<1>1. [type |-> type, addr |-> a, bits |-> bits] \in Messages
  BY DEF Messages
<1> QED
  BY <1>1 DEF Post, NetType

\* Dispatching keeps the queue a sequence of messages.
LEMMA DispatchKeepsType ==
  ASSUME NetType, NEW type, NEW a, NEW bits, Dispatch(type, a, bits)
  PROVE  queue' \in Seq(Messages)
BY DEF Dispatch, NetType

\* What Order names is a measured result, and a result.
LEMMA OrderIsMeasured ==
  /\ Len(Order) \in Nat \ {0}
  /\ \A k \in 1 .. Len(Order) : Order[k] \in Measured
  /\ Measured \subseteq Results
BY SMTAssumption DEF Measured, Results

\* The counter of a loop over the results stays in its bounds.
LEMMA LoopKeepsType ==
  ASSUME RoundType, LoopType, NEW t \in Threads, pc[t] \in {"write", "zero", "text"},
         NEW next \in {"text", "close"}, EachResult(t, next)
  PROVE  /\ pc' \in [Threads -> Places] /\ n' \in [Threads -> Nat]
         /\ LoopType'
<1>1. CASE n[t] < Len(Order)
  <2>1. pc' = pc /\ n' = [n EXCEPT ![t] = @ + 1]
    BY <1>1 DEF EachResult
  <2>2. n[t] + 1 \in 1 .. Len(Order)
    BY <1>1, OrderIsMeasured DEF LoopType
  <2> QED
    BY <2>1, <2>2 DEF RoundType, LoopType
<1>2. CASE ~(n[t] < Len(Order))
  <2>1. pc' = [pc EXCEPT ![t] = next] /\ n' = [n EXCEPT ![t] = 1]
    BY <1>2 DEF EachResult
  <2>2. 1 \in 1 .. Len(Order)
    BY OrderIsMeasured
  <2> QED
    BY <2>1, <2>2 DEF RoundType, LoopType, Places
<1> QED
  BY <1>1, <1>2

\* Type correctness of the station, its messages, its link and its rounds.
THEOREM TypeCorrect == Spec => []TypeOK
<1>1. Init => Types
  <2> SUFFICES ASSUME Init PROVE NetType /\ LinkType /\ UIType /\ ShowType /\ RoundType /\ LoopType
                                 /\ HistType
    BY DEF Types
  <2>1. queue \in Seq(Messages)
    BY DEF Init
  <2> QED
    BY <2>1 DEF Init, NetType, LinkType, UIType, ShowType, RoundType, LoopType, HistType, Places,
                NoData, Idle
<1>2. Types /\ [Next]_vars => Types'
  <2> SUFFICES ASSUME NetType, LinkType, UIType, ShowType, RoundType, LoopType, HistType, [Next]_vars
               PROVE  Types'
    BY DEF Types
  <2> USE DEF Types, netVars, linkVars, uiVars, showVars, roundVars, histVars
  <2>n. CASE Network
    <3>1. UNCHANGED <<uiVars, showVars, roundVars, histVars>>
      BY <2>n DEF Network, PowerOn, PowerOff, PostFound, PostType, PostLost, DeviceAnswers
    <3>2. LinkType'
      BY <2>n DEF Network, PowerOn, PowerOff, PostFound, PostType, PostLost, DeviceAnswers, LinkType
    <3>3. dev' \in [Addrs -> Devices \cup {NoDevice}] /\ listed' \subseteq Addrs
      BY <2>n DEF Network, PowerOn, PowerOff, PostFound, PostType, PostLost, DeviceAnswers, NetType
    <3>4. queue' \in Seq(Messages)
      <4>1. ASSUME NEW a \in Addrs, PostFound(a) \/ PostLost(a) PROVE queue' \in Seq(Messages)
        BY <4>1, PostKeepsType DEF PostFound, PostLost
      <4>2. ASSUME NEW a \in Addrs, NEW bits \in SUBSET Announced, PostType(a, bits)
            PROVE  queue' \in Seq(Messages)
        BY <4>2, PostKeepsType DEF PostType
      <4>3. ASSUME NEW a \in Addrs, PowerOff(a) \/ DeviceAnswers \/ \E d \in Devices : PowerOn(a, d)
            PROVE  queue' \in Seq(Messages)
        BY <4>3 DEF PowerOff, PowerOn, DeviceAnswers, NetType
      <4>4. CASE DeviceAnswers
        BY <4>4 DEF DeviceAnswers, NetType
      <4> QED
        BY <2>n, <4>1, <4>2, <4>3, <4>4 DEF Network
    <3> QED
      BY <3>1, <3>2, <3>3, <3>4 DEF NetType, UIType, ShowType, RoundType, LoopType, HistType
  <2>1. ASSUME NEW a \in Addrs, FoundIgnored(a) \/ FoundFails(a) \/ LostIgnored(a)
        PROVE  Types'
    <3>1. NetType'
      BY <2>1, DispatchKeepsType DEF FoundIgnored, FoundFails, LostIgnored, ConnectFails, NetType
    <3>2. LinkType' /\ UNCHANGED <<uiVars, showVars, roundVars, histVars>>
      BY <2>1 DEF FoundIgnored, FoundFails, LostIgnored, ConnectFails, LinkType
    <3> QED
      BY <3>1, <3>2 DEF UIType, ShowType, RoundType, LoopType, HistType
  <2>2. ASSUME NEW a \in Addrs, FoundConnects(a) PROVE Types'
    <3>1. NetType' /\ LinkType' /\ ShowType'
      BY <2>2, DispatchKeepsType DEF FoundConnects, Connects, NetType, LinkType, ShowType
    <3>2. UIType' /\ RoundType' /\ LoopType'
      <4>1. deviceIP' \in Addrs /\ handle' = handle /\ n' = n /\ data' = data
        BY <2>2 DEF FoundConnects
      <4>2. CASE UNCHANGED <<pc, ui>>
        BY <4>1, <4>2 DEF UIType, RoundType, LoopType
      <4>3. ASSUME NEW t \in Threads, pc' = [pc EXCEPT ![t] = "send"],
                   ui' = [at |-> "store", thread |-> t]
            PROVE  UIType' /\ RoundType' /\ LoopType'
        <5>1. UIType'
          BY <4>1, <4>3 DEF UIType
        <5>2. RoundType' /\ LoopType'
          BY <4>1, <4>3 DEF RoundType, LoopType, Places
        <5> QED
          BY <5>1, <5>2
      <4> QED
        BY <2>2, <4>2, <4>3 DEF FoundConnects, StartDeviceTest
    <3>3. HistType'
      BY <2>2 DEF FoundConnects, StartDeviceTest, HistType, NetType
    <3> QED
      BY <3>1, <3>2, <3>3
  <2>3. CASE StoreHandle
    BY <2>3 DEF StoreHandle, Idle, NetType, LinkType, UIType, ShowType, RoundType, LoopType, HistType
  <2>4. ASSUME NEW a \in Addrs, LostClears(a) PROVE Types'
    <3>1. NetType' /\ LinkType' /\ RoundType' /\ LoopType'
      BY <2>4, DispatchKeepsType DEF LostClears, NetType, LinkType, RoundType, LoopType
    <3>2. UIType' /\ ShowType' /\ HistType'
      BY <2>4 DEF LostClears, Idle, UIType, ShowType, HistType
    <3> QED
      BY <3>1, <3>2
  <2>5. CASE LostDisconnects
    BY <2>5 DEF LostDisconnects, Idle, NetType, LinkType, UIType, ShowType, RoundType, LoopType,
                HistType
  <2>6. ASSUME NEW a \in Addrs, NEW bits \in SUBSET Announced, TypeChanged(a, bits) PROVE Types'
    <3>1. NetType' /\ UNCHANGED <<linkVars, uiVars, roundVars, histVars>>
      BY <2>6, DispatchKeepsType DEF TypeChanged, NetType
    <3>2. ShowType'
      BY <2>6 DEF TypeChanged, ShowType
    <3> QED
      BY <3>1, <3>2 DEF LinkType, UIType, RoundType, LoopType, HistType
  <2>7. ASSUME NEW c \in Manual, Button(c) PROVE Types'
    <3>1. ShowType'
      BY <2>7 DEF Button, ShowType
    <3> QED
      BY <2>7, <3>1 DEF Button, NetType, LinkType, UIType, RoundType, LoopType, HistType
  <2>8. ASSUME NEW t \in Threads, TestThread(t) PROVE Types'
    <3>1. NetType' /\ conn' = conn /\ peer' = peer /\ UIType'
      BY <2>8 DEF TestThread, Send, SendFails, Recv, RecvEnd, RecvFails, Write, ShowText, Finish,
                  NetType, UIType
    <3>2. wire' \in {"empty", "request", "answer", "ended"}
      BY <2>8 DEF TestThread, Send, SendFails, Recv, RecvEnd, RecvFails, Write, ShowText, Finish,
                  LinkType
    <3>3. CASE Send(t) \/ SendFails(t) \/ RecvEnd(t) \/ Finish(t)
      <4>1. RoundType' /\ LoopType'
        <5>1. 1 \in 1 .. Tries /\ 1 \in 1 .. Len(Order)
          BY OrderIsMeasured, SMTAssumption
        <5>2. CASE Send(t)
          BY <5>1, <5>2 DEF Send, Goto, RoundType, LoopType, Places
        <5>3. CASE SendFails(t)
          BY <5>3 DEF SendFails, Goto, RoundType, LoopType, Places
        <5>4. CASE RecvEnd(t)
          BY <5>1, <5>4 DEF RecvEnd, Goto, RoundType, LoopType, Places
        <5>5. CASE Finish(t)
          BY <5>5 DEF Finish, Goto, RoundType, LoopType, Places, NoData
        <5> QED
          BY <3>3, <5>2, <5>3, <5>4, <5>5
      <4> QED
        BY <3>1, <3>2, <3>3, <4>1
           DEF Send, SendFails, RecvEnd, Finish, LinkType, ShowType, HistType
    <3>4. ASSUME NEW good \in SUBSET Measured, Recv(t, good) PROVE Types'
      <4>1. [from |-> peer, good |-> good] \in [from : Devices \cup {NoDevice}, good : SUBSET Measured]
        BY DEF LinkType
      <4>2. RoundType' /\ LoopType'
        BY <3>4, <4>1, OrderIsMeasured DEF Recv, Goto, RoundType, LoopType, Places
      <4> QED
        BY <3>1, <3>2, <3>4, <4>2 DEF Recv, LinkType, ShowType, HistType
    <3>5. CASE RecvFails(t)
      <4>1. RoundType' /\ LoopType'
        <5>1. CASE n[t] < Tries /\ n' = [n EXCEPT ![t] = @ + 1] /\ UNCHANGED <<pc, data>>
          <6>1. n[t] + 1 \in 1 .. Tries /\ pc[t] = "recv"
            BY <3>5, <5>1, SMTAssumption DEF RecvFails, LoopType
          <6> QED
            BY <5>1, <6>1 DEF RoundType, LoopType
        <5>2. CASE n' = [n EXCEPT ![t] = 1] /\ pc' = [pc EXCEPT ![t] = "zero"] /\ UNCHANGED data
          <6>1. 1 \in 1 .. Len(Order)
            BY OrderIsMeasured
          <6> QED
            BY <5>2, <6>1 DEF RoundType, LoopType, Places
        <5> QED
          BY <3>5, <5>1, <5>2 DEF RecvFails
      <4> QED
        BY <3>1, <3>2, <3>5, <4>1 DEF RecvFails, LinkType, ShowType, HistType
    <3>6. CASE Write(t)
      <4>1. RoundType' /\ LoopType'
        BY <3>6, LoopKeepsType DEF Write, RoundType
      <4>2. ShowType'
        BY <3>6 DEF Write, ShowType
      <4>3. HistType'
        BY <3>6 DEF Write, HistType, RoundType
      <4> QED
        BY <3>1, <3>2, <3>6, <4>1, <4>2, <4>3 DEF Write, LinkType
    <3>7. CASE ShowText(t)
      <4>1. RoundType' /\ LoopType'
        BY <3>7, LoopKeepsType DEF ShowText, RoundType
      <4>2. ShowType'
        BY <3>7 DEF ShowText, ShowType
      <4> QED
        BY <3>1, <3>2, <3>7, <4>1, <4>2 DEF ShowText, LinkType, HistType
    <3> QED
      BY <2>8, <3>3, <3>4, <3>5, <3>6, <3>7 DEF TestThread
  <2>9. CASE UNCHANGED vars
    BY <2>9 DEF vars, NetType, LinkType, UIType, ShowType, RoundType, LoopType, HistType
  <2> QED
    BY <2>n, <2>1, <2>2, <2>3, <2>4, <2>5, <2>6, <2>7, <2>8, <2>9 DEF Next, Handlers
<1> QED
  BY <1>1, <1>2, TypeParts, PTL DEF Spec

-----------------------------------------------------------------------------
(* One round at a time                                                           *)

\* Whoever runs is in m_hTestThread, or is the thread that OnTnpDeviceFound has created and
\* not yet stored; while there is such a thread, m_hTestThread is NULL.
RoundInv ==
    /\ \A t \in Threads : pc[t] # "idle" => handle = t \/ (ui.at = "store" /\ ui.thread = t)
    /\ ui.at = "store" => handle = NoThread /\ ui.thread \in Threads

\* Two threads that run are one: each is the stored handle or the one about to be stored,
\* and there are never both.
LEMMA RunningIsOne == ASSUME RoundInv PROVE OneRound
BY SMTAssumption DEF RoundInv, OneRound

\* Each step keeps who runs tied to the handle.
LEMMA RoundStep == ASSUME TypeOK, RoundInv, [Next]_vars PROVE RoundInv'
<1> USE DEF netVars, linkVars, uiVars, showVars, roundVars, histVars
<1>1. CASE UNCHANGED <<uiVars, pc>>
  BY <1>1 DEF RoundInv
<1>2. ASSUME NEW a \in Addrs, FoundConnects(a) PROVE RoundInv'
  <2>1. ui = Idle /\ handle' = handle
    BY <1>2 DEF FoundConnects, Dispatch
  <2>2. CASE UNCHANGED <<pc, ui>>
    BY <2>1, <2>2 DEF RoundInv
  <2>3. ASSUME NEW t \in Threads, handle = NoThread, pc' = [pc EXCEPT ![t] = "send"],
               ui' = [at |-> "store", thread |-> t]
        PROVE  RoundInv'
    <3>1. \A u \in Threads : pc[u] = "idle"
      BY <2>1, <2>3, SMTAssumption DEF RoundInv, Idle
    <3> QED
      BY <2>1, <2>3, <3>1 DEF RoundInv, TypeOK
  <2> QED
    BY <1>2, <2>2, <2>3 DEF FoundConnects, StartDeviceTest
<1>3. CASE StoreHandle
  BY <1>3, SMTAssumption DEF StoreHandle, Idle, RoundInv
<1>4. ASSUME NEW a \in Addrs, LostClears(a) PROVE RoundInv'
  BY <1>4 DEF LostClears, Dispatch, Idle, RoundInv
<1>5. CASE LostDisconnects
  BY <1>5 DEF LostDisconnects, Idle, RoundInv
<1>6. ASSUME NEW t \in Threads, TestThread(t) PROVE RoundInv'
  <2>1. CASE Finish(t)
    <3>1. \A u \in Threads : pc[u] # "idle" => u = t
      BY <2>1, RunningIsOne DEF Finish, Goto, OneRound
    <3>2. pc' = [pc EXCEPT ![t] = "idle"] /\ handle' = NoThread /\ ui' = ui
      BY <2>1 DEF Finish, Goto
    <3> QED
      BY <3>1, <3>2 DEF RoundInv, TypeOK
  <2>2. CASE ~Finish(t)
    <3>1. pc[t] # "idle" /\ UNCHANGED <<handle, ui>>
      BY <1>6, <2>2 DEF TestThread, Send, SendFails, Recv, RecvEnd, RecvFails, Write, ShowText, Goto
    <3>2. \A u \in Threads : u # t => pc'[u] = pc[u]
      BY <1>6, <2>2 DEF TestThread, Send, SendFails, Recv, RecvEnd, RecvFails, Write, ShowText,
                        Goto, EachResult, TypeOK
    <3> QED
      BY <3>1, <3>2 DEF RoundInv
  <2> QED
    BY <2>1, <2>2
<1>7. ASSUME NEW a \in Addrs, FoundIgnored(a) \/ FoundFails(a) \/ LostIgnored(a)
             \/ \E bits \in SUBSET Announced : TypeChanged(a, bits)
      PROVE  RoundInv'
  BY <1>1, <1>7 DEF FoundIgnored, FoundFails, LostIgnored, TypeChanged
<1>8. ASSUME Network \/ (\E c \in Manual : Button(c)) \/ UNCHANGED vars PROVE RoundInv'
  BY <1>1, <1>8 DEF Network, PowerOn, PowerOff, PostFound, PostType, PostLost, DeviceAnswers, Button,
                    vars
<1> QED
  BY <1>2, <1>3, <1>4, <1>5, <1>6, <1>7, <1>8 DEF Next, Handlers

\* Who runs is who the handle names.
THEOREM RoundIsHandle == Spec => []RoundInv
<1>1. Init => RoundInv
  BY DEF Init, RoundInv, Idle
<1> QED
  BY <1>1, RoundStep, TypeCorrect, PTL DEF Spec

\* Rounds never overlap: m_hTestThread lets one thread run, also while it is
\* created and not yet stored, and also when its device is lost before it ends.
THEOREM AlwaysOneRound == Spec => []OneRound
BY RoundIsHandle, RunningIsOne, PTL

-----------------------------------------------------------------------------
(* A green result is the attached device's own                                   *)

\* The context's socket is connected to the attached device, if there is one.
AttachedInv ==
    /\ deviceIP = NoAddr <=> own = NoDevice
    /\ deviceIP # NoAddr => peer = own
    /\ ui.at = "lost" => deviceIP = NoAddr

\* What a round has received is from the attached device; without one, no round runs. Both
\* unless a round has outlived its device.
AnswerInv ==
    /\ \A t \in Threads : pc[t] = "idle" => data[t].good = {}
    /\ ~stale /\ deviceIP = NoAddr => \A t \in Threads : pc[t] = "idle"
    /\ ~stale => \A t \in Threads : data[t].good # {} => data[t].from = own

OwnInv == AttachedInv /\ AnswerInv /\ PassIsOwn

\* What the operator and the heartbeats set is no measured result.
LEMMA MeasuredApart == Measured \cap Manual = {} /\ Measured \cap Announced = {}
<1>1. \A k \in 1 .. Len(Order) : Order[k] \in {"lsensor", "spkmic", "version"}
  BY SMTAssumption
<1> QED
  BY <1>1, SMTAssumption DEF Measured

\* Each step keeps the socket with the attached device.
LEMMA AttachedStep == ASSUME TypeOK, AttachedInv, [Next]_vars PROVE AttachedInv'
<1> USE DEF netVars, linkVars, uiVars, showVars, roundVars, histVars
<1>1. CASE UNCHANGED <<deviceIP, own, peer, ui>>
  BY <1>1 DEF AttachedInv
<1>2. ASSUME NEW a \in Addrs, FoundConnects(a) PROVE AttachedInv'
  <2>1. /\ deviceIP' = a /\ own' = dev[a] /\ peer' = dev[a] /\ dev[a] # NoDevice
        /\ ui = Idle /\ (ui' = ui \/ \E t \in Threads : ui' = [at |-> "store", thread |-> t])
    BY <1>2 DEF FoundConnects, Connects, Dispatch, StartDeviceTest
  <2> QED
    BY <2>1, SMTAssumption DEF AttachedInv, Idle
<1>3. ASSUME NEW a \in Addrs, FoundFails(a) PROVE AttachedInv'
  BY <1>3 DEF FoundFails, AttachedInv
<1>4. CASE StoreHandle
  BY <1>4 DEF StoreHandle, Idle, AttachedInv
<1>5. ASSUME NEW a \in Addrs, LostClears(a) PROVE AttachedInv'
  BY <1>5 DEF LostClears, AttachedInv
<1>6. CASE LostDisconnects
  BY <1>6 DEF LostDisconnects, Idle, AttachedInv
<1>7. ASSUME NEW a \in Addrs, FoundIgnored(a) \/ LostIgnored(a)
             \/ \E bits \in SUBSET Announced : TypeChanged(a, bits)
      PROVE  AttachedInv'
  BY <1>1, <1>7 DEF FoundIgnored, LostIgnored, TypeChanged
<1>8. ASSUME Network \/ (\E c \in Manual : Button(c)) \/ UNCHANGED vars PROVE AttachedInv'
  BY <1>1, <1>8 DEF Network, PowerOn, PowerOff, PostFound, PostType, PostLost, DeviceAnswers, Button,
                    vars
<1>9. ASSUME NEW t \in Threads, TestThread(t) PROVE AttachedInv'
  BY <1>1, <1>9 DEF TestThread, Send, SendFails, Recv, RecvEnd, RecvFails, Write, ShowText, Finish
<1> QED
  BY <1>2, <1>3, <1>4, <1>5, <1>6, <1>7, <1>8, <1>9 DEF Next, Handlers

\* Each step keeps the results the attached device's.
LEMMA OwnStep == ASSUME TypeOK, OwnInv, [Next]_vars PROVE OwnInv'
<1> USE DEF netVars, linkVars, uiVars, showVars, roundVars, histVars
<1> SUFFICES AnswerInv' /\ PassIsOwn'
  BY AttachedStep DEF OwnInv
<1>1. CASE UNCHANGED <<deviceIP, own, stale, pc, data, res, by>>
  BY <1>1 DEF OwnInv, AnswerInv, PassIsOwn
<1>2. ASSUME NEW a \in Addrs, FoundConnects(a) PROVE AnswerInv' /\ PassIsOwn'
  <2>1. /\ deviceIP = NoAddr /\ own = NoDevice /\ deviceIP' # NoAddr /\ data' = data
        /\ stale' = stale /\ res' = res /\ by' = by
    BY <1>2, SMTAssumption DEF FoundConnects, OwnInv, AttachedInv
  <2>2. PassIsOwn'
    BY <2>1 DEF OwnInv, PassIsOwn
  <2>3. \A t \in Threads : pc'[t] = "idle" => pc[t] = "idle"
    BY <1>2 DEF FoundConnects, StartDeviceTest, TypeOK
  <2> QED
    BY <2>1, <2>2, <2>3 DEF OwnInv, AnswerInv
<1>3. ASSUME NEW a \in Addrs, LostClears(a) PROVE AnswerInv' /\ PassIsOwn'
  <2>1. \A c \in Results : res'[c] = "none"
    BY <1>3 DEF LostClears
  <2>2. PassIsOwn'
    BY <2>1, OrderIsMeasured DEF PassIsOwn
  <2> QED
    BY <1>3, <2>2 DEF LostClears, OwnInv, AnswerInv
<1>4. ASSUME NEW t \in Threads, TestThread(t) PROVE AnswerInv' /\ PassIsOwn'
  <2>1. ~stale => deviceIP # NoAddr /\ own # NoDevice /\ peer = own
    BY <1>4 DEF OwnInv, AnswerInv, AttachedInv, TestThread, Send, SendFails, Recv, RecvEnd, RecvFails,
                Write, ShowText, Finish, Goto
  <2>2. UNCHANGED <<deviceIP, own, stale>>
    BY <1>4 DEF TestThread, Send, SendFails, Recv, RecvEnd, RecvFails, Write, ShowText, Finish
  <2>3. CASE Send(t) \/ SendFails(t) \/ RecvEnd(t) \/ RecvFails(t) \/ ShowText(t)
    <3>1. UNCHANGED <<data, res, by>>
      BY <2>3 DEF Send, SendFails, RecvEnd, RecvFails, ShowText
    <3>2. \A u \in Threads : pc'[u] = "idle" => pc[u] = "idle"
      BY <2>3 DEF Send, SendFails, RecvEnd, RecvFails, ShowText, Goto, EachResult, TypeOK
    <3> QED
      BY <2>1, <2>2, <3>1, <3>2 DEF OwnInv, AnswerInv, PassIsOwn
  <2>4. ASSUME NEW good \in SUBSET Measured, Recv(t, good) PROVE AnswerInv' /\ PassIsOwn'
    <3>1. /\ pc' = [pc EXCEPT ![t] = "write"] /\ res' = res /\ by' = by
          /\ data' = [data EXCEPT ![t] = [from |-> peer, good |-> good]]
      BY <2>4 DEF Recv, Goto
    <3> QED
      BY <2>1, <2>2, <3>1 DEF OwnInv, AnswerInv, PassIsOwn, TypeOK
  <2>5. CASE Write(t)
    <3>1. data' = data /\ \A u \in Threads : pc'[u] = "idle" => pc[u] = "idle"
      BY <2>5 DEF Write, EachResult, TypeOK
    <3>2. AnswerInv'
      BY <2>1, <2>2, <3>1 DEF OwnInv, AnswerInv
    <3>3. PICK c \in Measured :
             /\ res' = [res EXCEPT ![c] = IF c \in data[t].good THEN "OK" ELSE "NG"]
             /\ by'  = [by EXCEPT ![c] = data[t].from]
      <4>1. n[t] \in 1 .. Len(Order)
        BY <2>5 DEF Write, TypeOK
      <4> QED
        BY <2>5, <4>1, OrderIsMeasured DEF Write
    <3>4. ~stale /\ data[t].good # {} => data[t].from = own
      BY DEF OwnInv, AnswerInv
    <3>5. PassIsOwn'
      BY <2>1, <2>2, <3>3, <3>4, OrderIsMeasured DEF OwnInv, PassIsOwn, TypeOK
    <3> QED
      BY <3>2, <3>5
  <2>6. CASE Finish(t)
    <3>1. /\ pc' = [pc EXCEPT ![t] = "idle"] /\ res' = res /\ by' = by
          /\ data' = [data EXCEPT ![t] = NoData]
      BY <2>6 DEF Finish, Goto
    <3> QED
      BY <2>1, <2>2, <3>1 DEF OwnInv, AnswerInv, PassIsOwn, TypeOK, NoData
  <2> QED
    BY <1>4, <2>3, <2>4, <2>5, <2>6 DEF TestThread
<1>5. ASSUME NEW a \in Addrs, NEW bits \in SUBSET Announced, TypeChanged(a, bits)
      PROVE  AnswerInv' /\ PassIsOwn'
  <2>1. \A c \in Measured : res'[c] = res[c]
    BY <1>5, MeasuredApart, OrderIsMeasured DEF TypeChanged
  <2> QED
    BY <1>5, <2>1 DEF TypeChanged, OwnInv, AnswerInv, PassIsOwn
<1>6. ASSUME NEW c \in Manual, Button(c) PROVE AnswerInv' /\ PassIsOwn'
  <2>1. \A d \in Measured : res'[d] = res[d]
    BY <1>6, MeasuredApart, OrderIsMeasured DEF Button, TypeOK
  <2> QED
    BY <1>6, <2>1 DEF Button, OwnInv, AnswerInv, PassIsOwn
<1>7. ASSUME NEW a \in Addrs, FoundIgnored(a) \/ FoundFails(a) \/ LostIgnored(a)
      PROVE  AnswerInv' /\ PassIsOwn'
  BY <1>1, <1>7 DEF FoundIgnored, FoundFails, LostIgnored
<1>8. CASE StoreHandle \/ LostDisconnects
  BY <1>1, <1>8 DEF StoreHandle, LostDisconnects
<1>9. CASE Network \/ UNCHANGED vars
  BY <1>1, <1>9 DEF Network, PowerOn, PowerOff, PostFound, PostType, PostLost, DeviceAnswers, vars
<1> QED
  BY <1>2, <1>3, <1>4, <1>5, <1>6, <1>7, <1>8, <1>9 DEF Next, Handlers

\* The socket, the answers and the results belong to the attached device.
THEOREM OwnInvariant == Spec => []OwnInv
<1>1. Init => OwnInv
  BY OrderIsMeasured DEF Init, OwnInv, AttachedInv, AnswerInv, PassIsOwn, NoData, Idle
<1> QED
  BY <1>1, OwnStep, TypeCorrect, PTL DEF Spec

\* A green result was measured on the device that OnTnpDeviceFound attached, unless a round
\* has outlived its device.
THEOREM PassAlwaysOwn == Spec => []PassIsOwn
BY OwnInvariant, PTL DEF OwnInv

-----------------------------------------------------------------------------
(* A device that is attached has its results                                     *)

AllIdle      == \A t \in Threads : pc[t] = "idle"
AllMeasured  == \A c \in Measured : res[c] # "none"
MeasuredTo(k) == \A j \in 1 .. Len(Order) : j < k => res[Order[j]] # "none"

\* A stored handle is that of a thread that runs, or the round has ended too early for it.
HandleInv == handle # NoThread => pc[handle] # "idle" \/ early

\* Rounds are refused only for a handle that should be NULL, or one that belongs to the
\* round of an earlier device.
RefusedInv ==
    /\ refused => stale \/ early
    /\ ~stale /\ refused => AllIdle

\* Where a round is in its writing tells which results there are.
WrittenInv ==
    deviceIP # NoAddr /\ ~refused =>
        /\ \A t \in Threads : /\ pc[t] = "text" => AllMeasured
                              /\ pc[t] \in {"write", "zero"} => MeasuredTo(n[t])
        /\ wire # "ended" => /\ \A t \in Threads : pc[t] = "close" => AllMeasured
                             /\ AllIdle => AllMeasured

DoneInv == HandleInv /\ RefusedInv /\ WrittenInv

\* Each step keeps what is known of the handle and of refused rounds.
LEMMA RefusedStep ==
  ASSUME TypeOK, RoundInv, OwnInv, HandleInv, RefusedInv, [Next]_vars
  PROVE  HandleInv' /\ RefusedInv'
<1> USE DEF netVars, linkVars, uiVars, showVars, roundVars, histVars
<1>1. CASE UNCHANGED <<handle, pc, stale, early, refused>>
  BY <1>1 DEF HandleInv, RefusedInv, AllIdle
<1>2. ASSUME NEW a \in Addrs, FoundConnects(a) PROVE HandleInv' /\ RefusedInv'
  <2>1. /\ handle' = handle /\ stale' = stale /\ early' = early /\ ui = Idle
        /\ ~stale => AllIdle
    BY <1>2 DEF FoundConnects, Dispatch, OwnInv, AnswerInv, AllIdle
  <2>2. CASE handle # NoThread /\ refused' = TRUE /\ pc' = pc
    <3>1. ~stale => early
      BY <2>1, <2>2 DEF HandleInv, AllIdle, TypeOK
    <3> QED
      BY <2>1, <2>2, <3>1 DEF HandleInv, RefusedInv, AllIdle
  <2>3. CASE handle = NoThread /\ refused' = FALSE
    BY <2>1, <2>3 DEF HandleInv, RefusedInv
  <2> QED
    BY <1>2, <2>2, <2>3 DEF FoundConnects, StartDeviceTest
<1>3. CASE StoreHandle
  BY <1>3 DEF StoreHandle, HandleInv, RefusedInv, AllIdle
<1>4. ASSUME NEW a \in Addrs, LostClears(a) PROVE HandleInv' /\ RefusedInv'
  BY <1>4 DEF LostClears, HandleInv, RefusedInv
<1>5. ASSUME NEW t \in Threads, TestThread(t) PROVE HandleInv' /\ RefusedInv'
  <2>1. UNCHANGED <<stale, early, refused>>
    BY <1>5 DEF TestThread, Send, SendFails, Recv, RecvEnd, RecvFails, Write, ShowText, Finish
  <2>2. pc[t] # "idle"
    BY <1>5 DEF TestThread, Send, SendFails, Recv, RecvEnd, RecvFails, Write, ShowText, Finish, Goto
  <2>3. RefusedInv'
    BY <2>1, <2>2 DEF RefusedInv, AllIdle
  <2>4. CASE Finish(t)
    BY <2>3, <2>4 DEF Finish, HandleInv
  <2>5. CASE ~Finish(t)
    <3>1. /\ handle' = handle
          /\ \A u \in Threads : pc[u] # "idle" => pc'[u] # "idle"
      BY <1>5, <2>5 DEF TestThread, Send, SendFails, Recv, RecvEnd, RecvFails, Write, ShowText, Goto,
                        EachResult, TypeOK
    <3> QED
      BY <2>1, <2>3, <3>1 DEF HandleInv, TypeOK
  <2> QED
    BY <2>4, <2>5
<1>6. ASSUME NEW a \in Addrs, FoundIgnored(a) \/ FoundFails(a) \/ LostIgnored(a)
             \/ \E bits \in SUBSET Announced : TypeChanged(a, bits)
      PROVE  HandleInv' /\ RefusedInv'
  BY <1>1, <1>6 DEF FoundIgnored, FoundFails, LostIgnored, TypeChanged
<1>7. ASSUME Network \/ LostDisconnects \/ (\E c \in Manual : Button(c)) \/ UNCHANGED vars
      PROVE  HandleInv' /\ RefusedInv'
  BY <1>1, <1>7 DEF Network, PowerOn, PowerOff, PostFound, PostType, PostLost, DeviceAnswers, Button,
                    LostDisconnects, vars
<1> QED
  BY <1>2, <1>3, <1>4, <1>5, <1>6, <1>7 DEF Next, Handlers

\* Each step keeps the results that its round has written.
LEMMA WrittenStep ==
  ASSUME TypeOK, RoundInv, OwnInv, WrittenInv, [Next]_vars
  PROVE  WrittenInv'
<1> USE DEF netVars, linkVars, uiVars, showVars, roundVars, histVars
<1>1. CASE UNCHANGED <<deviceIP, refused, pc, n, res>> /\ (wire' # "ended" => wire # "ended")
  BY <1>1 DEF WrittenInv, AllMeasured, MeasuredTo, AllIdle
<1>2. ASSUME NEW a \in Addrs, FoundConnects(a) PROVE WrittenInv'
  <2>1. CASE refused' = TRUE
    BY <2>1 DEF WrittenInv
  <2>2. ASSUME NEW t \in Threads, handle = NoThread, pc' = [pc EXCEPT ![t] = "send"]
        PROVE  WrittenInv'
    <3>1. AllIdle
      BY <1>2, <2>2, SMTAssumption DEF FoundConnects, Dispatch, RoundInv, Idle, AllIdle
    <3>2. \A u \in Threads : pc'[u] \in {"idle", "send"}
      BY <2>2, <3>1 DEF AllIdle, TypeOK
    <3>3. ~AllIdle'
      BY <2>2 DEF AllIdle, TypeOK
    <3> QED
      BY <3>2, <3>3 DEF WrittenInv
  <2> QED
    BY <1>2, <2>1, <2>2 DEF FoundConnects, StartDeviceTest
<1>3. ASSUME NEW a \in Addrs, LostClears(a) \/ FoundFails(a) PROVE WrittenInv'
  BY <1>3 DEF LostClears, FoundFails, WrittenInv
<1>4. CASE LostDisconnects
  BY <1>4 DEF LostDisconnects, WrittenInv, OwnInv, AttachedInv
<1>5. ASSUME NEW t \in Threads, TestThread(t) PROVE WrittenInv'
  <2> SUFFICES ASSUME deviceIP # NoAddr, ~refused PROVE WrittenInv'
    BY <1>5 DEF WrittenInv, TestThread, Send, SendFails, Recv, RecvEnd, RecvFails, Write, ShowText,
                Finish
  <2>1. peer # NoDevice /\ pc[t] # "idle" /\ \A u \in Threads : u # t => pc[u] = "idle"
    BY <1>5, RunningIsOne DEF OwnInv, AttachedInv, OneRound, TestThread, Send, SendFails, Recv, RecvEnd,
                            RecvFails, Write, ShowText, Finish, Goto
  <2>2. CASE Send(t)
    <3>1. pc' = [pc EXCEPT ![t] = "recv"]
      BY <2>2 DEF Send, Goto
    <3>2. (\A u \in Threads : pc'[u] \in {"idle", "recv"}) /\ ~AllIdle'
      BY <2>1, <3>1 DEF AllIdle, TypeOK
    <3> QED
      BY <3>2 DEF WrittenInv
  <2>3. CASE SendFails(t)
    <3>1. pc' = [pc EXCEPT ![t] = "close"] /\ wire' = "ended"
      BY <2>1, <2>3 DEF SendFails, Goto
    <3>2. \A u \in Threads : pc'[u] \in {"idle", "close"}
      BY <2>1, <3>1 DEF TypeOK
    <3> QED
      BY <3>1, <3>2 DEF WrittenInv
  <2>4. CASE RecvEnd(t) \/ \E good \in SUBSET Measured : Recv(t, good)
    <3>1. pc' = [pc EXCEPT ![t] = "write"] /\ n' = [n EXCEPT ![t] = 1]
      BY <2>4 DEF RecvEnd, Recv, Goto
    <3>2. /\ \A u \in Threads : pc'[u] \in {"idle", "write"} /\ (pc'[u] = "write" => n'[u] = 1)
          /\ ~AllIdle'
      BY <2>1, <3>1 DEF AllIdle, TypeOK
    <3>3. \A k : k = 1 => MeasuredTo(k)'
      BY OrderIsMeasured DEF MeasuredTo
    <3> QED
      BY <3>2, <3>3 DEF WrittenInv
  <2>5. CASE RecvFails(t)
    <3>1. CASE pc' = [pc EXCEPT ![t] = "zero"] /\ n' = [n EXCEPT ![t] = 1]
      <4>1. /\ \A u \in Threads : pc'[u] \in {"idle", "zero"} /\ (pc'[u] = "zero" => n'[u] = 1)
            /\ ~AllIdle'
        BY <2>1, <3>1 DEF AllIdle, TypeOK
      <4>2. \A k : k = 1 => MeasuredTo(k)'
        BY OrderIsMeasured DEF MeasuredTo
      <4> QED
        BY <4>1, <4>2 DEF WrittenInv
    <3>2. CASE pc' = pc /\ pc[t] = "recv"
      <4>1. (\A u \in Threads : pc'[u] \in {"idle", "recv"}) /\ ~AllIdle'
        BY <2>1, <3>2 DEF AllIdle
      <4> QED
        BY <4>1 DEF WrittenInv
    <3> QED
      BY <2>5, <3>1, <3>2 DEF RecvFails
  <2>6. CASE Write(t)
    <3>1. /\ pc[t] \in {"write", "zero"} /\ n[t] \in 1 .. Len(Order) /\ MeasuredTo(n[t])
          /\ Order[n[t]] \in Results
      BY <2>6, OrderIsMeasured DEF Write, WrittenInv, TypeOK
    <3>2. \A j \in 1 .. Len(Order) : j <= n[t] => res'[Order[j]] # "none"
      BY <2>6, <3>1, OrderIsMeasured DEF Write, MeasuredTo, TypeOK
    <3>3. CASE n[t] < Len(Order)
      <4>1. pc' = pc /\ n' = [n EXCEPT ![t] = @ + 1]
        BY <2>6, <3>3 DEF Write, EachResult
      <4>2. n'[t] = n[t] + 1 /\ MeasuredTo(n[t])'
        <5>1. n'[t] = n[t] + 1
          BY <4>1 DEF TypeOK
        <5>2. \A j \in 1 .. Len(Order) : j < n[t] + 1 => j <= n[t]
          BY <3>1
        <5> QED
          BY <5>1, <5>2, <3>2 DEF MeasuredTo
      <4>3. (\A u \in Threads : pc'[u] \in {"idle", "write", "zero"}) /\ ~AllIdle'
        BY <2>1, <3>1, <4>1 DEF AllIdle
      <4>4. \A u \in Threads : pc'[u] \in {"write", "zero"} => u = t
        BY <2>1, <4>1
      <4> QED
        BY <4>2, <4>3, <4>4 DEF WrittenInv
    <3>4. CASE ~(n[t] < Len(Order))
      <4>1. \E next \in {"text", "close"} : pc' = [pc EXCEPT ![t] = next]
        BY <2>6, <3>4 DEF Write, EachResult
      <4>2. AllMeasured'
        BY <3>1, <3>2, <3>4, OrderIsMeasured DEF AllMeasured, Measured
      <4>3. \A u \in Threads : pc'[u] \in {"idle", "text", "close"}
        BY <2>1, <4>1 DEF TypeOK
      <4> QED
        BY <4>2, <4>3 DEF WrittenInv
    <3> QED
      BY <3>3, <3>4
  <2>7. CASE ShowText(t)
    <3>1. AllMeasured /\ res' = res /\ pc[t] = "text"
      BY <2>7 DEF ShowText, WrittenInv
    <3>2. AllMeasured'
      BY <3>1 DEF AllMeasured
    <3>3. \A u \in Threads : pc'[u] \in {"idle", "text", "close"}
      BY <2>1, <2>7 DEF ShowText, EachResult, TypeOK
    <3> QED
      BY <3>2, <3>3 DEF WrittenInv
  <2>8. CASE Finish(t)
    <3>1. pc' = [pc EXCEPT ![t] = "idle"] /\ pc[t] = "close" /\ res' = res /\ wire' = wire
      BY <2>8 DEF Finish, Goto
    <3>2. \A u \in Threads : pc'[u] = "idle"
      BY <2>1, <3>1 DEF TypeOK
    <3>3. wire' # "ended" => AllMeasured'
      BY <3>1 DEF WrittenInv, AllMeasured
    <3> QED
      BY <3>2, <3>3 DEF WrittenInv
  <2> QED
    BY <1>5, <2>2, <2>3, <2>4, <2>5, <2>6, <2>7, <2>8 DEF TestThread
<1>6. ASSUME NEW a \in Addrs, NEW bits \in SUBSET Announced, TypeChanged(a, bits) PROVE WrittenInv'
  <2>1. \A c \in Measured : res'[c] = res[c]
    BY <1>6, MeasuredApart, OrderIsMeasured DEF TypeChanged
  <2> QED
    BY <1>6, <2>1, OrderIsMeasured DEF TypeChanged, WrittenInv, AllMeasured, MeasuredTo, AllIdle
<1>7. ASSUME NEW c \in Manual, Button(c) PROVE WrittenInv'
  <2>1. \A d \in Measured : res'[d] = res[d]
    BY <1>7, MeasuredApart, OrderIsMeasured DEF Button, TypeOK
  <2> QED
    BY <1>7, <2>1, OrderIsMeasured DEF Button, WrittenInv, AllMeasured, MeasuredTo, AllIdle
<1>8. ASSUME NEW a \in Addrs, FoundIgnored(a) \/ LostIgnored(a) PROVE WrittenInv'
  BY <1>1, <1>8 DEF FoundIgnored, LostIgnored
<1>9. CASE StoreHandle \/ Network \/ UNCHANGED vars
  BY <1>1, <1>9 DEF StoreHandle, Network, PowerOn, PowerOff, PostFound, PostType, PostLost,
                    DeviceAnswers, vars
<1> QED
  BY <1>2, <1>3, <1>4, <1>5, <1>6, <1>7, <1>8, <1>9 DEF Next, Handlers

\* The handle, the refused rounds and the progress of a round in its writing.
THEOREM DoneInvariant == Spec => []DoneInv
<1>1. Init => DoneInv
  BY DEF Init, DoneInv, HandleInv, RefusedInv, WrittenInv
<1> QED
  BY <1>1, RefusedStep, WrittenStep, TypeCorrect, RoundIsHandle, OwnInvariant, PTL DEF Spec, DoneInv

\* Once its round is over, a device that OnTnpDeviceFound attached has all its measured
\* results, unless its connection broke or its round was refused.
THEOREM RestIsAlwaysTested == Spec => []RestIsTested
<1>1. DoneInv => RestIsTested
  BY DEF DoneInv, RefusedInv, WrittenInv, RestIsTested, AllIdle, AllMeasured
<1> QED
  BY <1>1, DoneInvariant, PTL

-----------------------------------------------------------------------------
(* What a button says has its colour                                             *)

NoText == \A c \in Measured : text[c] = "NG"

\* Until a round shows its results the measured ones all say "NG", and so they do while there
\* is no device. Both unless a round has outlived its device.
ColorInv ==
    /\ TextHasColor
    /\ ~stale => /\ \A t \in Threads : pc[t] \in {"send", "recv", "write", "zero"} => NoText
                 /\ deviceIP = NoAddr /\ ui.at # "lost" => NoText

\* Each step keeps the buttons with the results.
LEMMA ColorStep ==
  ASSUME TypeOK, RoundInv, OwnInv, RefusedInv, WrittenInv, ColorInv, [Next]_vars
  PROVE  ColorInv'
<1> USE DEF netVars, linkVars, uiVars, showVars, roundVars, histVars
<1>1. CASE UNCHANGED <<deviceIP, stale, pc, res, text>> /\ (ui'.at # "lost" => ui.at # "lost")
  BY <1>1 DEF ColorInv, TextHasColor, BackColor, NoText
<1>2. ASSUME NEW a \in Addrs, FoundConnects(a) PROVE ColorInv'
  <2>1. UNCHANGED <<stale, res, text>> /\ deviceIP' # NoAddr /\ ui = Idle
    BY <1>2, SMTAssumption DEF FoundConnects, Dispatch
  <2>2. ~stale => NoText'
    BY <1>2, <2>1 DEF FoundConnects, ColorInv, NoText, Idle
  <2>3. TextHasColor'
    BY <2>1 DEF ColorInv, TextHasColor, BackColor, Idle
  <2> QED
    BY <2>1, <2>2, <2>3 DEF ColorInv
<1>3. ASSUME NEW a \in Addrs, LostClears(a) PROVE ColorInv'
  BY <1>3 DEF LostClears, Idle, ColorInv, TextHasColor
<1>4. CASE LostDisconnects
  <2>1. \A c \in Results : text'[c] = "NG"
    BY <1>4 DEF LostDisconnects
  <2> QED
    BY <2>1, OrderIsMeasured DEF ColorInv, TextHasColor, NoText
<1>5. ASSUME NEW t \in Threads, TestThread(t) PROVE ColorInv'
  <2>1. /\ UNCHANGED <<deviceIP, stale, ui>> /\ (~stale => deviceIP # NoAddr /\ ~refused)
        /\ \A u \in Threads : u # t => pc[u] = "idle"
    BY <1>5, RunningIsOne DEF OwnInv, AnswerInv, RefusedInv, AllIdle, OneRound, TestThread, Send,
                              SendFails, Recv, RecvEnd, RecvFails, Write, ShowText, Finish, Goto
  <2>2. CASE \/ Send(t) \/ SendFails(t) \/ RecvEnd(t) \/ RecvFails(t) \/ Finish(t)
             \/ \E good \in SUBSET Measured : Recv(t, good)
    <3>1. UNCHANGED <<res, text>>
      BY <2>2 DEF Send, SendFails, Recv, RecvEnd, RecvFails, Finish
    <3>2. \A u \in Threads : pc'[u] \in {"send", "recv", "write", "zero"}
                            => pc[u] \in {"send", "recv", "write", "zero"}
      BY <2>2 DEF Send, SendFails, Recv, RecvEnd, RecvFails, Finish, Goto, TypeOK
    <3> QED
      BY <2>1, <3>1, <3>2 DEF ColorInv, TextHasColor, BackColor, NoText
  <2>3. CASE Write(t)
    <3>1. text' = text /\ (~stale => NoText)
      BY <2>3 DEF Write, ColorInv
    <3>2. PICK c \in Measured :
             res' = [res EXCEPT ![c] = IF c \in data[t].good THEN "OK" ELSE "NG"]
      <4>1. n[t] \in 1 .. Len(Order)
        BY <2>3 DEF Write, TypeOK
      <4> QED
        BY <2>3, <4>1, OrderIsMeasured DEF Write
    <3>3. TextHasColor'
      <4> SUFFICES ASSUME ~stale, ui.at # "lost", NEW d \in Results, text[d] = "PASS"
                   PROVE  BackColor(d)'  = "green"
        BY <2>1, <3>1 DEF TextHasColor
      <4>1. d # c
        BY <3>1 DEF NoText
      <4>2. res'[d] = res[d]
        BY <3>2, <4>1 DEF TypeOK
      <4> QED
        BY <4>2 DEF ColorInv, TextHasColor, BackColor
    <3> QED
      BY <2>1, <3>1, <3>3 DEF ColorInv, NoText
  <2>4. CASE ShowText(t)
    <3>1. res' = res /\ pc[t] = "text" /\ (~stale => AllMeasured)
      BY <2>1, <2>4 DEF ShowText, WrittenInv
    <3>2. PICK c \in Measured :
             text' = [text EXCEPT ![c] = IF res[c] = "NG" THEN "NG" ELSE "PASS"]
      <4>1. n[t] \in 1 .. Len(Order)
        BY <2>4 DEF ShowText, TypeOK
      <4> QED
        BY <2>4, <4>1, OrderIsMeasured DEF ShowText
    <3>3. TextHasColor'
      <4> SUFFICES ASSUME ~stale, ui.at # "lost", NEW d \in Results, text'[d] = "PASS"
                   PROVE  res[d] = "OK"
        BY <2>1, <3>1 DEF TextHasColor, BackColor
      <4>1. CASE d = c
        BY <3>1, <3>2, <4>1, OrderIsMeasured DEF AllMeasured, TypeOK
      <4>2. CASE d # c
        <5>1. text[d] = "PASS"
          BY <3>2, <4>2 DEF TypeOK
        <5> QED
          BY <5>1 DEF ColorInv, TextHasColor, BackColor, TypeOK
      <4> QED
        BY <4>1, <4>2
    <3>4. \A u \in Threads : pc'[u] \in {"idle", "text", "close"}
      BY <2>1, <2>4, <3>1 DEF ShowText, EachResult, TypeOK
    <3> QED
      BY <2>1, <3>3, <3>4 DEF ColorInv
  <2> QED
    BY <1>5, <2>2, <2>3, <2>4 DEF TestThread
<1>6. ASSUME NEW a \in Addrs, NEW bits \in SUBSET Announced, TypeChanged(a, bits) PROVE ColorInv'
  <2>1. /\ \A c \in Measured : text'[c] = text[c]
        /\ \A c \in Results : \/ res'[c] = res[c] /\ text'[c] = text[c]
                              \/ res'[c] = "OK" /\ text'[c] = "PASS"
    BY <1>6, MeasuredApart, OrderIsMeasured DEF TypeChanged
  <2>2. UNCHANGED <<deviceIP, stale, pc, ui>>
    BY <1>6 DEF TypeChanged
  <2> QED
    BY <2>1, <2>2 DEF ColorInv, TextHasColor, BackColor, NoText
<1>7. ASSUME NEW b \in Manual, Button(b) PROVE ColorInv'
  <2>1. /\ \A c \in Measured : text'[c] = text[c]
        /\ \A c \in Results : \/ res'[c] = res[c] /\ text'[c] = text[c]
                              \/ res'[c] = "OK" /\ text'[c] = "PASS"
                              \/ res'[c] = "NG" /\ text'[c] = "NG"
    BY <1>7, MeasuredApart, OrderIsMeasured DEF Button, TypeOK, Results
  <2>2. UNCHANGED <<deviceIP, stale, pc, ui>>
    BY <1>7 DEF Button
  <2> QED
    BY <2>1, <2>2 DEF ColorInv, TextHasColor, BackColor, NoText
<1>8. ASSUME NEW a \in Addrs, FoundIgnored(a) \/ FoundFails(a) \/ LostIgnored(a) PROVE ColorInv'
  BY <1>1, <1>8 DEF FoundIgnored, FoundFails, LostIgnored
<1>9. CASE StoreHandle
  BY <1>1, <1>9 DEF StoreHandle
<1>10. CASE Network \/ UNCHANGED vars
  BY <1>1, <1>10 DEF Network, PowerOn, PowerOff, PostFound, PostType, PostLost, DeviceAnswers, vars
<1> QED
  BY <1>2, <1>3, <1>4, <1>5, <1>6, <1>7, <1>8, <1>9, <1>10 DEF Next, Handlers

\* The buttons and the results go together.
THEOREM ColorInvariant == Spec => []ColorInv
<1>1. Init => ColorInv
  BY OrderIsMeasured DEF Init, ColorInv, TextHasColor, NoText
<1> QED
  BY <1>1, ColorStep, TypeCorrect, RoundIsHandle, OwnInvariant, DoneInvariant, PTL DEF Spec, DoneInv

\* A button that says "PASS" is green, unless a round has outlived its device.
THEOREM TextAlwaysHasColor == Spec => []TextHasColor
BY ColorInvariant, PTL DEF ColorInv
=============================================================================
