--------------------------- MODULE DeviceServerProofs ---------------------------
(* Theorems about DeviceServer, for every number of descriptors.                 *)
EXTENDS DeviceServer, WellFoundedInduction, TLAPS

USE DEF Fds, NoFd

-----------------------------------------------------------------------------
(* Descriptors                                                                   *)

\* Every set of naturals that is not empty has a least one.
LEMMA HasLeast ==
  ASSUME NEW S \in SUBSET Nat, S # {}
  PROVE  \E x \in S : \A y \in S : x <= y
<1> DEFINE R == OpToRel(<, Nat)
<1>1. IsWellFoundedOn(R, Nat)
  BY NatLessThanWellFounded, Zenon
<1>2. PICK x \in S : \A y \in S : <<y, x>> \notin R
  <2> HIDE DEF R
  <2> QED
    BY <1>1, WFMin, Zenon
<1>3. \A y \in S : ~(y < x)
  BY <1>2 DEF OpToRel
<1> QED
  BY <1>3

\* What a call that opens a file gives is a free descriptor, or none.
LEMMA LowestIsFree ==
  ASSUME Free # {}
  PROVE  Lowest \in Fds /\ files[Lowest] = "free"
<1>1. \E x \in Free : \A y \in Free : x <= y
  <2>1. Free \in SUBSET Nat
    BY MaxFdsAssumption DEF Free
  <2> QED
    BY <2>1, HasLeast
<1>2. Lowest \in Free
  BY <1>1 DEF Lowest
<1> QED
  BY <1>2 DEF Free

\* When no descriptor is free, open gives none and changes nothing.
LEMMA NothingFree ==
  ASSUME Free = {}
  PROVE  Lowest = NoFd /\ \A what : Opened(what) = files
BY DEF Lowest, Opened

-----------------------------------------------------------------------------
(* Types                                                                         *)

USE DEF Kinds

\* Opening keeps the type of the descriptors.
LEMMA OpenedType ==
  ASSUME TypeOK, NEW what \in Kinds
  PROVE  Opened(what) \in [Fds -> Kinds \cup {"free"}] /\ Lowest \in 0 .. MaxFds
BY LowestIsFree, MaxFdsAssumption DEF TypeOK, Opened, Lowest

\* Closing keeps the type of the descriptors.
LEMMA ClosedType ==
  ASSUME TypeOK, NEW x
  PROVE  Closed(x) \in [Fds -> Kinds \cup {"free"}]
BY DEF TypeOK, Closed

ServerStates == [at : {"accept", "recv", "test", "send", "close", "again"}, fd : 0 .. MaxFds,
                 req : RequestsIn(mode) \cup {"none"}]
ButtonStates == [at : {"none", "open", "read", "count", "off", "ir"}, fd : 0 .. MaxFds,
                 key : {0, 1}, press : 0 .. 4]

\* The initial state has its types.
LEMMA InitType == Init => TypeOK
<1> SUFFICES ASSUME Init PROVE TypeOK
  OBVIOUS
<1>1. files \in [Fds -> Kinds \cup {"free"}]
  BY DEF Init
<1>2. srv \in ServerStates
  BY MaxFdsAssumption DEF Init, ServerStates
<1>3. btn \in ButtonStates
  BY MaxFdsAssumption DEF Init, ButtonStates
<1> QED
  BY <1>1, <1>2, <1>3, MaxFdsAssumption DEF Init, TypeOK, ServerStates, ButtonStates

\* Type correctness of the threads and the descriptors of the device.
THEOREM TypeCorrect == Spec => []TypeOK
<1>1. Init => TypeOK
  BY InitType
<1>2. TypeOK /\ [Next]_vars => TypeOK'
  <2> SUFFICES ASSUME TypeOK, [Next]_vars PROVE TypeOK'
    OBVIOUS
  <2> USE DEF srvVars, hbVars, btnVars, irVars
  <2>1. CASE HeartBeat
    <3>1. ASSUME NEW net \in {"usb", "wifi"}, NEW next \in {"wifi", "send"}, LookUp(net, next)
          PROVE  TypeOK'
      BY <3>1, OpenedType DEF LookUp, TypeOK
    <3>2. CASE SendBeat
      BY <3>2 DEF SendBeat, TypeOK
    <3>3. CASE OpenSensor
      BY <3>3, OpenedType DEF OpenSensor, TypeOK
    <3>4. CASE ReadSensor
      BY <3>4, ClosedType, MaxFdsAssumption DEF ReadSensor, TypeOK
    <3>5. CASE AutoIR
      BY <3>5 DEF AutoIR, TypeOK
    <3> QED
      BY <2>1, <3>1, <3>2, <3>3, <3>4, <3>5 DEF HeartBeat
  <2>2. CASE PressOrRelease
    BY <2>2 DEF PressOrRelease, TypeOK
  <2>3. CASE ButtonThread
    <3>1. btn \in ButtonStates
      BY DEF TypeOK, ButtonStates
    <3>2. CASE OpenButton
      <4>1. btn' \in ButtonStates
        BY <3>1, <3>2, OpenedType DEF OpenButton, ButtonStates
      <4> QED
        BY <3>2, <4>1, OpenedType DEF OpenButton, TypeOK, ButtonStates
    <3>3. CASE ReadButton
      <4>1. PICK key \in {0, 1} : btn' = [btn EXCEPT !.at = "count", !.key = key, !.fd = NoFd]
        BY <3>1, <3>3 DEF ReadButton, ButtonStates
      <4>2. btn' \in ButtonStates
        <5>1. NoFd \in 0 .. MaxFds
          BY MaxFdsAssumption
        <5> QED
          BY <3>1, <4>1, <5>1, Zenon DEF ButtonStates
      <4>3. seen' \subseteq {0, 1} /\ unread' \in BOOLEAN
        BY <3>3 DEF ReadButton, TypeOK
      <4> QED
        BY <3>3, <4>2, <4>3, ClosedType DEF ReadButton, TypeOK, ButtonStates
    <3>4. CASE Count
      <4> DEFINE n == IF btn.key = 1 THEN 0 ELSE IF btn.press < 4 THEN btn.press + 1 ELSE 4
                 next == IF n = 3 THEN "off" ELSE "open"
      <4>1. n \in 0 .. 4
        BY <3>1 DEF ButtonStates
      <4>2. next \in {"off", "open"} /\ btn' = [btn EXCEPT !.press = n, !.at = next]
        BY <3>4 DEF Count
      <4> HIDE DEF n, next
      <4>3. btn' \in ButtonStates
        BY <3>1, <4>1, <4>2 DEF ButtonStates
      <4>4. button' \subseteq {0, 1}
        BY <3>4 DEF Count, TypeOK
      <4> QED
        BY <3>4, <4>3, <4>4 DEF Count, TypeOK, ButtonStates
    <3>5. CASE TakeIR \/ ButtonIR
      <4>1. \E at \in {"ir", "open"} : btn' = [btn EXCEPT !.at = at]
        BY <3>5 DEF TakeIR, ButtonIR
      <4>2. btn' \in ButtonStates
        BY <3>1, <4>1 DEF ButtonStates
      <4>3. irAuto' \in BOOLEAN /\ ir' \in {"beat", "button"} /\ late' \in BOOLEAN
        <5>1. irAuto \in BOOLEAN /\ ir \in {"beat", "button"} /\ late \in BOOLEAN
          BY DEF TypeOK
        <5>2. \/ irAuto' = FALSE /\ ir' = ir /\ late' = (late \/ hb.at \in {"adc", "light", "ir"})
              \/ irAuto' = irAuto /\ ir' = "button" /\ late' = late
          BY <3>5 DEF TakeIR, ButtonIR
        <5> QED
          BY <5>1, <5>2
      <4>4. UNCHANGED <<mode, files, crossed, srv, rtKey, hb, up, button, held, seen, unread>>
        BY <3>5 DEF TakeIR, ButtonIR
      <4>5. /\ mode' \in Stages /\ files' \in [Fds -> Kinds \cup {"free"}]
            /\ srv' \in [at : {"accept", "recv", "test", "send", "close", "again"}, fd : 0 .. MaxFds,
                         req : RequestsIn(mode') \cup {"none"}]
            /\ srv'.at # "accept" => srv'.fd # NoFd
            /\ rtKey' \in BOOLEAN
        BY <4>4 DEF TypeOK
      <4>6. /\ hb' \in [at : {"usb", "wifi", "send", "adc", "light", "ir"}, fd : 0 .. MaxFds]
            /\ up' \subseteq {"usb", "wifi"} /\ button' \subseteq {0, 1} /\ held' \in BOOLEAN
            /\ seen' \subseteq {0, 1} /\ crossed' \in BOOLEAN /\ unread' \in BOOLEAN
        BY <4>4 DEF TypeOK
      <4> HIDE DEF Kinds, Fds, NoFd
      <4> QED
        BY <4>2, <4>3, <4>5, <4>6 DEF TypeOK, ButtonStates
    <3> QED
      BY <2>3, <3>2, <3>3, <3>4, <3>5 DEF ButtonThread
  <2>4. CASE Main
    <3>1. srv \in ServerStates
      BY DEF TypeOK, ServerStates
    <3>2. ASSUME srv' \in ServerStates, srv'.at # "accept" => srv'.fd # NoFd, mode' = mode,
                 files' \in [Fds -> Kinds \cup {"free"}], crossed' \in BOOLEAN,
                 rtKey' \in BOOLEAN, UNCHANGED <<hbVars, btnVars, irVars>>
          PROVE  TypeOK'
      <4>1. RequestsIn(mode)' = RequestsIn(mode)
        BY <3>2 DEF RequestsIn
      <4> QED
        BY <3>2, <4>1 DEF TypeOK, ServerStates
    <3>3. CASE Accept
      <4>1. srv' = [srv EXCEPT !.at = "recv", !.fd = Lowest] /\ Lowest \in 1 .. MaxFds
        BY <3>3, LowestIsFree DEF Accept
      <4>2. srv' \in ServerStates /\ srv'.fd # NoFd
        <5>1. Lowest \in 0 .. MaxFds /\ Lowest # NoFd
          BY <4>1, MaxFdsAssumption
        <5> QED
          BY <3>1, <4>1, <5>1 DEF ServerStates
      <4> QED
        BY <3>2, <3>3, <4>2, OpenedType DEF Accept, TypeOK
    <3>4. CASE RecvEnds \/ TestsDone \/ Send \/ SendFails
      <4>1. srv' \in ServerStates /\ srv'.fd = srv.fd /\ srv.at # "accept"
        BY <3>1, <3>4 DEF RecvEnds, TestsDone, Send, SendFails, ServerStates
      <4> QED
        BY <3>2, <3>4, <4>1 DEF RecvEnds, TestsDone, Send, SendFails, TypeOK
    <3>5. ASSUME NEW req \in RequestsIn(mode), Recv(req) PROVE TypeOK'
      <4>1. srv' \in ServerStates /\ srv'.fd = srv.fd /\ srv.at # "accept"
        BY <3>1, <3>5 DEF Recv, ServerStates
      <4> QED
        BY <3>2, <3>5, <4>1 DEF Recv, TypeOK
    <3>6. ASSUME NEW at \in {"close", "again"}, NEW next \in {"again", "accept"}, CloseIn(at, next)
          PROVE  TypeOK'
      <4>1. srv' \in ServerStates /\ srv'.fd = srv.fd /\ srv.at # "accept"
        BY <3>1, <3>6 DEF CloseIn, ServerStates
      <4> QED
        BY <3>2, <3>6, <4>1, ClosedType DEF CloseIn, TypeOK
    <3> QED
      BY <2>4, <3>3, <3>4, <3>5, <3>6 DEF Main
  <2>5. CASE UNCHANGED vars
    BY <2>5 DEF vars, TypeOK
  <2> QED
    BY <2>1, <2>2, <2>3, <2>4, <2>5 DEF Next
<1> QED
  BY <1>1, <1>2, PTL DEF Spec

-----------------------------------------------------------------------------
(* Files                                                                         *)

\* The two sockets, and that no thread works on them.
SocketsStay ==
    /\ \A x \in Fds : (files[x] = "udp" <=> x = 1) /\ (files[x] = "listen" <=> x = 2)
    /\ srv.fd \notin {1, 2} /\ hb.fd \notin {1, 2} /\ btn.fd \notin {1, 2}

\* Each thread works on its own file, until main has closed another's.
OwnFiles ==
    crossed \/ /\ hb.at = "light" => hb.fd # NoFd
               /\ \A x \in Fds :
                     /\ files[x] = "conn" <=> srv.at \notin {"accept", "again"} /\ x = srv.fd
                     /\ files[x] = "button" <=> btn.at = "read" /\ x = btn.fd
                     /\ files[x] = "adc" <=> hb.at = "light" /\ x = hb.fd

FilesInv == TypeOK /\ SocketsStay /\ OwnFiles

\* The strengthened invariant of the descriptors is strong enough.
LEMMA FilesInvHolds == FilesInv => FilesAreHeld
<1> SUFFICES ASSUME FilesInv PROVE FilesAreHeld
  OBVIOUS
<1>1. Open("udp") = {1} /\ Open("listen") = {2}
  BY MaxFdsAssumption DEF FilesInv, SocketsStay, Open
<1>2. ASSUME ~crossed PROVE Open("conn") = {srv.fd : x \in {srv.at} \ {"accept", "again"}}
  BY <1>2 DEF FilesInv, OwnFiles, TypeOK, Open
<1>3. ASSUME ~crossed PROVE Open("button") = {btn.fd : x \in {btn.at} \cap {"read"}} \ {NoFd}
  <2>1. \A x \in Fds : files[x] = "button" <=> btn.at = "read" /\ x = btn.fd
    BY <1>3 DEF FilesInv, OwnFiles
  <2>2. btn.fd \in Fds \cup {NoFd} /\ NoFd \notin Fds
    BY MaxFdsAssumption DEF FilesInv, TypeOK
  <2> HIDE DEF Fds, NoFd
  <2>3. CASE btn.at = "read"
    BY <2>1, <2>2, <2>3 DEF Open
  <2>4. CASE btn.at # "read"
    BY <2>1, <2>2, <2>4 DEF Open
  <2> QED
    BY <2>3, <2>4
<1>4. ASSUME ~crossed PROVE Open("adc") = {hb.fd : x \in {hb.at} \cap {"light"}}
  <2>1. \A x \in Fds : files[x] = "adc" <=> hb.at = "light" /\ x = hb.fd
    BY <1>4 DEF FilesInv, OwnFiles
  <2>2. hb.at = "light" => hb.fd \in Fds
    BY <1>4, MaxFdsAssumption DEF FilesInv, OwnFiles, TypeOK
  <2> HIDE DEF Fds, NoFd
  <2>3. CASE hb.at = "light"
    BY <2>1, <2>2, <2>3 DEF Open
  <2>4. CASE hb.at # "light"
    BY <2>1, <2>4 DEF Open
  <2> QED
    BY <2>3, <2>4
<1> QED
  BY <1>1, <1>2, <1>3, <1>4 DEF FilesAreHeld

\* What opening and closing do to each descriptor.
LEMMA OpenedFiles ==
  ASSUME TypeOK, NEW what \in Kinds, NEW x \in Fds
  PROVE  Opened(what)[x] = IF x = Lowest THEN what ELSE files[x]
BY LowestIsFree, NothingFree, MaxFdsAssumption DEF TypeOK, Opened

\* Closing a descriptor takes it from nobody else.
LEMMA ClosedFiles ==
  ASSUME TypeOK, NEW y, NEW x \in Fds
  PROVE  Closed(y)[x] = IF x = y THEN "free" ELSE files[x]
BY DEF TypeOK, Closed

\* A descriptor that a call opens is not one that is in use.
LEMMA LowestIsNew ==
  ASSUME FilesInv
  PROVE  /\ Lowest \notin {1, 2}
         /\ Lowest \in Fds => files[Lowest] = "free"
         /\ Lowest \in Fds \/ (Lowest = NoFd /\ Free = {})
<1>1. CASE Free # {}
  <2>1. Lowest \in Fds /\ files[Lowest] = "free" /\ {1, 2} \subseteq Fds
    BY <1>1, LowestIsFree, MaxFdsAssumption
  <2> QED
    BY <2>1 DEF FilesInv, SocketsStay
<1>2. CASE Free = {}
  BY <1>2, NothingFree
<1> QED
  BY <1>1, <1>2

\* The inductive invariant of the files.
THEOREM FilesInvariant == Spec => []FilesInv
<1>1. Init => FilesInv
  <2> SUFFICES ASSUME Init PROVE SocketsStay /\ OwnFiles /\ TypeOK
    BY DEF FilesInv
  <2>1. TypeOK
    BY InitType
  <2>2. SocketsStay
    BY MaxFdsAssumption DEF Init, SocketsStay
  <2>3. OwnFiles
    BY DEF Init, OwnFiles
  <2> QED
    BY <2>1, <2>2, <2>3
<1>2. FilesInv /\ TypeOK' /\ [Next]_vars => FilesInv'
  <2> SUFFICES ASSUME FilesInv, TypeOK', [Next]_vars PROVE SocketsStay' /\ OwnFiles'
    BY DEF FilesInv
  <2> USE DEF srvVars, hbVars, btnVars, irVars
  <2>0. TypeOK /\ SocketsStay /\ OwnFiles
    BY DEF FilesInv
  <2>1. ASSUME NEW net \in {"usb", "wifi"}, NEW next \in {"wifi", "send"}, LookUp(net, next)
        PROVE  SocketsStay' /\ OwnFiles'
    <3>1. hb'.fd = hb.fd /\ hb'.at # "light" /\ hb.at # "light"
      BY <2>0, <2>1 DEF LookUp, TypeOK
    <3>2. \A x \in Fds : files'[x] = files[x] \/ (files[x] = "free" /\ files'[x] = "leak")
      BY <2>0, <2>1, OpenedFiles, LowestIsNew DEF LookUp
    <3> QED
      BY <2>0, <2>1, <3>1, <3>2 DEF LookUp, SocketsStay, OwnFiles
  <2>2. CASE SendBeat \/ AutoIR \/ PressOrRelease \/ Count \/ TakeIR \/ ButtonIR
    <3>1. files' = files /\ crossed' = crossed /\ srv' = srv
      BY <2>2 DEF SendBeat, AutoIR, PressOrRelease, Count, TakeIR, ButtonIR
    <3>2. hb'.fd = hb.fd /\ (hb'.at = "light" <=> hb.at = "light")
      <4>1. \/ hb' = hb
            \/ /\ hb.at # "light"
               /\ \E at \in {"adc", "usb"} : hb' = [hb EXCEPT !.at = at]
        BY <2>2 DEF SendBeat, AutoIR, PressOrRelease, Count, TakeIR, ButtonIR
      <4>2. hb \in [at : {"usb", "wifi", "send", "adc", "light", "ir"}, fd : 0 .. MaxFds]
        BY <2>0 DEF TypeOK
      <4> QED
        BY <4>1, <4>2
    <3>3. btn'.fd = btn.fd /\ (btn'.at = "read" <=> btn.at = "read")
      <4>1. btn \in ButtonStates
        BY <2>0 DEF TypeOK, ButtonStates
      <4>2. CASE Count
        BY <4>1, <4>2 DEF Count, ButtonStates
      <4>3. CASE SendBeat \/ AutoIR \/ PressOrRelease \/ TakeIR \/ ButtonIR
        <5>1. \/ btn' = btn
              \/ /\ btn.at # "read"
                 /\ \E at \in {"ir", "open"} : btn' = [btn EXCEPT !.at = at]
          BY <4>3 DEF SendBeat, AutoIR, PressOrRelease, TakeIR, ButtonIR
        <5> QED
          BY <4>1, <5>1 DEF ButtonStates
      <4> QED
        BY <2>2, <4>2, <4>3
    <3>4. SocketsStay'
      BY <2>0, <3>1, <3>2, <3>3 DEF SocketsStay
    <3>5. OwnFiles'
      BY <2>0, <3>1, <3>2, <3>3 DEF OwnFiles
    <3> QED
      BY <3>4, <3>5
  <2>3. CASE OpenSensor
    <3>1. hb'.fd = Lowest /\ (hb'.at = "light" <=> Free # {}) /\ hb.at # "light"
      BY <2>0, <2>3 DEF OpenSensor
    <3>2. \A x \in Fds : files'[x] = IF x = Lowest THEN "adc" ELSE files[x]
      BY <2>0, <2>3, OpenedFiles DEF OpenSensor
    <3>3. UNCHANGED <<crossed, srv, btn>>
      BY <2>3 DEF OpenSensor
    <3>4. SocketsStay'
      BY <2>0, <3>1, <3>2, <3>3, LowestIsNew DEF SocketsStay
    <3>5. OwnFiles'
      BY <2>0, <3>1, <3>2, <3>3, LowestIsNew, LowestIsFree, NothingFree DEF OwnFiles
    <3> QED
      BY <3>4, <3>5
  <2>4. CASE ReadSensor
    <3>1. hb'.fd = NoFd /\ hb'.at # "light" /\ hb.at = "light"
      BY <2>0, <2>4 DEF ReadSensor
    <3>2. \A x \in Fds : files'[x] = IF x = hb.fd THEN "free" ELSE files[x]
      BY <2>0, <2>4, ClosedFiles DEF ReadSensor
    <3> QED
      BY <2>0, <2>4, <3>1, <3>2 DEF ReadSensor, SocketsStay, OwnFiles
  <2>5. CASE OpenButton
    <3>1. btn'.fd = Lowest /\ btn'.at = "read" /\ btn.at = "open"
      BY <2>0, <2>5 DEF OpenButton, TypeOK
    <3>2. \A x \in Fds : files'[x] = IF x = Lowest THEN "button" ELSE files[x]
      BY <2>0, <2>5, OpenedFiles DEF OpenButton
    <3> QED
      BY <2>0, <2>5, <3>1, <3>2, LowestIsNew DEF OpenButton, SocketsStay, OwnFiles
  <2>6. CASE ReadButton
    <3>1. btn'.fd = NoFd /\ btn'.at = "count" /\ btn.at = "read"
      BY <2>0, <2>6 DEF ReadButton, TypeOK
    <3>2. \A x \in Fds : files'[x] = IF x = btn.fd THEN "free" ELSE files[x]
      BY <2>0, <2>6, ClosedFiles DEF ReadButton
    <3> QED
      BY <2>0, <2>6, <3>1, <3>2 DEF ReadButton, SocketsStay, OwnFiles
  <2>7. CASE Accept
    <3>1. srv'.fd = Lowest /\ srv'.at = "recv" /\ srv.at = "accept"
      BY <2>0, <2>7 DEF Accept, TypeOK
    <3>2. \A x \in Fds : files'[x] = IF x = Lowest THEN "conn" ELSE files[x]
      BY <2>0, <2>7, OpenedFiles DEF Accept
    <3> QED
      BY <2>0, <2>7, <3>1, <3>2, LowestIsNew DEF Accept, SocketsStay, OwnFiles
  <2>8. CASE RecvEnds \/ TestsDone \/ Send \/ SendFails \/ \E req \in RequestsIn(mode) : Recv(req)
    <3>1. UNCHANGED <<files, crossed, hb, btn>>
      BY <2>8 DEF RecvEnds, TestsDone, Send, SendFails, Recv
    <3>2. srv'.fd = srv.fd /\ srv'.at \notin {"accept", "again"} /\ srv.at \notin {"accept", "again"}
      <4>1. srv \in ServerStates
        BY <2>0 DEF TypeOK, ServerStates
      <4>2. CASE RecvEnds \/ TestsDone \/ Send \/ SendFails
        <5>1. /\ srv.at \in {"recv", "test", "send"}
              /\ \E at \in {"recv", "send", "close"} : srv' = [srv EXCEPT !.at = at]
          BY <4>2 DEF RecvEnds, TestsDone, Send, SendFails
        <5> QED
          BY <4>1, <5>1 DEF ServerStates
      <4>3. ASSUME NEW req \in RequestsIn(mode), Recv(req)
            PROVE  srv'.fd = srv.fd /\ srv'.at = "test" /\ srv.at = "recv"
        <5>1. srv' = [srv EXCEPT !.at = "test", !.req = req] /\ srv.at = "recv"
          BY <4>3 DEF Recv
        <5> QED
          BY <4>1, <5>1 DEF ServerStates
      <4> QED
        BY <2>8, <4>2, <4>3
    <3> QED
      BY <2>0, <3>1, <3>2 DEF SocketsStay, OwnFiles
  <2>9. CASE CloseIn("close", "again")
    <3>1. srv'.fd = srv.fd /\ srv'.at = "again" /\ srv.at = "close" /\ crossed' = crossed
      BY <2>0, <2>9 DEF CloseIn, TypeOK
    <3>2. \A x \in Fds : files'[x] = IF x = srv.fd THEN "free" ELSE files[x]
      BY <2>0, <2>9, ClosedFiles DEF CloseIn
    <3> QED
      <4>1. UNCHANGED <<hb, btn>>
        BY <2>9 DEF CloseIn
      <4>2. SocketsStay'
        BY <2>0, <3>1, <3>2, <4>1 DEF SocketsStay
      <4>3. OwnFiles'
        BY <2>0, <3>1, <3>2, <4>1 DEF OwnFiles
      <4> QED
        BY <4>2, <4>3
  <2>10. CASE CloseIn("again", "accept")
    <3>1. /\ srv'.fd = srv.fd /\ srv'.at = "accept" /\ srv.at = "again"
          /\ crossed' = (crossed \/ files[srv.fd] # "free")
      BY <2>0, <2>10 DEF CloseIn, TypeOK
    <3>2. \A x \in Fds : files'[x] = IF x = srv.fd THEN "free" ELSE files[x]
      BY <2>0, <2>10, ClosedFiles DEF CloseIn
    <3>3. srv.fd \in Fds
      BY <2>0, <3>1, MaxFdsAssumption DEF TypeOK
    <3>4. UNCHANGED <<hb, btn>>
      BY <2>10 DEF CloseIn
    <3>5. SocketsStay'
      BY <2>0, <3>1, <3>2, <3>4 DEF SocketsStay
    <3>6. ASSUME ~crossed' PROVE OwnFiles'
      <4>1. ~crossed /\ \A x \in Fds : files'[x] = files[x]
        BY <3>1, <3>2, <3>3, <3>6
      <4> QED
        BY <2>0, <3>1, <3>4, <4>1 DEF OwnFiles
    <3> QED
      BY <3>5, <3>6 DEF OwnFiles
  <2>11. CASE UNCHANGED vars
    BY <2>0, <2>11 DEF vars, SocketsStay, OwnFiles
  <2> QED
    BY <2>1, <2>2, <2>3, <2>4, <2>5, <2>6, <2>7, <2>8, <2>9, <2>10, <2>11
       DEF Next, HeartBeat, ButtonThread, Main
<1> QED
  BY <1>1, <1>2, TypeCorrect, PTL DEF Spec

\* The sockets stay open, and until main closes another thread's file, every thread has
\* the one file open that it works on: FilesAreHeld.
THEOREM FilesAlwaysHeld == Spec => []FilesAreHeld
BY FilesInvariant, FilesInvHolds, PTL

-----------------------------------------------------------------------------
(* The key                                                                       *)

\* What g_button_test holds, and the reading that goes there next, was read from the
\* button, and main's answer is good only when g_button_test is.
KeysAreRead ==
    unread \/ /\ button \subseteq seen
              /\ btn.at = "count" => btn.key \in seen
KeyInv == TypeOK /\ KeysAreRead /\ (rtKey => button = {0, 1})

\* The inductive invariant of the key.
THEOREM KeyInvariant == Spec => []KeyInv
<1>1. Init => KeyInv
  BY InitType DEF Init, KeyInv, KeysAreRead
<1>2. KeyInv /\ TypeOK' /\ [Next]_vars => KeyInv'
  <2> SUFFICES ASSUME KeyInv, TypeOK', [Next]_vars PROVE KeysAreRead' /\ (rtKey' => button' = {0, 1})
    BY DEF KeyInv
  <2> USE DEF KeyInv, KeysAreRead, srvVars, hbVars, btnVars, irVars
  <2>1. CASE HeartBeat
    BY <2>1 DEF HeartBeat, LookUp, SendBeat, OpenSensor, ReadSensor, AutoIR
  <2>2. CASE PressOrRelease \/ OpenButton
    BY <2>2 DEF PressOrRelease, OpenButton, TypeOK
  <2>3. CASE ReadButton
    <3>1. CASE btn.fd # NoFd /\ files[btn.fd] = "button"
      <4>1. btn'.key = (IF held THEN 0 ELSE 1) /\ seen' = seen \cup {IF held THEN 0 ELSE 1}
        BY <2>3, <3>1 DEF ReadButton, TypeOK
      <4> QED
        BY <2>3, <4>1 DEF ReadButton
    <3>2. CASE btn.fd = NoFd \/ files[btn.fd] # "button"
      BY <2>3, <3>2 DEF ReadButton
    <3> QED
      BY <3>1, <3>2
  <2>4. CASE Count
    <3>1. button' = button \cup {btn.key} /\ btn.at = "count" /\ btn'.at # "count"
      BY <2>4 DEF Count, TypeOK
    <3>2. UNCHANGED <<seen, unread, rtKey>>
      BY <2>4 DEF Count
    <3> QED
      BY <3>1, <3>2 DEF TypeOK
  <2>5. CASE TakeIR \/ ButtonIR
    BY <2>5 DEF TakeIR, ButtonIR, TypeOK
  <2>6. CASE Main
    <3>1. UNCHANGED <<btn, button, seen, unread>>
      BY <2>6 DEF Main, Accept, RecvEnds, TestsDone, Send, SendFails, Recv, CloseIn
    <3>2. rtKey' => rtKey \/ button = {0, 1}
      BY <2>6 DEF Main, Accept, RecvEnds, TestsDone, Send, SendFails, Recv, CloseIn
    <3> QED
      BY <3>1, <3>2
  <2>7. CASE UNCHANGED vars
    BY <2>7 DEF vars
  <2> QED
    BY <2>1, <2>2, <2>3, <2>4, <2>5, <2>6, <2>7 DEF Next, ButtonThread
<1> QED
  BY <1>1, <1>2, TypeCorrect, PTL DEF Spec

\* A key that is found good was seen pressed and released, unless a reading failed or read
\* another file: KeyIsSeen.
THEOREM KeyAlwaysSeen == Spec => []KeyIsSeen
<1>1. KeyInv => KeyIsSeen
  BY DEF KeyInv, KeysAreRead, KeyIsSeen, TypeOK
<1> QED
  BY <1>1, KeyInvariant, PTL

-----------------------------------------------------------------------------
(* The IR LED                                                                    *)

\* Once the button thread has taken the LED, the heartbeat is not on its way to it.
BeatStaysAway == ~irAuto /\ ~late => hb.at \notin {"adc", "light", "ir"}
IRInv == TypeOK /\ BeatStaysAway /\ ButtonHasIR

\* The inductive invariant of the IR LED.
THEOREM IRInvariant == Spec => []IRInv
<1>1. Init => IRInv
  BY InitType DEF Init, IRInv, BeatStaysAway, ButtonHasIR
<1>2. IRInv /\ TypeOK' /\ [Next]_vars => IRInv'
  <2> SUFFICES ASSUME IRInv, TypeOK', [Next]_vars PROVE BeatStaysAway' /\ ButtonHasIR'
    BY DEF IRInv
  <2> USE DEF IRInv, BeatStaysAway, ButtonHasIR, srvVars, hbVars, btnVars, irVars
  <2>1. CASE HeartBeat
    <3>1. ASSUME NEW net \in {"usb", "wifi"}, NEW next \in {"wifi", "send"}, LookUp(net, next)
          PROVE  BeatStaysAway' /\ ButtonHasIR'
      BY <3>1 DEF LookUp, TypeOK
    <3>2. CASE SendBeat \/ OpenSensor \/ ReadSensor \/ AutoIR
      BY <3>2 DEF SendBeat, OpenSensor, ReadSensor, AutoIR, TypeOK
    <3> QED
      BY <2>1, <3>1, <3>2 DEF HeartBeat
  <2>2. CASE PressOrRelease \/ OpenButton
    BY <2>2 DEF PressOrRelease, OpenButton, TypeOK
  <2>3. CASE ReadButton
    <3>1. btn.at # "ir" /\ UNCHANGED <<hb, irAuto, ir, late>>
      BY <2>3 DEF ReadButton
    <3> QED
      BY <3>1
  <2>4. CASE Count
    <3>1. btn.at # "ir" /\ UNCHANGED <<hb, irAuto, ir, late>>
      BY <2>4 DEF Count
    <3> QED
      BY <3>1
  <2>5. CASE TakeIR \/ ButtonIR
    BY <2>5 DEF TakeIR, ButtonIR, TypeOK
  <2>6. CASE Main
    BY <2>6 DEF Main, Accept, RecvEnds, TestsDone, Send, SendFails, Recv, CloseIn
  <2>7. CASE UNCHANGED vars
    BY <2>7 DEF vars
  <2> QED
    BY <2>1, <2>2, <2>3, <2>4, <2>5, <2>6, <2>7 DEF Next, ButtonThread
<1> QED
  BY <1>1, <1>2, TypeCorrect, PTL DEF Spec

\* The IR LED and its filter stay as the button thread has set them, unless the heartbeat
\* was on its way to them: ButtonHasIR.
THEOREM ButtonAlwaysHasIR == Spec => []ButtonHasIR
BY IRInvariant, PTL DEF IRInv
=============================================================================
