---------------------------- MODULE TestLinkProofs -----------------------------
(* Theorems about TestLink, for every set of requests, results and serial        *)
(* numbers, every number of attempts and every bound.                            *)
EXTENDS TestLink, SequencesExt, TLAPS

-----------------------------------------------------------------------------
(* Sequences of messages                                                         *)

\* The numbers of the messages in s grow.
Increasing(s) == \A j, k \in DOMAIN s : j < k => s[j].id < s[k].id

\* What an append, a look at the head and its removal make of the messages of a sequence.
LEMMA Appended ==
  ASSUME NEW S, NEW s \in Seq(S), NEW m \in S
  PROVE  Append(s, m) \in Seq(S) /\ ToSet(Append(s, m)) = ToSet(s) \cup {m}
<1>1. /\ Append(s, m) \in Seq(S) /\ Len(Append(s, m)) = Len(s) + 1 /\ Len(s) \in Nat
      /\ \A k \in 1 .. Len(s) : Append(s, m)[k] = s[k]
      /\ Append(s, m)[Len(s) + 1] = m
  OBVIOUS
<1>2. DOMAIN s = 1 .. Len(s) /\ DOMAIN Append(s, m) = 1 .. Len(s) + 1
  BY <1>1
<1> QED
  BY <1>1, <1>2 DEF ToSet

\* The head and the tail of a sequence hold its messages, and no others.
LEMMA Removed ==
  ASSUME NEW S, NEW s \in Seq(S), s # <<>>
  PROVE  /\ Head(s) \in ToSet(s) /\ Head(s) \in S
         /\ Tail(s) \in Seq(S) /\ ToSet(Tail(s)) \subseteq ToSet(s)
<1>1. /\ Len(s) \in Nat \ {0} /\ DOMAIN s = 1 .. Len(s)
      /\ Tail(s) \in Seq(S) /\ Len(Tail(s)) = Len(s) - 1
      /\ DOMAIN Tail(s) = 1 .. Len(s) - 1
  OBVIOUS
<1>2. Head(s) = s[1] /\ \A k \in 1 .. Len(s) - 1 : Tail(s)[k] = s[k + 1]
  BY <1>1
<1>3. Head(s) \in ToSet(s) /\ Head(s) \in S
  BY <1>1, <1>2 DEF ToSet
<1>4. \A k \in 1 .. Len(s) - 1 : k + 1 \in 1 .. Len(s)
  BY <1>1
<1> QED
  BY <1>1, <1>2, <1>3, <1>4 DEF ToSet

\* Growing numbers go on growing.
LEMMA AppendIncreases ==
  ASSUME NEW S, NEW s \in Seq(S), NEW m \in S, \A r \in S : r.id \in Nat,
         Increasing(s), \A r \in ToSet(s) : r.id < m.id
  PROVE  Increasing(Append(s, m))
<1>1. /\ Len(s) \in Nat /\ DOMAIN s = 1 .. Len(s) /\ DOMAIN Append(s, m) = 1 .. Len(s) + 1
      /\ \A k \in 1 .. Len(s) : Append(s, m)[k] = s[k]
      /\ Append(s, m)[Len(s) + 1] = m
  OBVIOUS
<1>2. \A k \in 1 .. Len(s) : s[k].id < m.id
  BY <1>1 DEF ToSet
<1>3. ASSUME NEW j \in 1 .. Len(s) + 1, NEW k \in 1 .. Len(s) + 1, j < k
      PROVE  Append(s, m)[j].id < Append(s, m)[k].id
  <2>1. j \in 1 .. Len(s)
    BY <1>1, <1>3
  <2>2. CASE k = Len(s) + 1
    BY <1>1, <1>2, <2>1, <2>2
  <2>3. CASE k \in 1 .. Len(s)
    BY <1>1, <1>3, <2>1, <2>3 DEF Increasing
  <2> QED
    BY <1>1, <2>2, <2>3
<1> QED
  BY <1>1, <1>3 DEF Increasing

\* Without its head, the numbers still grow, and the head had the smallest.
LEMMA TailIncreases ==
  ASSUME NEW S, NEW s \in Seq(S), s # <<>>, Increasing(s)
  PROVE  Increasing(Tail(s)) /\ \A r \in ToSet(Tail(s)) : Head(s).id < r.id
<1>1. /\ Len(s) \in Nat \ {0} /\ DOMAIN s = 1 .. Len(s)
      /\ DOMAIN Tail(s) = 1 .. Len(s) - 1
  OBVIOUS
<1>2. Head(s) = s[1] /\ \A k \in 1 .. Len(s) - 1 : Tail(s)[k] = s[k + 1]
  BY <1>1
<1>3. ASSUME NEW k \in 1 .. Len(s) - 1
      PROVE  /\ k + 1 \in DOMAIN s /\ s[1].id < s[k + 1].id
             /\ \A j \in 1 .. Len(s) - 1 : j < k => s[j + 1].id < s[k + 1].id
  <2>1. 1 \in DOMAIN s /\ k + 1 \in DOMAIN s /\ 1 < k + 1
    BY <1>1
  <2>2. \A j \in 1 .. Len(s) - 1 : j + 1 \in DOMAIN s /\ (j < k => j + 1 < k + 1)
    BY <1>1
  <2> QED
    BY <2>1, <2>2 DEF Increasing
<1>4. Increasing(Tail(s))
  BY <1>1, <1>2, <1>3 DEF Increasing
<1>5. \A r \in ToSet(Tail(s)) : Head(s).id < r.id
  BY <1>1, <1>2, <1>3 DEF ToSet
<1> QED
  BY <1>4, <1>5

\* Nothing is in an empty sequence.
LEMMA Empty ==
  /\ ToSet(<<>>) = {} /\ Increasing(<<>>)
  /\ \A S : \A s \in Seq(S) : ToSet(s) = {} => s = <<>>
<1>1. ASSUME NEW S, NEW s \in Seq(S), s # <<>> PROVE ToSet(s) # {}
  BY <1>1, Removed
<1>2. DOMAIN <<>> = {}
  OBVIOUS
<1> QED
  BY <1>1, <1>2 DEF ToSet, Increasing

-----------------------------------------------------------------------------
(* Types                                                                         *)

AppType  == /\ sock \in 0 .. conns /\ conns \in 0 .. MaxConns /\ calls \in 0 .. MaxCalls
            /\ call \in Requests \cup {NoCall} /\ cancel \in BOOLEAN
WireType == /\ toDev \in [ConnIds -> Seq(Requests)] /\ toApp \in [ConnIds -> Seq(Answers)]
            /\ shut \subseteq ConnIds /\ halfOpen \subseteq shut \ dead /\ dead \subseteq ConnIds
DevType  == /\ srv \in 0 .. conns /\ job \in Requests \cup {NoCall} /\ devSN \in SNs \cup {NoSN}
            /\ stage \in {"all", "aging"} /\ onFlash \in {"all", "aging"}
            /\ reboots \in 0 .. MaxReboots
Returned == [id : 0 .. MaxCalls, from : 0 .. MaxCalls]
HistType == /\ last \in Returned /\ confirmed \in SNs \cup {NoSN} /\ finished \in BOOLEAN

\* A call that has given up is one of the calls made.
GivenUpBound == /\ givenUp \in Nat
                /\ (IF call = NoCall THEN givenUp ELSE givenUp + 1) <= calls

Types == AppType /\ WireType /\ DevType /\ HistType /\ GivenUpBound

\* The type invariant follows, part by part.
LEMMA TypeParts == Types => TypeOK
BY LinkAssumption DEF Types, AppType, WireType, DevType, HistType, GivenUpBound, Returned, TypeOK

\* No call is not a request; what a request and an answer are.
LEMMA Messages ==
  /\ NoCall \notin Requests
  /\ \A m \in Requests : m.id \in 1 .. MaxCalls /\ m.kind \in Kinds /\ m.sn \in SNs \cup {NoSN}
  /\ \A r \in Answers : r.id \in 1 .. MaxCalls /\ r.good \subseteq Fields
BY DEF NoCall, Requests, Answers

\* The initial state has its types.
LEMMA InitType == Init => Types
<1> SUFFICES ASSUME Init PROVE Types
  OBVIOUS
<1>0. 0 \in 0 .. MaxConns /\ 0 \in 0 .. MaxCalls /\ 0 \in 0 .. MaxReboots /\ 0 \in 0 .. 0
  BY LinkAssumption
<1>1. AppType /\ GivenUpBound
  <2>1. AppType
    BY <1>0 DEF Init, AppType
  <2>2. GivenUpBound
    BY DEF Init, GivenUpBound
  <2> QED
    BY <2>1, <2>2
<1>2. WireType
  BY DEF Init, WireType
<1>3. DevType
  BY <1>0 DEF Init, DevType
<1>4. HistType
  <2>1. NoLast \in Returned
    BY <1>0 DEF NoLast, Returned
  <2> QED
    BY <2>1 DEF Init, HistType
<1> QED
  BY <1>1, <1>2, <1>3, <1>4 DEF Types

\* What Returns makes of the call and of its result.
LEMMA ReturnsType ==
  ASSUME AppType, call # NoCall, NEW from \in 0 .. MaxCalls, Returns(from)
  PROVE  call' = NoCall /\ last' \in Returned
BY Messages DEF AppType, Returns, Returned

\* A call that gives up counts among those of the connection.
LEMMA GivesUpType ==
  ASSUME Types, call # NoCall, GivesUp
  PROVE  Types'
<1>1. last' \in Returned /\ call' = NoCall
  BY ReturnsType, LinkAssumption DEF GivesUp, Types
<1>2. AppType' /\ WireType' /\ DevType' /\ HistType'
  BY <1>1 DEF GivesUp, wireVars, devVars, Types, AppType, WireType, DevType, HistType
<1>3. GivenUpBound'
  BY <1>1 DEF GivesUp, Types, GivenUpBound, AppType
<1> QED
  BY <1>2, <1>3 DEF Types

\* Where a call is, when it is made: NoCall is idle.
LEMMA CallUnderWay == call.at \in {"check", "recv"} => call # NoCall
BY DEF NoCall

\* The steps of the station keep the types.
LEMMA StationType ==
  ASSUME Types, Station
  PROVE  Types'
<1> USE DEF Types, wireVars, devVars, histVars
<1>1. CASE Connect
  <2>1. conns + 1 \in 0 .. MaxConns
    BY <1>1, LinkAssumption DEF Connect, AppType
  <2>2. AppType' /\ HistType' /\ GivenUpBound'
    BY <1>1, <2>1 DEF Connect, AppType, HistType, GivenUpBound
  <2>3. WireType' /\ DevType'
    BY <1>1, <2>1, LinkAssumption DEF Connect, CloseSock, WireType, DevType, AppType, ConnIds
  <2> QED
    BY <2>2, <2>3
<1>2. CASE Disconnect
  <2>1. AppType' /\ HistType' /\ GivenUpBound'
    BY <1>2 DEF Disconnect, AppType, HistType, GivenUpBound
  <2>2. WireType' /\ DevType'
    BY <1>2, LinkAssumption DEF Disconnect, CloseSock, WireType, DevType, AppType, ConnIds
  <2> QED
    BY <2>1, <2>2
<1>3. CASE TestCancel
  BY <1>3 DEF TestCancel, AppType, WireType, DevType, HistType, GivenUpBound
<1>4. ASSUME NEW kind \in Kinds, Refused(kind) PROVE Types'
  <2>1. calls + 1 \in 1 .. MaxCalls /\ last' \in Returned
    BY <1>4, LinkAssumption DEF Refused, AppType, Returned
  <2>2. AppType' /\ HistType' /\ GivenUpBound'
    BY <1>4, <2>1 DEF Refused, AppType, HistType, GivenUpBound
  <2> QED
    BY <1>4, <2>2 DEF Refused, WireType, DevType
<1>5. ASSUME NEW kind \in Kinds, NEW s \in SNs, Send(kind, s) PROVE Types'
  <2>1. calls + 1 \in 1 .. MaxCalls /\ calls' = calls + 1
    BY <1>5, LinkAssumption DEF Send, AppType
  <2>2. call' \in Requests
    BY <1>5, <2>1, LinkAssumption DEF Send, Requests, NextRecv
  <2>3. toDev' \in [ConnIds -> Seq(Requests)]
    <3>1. sock \in ConnIds
      BY <1>5, LinkAssumption DEF Send, AppType, ConnIds
    <3>2. Append(toDev[sock], call') \in Seq(Requests)
      BY <2>2, <3>1, Appended DEF WireType
    <3> QED
      BY <1>5, <3>1, <3>2 DEF Send, WireType
  <2>4. AppType' /\ GivenUpBound'
    <3>1. call' # NoCall
      BY <2>2, Messages
    <3> QED
      BY <1>5, <2>1, <2>2, <3>1 DEF Send, AppType, GivenUpBound
  <2>5. HistType'
    <3>1. last' \in Returned
      BY <1>5, LinkAssumption DEF Send, NoLast, Returned
    <3> QED
      BY <1>5, <3>1 DEF Send, HistType
  <2> QED
    BY <1>5, <2>3, <2>4, <2>5 DEF Send, WireType, DevType
<1>6. ASSUME call.at \in {"check", "recv"}, NEW at \in {"check", "recv"},
             NEW tries \in 0 .. SlowTries - 1, call' = [call EXCEPT !.tries = tries, !.at = at],
             UNCHANGED <<sock, conns, cancel, calls, wireVars, devVars, histVars>>
      PROVE  Types'
  <2>1. call \in Requests
    BY <1>6, CallUnderWay DEF AppType
  <2>2. call' \in Requests /\ call # NoCall
    BY <1>6, <2>1, Messages DEF Requests
  <2>3. call' # NoCall
    BY <2>2, Messages
  <2> QED
    BY <1>6, <2>2, <2>3 DEF AppType, WireType, DevType, HistType, GivenUpBound
<1>7. CASE CheckCancel
  <2>1. CASE GivesUp
    BY <1>7, <2>1, GivesUpType, CallUnderWay DEF CheckCancel
  <2>2. CASE ~GivesUp
    <3>1. call.tries \in 0 .. SlowTries - 1 /\ call \in Requests
      BY <1>7, CallUnderWay DEF CheckCancel, AppType, Requests
    <3>2. call' = [call EXCEPT !.tries = call.tries, !.at = "recv"]
      BY <1>7, <2>2, <3>1 DEF CheckCancel, Requests
    <3> QED
      BY <1>6, <1>7, <2>2, <3>1, <3>2 DEF CheckCancel
  <2> QED
    BY <2>1, <2>2
<1>8. CASE Read
  <2> DEFINE r == Head(toApp[sock])
             good == Asks(call.kind) \cap r.good
  <2>1. sock \in ConnIds /\ toApp[sock] # <<>> /\ call # NoCall
    BY <1>8, CallUnderWay, LinkAssumption DEF Read, AppType, ConnIds
  <2>2. r \in Answers /\ Tail(toApp[sock]) \in Seq(Answers)
    BY <2>1, Removed DEF WireType
  <2>3. r.id \in 0 .. MaxCalls /\ good \in SUBSET Fields
    BY <2>2, Messages
  <2>4. Returns(r.id)
    BY <1>8 DEF Read
  <2> HIDE DEF good, r
  <2>5. call' = NoCall /\ last' \in Returned
    BY <2>1, <2>3, <2>4, ReturnsType
  <2>6. AppType' /\ GivenUpBound'
    BY <1>8, <2>5 DEF Read, AppType, GivenUpBound
  <2>7. WireType'
    BY <1>8, <2>1, <2>2 DEF Read, WireType, r
  <2>8. HistType'
    <3>1. call.sn \in SNs \cup {NoSN}
      BY <2>1, Messages DEF AppType
    <3>2. confirmed' \in {confirmed, call.sn} /\ finished' \in BOOLEAN
      BY <1>8 DEF Read, HistType
    <3> QED
      BY <2>5, <3>1, <3>2 DEF HistType
  <2> QED
    BY <1>8, <2>6, <2>7, <2>8 DEF Read, DevType
<1>9. CASE RecvFails
  <2>1. call \in Requests
    BY <1>9, CallUnderWay DEF RecvFails, AppType
  <2>2. CASE call.tries + 1 < Tries(call.kind)
    <3>1. call.tries + 1 \in 0 .. SlowTries - 1
      BY <2>1, <2>2, LinkAssumption DEF Requests, Tries
    <3>2. NextRecv(call.kind) \in {"check", "recv"}
      BY DEF NextRecv
    <3> QED
      BY <1>6, <1>9, <2>2, <3>1, <3>2 DEF RecvFails
  <2>3. CASE ~(call.tries + 1 < Tries(call.kind))
    BY <1>9, <2>1, <2>3, Messages, GivesUpType DEF RecvFails
  <2> QED
    BY <2>2, <2>3
<1> QED
  BY <1>1, <1>2, <1>3, <1>4, <1>5, <1>7, <1>8, <1>9 DEF Station

\* The steps of the server and of the network keep the types.
LEMMA ServerType ==
  ASSUME Types, Server \/ Network
  PROVE  Types'
<1> USE DEF Types, appVars, wireVars, devVars, histVars
<1>1. ASSUME NEW c \in ConnIds, Accept(c) PROVE Types'
  <2>1. c \in 0 .. conns
    BY <1>1 DEF Accept, ConnIds, AppType
  <2> QED
    BY <1>1, <2>1 DEF Accept, AppType, WireType, DevType, HistType, GivenUpBound
<1>2. CASE ServerRecv
  <2>1. srv \in ConnIds
    BY <1>2, LinkAssumption DEF ServerRecv, AppType, DevType, ConnIds
  <2>2. Head(toDev[srv]) \in Requests /\ Tail(toDev[srv]) \in Seq(Requests)
    BY <1>2, <2>1, Removed DEF ServerRecv, WireType
  <2>3. WireType' /\ DevType'
    BY <1>2, <2>1, <2>2 DEF ServerRecv, WireType, DevType
  <2> QED
    BY <1>2, <2>3 DEF ServerRecv, AppType, HistType, GivenUpBound
<1>3. CASE ServerClose
  BY <1>3 DEF ServerClose, AppType, WireType, DevType, HistType, GivenUpBound
<1>4. ASSUME NEW good \in SUBSET Fields, ServerAnswers(good) PROVE Types'
  <2>1. job \in Requests
    BY <1>4 DEF ServerAnswers, DevType
  <2>2. [id |-> job.id, good |-> good] \in Answers
    BY <2>1, Messages DEF Answers
  <2>3. toApp' \in [ConnIds -> Seq(Answers)]
    <3>1. CASE srv \notin ConnIds
      BY <1>4, <3>1 DEF ServerAnswers, WireType
    <3>2. CASE srv \in ConnIds
      <4>1. Append(toApp[srv], [id |-> job.id, good |-> good]) \in Seq(Answers)
        BY <2>2, <3>2, Appended DEF WireType
      <4> QED
        BY <1>4, <3>2, <4>1 DEF ServerAnswers, WireType
    <3> QED
      BY <3>1, <3>2
  <2>4. devSN' \in SNs \cup {NoSN}
    BY <1>4, <2>1, Messages DEF ServerAnswers, WriteAndCheckSN, DevType
  <2>5. stage' \in {"all", "aging"} /\ onFlash' \in {"all", "aging"}
    BY <1>4 DEF ServerAnswers, Staging, DevType
  <2> QED
    BY <1>4, <2>3, <2>4, <2>5
       DEF ServerAnswers, AppType, WireType, DevType, HistType, GivenUpBound
<1>5. CASE WriteBack
  BY <1>5 DEF WriteBack, AppType, WireType, DevType, HistType, GivenUpBound
<1>6. CASE Reboot
  <2>1. WireType'
    <3>1. dead' \subseteq ConnIds /\ halfOpen' = {}
      BY <1>6, LinkAssumption DEF Reboot, AppType, WireType, ConnIds
    <3> QED
      BY <1>6, <3>1 DEF Reboot, WireType
  <2>2. DevType'
    BY <1>6, LinkAssumption DEF Reboot, AppType, DevType
  <2> QED
    BY <1>6, <2>1, <2>2 DEF Reboot, AppType, HistType, GivenUpBound
<1>7. ASSUME NEW c \in ConnIds, ResetByClose(c) PROVE Types'
  <2>1. WireType'
    BY <1>7 DEF ResetByClose, WireType
  <2> QED
    BY <1>7, <2>1 DEF ResetByClose, AppType, DevType, HistType, GivenUpBound
<1> QED
  BY <1>1, <1>2, <1>3, <1>4, <1>5, <1>6, <1>7 DEF Server, Network

\* Every step keeps the types.
LEMMA StepType == Types /\ [Next]_vars => Types'
<1>1. ASSUME Types, UNCHANGED vars PROVE Types'
  BY <1>1 DEF vars, appVars, wireVars, devVars, histVars, Types, AppType, WireType, DevType,
              HistType, GivenUpBound
<1> QED
  BY <1>1, StationType, ServerType DEF Next

\* Type correctness of the link, for every set of requests and every bound.
THEOREM TypeCorrect == Spec => []TypeOK
<1>1. Spec => []Types
  BY InitType, StepType, PTL DEF Spec
<1> QED
  BY <1>1, TypeParts, PTL

-----------------------------------------------------------------------------
(* The inductive invariant                                                       *)

Unserved == (UNION {ToSet(toDev[c]) : c \in ConnIds}) \cup ({job} \ {NoCall})
Answered == UNION {ToSet(toApp[c]) : c \in ConnIds}

\* The station sends on its last connection, the server works on the oldest that has
\* anything to serve.
Links ==
    /\ sock \in {0, conns} /\ sock \notin shut /\ shut \subseteq 1 .. conns
    /\ \A c \in ConnIds : c > conns => toDev[c] = <<>> /\ toApp[c] = <<>>
    /\ job # NoCall => srv # 0
    /\ \A b \in ConnIds : b < srv => toDev[b] = <<>>

\* Messages are of the calls made, those of the present call are as it was made.
Numbered ==
    /\ call # NoCall => call.id = calls
    /\ \A m \in Unserved : /\ m.id <= calls
                           /\ call # NoCall /\ m.id = call.id => m.kind = call.kind /\ m.sn = call.sn
    /\ \A r \in Answered : r.id <= calls

\* Requests are served in the order of the calls, whatever connections they came by.
InOrder ==
    /\ \A c \in ConnIds : Increasing(toDev[c]) /\ Increasing(toApp[c])
    /\ \A b, c \in ConnIds : b < c =>
          \A m \in ToSet(toDev[b]), k \in ToSet(toDev[c]) : m.id < k.id
    /\ job # NoCall => \A c \in ConnIds : \A m \in ToSet(toDev[c]) : job.id < m.id
    /\ \A r \in Answered, m \in Unserved : r.id < m.id

LinkInv == Links /\ Numbered /\ InOrder

\* What connection c holds, or the server works on for it.
Held(c) == ToSet(toDev[c]) \cup ToSet(toApp[c]) \cup {m \in {job} : m # NoCall /\ srv = c}

\* While no call has given up, the connection holds nothing but the present call's.
InStep == givenUp = 0 /\ sock # 0 => \A m \in Held(sock) : call # NoCall /\ m.id = call.id

\* The answer to the present call, in a socket of the station.
Reply(r) == r \in Answered /\ call # NoCall /\ r.id = call.id

\* No burn is on its way when a serial number is confirmed, by an answer read or unread.
ConfirmInv ==
    /\ confirmed # NoSN => devSN = confirmed /\ \A m \in Unserved : m.kind # "burn"
    /\ \A r \in Answered : Reply(r) /\ call.kind \in {"burn", "check"} /\ "rtSN" \in r.good
                             => devSN = call.sn

ForAging == stage = "aging" /\ onFlash = "aging"

\* Nothing that stages the device again is on its way when it is finished.
FinishInv ==
    /\ finished => ForAging /\ \A m \in Unserved : m.kind \notin {"mic", "smt"}
    /\ \A r \in Answered : Reply(r) /\ call.kind = "done" => ForAging

-----------------------------------------------------------------------------
(* What a step does to the messages                                              *)

\* A sequence that has lost messages, or none.
Less(t, s) == /\ ToSet(t) \subseteq ToSet(s) /\ (Increasing(s) => Increasing(t))
              /\ s = <<>> => t = <<>>

\* Messages may be lost or read, and work on a request may end.
Shrunk == /\ \A c \in ConnIds : Less(toDev'[c], toDev[c]) /\ Less(toApp'[c], toApp[c])
          /\ job' \in {job, NoCall}

\* An unchanged sequence, a tail and the empty one.
LEMMA LessMessages ==
  /\ \A s : Less(s, s)
  /\ \A S : \A s \in Seq(S) : s # <<>> => Less(Tail(s), s)
  /\ \A s : Less(<<>>, s)
<1>1. \A s : Less(s, s)
  BY DEF Less
<1>2. ASSUME NEW S, NEW s \in Seq(S), s # <<>> PROVE Less(Tail(s), s)
  <2>1. ToSet(Tail(s)) \subseteq ToSet(s)
    BY <1>2, Removed
  <2>2. Increasing(s) => Increasing(Tail(s))
    BY <1>2, TailIncreases
  <2> QED
    BY <1>2, <2>1, <2>2 DEF Less
<1>3. \A s : Less(<<>>, s)
  BY Empty DEF Less
<1> QED
  BY <1>1, <1>2, <1>3

\* A step sends a request, takes one, answers one, or makes the messages no more.
LEMMA WireSteps ==
  ASSUME Types, [Next]_vars
  PROVE  \/ Shrunk \/ ServerRecv
         \/ \E kind \in Kinds, s \in SNs : Send(kind, s)
         \/ \E good \in SUBSET Fields : ServerAnswers(good)
<1>1. ASSUME UNCHANGED <<toDev, toApp, job>> PROVE Shrunk
  BY <1>1, LessMessages DEF Shrunk
<1>2. ASSUME NEW c \in ConnIds, toDev' = [toDev EXCEPT ![c] = <<>>], UNCHANGED <<toApp, job>>
      PROVE  Shrunk
  BY <1>2, LessMessages DEF Shrunk, Types, WireType
<1>3. CASE Reboot
  <2>1. \A c \in ConnIds : toDev'[c] = <<>> /\ toApp'[c] = <<>>
    BY <1>3 DEF Reboot
  <2>2. job' = NoCall
    BY <1>3 DEF Reboot
  <2> QED
    BY <2>1, <2>2, LessMessages DEF Shrunk
<1>4. CASE Read
  <2>1. sock \in ConnIds /\ toApp[sock] # <<>> /\ toApp[sock] \in Seq(Answers)
    BY <1>4, LinkAssumption DEF Read, Types, AppType, WireType, ConnIds
  <2>2. toApp' = [toApp EXCEPT ![sock] = Tail(@)] /\ UNCHANGED <<toDev, job>>
    BY <1>4 DEF Read, devVars
  <2>3. \A c \in ConnIds : toApp'[c] = toApp[c] \/ (toApp'[c] = Tail(toApp[c]) /\ c = sock)
    BY <2>1, <2>2 DEF Types, WireType
  <2>4. Less(Tail(toApp[sock]), toApp[sock])
    BY <2>1, LessMessages
  <2> QED
    BY <2>2, <2>3, <2>4, LessMessages DEF Shrunk
<1>5. CASE Connect \/ Disconnect \/ TestCancel \/ (\E kind \in Kinds : Refused(kind))
             \/ CheckCancel \/ RecvFails
  <2>1. UNCHANGED <<toDev, toApp, job>>
    BY <1>5 DEF Connect, Disconnect, TestCancel, Refused, CheckCancel, RecvFails, GivesUp,
                wireVars, devVars
  <2> QED
    BY <1>1, <2>1
<1>6. CASE Station
  BY <1>4, <1>5, <1>6 DEF Station
<1>7. CASE (\E c \in ConnIds : Accept(c)) \/ ServerClose \/ WriteBack
  <2>1. UNCHANGED <<toDev, toApp, job>>
    BY <1>7 DEF Accept, ServerClose, WriteBack, wireVars
  <2> QED
    BY <1>1, <2>1
<1>8. CASE Server
  BY <1>7, <1>8 DEF Server
<1>9. ASSUME NEW c \in ConnIds, ResetByClose(c) PROVE Shrunk
  <2>1. toDev' = [toDev EXCEPT ![c] = <<>>] /\ UNCHANGED <<toApp, job>>
    BY <1>9 DEF ResetByClose, devVars
  <2> QED
    BY <1>2, <2>1
<1>10. CASE Network
  BY <1>3, <1>7, <1>9, <1>10 DEF Network
<1>11. CASE UNCHANGED vars
  BY <1>1, <1>11 DEF vars, wireVars, devVars
<1> QED
  BY <1>6, <1>8, <1>10, <1>11 DEF Next

\* Fewer messages are fewer requests and answers.
LEMMA ShrunkMessages == Shrunk => Unserved' \subseteq Unserved /\ Answered' \subseteq Answered
<1> SUFFICES ASSUME Shrunk PROVE Unserved' \subseteq Unserved /\ Answered' \subseteq Answered
  OBVIOUS
<1>1. /\ \A c \in ConnIds : /\ ToSet(toDev'[c]) \subseteq ToSet(toDev[c])
                            /\ ToSet(toApp'[c]) \subseteq ToSet(toApp[c])
      /\ job' \in {job, NoCall}
  BY DEF Shrunk, Less
<1>2. Unserved' \subseteq Unserved
  BY <1>1 DEF Unserved
<1>3. Answered' \subseteq Answered
  BY <1>1 DEF Answered
<1> QED
  BY <1>2, <1>3

\* Taking a request leaves the requests and the answers what they are.
LEMMA TakenMessages ==
  ASSUME Types, ServerRecv
  PROVE  /\ srv \in ConnIds /\ job = NoCall /\ toDev[srv] \in Seq(Requests) /\ toDev[srv] # <<>>
         /\ job' = Head(toDev[srv]) /\ job' \in ToSet(toDev[srv]) /\ job' \in Requests
         /\ \A c \in ConnIds : toDev'[c] = IF c = srv THEN Tail(toDev[c]) ELSE toDev[c]
         /\ \A c \in ConnIds : Less(toDev'[c], toDev[c])
         /\ Unserved' \subseteq Unserved /\ UNCHANGED toApp
<1>1. /\ srv \in ConnIds /\ toDev[srv] # <<>> /\ toDev[srv] \in Seq(Requests) /\ job = NoCall
      /\ job' = Head(toDev[srv]) /\ UNCHANGED toApp
      /\ toDev' = [toDev EXCEPT ![srv] = Tail(@)]
  BY LinkAssumption DEF ServerRecv, Types, AppType, DevType, WireType, ConnIds
<1>2. \A c \in ConnIds : toDev'[c] = IF c = srv THEN Tail(toDev[c]) ELSE toDev[c]
  BY <1>1 DEF Types, WireType
<1>3. job' \in ToSet(toDev[srv]) /\ job' \in Requests
  BY <1>1, Removed
<1>4. \A c \in ConnIds : Less(toDev'[c], toDev[c])
  BY <1>1, <1>2, LessMessages
<1>5. Unserved' \subseteq Unserved
  BY <1>1, <1>3, <1>4 DEF Unserved, Less
<1> QED
  BY <1>1, <1>2, <1>3, <1>4, <1>5

\* A request that is sent is the only new one.
LEMMA SentMessages ==
  ASSUME Types, NEW kind \in Kinds, NEW s \in SNs, Send(kind, s)
  PROVE  /\ call = NoCall /\ calls' = calls + 1 /\ sock \in ConnIds
         /\ call' \in Requests /\ call'.id = calls + 1 /\ call'.kind = kind
         /\ \A c \in ConnIds : toDev'[c] \in {toDev[c], Append(toDev[c], call')}
         /\ \A c \in ConnIds : c # sock => toDev'[c] = toDev[c]
         /\ \A c \in ConnIds : ToSet(toDev'[c]) \subseteq ToSet(toDev[c]) \cup {call'}
         /\ Unserved' \subseteq Unserved \cup {call'} /\ UNCHANGED <<toApp, job, srv>>
<1>1. /\ call = NoCall /\ calls' = calls + 1 /\ sock \in ConnIds
      /\ UNCHANGED <<toApp, job, srv>>
  BY LinkAssumption DEF Send, Types, AppType, ConnIds, devVars
<1>2. call' \in Requests /\ call'.id = calls + 1 /\ call'.kind = kind
  <2>1. calls + 1 \in 1 .. MaxCalls
    BY LinkAssumption DEF Send, Types, AppType
  <2> QED
    BY <2>1, LinkAssumption DEF Send, Requests, NextRecv
<1>3. \A c \in ConnIds : /\ toDev'[c] \in {toDev[c], Append(toDev[c], call')}
                         /\ c # sock => toDev'[c] = toDev[c]
  BY <1>1 DEF Send, Types, WireType
<1>4. \A c \in ConnIds : ToSet(Append(toDev[c], call')) = ToSet(toDev[c]) \cup {call'}
  BY <1>2, Appended DEF Types, WireType
<1>5. ASSUME NEW c \in ConnIds PROVE ToSet(toDev'[c]) \subseteq ToSet(toDev[c]) \cup {call'}
  <2>1. toDev'[c] = toDev[c] \/ toDev'[c] = Append(toDev[c], call')
    BY <1>3
  <2> QED
    BY <1>4, <2>1
<1>6. Unserved' \subseteq Unserved \cup {call'}
  BY <1>1, <1>5 DEF Unserved
<1> QED
  BY <1>1, <1>2, <1>3, <1>5, <1>6

\* The answer to the request that the server has.
AnswerOf(good) == [id |-> job.id, good |-> good]

\* An answer is the only new one, and ends the work on its request.
LEMMA AnsweredMessages ==
  ASSUME Types, Links, NEW good \in SUBSET Fields, ServerAnswers(good)
  PROVE  /\ job \in Requests /\ srv \in ConnIds /\ job' = NoCall /\ UNCHANGED toDev
         /\ AnswerOf(good) \in Answers /\ AnswerOf(good).id = job.id /\ AnswerOf(good).good = good
         /\ \A c \in ConnIds : toApp'[c] \in {toApp[c], Append(toApp[c], AnswerOf(good))}
         /\ \A c \in ConnIds : c # srv => toApp'[c] = toApp[c]
         /\ \A c \in ConnIds : ToSet(toApp'[c]) \subseteq ToSet(toApp[c]) \cup {AnswerOf(good)}
         /\ Answered' \subseteq Answered \cup {AnswerOf(good)}
         /\ Unserved' = UNION {ToSet(toDev[c]) : c \in ConnIds} /\ Unserved' \subseteq Unserved
<1> DEFINE r == AnswerOf(good)
<1>1. job \in Requests /\ srv \in ConnIds /\ job' = NoCall /\ UNCHANGED toDev
  BY LinkAssumption DEF ServerAnswers, Types, AppType, DevType, Links, ConnIds
<1>2. r \in Answers /\ r.id = job.id /\ r.good = good
  BY <1>1, Messages DEF Answers, AnswerOf
<1>3. \A c \in ConnIds : /\ toApp'[c] \in {toApp[c], Append(toApp[c], r)}
                         /\ c # srv => toApp'[c] = toApp[c]
  BY <1>1 DEF ServerAnswers, Types, WireType, AnswerOf
<1> HIDE DEF r
<1>4. \A c \in ConnIds : ToSet(Append(toApp[c], r)) = ToSet(toApp[c]) \cup {r}
  BY <1>2, Appended DEF Types, WireType
<1>5. ASSUME NEW c \in ConnIds PROVE ToSet(toApp'[c]) \subseteq ToSet(toApp[c]) \cup {r}
  <2>1. toApp'[c] = toApp[c] \/ toApp'[c] = Append(toApp[c], r)
    BY <1>3
  <2> QED
    BY <1>4, <2>1
<1>6. Answered' \subseteq Answered \cup {r}
  BY <1>5 DEF Answered
<1>7. Unserved' = UNION {ToSet(toDev[c]) : c \in ConnIds} /\ Unserved' \subseteq Unserved
  BY <1>1 DEF Unserved
<1> QED
  BY <1>1, <1>2, <1>3, <1>5, <1>6, <1>7 DEF r

-----------------------------------------------------------------------------
(* The link keeps the order of the calls                                         *)

\* The initial state.
LEMMA InitLink == Init => LinkInv
<1> SUFFICES ASSUME Init PROVE LinkInv
  OBVIOUS
<1>1. \A c \in ConnIds : toDev[c] = <<>> /\ toApp[c] = <<>>
  BY DEF Init
<1>2. Unserved = {} /\ Answered = {}
  BY <1>1, Empty DEF Init, Unserved, Answered
<1>3. Links
  BY <1>1 DEF Init, Links
<1>4. Numbered
  BY <1>2 DEF Init, Numbered
<1>5. InOrder
  BY <1>1, <1>2, Empty DEF Init, InOrder
<1> QED
  BY <1>3, <1>4, <1>5 DEF LinkInv

\* What a step does to the ends of the link.
LEMMA EndSteps ==
  ASSUME Types, Links, [Next]_vars
  PROVE  /\ conns' \in Nat /\ conns <= conns' /\ shut' \subseteq 1 .. conns'
         /\ sock' \in {0, conns'} /\ sock' \notin shut'
         /\ \/ srv' = srv \/ (srv' = 0 /\ job' = NoCall)
            \/ srv' \in ConnIds /\ srv = 0 /\ UNCHANGED <<toDev, job>>
               /\ \A b \in ConnIds : b < srv' => toDev[b] = <<>>
<1> USE DEF Types, appVars, wireVars, devVars, histVars
<1>1. conns \in Nat /\ 1 .. conns \subseteq 1 .. conns + 1
  BY DEF AppType
<1>2. CASE Connect
  <2>1. conns' = conns + 1 /\ sock' = conns + 1 /\ shut' \subseteq shut \cup {sock} /\ srv' = srv
    BY <1>2 DEF Connect, CloseSock
  <2>2. shut' \subseteq 1 .. conns
    BY <1>2 DEF Connect, CloseSock, Links, AppType
  <2> QED
    BY <1>1, <2>1, <2>2
<1>3. CASE Disconnect
  <2>1. conns' = conns /\ sock' = 0 /\ shut' \subseteq 1 .. conns /\ srv' = srv
    BY <1>3 DEF Disconnect, CloseSock, Links, AppType
  <2> QED
    BY <1>1, <2>1
<1>4. ASSUME UNCHANGED <<sock, conns, shut>>,
             srv' = srv \/ (srv' = 0 /\ job' = NoCall)
      PROVE  /\ conns' \in Nat /\ conns <= conns' /\ shut' \subseteq 1 .. conns'
             /\ sock' \in {0, conns'} /\ sock' \notin shut'
             /\ srv' = srv \/ (srv' = 0 /\ job' = NoCall)
  BY <1>1, <1>4 DEF Links
<1>5. ASSUME NEW c \in ConnIds, Accept(c)
      PROVE  /\ UNCHANGED <<sock, conns, shut, toDev, job>> /\ srv' \in ConnIds /\ srv = 0
             /\ \A b \in ConnIds : b < srv' => toDev[b] = <<>>
  BY <1>5 DEF Accept, MayAccept, ConnIds
<1>6. CASE TestCancel \/ CheckCancel \/ Read \/ RecvFails \/ ServerRecv \/ WriteBack
           \/ (\E kind \in Kinds : Refused(kind)) \/ (\E kind \in Kinds, s \in SNs : Send(kind, s))
           \/ (\E good \in SUBSET Fields : ServerAnswers(good)) \/ (\E c \in ConnIds : ResetByClose(c))
           \/ UNCHANGED vars
  <2>1. UNCHANGED <<sock, conns, shut, srv>>
    BY <1>6 DEF TestCancel, CheckCancel, Read, RecvFails, GivesUp, ServerRecv, WriteBack, Refused,
                Send, ServerAnswers, ResetByClose, vars
  <2> QED
    BY <1>4, <2>1
<1>7. CASE ServerClose \/ Reboot
  <2>1. UNCHANGED <<sock, conns, shut>> /\ srv' = 0 /\ job' = NoCall
    BY <1>7 DEF ServerClose, Reboot
  <2> QED
    BY <1>4, <2>1
<1>8. CASE \E c \in ConnIds : Accept(c)
  <2>1. /\ UNCHANGED <<sock, conns, shut, toDev, job>> /\ srv' \in ConnIds /\ srv = 0
        /\ \A b \in ConnIds : b < srv' => toDev[b] = <<>>
    BY <1>5, <1>8
  <2>2. conns' \in Nat /\ conns <= conns'
    BY <1>1, <2>1
  <2> QED
    BY <2>1, <2>2 DEF Links
<1> QED
  BY <1>2, <1>3, <1>6, <1>7, <1>8 DEF Next, Station, Server, Network

\* The ends of the link are in place after every step.
LEMMA LinksStep ==
  ASSUME Types, Links, [Next]_vars
  PROVE  Links'
<1> DEFINE Emptied == \A c \in ConnIds : c > conns => toDev'[c] = <<>> /\ toApp'[c] = <<>>
           Served == /\ job' # NoCall => srv # 0
                     /\ \A b \in ConnIds : b < srv => toDev'[b] = <<>>
<1>1. srv \in 0 .. conns /\ conns \in Nat
  BY DEF Types, AppType, DevType
<1>2. Emptied /\ Served
  <2>1. CASE Shrunk
    BY <2>1 DEF Shrunk, Less, Links
  <2>2. CASE ServerRecv
    BY <1>1, <2>2, TakenMessages DEF Links, Less, ConnIds
  <2>3. ASSUME NEW kind \in Kinds, NEW s \in SNs, Send(kind, s) PROVE Emptied /\ Served
    <3>1. /\ sock = conns /\ UNCHANGED <<toApp, job>>
          /\ \A c \in ConnIds : c # sock => toDev'[c] = toDev[c]
      BY <2>3, SentMessages DEF Links, ConnIds
    <3> QED
      BY <1>1, <3>1 DEF Links, ConnIds
  <2>4. ASSUME NEW good \in SUBSET Fields, ServerAnswers(good) PROVE Emptied /\ Served
    <3>1. /\ UNCHANGED toDev /\ job' = NoCall
          /\ \A c \in ConnIds : c # srv => toApp'[c] = toApp[c]
      BY <2>4, AnsweredMessages
    <3> QED
      BY <1>1, <3>1 DEF Links, ConnIds
  <2> QED
    BY <2>1, <2>2, <2>3, <2>4, WireSteps
<1>3. /\ sock' \in {0, conns'} /\ sock' \notin shut' /\ shut' \subseteq 1 .. conns'
      /\ \A c \in ConnIds : c > conns' => toDev'[c] = <<>> /\ toApp'[c] = <<>>
  BY <1>1, <1>2, EndSteps DEF ConnIds
<1>4. /\ job' # NoCall => srv' # 0
      /\ \A b \in ConnIds : b < srv' => toDev'[b] = <<>>
  <2>1. CASE srv' = srv
    BY <1>2, <2>1
  <2>2. CASE srv' = 0 /\ job' = NoCall
    BY <2>2 DEF ConnIds
  <2>3. CASE /\ srv' \in ConnIds /\ UNCHANGED <<toDev, job>>
             /\ \A b \in ConnIds : b < srv' => toDev[b] = <<>>
    BY <2>3 DEF ConnIds
  <2> QED
    BY <2>1, <2>2, <2>3, EndSteps
<1> QED
  BY <1>3, <1>4 DEF Links

\* Messages on the way are requests and answers, with their numbers.
LEMMA MessageTypes ==
  ASSUME Types
  PROVE  /\ Unserved \subseteq Requests /\ Answered \subseteq Answers
         /\ \A m \in Unserved : m.id \in Nat
         /\ \A r \in Answered : r.id \in Nat
         /\ \A c \in ConnIds : /\ ToSet(toDev[c]) \subseteq Unserved
                               /\ ToSet(toApp[c]) \subseteq Answered
         /\ job # NoCall => job \in Unserved
         /\ calls \in Nat
<1>1. \A c \in ConnIds : /\ ToSet(toDev[c]) \subseteq Requests
                         /\ ToSet(toApp[c]) \subseteq Answers
  <2>1. ASSUME NEW S, NEW s \in Seq(S) PROVE ToSet(s) \subseteq S
    BY DEF ToSet
  <2> QED
    BY <2>1 DEF Types, WireType
<1>2. /\ \A c \in ConnIds : /\ ToSet(toDev[c]) \subseteq Unserved
                            /\ ToSet(toApp[c]) \subseteq Answered
      /\ job # NoCall => job \in Unserved
  BY DEF Unserved, Answered
<1>3. Unserved \subseteq Requests /\ Answered \subseteq Answers
  BY <1>1 DEF Unserved, Answered, Types, DevType
<1>4. calls \in Nat
  BY DEF Types, AppType
<1> QED
  BY <1>2, <1>3, <1>4, Messages

\* The call after a step other than Send is the call before it, or none.
SameCall == /\ calls <= calls'
            /\ call' # NoCall => /\ call # NoCall /\ calls' = calls /\ call'.id = call.id
                                 /\ call'.kind = call.kind /\ call'.sn = call.sn

\* A step is a Send, or leaves the station with the same call and no more requests; no
\* answer appears but that of the server to the request that it has.
LEMMA MessageSteps ==
  ASSUME Types, Links, [Next]_vars
  PROVE  \/ \E kind \in Kinds, s \in SNs : Send(kind, s)
         \/ /\ SameCall /\ Unserved' \subseteq Unserved
            /\ Answered' \subseteq Answered \/ \E good \in SUBSET Fields : ServerAnswers(good)
<1> SUFFICES ASSUME \A kind \in Kinds, s \in SNs : ~Send(kind, s)
             PROVE  /\ SameCall /\ Unserved' \subseteq Unserved
                    /\ Answered' \subseteq Answered \/ \E good \in SUBSET Fields : ServerAnswers(good)
  OBVIOUS
<1>1. SameCall
  <2> USE DEF SameCall
  <2>1. calls \in Nat
    BY DEF Types, AppType
  <2>2. CASE call' = NoCall /\ calls' \in {calls, calls + 1}
    BY <2>1, <2>2
  <2>3. CASE UNCHANGED <<call, calls>>
    BY <2>1, <2>3
  <2>4. ASSUME call.at \in {"check", "recv"}, calls' = calls, NEW tries, NEW at,
               call' = [call EXCEPT !.tries = tries, !.at = at]
        PROVE  SameCall
    <3>1. call # NoCall /\ call \in Requests
      BY <2>4, CallUnderWay DEF Types, AppType
    <3>2. call'.id = call.id /\ call'.kind = call.kind /\ call'.sn = call.sn
      BY <2>4, <3>1 DEF Requests
    <3> QED
      BY <2>1, <2>4, <3>1, <3>2
  <2>5. CASE CheckCancel
    <3>1. CASE GivesUp
      BY <2>2, <3>1 DEF GivesUp, Returns
    <3>2. CASE call' = [call EXCEPT !.at = "recv"] /\ UNCHANGED calls
      <4>1. call.at = "check" /\ call # NoCall /\ call \in Requests
        BY <2>5, CallUnderWay DEF CheckCancel, Types, AppType
      <4>2. call' = [call EXCEPT !.tries = call.tries, !.at = "recv"]
        BY <3>2, <4>1 DEF Requests
      <4> QED
        BY <2>4, <3>2, <4>1, <4>2
    <3> QED
      BY <2>5, <3>1, <3>2 DEF CheckCancel
  <2>6. CASE RecvFails
    <3>1. CASE GivesUp
      BY <2>2, <3>1 DEF GivesUp, Returns
    <3>2. CASE ~GivesUp
      <4>1. /\ call.at = "recv" /\ calls' = calls
            /\ call' = [call EXCEPT !.tries = call.tries + 1, !.at = NextRecv(call.kind)]
        BY <2>6, <3>2, CallUnderWay DEF RecvFails, Types, AppType, Requests
      <4> QED
        BY <2>4, <4>1
    <3> QED
      BY <3>1, <3>2
  <2>7. CASE Read \/ \E kind \in Kinds : Refused(kind)
    <3>1. call' = NoCall /\ calls' \in {calls, calls + 1}
      BY <2>7 DEF Read, Returns, Refused
    <3> QED
      BY <2>2, <3>1
  <2>8. CASE Connect \/ Disconnect \/ TestCancel \/ Server \/ Network \/ UNCHANGED vars
    <3>1. UNCHANGED <<call, calls>>
      BY <2>8 DEF Connect, Disconnect, TestCancel, Server, Accept, ServerRecv, ServerClose,
                  ServerAnswers, Network, WriteBack, Reboot, ResetByClose, vars, appVars
    <3> QED
      BY <2>3, <3>1
  <2> HIDE DEF SameCall
  <2> QED
    BY <2>5, <2>6, <2>7, <2>8 DEF Next, Station
<1>2. CASE Shrunk
  BY <1>1, <1>2, ShrunkMessages
<1>3. CASE ServerRecv
  <2>1. Answered' = Answered
    BY <1>3, TakenMessages DEF Answered
  <2> QED
    BY <1>1, <1>3, <2>1, TakenMessages
<1>4. ASSUME NEW good \in SUBSET Fields, ServerAnswers(good)
      PROVE  Unserved' \subseteq Unserved
  BY <1>4, AnsweredMessages
<1> QED
  BY <1>1, <1>2, <1>3, <1>4, WireSteps

\* Numbers stay those of the calls.
LEMMA NumberedStep ==
  ASSUME Types, Links, Numbered, [Next]_vars
  PROVE  Numbered'
<1>1. \A m \in Unserved : m.id \in Nat
  BY MessageTypes
<1>2. calls \in Nat /\ calls' \in Nat /\ \A r \in Answered : r.id \in Nat
  BY MessageTypes, StepType DEF Types, AppType
<1>3. ASSUME NEW kind \in Kinds, NEW s \in SNs, Send(kind, s) PROVE Numbered'
  <2>1. /\ calls' = calls + 1 /\ call'.id = calls + 1 /\ Unserved' \subseteq Unserved \cup {call'}
        /\ call' # NoCall
    BY <1>3, SentMessages, Messages
  <2>2. Answered' = Answered
    BY <1>3, SentMessages DEF Answered
  <2>3. \A m \in Unserved : m.id <= calls /\ m.id # calls + 1 /\ m.id <= calls + 1
    BY <1>1, <1>2 DEF Numbered
  <2>4. \A r \in Answered : r.id <= calls + 1
    BY <1>2 DEF Numbered
  <2> QED
    BY <1>2, <2>1, <2>2, <2>3, <2>4 DEF Numbered
<1>4. CASE SameCall /\ Unserved' \subseteq Unserved
           /\ (Answered' \subseteq Answered \/ \E good \in SUBSET Fields : ServerAnswers(good))
  <2>1. \A m \in Unserved : m.id <= calls'
    BY <1>1, <1>2, <1>4 DEF Numbered, SameCall
  <2>2. \A r \in Answered : r.id <= calls'
    BY <1>2, <1>4 DEF Numbered, SameCall
  <2>3. \A r \in Answered' : r.id <= calls'
    <3>1. ASSUME NEW good \in SUBSET Fields, ServerAnswers(good)
          PROVE  \A r \in Answered' : r.id <= calls'
      <4>1. \A r \in Answered' : r \in Answered \/ r.id = job.id
        BY <3>1, AnsweredMessages
      <4>2. job \in Unserved
        BY <3>1, MessageTypes DEF ServerAnswers
      <4> QED
        BY <2>1, <2>2, <4>1, <4>2
    <3> QED
      BY <1>4, <2>2, <3>1
  <2>4. \A m \in Unserved' : call' # NoCall /\ m.id = call'.id => m.kind = call'.kind /\ m.sn = call'.sn
    BY <1>4 DEF Numbered, SameCall
  <2>5. call' # NoCall => call'.id = calls'
    BY <1>4 DEF Numbered, SameCall
  <2> QED
    BY <1>4, <2>1, <2>3, <2>4, <2>5 DEF Numbered
<1> QED
  BY <1>3, <1>4, MessageSteps

\* The messages stay in the order of the calls.
LEMMA InOrderStep ==
  ASSUME Types, Links, Numbered, InOrder, [Next]_vars
  PROVE  InOrder'
<1> DEFINE Each == \A c \in ConnIds : Increasing(toDev'[c]) /\ Increasing(toApp'[c])
           Across == \A b, c \in ConnIds : b < c =>
                       \A m \in ToSet(toDev'[b]), k \in ToSet(toDev'[c]) : m.id < k.id
           First == job' # NoCall => \A c \in ConnIds : \A m \in ToSet(toDev'[c]) : job'.id < m.id
           Later == \A r \in Answered', m \in Unserved' : r.id < m.id
<1>1. /\ \A c \in ConnIds : /\ ToSet(toDev[c]) \subseteq Unserved
                            /\ ToSet(toApp[c]) \subseteq Answered
      /\ \A m \in Unserved : m.id \in Nat /\ m.id <= calls
      /\ \A r \in Answered : r.id \in Nat /\ r.id <= calls
      /\ calls \in Nat
  BY MessageTypes DEF Numbered
<1>2. CASE Shrunk
  <2>1. Each
    BY <1>2 DEF Shrunk, Less, InOrder
  <2>2. Across
    BY <1>2 DEF Shrunk, Less, InOrder
  <2>3. First
    BY <1>2 DEF Shrunk, Less, InOrder
  <2>4. Later
    BY <1>2, ShrunkMessages DEF InOrder
  <2> QED
    BY <2>1, <2>2, <2>3, <2>4 DEF InOrder
<1>3. CASE ServerRecv
  <2>1. Each
    BY <1>3, TakenMessages DEF Less, InOrder
  <2>2. Across
    BY <1>3, TakenMessages DEF Less, InOrder
  <2>3. First
    <3> SUFFICES ASSUME NEW c \in ConnIds, NEW m \in ToSet(toDev'[c]) PROVE job'.id < m.id
      OBVIOUS
    <3>1. m \in ToSet(toDev[c])
      BY <1>3, TakenMessages DEF Less
    <3>2. CASE c = srv
      <4>1. toDev'[c] = Tail(toDev[c]) /\ job' = Head(toDev[c])
        BY <1>3, <3>2, TakenMessages
      <4>2. toDev[c] \in Seq(Requests) /\ toDev[c] # <<>> /\ Increasing(toDev[c])
        BY <1>3, <3>2, TakenMessages DEF InOrder
      <4> QED
        BY <4>1, <4>2, TailIncreases
    <3>3. CASE c < srv
      BY <3>1, <3>3, Empty DEF Links
    <3>4. CASE srv < c
      BY <1>3, <3>1, <3>4, TakenMessages DEF InOrder
    <3>5. c \in Nat /\ srv \in Nat
      BY DEF Types, AppType, DevType, ConnIds
    <3> QED
      BY <3>2, <3>3, <3>4, <3>5
  <2>4. Later
    <3>1. Answered' = Answered /\ Unserved' \subseteq Unserved
      BY <1>3, TakenMessages DEF Answered
    <3> QED
      BY <3>1 DEF InOrder
  <2> QED
    BY <2>1, <2>2, <2>3, <2>4 DEF InOrder
<1>4. ASSUME NEW kind \in Kinds, NEW s \in SNs, Send(kind, s) PROVE InOrder'
  <2>1. /\ call'.id = calls + 1 /\ call' \in Requests /\ UNCHANGED job /\ sock \in ConnIds
        /\ \A c \in ConnIds : toDev'[c] \in {toDev[c], Append(toDev[c], call')}
        /\ \A c \in ConnIds : c # sock => toDev'[c] = toDev[c]
        /\ \A c \in ConnIds : ToSet(toDev'[c]) \subseteq ToSet(toDev[c]) \cup {call'}
        /\ Unserved' \subseteq Unserved \cup {call'} /\ UNCHANGED toApp
    BY <1>4, SentMessages
  <2>2. \A m \in Unserved \cup Answered : m.id < call'.id
    BY <1>1, <2>1
  <2>3. Each
    <3> SUFFICES ASSUME NEW c \in ConnIds PROVE Increasing(toDev'[c])
      BY <2>1 DEF InOrder
    <3>1. CASE toDev'[c] = toDev[c]
      BY <3>1 DEF InOrder
    <3>2. CASE toDev'[c] = Append(toDev[c], call')
      <4>1. toDev[c] \in Seq(Requests) /\ \A r \in Requests : r.id \in Nat
        BY Messages DEF Types, WireType
      <4>2. Increasing(toDev[c]) /\ \A r \in ToSet(toDev[c]) : r.id < call'.id
        BY <1>1, <2>2 DEF InOrder
      <4> QED
        BY <2>1, <3>2, <4>1, <4>2, AppendIncreases
    <3> QED
      BY <2>1, <3>1, <3>2
  <2>4. Across
    <3> SUFFICES ASSUME NEW b \in ConnIds, NEW c \in ConnIds, b < c,
                        NEW m \in ToSet(toDev'[b]), NEW k \in ToSet(toDev'[c])
                 PROVE  m.id < k.id
      OBVIOUS
    <3>1. CASE c > sock
      <4>1. toDev'[c] = <<>>
        <5>1. c > conns /\ c # sock
          BY <2>1, <3>1 DEF Links, ConnIds
        <5> QED
          BY <2>1, <5>1 DEF Links
      <4> QED
        BY <4>1, Empty
    <3>2. CASE ~(c > sock)
      <4>1. b # sock
        BY <2>1, <3>2 DEF ConnIds
      <4>2. m \in ToSet(toDev[b])
        BY <2>1, <4>1
      <4>3. CASE k = call'
        BY <1>1, <2>2, <4>2, <4>3
      <4>4. CASE k \in ToSet(toDev[c])
        BY <4>2, <4>4 DEF InOrder
      <4> QED
        BY <2>1, <4>3, <4>4
    <3> QED
      BY <3>1, <3>2
  <2>5. First
    <3> SUFFICES ASSUME job # NoCall, NEW c \in ConnIds, NEW m \in ToSet(toDev'[c])
                 PROVE  job.id < m.id
      BY <2>1
    <3>1. CASE m = call'
      BY <2>2, <3>1, MessageTypes
    <3>2. CASE m \in ToSet(toDev[c])
      BY <3>2 DEF InOrder
    <3> QED
      BY <2>1, <3>1, <3>2
  <2>6. Later
    <3>1. Answered' = Answered
      BY <2>1 DEF Answered
    <3> QED
      BY <2>1, <2>2, <3>1 DEF InOrder
  <2> QED
    BY <2>3, <2>4, <2>5, <2>6 DEF InOrder
<1>5. ASSUME NEW good \in SUBSET Fields, ServerAnswers(good) PROVE InOrder'
  <2> DEFINE a == AnswerOf(good)
  <2>1. /\ job \in Requests /\ job' = NoCall /\ UNCHANGED toDev
        /\ a \in Answers /\ a.id = job.id
        /\ \A c \in ConnIds : toApp'[c] \in {toApp[c], Append(toApp[c], a)}
        /\ Answered' \subseteq Answered \cup {a}
        /\ Unserved' = UNION {ToSet(toDev[c]) : c \in ConnIds} /\ Unserved' \subseteq Unserved
    BY <1>5, AnsweredMessages
  <2>2. job \in Unserved
    BY <2>1, MessageTypes, Messages
  <2> HIDE DEF a
  <2>3. Each
    <3> SUFFICES ASSUME NEW c \in ConnIds PROVE Increasing(toApp'[c])
      BY <2>1 DEF InOrder
    <3>1. CASE toApp'[c] = toApp[c]
      BY <3>1 DEF InOrder
    <3>2. CASE toApp'[c] = Append(toApp[c], a)
      <4>1. toApp[c] \in Seq(Answers) /\ \A r \in Answers : r.id \in Nat
        BY Messages DEF Types, WireType
      <4>2. Increasing(toApp[c]) /\ \A r \in ToSet(toApp[c]) : r.id < a.id
        BY <1>1, <2>1, <2>2 DEF InOrder
      <4> QED
        BY <2>1, <3>2, <4>1, <4>2, AppendIncreases
    <3> QED
      BY <2>1, <3>1, <3>2
  <2>4. Across /\ First
    BY <2>1 DEF InOrder
  <2>5. Later
    <3>1. \A m \in Unserved' : job.id < m.id
      BY <2>1, Messages DEF InOrder
    <3> QED
      BY <2>1, <3>1 DEF InOrder
  <2> QED
    BY <2>3, <2>4, <2>5 DEF InOrder
<1> QED
  BY <1>2, <1>3, <1>4, <1>5, WireSteps

\* Order and numbers of the messages are invariant, whatever is lost, closed or rebooted.
THEOREM LinkCorrect == Spec => []LinkInv
<1>1. Types /\ LinkInv /\ [Next]_vars => LinkInv'
  BY LinksStep, NumberedStep, InOrderStep DEF LinkInv
<1>2. Spec => []Types
  BY InitType, StepType, PTL DEF Spec
<1> QED
  BY <1>1, <1>2, InitLink, PTL DEF Spec

\* When the present call has its answer, no request is on its way.
LEMMA AnsweredIsLast ==
  ASSUME Types, LinkInv, NEW r \in Answered, call # NoCall, r.id = call.id
  PROVE  Unserved = {}
<1>1. r.id = calls /\ \A m \in Unserved : m.id <= calls /\ r.id < m.id
  BY DEF LinkInv, Numbered, InOrder
<1>2. \A m \in Unserved : m.id \in Nat /\ calls \in Nat
  BY MessageTypes
<1> QED
  BY <1>1, <1>2

-----------------------------------------------------------------------------
(* Calls and answers are in step until a call gives up                           *)

\* Whatever a connection holds after a step other than Send, it held a message with the
\* same number before.
LEMMA HeldNumbers ==
  ASSUME Types, Links, [Next]_vars, NEW c \in ConnIds,
         \A kind \in Kinds, s \in SNs : ~Send(kind, s)
  PROVE  \A m \in Held(c)' : \E k \in Held(c) : k.id = m.id
<1>1. CASE Shrunk
  <2>1. ToSet(toDev'[c]) \subseteq ToSet(toDev[c]) /\ ToSet(toApp'[c]) \subseteq ToSet(toApp[c])
    BY <1>1 DEF Shrunk, Less
  <2>2. job' # NoCall /\ srv' = c => job' = job /\ srv = c
    <3>1. job' # NoCall => job' = job /\ srv # 0
      BY <1>1 DEF Shrunk, Links
    <3> QED
      BY <3>1, EndSteps
  <2> QED
    BY <2>1, <2>2 DEF Held
<1>2. CASE ServerRecv
  <2>1. /\ ToSet(toDev'[c]) \subseteq ToSet(toDev[c]) /\ toApp' = toApp
        /\ job' \in ToSet(toDev[srv]) /\ srv' = srv
    BY <1>2, TakenMessages DEF Less, ServerRecv
  <2> QED
    BY <2>1 DEF Held
<1>3. ASSUME NEW good \in SUBSET Fields, ServerAnswers(good)
      PROVE  \A m \in Held(c)' : \E k \in Held(c) : k.id = m.id
  <2>1. /\ toDev' = toDev /\ job' = NoCall /\ AnswerOf(good).id = job.id /\ job # NoCall
        /\ c # srv => toApp'[c] = toApp[c]
        /\ ToSet(toApp'[c]) \subseteq ToSet(toApp[c]) \cup {AnswerOf(good)}
    BY <1>3, AnsweredMessages, Messages
  <2> QED
    BY <2>1 DEF Held
<1> QED
  BY <1>1, <1>2, <1>3, WireSteps

\* A connection that is in step stays in step.
LEMMA InStepStep ==
  ASSUME Types, LinkInv, InStep, [Next]_vars
  PROVE  InStep'
<1> USE DEF LinkInv
<1>0. sock \in Nat /\ conns \in Nat /\ srv \in 0 .. conns /\ givenUp \in Nat /\ conns <= MaxConns
  BY LinkAssumption DEF Types, AppType, DevType, GivenUpBound
<1> SUFFICES ASSUME NEW c \in ConnIds, sock' = c, givenUp' = 0, NEW m \in Held(c)'
             PROVE  call' # NoCall /\ m.id = call'.id
  <2>1. sock' # 0 => sock' \in ConnIds
    BY StepType, LinkAssumption DEF Types, AppType, ConnIds
  <2> QED
    BY <2>1 DEF InStep, Held
<1>1. sock = c /\ givenUp = 0 => \A k \in Held(c) : call # NoCall /\ k.id = call.id
  BY DEF InStep, Held, ConnIds
<1>2. ASSUME NEW kind \in Kinds, NEW s \in SNs, Send(kind, s)
      PROVE  call' # NoCall /\ m.id = call'.id
  <2>1. /\ UNCHANGED <<sock, givenUp, job, srv, toApp>> /\ call = NoCall /\ call' \in Requests
        /\ ToSet(toDev'[c]) \subseteq ToSet(toDev[c]) \cup {call'}
    BY <1>2, SentMessages DEF Send
  <2>2. Held(c) = {}
    BY <1>1, <2>1
  <2>3. m = call'
    BY <2>1, <2>2 DEF Held
  <2> QED
    BY <2>1, <2>3, Messages
<1>3. CASE Connect
  <2>1. sock' = conns + 1 /\ UNCHANGED <<toDev, toApp, srv, job>>
    BY <1>3 DEF Connect, devVars
  <2>2. toDev[c] = <<>> /\ toApp[c] = <<>> /\ srv # c
    BY <1>0, <2>1 DEF Links
  <2>3. Held(c)' = {}
    BY <2>1, <2>2, Empty DEF Held
  <2> QED
    BY <2>3
<1>4. CASE Disconnect
  BY <1>4 DEF Disconnect, ConnIds
<1>5. CASE GivesUp
  BY <1>0, <1>5 DEF GivesUp
<1>6. CASE Read
  <2> DEFINE r == Head(toApp[c])
  <2>1. /\ UNCHANGED <<sock, givenUp, toDev, srv, job>> /\ call # NoCall /\ sock = c
        /\ toApp[c] # <<>> /\ toApp[c] \in Seq(Answers)
    BY <1>6, CallUnderWay DEF Read, devVars, Types, WireType
  <2>2. toApp'[c] = Tail(toApp[c])
    BY <1>6, <2>1 DEF Read, Types, WireType
  <2>3. /\ r \in ToSet(toApp[c]) /\ \A k \in ToSet(Tail(toApp[c])) : r.id < k.id
        /\ ToSet(Tail(toApp[c])) \subseteq ToSet(toApp[c])
    BY <2>1, Removed, TailIncreases DEF InOrder
  <2>4. \A k \in Held(c) : k.id = call.id
    BY <1>1, <2>1
  <2>5. r \in Answered /\ r.id = call.id
    BY <2>3, <2>4 DEF Held, Answered
  <2>6. Unserved = {}
    BY <2>1, <2>5, AnsweredIsLast
  <2>7. ToSet(toDev[c]) = {} /\ job = NoCall
    BY <2>6, MessageTypes
  <2>8. m \in ToSet(Tail(toApp[c]))
    BY <2>1, <2>2, <2>7 DEF Held
  <2>9. m.id = call.id /\ r.id < m.id /\ r.id \in Nat
    BY <2>3, <2>4, <2>5, <2>8, MessageTypes DEF Held
  <2> QED
    BY <2>5, <2>9
<1>7. ASSUME UNCHANGED <<sock, givenUp>>, call # NoCall => call' # NoCall, SameCall,
             \A kind \in Kinds, s \in SNs : ~Send(kind, s)
      PROVE  call' # NoCall /\ m.id = call'.id
  <2>1. PICK k \in Held(c) : k.id = m.id
    BY <1>7, HeldNumbers
  <2> QED
    BY <1>1, <1>7, <2>1 DEF SameCall
<1>8. CASE (CheckCancel /\ ~GivesUp) \/ (RecvFails /\ ~GivesUp)
  <2>1. UNCHANGED <<sock, givenUp>> /\ call # NoCall /\ call \in Requests
    BY <1>8, CallUnderWay DEF CheckCancel, RecvFails, histVars, Types, AppType
  <2>2. call' # NoCall
    <3>1. call' = [call EXCEPT !.at = "recv"]
          \/ call' = [call EXCEPT !.tries = @ + 1, !.at = NextRecv(call.kind)]
      BY <1>8 DEF CheckCancel, RecvFails
    <3>2. call'.at \in {"check", "recv"}
      BY <2>1, <3>1 DEF Requests, NextRecv
    <3> QED
      BY <3>2 DEF NoCall
  <2>3. \A kind \in Kinds, s \in SNs : ~Send(kind, s)
    BY <2>1 DEF Send
  <2> QED
    BY <1>7, <2>1, <2>2, <2>3, MessageSteps
<1>9. CASE TestCancel \/ (\E kind \in Kinds : Refused(kind)) \/ Server \/ Network \/ UNCHANGED vars
  <2>1. UNCHANGED <<sock, givenUp>>
    BY <1>9 DEF TestCancel, Refused, Server, Accept, ServerRecv, ServerClose, ServerAnswers,
                Network, WriteBack, Reboot, ResetByClose, vars, appVars, histVars
  <2>2. UNCHANGED call
    BY <1>9 DEF TestCancel, Refused, Server, Accept, ServerRecv, ServerClose, ServerAnswers,
                Network, WriteBack, Reboot, ResetByClose, vars, appVars
  <2>3. CASE \E kind \in Kinds, s \in SNs : Send(kind, s)
    BY <1>2, <2>3
  <2> QED
    BY <1>7, <2>1, <2>2, <2>3, MessageSteps
<1> QED
  BY <1>2, <1>3, <1>4, <1>5, <1>6, <1>8, <1>9 DEF Next, Station

\* A call returns the answer of an earlier one only after a call on that connection has
\* returned without an answer: tnp_... matches answers to requests by their order alone.
THEOREM InStepUntilGivenUpHolds == Spec => InStepUntilGivenUp
<1>1. Spec => []Types
  BY InitType, StepType, PTL DEF Spec
<1>2. Init => InStep
  BY DEF Init, InStep
<1>3. Spec => []InStep
  BY <1>1, <1>2, LinkCorrect, InStepStep, PTL DEF Spec
<1>4. ASSUME Types, LinkInv, InStep, [Next]_vars
      PROVE  [last'.id # last.id /\ last'.from \notin {0, last'.id} => givenUp > 0]_vars
  <2> SUFFICES ASSUME last'.id # last.id, last'.from \notin {0, last'.id}
               PROVE  givenUp > 0
    OBVIOUS
  <2> USE <1>4
  <2>1. CASE Read
    <3>1. PICK c \in ConnIds : c = sock
      BY <2>1, LinkAssumption DEF Read, Types, AppType, ConnIds
    <3>2. toApp[c] # <<>> /\ toApp[c] \in Seq(Answers)
      BY <2>1, <3>1 DEF Read, Types, WireType
    <3>3. last'.id = call.id /\ last'.from = Head(toApp[c]).id
      BY <2>1, <3>1 DEF Read, Returns
    <3>4. Head(toApp[c]) \in Held(c)
      BY <3>2, Removed DEF Held
    <3>5. sock # 0 /\ givenUp = 0 => \A k \in Held(c) : k.id = call.id
      BY <3>1 DEF InStep, Held
    <3>6. givenUp \in Nat /\ sock # 0
      BY <3>1 DEF Types, GivenUpBound, ConnIds
    <3> QED
      BY <3>3, <3>4, <3>5, <3>6
  <2>2. CASE ~Read
    <3> DEFINE Silent == last' = last \/ last'.from = 0
    <3>1. GivesUp => Silent
      BY DEF GivesUp, Returns
    <3>2. CASE CheckCancel \/ RecvFails
      BY <3>1, <3>2 DEF CheckCancel, RecvFails, histVars
    <3>3. CASE Connect \/ Disconnect \/ TestCancel
      BY <3>3 DEF Connect, Disconnect, TestCancel, histVars
    <3>4. ASSUME NEW kind \in Kinds, Refused(kind) \/ \E s \in SNs : Send(kind, s) PROVE Silent
      BY <3>4 DEF Refused, Send, NoLast
    <3>5. CASE Server \/ Network \/ UNCHANGED vars
      BY <3>5 DEF Server, Accept, ServerRecv, ServerClose, ServerAnswers, Network, WriteBack, Reboot,
                  ResetByClose, vars, histVars
    <3> QED
      BY <2>2, <3>2, <3>3, <3>4, <3>5 DEF Next, Station
  <2> QED
    BY <2>1, <2>2
<1> QED
  BY <1>1, <1>3, <1>4, LinkCorrect, PTL DEF Spec, InStepUntilGivenUp

-----------------------------------------------------------------------------
(* What the device holds                                                         *)

\* The steps that write the device or that confirm what it holds.
LEMMA DeviceSteps ==
  ASSUME [Next]_vars, ~Read, ~Reboot, ~WriteBack,
         \A kind \in Kinds, s \in SNs : ~Send(kind, s),
         \A good \in SUBSET Fields : ~ServerAnswers(good)
  PROVE  UNCHANGED <<devSN, stage, onFlash, confirmed, finished>>
<1> USE DEF devVars, histVars
<1>1. CASE Station
  BY <1>1 DEF Station, Connect, Disconnect, TestCancel, Refused, CheckCancel, RecvFails, GivesUp
<1>2. CASE Server
  BY <1>2 DEF Server, Accept, ServerRecv, ServerClose
<1>3. CASE Network
  BY <1>3 DEF Network, ResetByClose
<1>4. CASE UNCHANGED vars
  BY <1>4 DEF vars
<1> QED
  BY <1>1, <1>2, <1>3, <1>4 DEF Next

\* What Read takes is an answer; if it is the present call's, nothing is left on its way.
LEMMA ReadTakes ==
  ASSUME Types, LinkInv, Read
  PROVE  \E r \in Answered :
            /\ call # NoCall /\ call' = NoCall /\ UNCHANGED <<devSN, stage, onFlash>>
            /\ r.id = call.id => Unserved' = {}
            /\ \/ confirmed' = confirmed
               \/ /\ r.id = call.id /\ call.kind \in {"burn", "check"} /\ "rtSN" \in r.good
                  /\ confirmed' = call.sn
            /\ finished' => finished \/ (r.id = call.id /\ call.kind = "done")
            /\ Unserved' \subseteq Unserved
<1>1. PICK c \in ConnIds : c = sock
  BY LinkAssumption DEF Read, Types, AppType, ConnIds
<1>2. toApp[c] # <<>> /\ toApp[c] \in Seq(Answers) /\ call # NoCall
  BY <1>1, CallUnderWay DEF Read, Types, WireType
<1> DEFINE r == Head(toApp[c])
<1>3. r \in Answered
  BY <1>2, Removed DEF Answered
<1>4. UNCHANGED <<toDev, job>>
  BY DEF Read, devVars
<1>5. Unserved' = Unserved
  BY <1>4 DEF Unserved
<1>6. r.id = call.id => Unserved = {}
  BY <1>2, <1>3, AnsweredIsLast
<1>7. /\ call' = NoCall /\ UNCHANGED <<devSN, stage, onFlash>>
      /\ finished' => finished \/ (r.id = call.id /\ call.kind = "done")
      /\ \/ confirmed' = confirmed
         \/ /\ r.id = call.id /\ call.kind \in {"burn", "check"} /\ "rtSN" \in r.good
            /\ confirmed' = call.sn
  BY <1>1 DEF Read, Returns, devVars
<1> QED
  BY <1>2, <1>3, <1>5, <1>6, <1>7

\* The answer to the present call is not made before its request is served.
LEMMA AnswerIsFirst ==
  ASSUME Types, LinkInv, NEW good \in SUBSET Fields, ServerAnswers(good),
         NEW r \in Answered', call' # NoCall, r.id = call'.id
  PROVE  /\ call' = call /\ r.good = good /\ job \in Unserved
         /\ job.kind = call.kind /\ job.sn = call.sn
<1>1. call' = call
  BY DEF ServerAnswers, appVars
<1>2. job \in Unserved
  BY MessageTypes DEF ServerAnswers
<1>3. r \notin Answered
  BY <1>1, <1>2, AnsweredIsLast
<1>4. r = AnswerOf(good) /\ AnswerOf(good).id = job.id /\ AnswerOf(good).good = good
  BY <1>3, AnsweredMessages DEF LinkInv
<1>5. job.kind = call.kind /\ job.sn = call.sn
  BY <1>1, <1>2, <1>4 DEF LinkInv, Numbered
<1> QED
  BY <1>1, <1>2, <1>4, <1>5

\* Nothing answers a call before it is sent.
LEMMA SentIsUnanswered ==
  ASSUME Types, LinkInv, NEW kind \in Kinds, NEW s \in SNs, Send(kind, s), NEW r \in Answered'
  PROVE  r.id # call'.id
<1>1. Answered' = Answered /\ call'.id = calls + 1
  BY SentMessages DEF Answered
<1>2. r.id <= calls /\ r.id \in Nat /\ calls \in Nat
  BY <1>1, MessageTypes DEF LinkInv, Numbered
<1> QED
  BY <1>1, <1>2

\* A power loss leaves nothing on the way.
LEMMA RebootMessages == Reboot => Unserved' = {} /\ Answered' = {}
<1>1. ASSUME Reboot PROVE /\ \A c \in ConnIds : toDev'[c] = <<>> /\ toApp'[c] = <<>>
                          /\ job' = NoCall
  BY <1>1 DEF Reboot
<1> QED
  BY <1>1, Empty DEF Unserved, Answered

\* What is confirmed stays on the device.
LEMMA ConfirmStep ==
  ASSUME Types, LinkInv, ConfirmInv, [Next]_vars
  PROVE  ConfirmInv'
<1> DEFINE Holds == confirmed' # NoSN => devSN' = confirmed' /\ \A m \in Unserved' : m.kind # "burn"
           Tells == \A r \in Answered' :
                      call' # NoCall /\ r.id = call'.id /\ call'.kind \in {"burn", "check"}
                      /\ "rtSN" \in r.good => devSN' = call'.sn
<1> SUFFICES Holds /\ Tells
  BY DEF ConfirmInv, Reply
<1>1. ASSUME NEW kind \in Kinds, NEW s \in SNs, Send(kind, s) PROVE Holds /\ Tells
  <2>1. Tells
    BY <1>1, SentIsUnanswered
  <2>2. /\ confirmed' = (IF kind = "burn" THEN NoSN ELSE confirmed) /\ devSN' = devSN
        /\ Unserved' \subseteq Unserved \cup {call'} /\ call'.kind = kind
    BY <1>1, SentMessages DEF Send, devVars
  <2> QED
    BY <2>1, <2>2 DEF ConfirmInv
<1>2. CASE Read
  <2>1. PICK r \in Answered :
          /\ call # NoCall /\ call' = NoCall /\ UNCHANGED devSN
          /\ r.id = call.id => Unserved' = {}
          /\ \/ confirmed' = confirmed
             \/ /\ r.id = call.id /\ call.kind \in {"burn", "check"} /\ "rtSN" \in r.good
                /\ confirmed' = call.sn
          /\ Unserved' \subseteq Unserved
    BY <1>2, ReadTakes
  <2> QED
    BY <2>1 DEF ConfirmInv, Reply
<1>3. ASSUME NEW good \in SUBSET Fields, ServerAnswers(good) PROVE Holds /\ Tells
  <2>1. Holds
    <3>1. confirmed' = confirmed /\ job \in Unserved /\ Unserved' \subseteq Unserved
      BY <1>3, AnsweredMessages, MessageTypes DEF ServerAnswers, histVars, LinkInv
    <3>2. job.kind # "burn" => devSN' = devSN
      BY <1>3 DEF ServerAnswers, WriteAndCheckSN
    <3> QED
      BY <3>1, <3>2 DEF ConfirmInv
  <2>2. ASSUME NEW r \in Answered', call' # NoCall, r.id = call'.id,
               call'.kind \in {"burn", "check"}, "rtSN" \in r.good
        PROVE  devSN' = call'.sn
    <3>1. call' = call /\ r.good = good /\ job.kind = call.kind /\ job.sn = call.sn
      BY <1>3, <2>2, AnswerIsFirst
    <3> QED
      BY <1>3, <2>2, <3>1 DEF ServerAnswers, WriteAndCheckSN, CheckSNAndMAC
  <2> QED
    BY <2>1, <2>2
<1>4. CASE Reboot
  <2>1. confirmed' = confirmed /\ Unserved' = {} /\ Answered' = {}
    BY <1>4, RebootMessages DEF Reboot, histVars
  <2>2. confirmed # NoSN => job.kind # "burn"
    BY MessageTypes DEF ConfirmInv, NoCall
  <2> QED
    BY <1>4, <2>1, <2>2 DEF Reboot, ConfirmInv
<1>5. CASE /\ UNCHANGED <<devSN, confirmed>> /\ SameCall /\ Unserved' \subseteq Unserved
           /\ Answered' \subseteq Answered
  BY <1>5 DEF ConfirmInv, Reply, SameCall
<1>6. CASE WriteBack
  BY <1>5, <1>6 DEF WriteBack, histVars, appVars, SameCall, Unserved, Answered, wireVars,
                    Types, AppType
<1>7. CASE /\ ~Read /\ ~Reboot /\ ~WriteBack
           /\ \A kind \in Kinds, s \in SNs : ~Send(kind, s)
           /\ \A good \in SUBSET Fields : ~ServerAnswers(good)
  BY <1>5, <1>7, DeviceSteps, MessageSteps DEF LinkInv
<1> QED
  BY <1>1, <1>2, <1>3, <1>4, <1>6, <1>7

\* A finished device stays staged for aging.
LEMMA FinishStep ==
  ASSUME Types, LinkInv, FinishInv, [Next]_vars
  PROVE  FinishInv'
<1> DEFINE Stays == finished' => ForAging' /\ \A m \in Unserved' : m.kind \notin {"mic", "smt"}
           Tells == \A r \in Answered' :
                      call' # NoCall /\ r.id = call'.id /\ call'.kind = "done" => ForAging'
<1> SUFFICES Stays /\ Tells
  BY DEF FinishInv, Reply
<1>1. ASSUME NEW kind \in Kinds, NEW s \in SNs, Send(kind, s) PROVE Stays /\ Tells
  <2>1. Tells
    BY <1>1, SentIsUnanswered
  <2>2. /\ finished' => finished /\ kind \notin {"mic", "smt"}
        /\ ForAging => ForAging'
        /\ Unserved' \subseteq Unserved \cup {call'} /\ call'.kind = kind
    BY <1>1, SentMessages DEF Send, devVars, ForAging
  <2> QED
    BY <2>1, <2>2 DEF FinishInv
<1>2. CASE Read
  <2>1. PICK r \in Answered :
          /\ call # NoCall /\ call' = NoCall /\ UNCHANGED <<stage, onFlash>>
          /\ r.id = call.id => Unserved' = {}
          /\ finished' => finished \/ (r.id = call.id /\ call.kind = "done")
          /\ Unserved' \subseteq Unserved
    BY <1>2, ReadTakes
  <2>2. ForAging => ForAging'
    BY <2>1 DEF ForAging
  <2> QED
    BY <2>1, <2>2 DEF FinishInv, Reply
<1>3. ASSUME NEW good \in SUBSET Fields, ServerAnswers(good) PROVE Stays /\ Tells
  <2>1. Stays
    <3>1. finished' = finished /\ job \in Unserved /\ Unserved' \subseteq Unserved
      BY <1>3, AnsweredMessages, MessageTypes DEF ServerAnswers, histVars, LinkInv
    <3>2. job.kind \notin {"mic", "smt"} /\ ForAging => ForAging'
      BY <1>3 DEF ServerAnswers, Staging, ForAging
    <3> QED
      BY <3>1, <3>2 DEF FinishInv
  <2>2. ASSUME NEW r \in Answered', call' # NoCall, r.id = call'.id, call'.kind = "done"
        PROVE  ForAging'
    <3>1. job.kind = "done"
      BY <1>3, <2>2, AnswerIsFirst
    <3> QED
      BY <1>3, <3>1 DEF ServerAnswers, Staging, ForAging
  <2> QED
    BY <2>1, <2>2
<1>4. CASE Reboot
  <2>1. finished' = finished /\ Unserved' = {} /\ Answered' = {}
    BY <1>4, RebootMessages DEF Reboot, histVars
  <2>2. ForAging => ForAging'
    BY <1>4 DEF Reboot, ForAging
  <2> QED
    BY <2>1, <2>2 DEF FinishInv
<1>5. CASE /\ ForAging => ForAging'
           /\ finished' = finished /\ SameCall /\ Unserved' \subseteq Unserved
           /\ Answered' \subseteq Answered
  BY <1>5 DEF FinishInv, Reply, SameCall
<1>6. CASE WriteBack
  <2>1. ForAging => ForAging'
    BY <1>6 DEF WriteBack, ForAging
  <2> QED
    BY <1>5, <1>6, <2>1 DEF WriteBack, histVars, appVars, SameCall, Unserved, Answered, wireVars,
                            Types, AppType
<1>7. CASE /\ ~Read /\ ~Reboot /\ ~WriteBack
           /\ \A kind \in Kinds, s \in SNs : ~Send(kind, s)
           /\ \A good \in SUBSET Fields : ~ServerAnswers(good)
  <2>1. UNCHANGED <<stage, onFlash, finished>>
    BY <1>7, DeviceSteps
  <2> QED
    BY <1>5, <1>7, <2>1, MessageSteps DEF LinkInv, ForAging
<1> QED
  BY <1>1, <1>2, <1>3, <1>4, <1>6, <1>7

\* The initial state confirms nothing and finishes nothing.
LEMMA InitDevice == Init => ConfirmInv /\ FinishInv
<1>1. ASSUME Init PROVE Answered = {} /\ confirmed = NoSN /\ finished = FALSE
  <2>1. \A c \in ConnIds : toApp[c] = <<>>
    BY <1>1 DEF Init
  <2> QED
    BY <1>1, <2>1, Empty DEF Init, Answered
<1> QED
  BY <1>1 DEF ConfirmInv, FinishInv

\* Once its own answer said that a burn or a check was good, the device has that serial
\* number until the station burns again: server.c serves the requests of all connections
\* in the order in which the station made them.
THEOREM ConfirmedHolds == Spec => []ConfirmedIsOnDevice
<1>1. Spec => []Types
  BY InitType, StepType, PTL DEF Spec
<1>2. Spec => []ConfirmInv
  BY <1>1, InitDevice, LinkCorrect, ConfirmStep, PTL DEF Spec
<1>3. ConfirmInv => ConfirmedIsOnDevice
  BY DEF ConfirmInv, ConfirmedIsOnDevice
<1> QED
  BY <1>2, <1>3, PTL

\* A device whose tnp_test_done was answered comes up for aging after every power loss,
\* unless the station has it tested again: test_done writes its stage with "sync".
THEOREM FinishedHolds == Spec => []FinishedSurvives
<1>1. Spec => []Types
  BY InitType, StepType, PTL DEF Spec
<1>2. Spec => []FinishInv
  BY <1>1, InitDevice, LinkCorrect, FinishStep, PTL DEF Spec
<1>3. FinishInv => FinishedSurvives
  BY DEF FinishInv, ForAging, FinishedSurvives
<1> QED
  BY <1>2, <1>3, PTL
=============================================================================
