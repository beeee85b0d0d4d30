------------------------------- MODULE TestLink -------------------------------
(* The TCP link of a test station: the tnp_... requests of                        *)
(* common/TestNetProtocol.cpp, one outstanding at a time, and the server of the   *)
(* device, device-testsw-source-code/src/server.c, which serves one connection at *)
(* a time. A request and its answer are the same struct, FACTORYTEST_DATA; an     *)
(* answer does not name its request, and a request whose answer came too late     *)
(* leaves that answer in the socket for the next one.                             *)
(*                                                                                *)
(* Connections are numbered in the order of tnp_connect, 0 for none; requests in  *)
(* the order of the calls. The numbers are not in the messages of the code.       *)
EXTENDS Naturals, Sequences, FiniteSets

CONSTANTS
    Kinds,         \* the requests that the station uses
    Fields,        \* the results that are told apart
    SNs, NoSN,     \* serial numbers, and what a failed write leaves on the device
    SlowTries,     \* recv attempts of the requests that retry (10)
    MaxCalls,      \* bound: calls made in a behaviour
    MaxConns,      \* bound: connections made in a behaviour
    MaxReboots     \* bound: power losses in a behaviour

\* Mutant: the retry loop goes one turn too far.
MutTries(kind) == SlowTries + 1

\* Requests of speaker and microphone are given SlowTries, the others one recv.
Slow == {"mic", "spk", "smt"}
Tries(kind) == IF kind \in Slow THEN SlowTries ELSE 1

\* The rt... results that each request asks for.
AllFields == {"rtSN", "rtMAC", "rtMic", "rtKey", "rtLightSensor", "rtVersion"}
AllKinds  == {"burn", "mic", "button", "ir", "spk", "check", "smt", "done"}
Asks(kind) == Fields \cap CASE kind = "burn"   -> {"rtSN", "rtMAC"}
                            [] kind = "mic"    -> {"rtMic"}
                            [] kind = "button" -> {"rtKey"}
                            [] kind = "check"  -> AllFields \ {"rtMic"}
                            [] kind = "smt"    -> {"rtMic", "rtLightSensor", "rtVersion"}
                            [] OTHER           -> {}

ASSUME LinkAssumption ==
    /\ Kinds \subseteq AllKinds /\ Fields \subseteq AllFields /\ NoSN \notin SNs
    /\ SlowTries \in Nat \ {0} /\ MaxCalls \in Nat /\ MaxConns \in Nat /\ MaxReboots \in Nat

VARIABLES
    sock,          \* the connection of the context's socket
    conns,         \* connections made
    call,          \* the tnp_... call in progress, or NoCall
    cancel,        \* TNP_TEST_CANCEL
    calls,         \* calls made
    last,          \* what the last call returned, until the next (history)
    givenUp,       \* calls on this connection that returned without an answer (history)
    toDev, toApp,  \* toDev[c], toApp[c]: what connection c holds in each direction
    shut,          \* connections closed by the station
    halfOpen,      \* those of shut whose close does not reach the device
    dead,          \* connections that a reboot of the device broke
    srv,           \* the connection that the server has accepted
    job,           \* the request it is working on, or NoCall
    devSN,         \* the serial number in flash
    stage,         \* the file /etc/apkft/stage
    onFlash,       \* the stage as last synced
    reboots,       \* power losses
    confirmed,     \* SN that a call's own answer confirmed since the last burn (history)
    finished       \* tnp_test_done was the last to stage the device, and was answered (history)

appVars  == <<sock, conns, call, cancel, calls>>
wireVars == <<toDev, toApp, shut, halfOpen, dead>>
devVars  == <<srv, job, devSN, stage, onFlash, reboots>>
histVars == <<last, givenUp, confirmed, finished>>
vars     == <<appVars, wireVars, devVars, histVars>>

NoCall  == [kind |-> "none", id |-> 0, sn |-> NoSN, tries |-> 0, at |-> "idle"]
NoLast  == [id |-> 0, from |-> 0]
ConnIds == 1 .. MaxConns

Init ==
    /\ sock = 0 /\ conns = 0 /\ call = NoCall /\ cancel = FALSE /\ calls = 0
    /\ toDev = [c \in ConnIds |-> <<>>] /\ toApp = [c \in ConnIds |-> <<>>]
    /\ shut = {} /\ halfOpen = {} /\ dead = {}
    /\ srv = 0 /\ job = NoCall /\ devSN = NoSN /\ stage = "all" /\ onFlash = "all"
    /\ reboots = 0
    /\ last = NoLast /\ givenUp = 0 /\ confirmed = NoSN /\ finished = FALSE

-----------------------------------------------------------------------------
(* The dialog's thread: connecting, disconnecting, cancelling                     *)

\* closesocket of the connection, if any. The device does not learn of it when the network
\* is down, as it is when a device was announced as lost, and stays down for too long.
CloseSock ==
    /\ shut' = shut \cup ({sock} \ {0})
    /\ halfOpen' \in {halfOpen, halfOpen \cup ({sock} \ (dead \cup {0}))}

\* Mutant: the previous connection is left open.
MutConnect ==
    /\ conns < MaxConns /\ conns' = conns + 1 /\ sock' = conns + 1 /\ givenUp' = 0
    /\ UNCHANGED <<call, cancel, calls, wireVars, devVars, last, confirmed, finished>>

\* tnp_connect closes the connection it has, if any, and makes another.
Connect ==
    /\ conns < MaxConns /\ conns' = conns + 1 /\ sock' = conns + 1 /\ givenUp' = 0
    /\ CloseSock
    /\ UNCHANGED <<call, cancel, calls, toDev, toApp, dead, devVars, last, confirmed,
                   finished>>

\* tnp_disconnect, or a tnp_connect that fails: no request can be sent.
Disconnect ==
    /\ sock # 0 /\ sock' = 0 /\ givenUp' = 0
    /\ CloseSock
    /\ UNCHANGED <<conns, call, cancel, calls, toDev, toApp, dead, devVars, last,
                   confirmed, finished>>

TestCancel ==
    /\ cancel' = ~cancel
    /\ UNCHANGED <<sock, conns, call, calls, wireVars, devVars, histVars>>

-----------------------------------------------------------------------------
(* The requests                                                                  *)

\* A call that has sent its request goes to its first recv, which the slow requests
\* precede with a look at TNP_TEST_CANCEL.
NextRecv(kind) == IF kind \in Slow THEN "check" ELSE "recv"

Send(kind, s) ==
    /\ call = NoCall /\ calls < MaxCalls /\ sock # 0
    /\ calls' = calls + 1
    /\ call' = [kind |-> kind, id |-> calls + 1, tries |-> 0, at |-> NextRecv(kind),
                sn |-> IF kind \in {"burn", "check"} THEN s ELSE NoSN]
    /\ toDev' = (IF sock \in dead THEN toDev
                 ELSE [toDev EXCEPT ![sock] = Append(@, call')])
    /\ confirmed' = (IF kind = "burn" THEN NoSN ELSE confirmed)
    /\ finished' = (finished /\ kind \notin {"mic", "smt", "done"})
    /\ last' = NoLast
    /\ UNCHANGED <<sock, conns, cancel, toApp, shut, halfOpen, dead, devVars, givenUp>>

\* No socket, or a send that fails.
Refused(kind) ==
    /\ call = NoCall /\ calls < MaxCalls /\ sock \in {0} \cup dead
    /\ calls' = calls + 1
    /\ last' = [id |-> calls + 1, from |-> 0]
    /\ UNCHANGED <<sock, conns, call, cancel, wireVars, devVars, givenUp, confirmed,
                   finished>>

\* A call returns the answer to request "from", or none.
Returns(from) ==
    /\ call' = NoCall
    /\ last' = [id |-> call.id, from |-> from]

\* The call returns with the zeros that its request was sent with.
GivesUp ==
    /\ Returns(0) /\ givenUp' = givenUp + 1
    /\ UNCHANGED <<sock, conns, cancel, calls, wireVars, devVars, confirmed, finished>>

CheckCancel ==
    /\ call.at = "check"
    /\ \/ cancel /\ GivesUp
       \/ /\ ~cancel /\ call' = [call EXCEPT !.at = "recv"]
          /\ UNCHANGED <<sock, conns, cancel, calls, wireVars, devVars, histVars>>

\* recv returns the oldest answer in the socket, which may answer an earlier call. The
\* call takes the rt... fields that it asks for.
Read ==
    /\ call.at = "recv" /\ sock # 0 /\ toApp[sock] # <<>>
    /\ LET r == Head(toApp[sock])
           good == Asks(call.kind) \cap r.good
       IN  /\ Returns(r.id)
           /\ confirmed' = (IF r.id = call.id /\ call.kind \in {"burn", "check"}
                                            /\ "rtSN" \in good
                            THEN call.sn ELSE confirmed)
           /\ finished' = (finished \/ (r.id = call.id /\ call.kind = "done"))
    /\ toApp' = [toApp EXCEPT ![sock] = Tail(@)]
    /\ UNCHANGED <<sock, conns, cancel, calls, toDev, shut, halfOpen, dead, devVars, givenUp>>

\* Mutant: a request is repeated when its answer does not come in time.
MutRecvFails ==
    /\ call.at = "recv" /\ (sock # 0 => toApp[sock] = <<>>)
    /\ IF call.tries + 1 < Tries(call.kind)
       THEN /\ call' = [call EXCEPT !.tries = @ + 1, !.at = NextRecv(call.kind)]
            /\ toDev' = (IF sock \in dead \cup {0} THEN toDev
                         ELSE [toDev EXCEPT ![sock] = Append(@, call')])
            /\ UNCHANGED <<sock, conns, cancel, calls, toApp, shut, halfOpen, dead, devVars, histVars>>
       ELSE GivesUp

\* Nothing within the timeout of a recv, or a broken or closed connection.
RecvFails ==
    /\ call.at = "recv" /\ (sock # 0 => toApp[sock] = <<>>)
    /\ IF call.tries + 1 < Tries(call.kind)
       THEN /\ call' = [call EXCEPT !.tries = @ + 1, !.at = NextRecv(call.kind)]
            /\ UNCHANGED <<sock, conns, cancel, calls, wireVars, devVars, histVars>>
       ELSE GivesUp

-----------------------------------------------------------------------------
(* The server of the device                                                      *)

\* Mutant: connections are not served in the order in which they were made.
MutMayAccept(c) == TRUE

\* Connections that are over for the device, if nothing of them is left to read.
Over == (shut \ halfOpen) \cup dead

\* listen and accept: the oldest connection that has not been served.
MayAccept(c) == \A b \in 1 .. c - 1 : b \in Over /\ toDev[b] = <<>>

Accept(c) ==
    /\ srv = 0 /\ c <= conns /\ c \notin dead /\ (c \in Over => toDev[c] # <<>>)
    /\ MayAccept(c) /\ srv' = c
    /\ UNCHANGED <<appVars, wireVars, job, devSN, stage, onFlash, reboots, histVars>>

ServerRecv ==
    /\ srv # 0 /\ job = NoCall /\ toDev[srv] # <<>>
    /\ job' = Head(toDev[srv]) /\ toDev' = [toDev EXCEPT ![srv] = Tail(@)]
    /\ UNCHANGED <<appVars, toApp, shut, halfOpen, dead, srv, devSN, stage, onFlash, reboots, histVars>>

\* recv has no timeout: it returns 0 or an error only for a close that reaches the device.
ServerClose ==
    /\ srv # 0 /\ job = NoCall /\ toDev[srv] = <<>> /\ srv \in Over
    /\ srv' = 0
    /\ UNCHANGED <<appVars, wireVars, job, devSN, stage, onFlash, reboots, histVars>>

\* The requests that a station has sent when it closes its socket may be lost with it.
ResetByClose(c) ==
    /\ c \in shut /\ toDev[c] # <<>> /\ toDev' = [toDev EXCEPT ![c] = <<>>]
    /\ UNCHANGED <<appVars, toApp, shut, halfOpen, dead, devVars, histVars>>

\* Mutant: the stage is written for a finished test without "sync".
MutStaging(good) ==
    /\ stage' = (IF job.kind = "done" THEN "aging"
                 ELSE IF job.kind \in {"mic", "smt"} /\ "rtMic" \in good THEN "all" ELSE stage)
    /\ UNCHANGED onFlash

\* A good microphone test stages the device for the full test, which reaches the flash
\* some time later; tnp_test_done stages it for aging, and syncs.
Staging(good) ==
    IF job.kind = "done" THEN stage' = "aging" /\ onFlash' = "aging"
    ELSE /\ stage' = (IF job.kind \in {"mic", "smt"} /\ "rtMic" \in good THEN "all" ELSE stage)
         /\ UNCHANGED onFlash

\* WriteAndCheckSN erases, writes and reads back the serial number.
WriteAndCheckSN(good) ==
    devSN' = (IF job.kind # "burn" THEN devSN ELSE IF "rtSN" \in good THEN job.sn ELSE NoSN)

\* CheckSNAndMAC compares the serial number in flash with the one in the request.
CheckSNAndMAC(good) == job.kind = "check" => ("rtSN" \in good <=> devSN = job.sn)

\* The server measures what is asked, and sends the struct back with the results. What it
\* sends on a connection closed unheard is never acknowledged, which ends the connection.
ServerAnswers(good) ==
    /\ job # NoCall /\ good \subseteq Asks(job.kind)
    /\ WriteAndCheckSN(good) /\ CheckSNAndMAC(good)
    /\ Staging(good)
    /\ toApp' = (IF srv \in shut THEN toApp
                 ELSE [toApp EXCEPT ![srv] = Append(@, [id |-> job.id, good |-> good])])
    /\ job' = NoCall /\ halfOpen' = halfOpen \ {srv}
    /\ UNCHANGED <<appVars, toDev, shut, dead, srv, reboots, histVars>>

\* The kernel writes the stage file back.
WriteBack ==
    /\ onFlash # stage /\ onFlash' = stage
    /\ UNCHANGED <<appVars, wireVars, srv, job, devSN, stage, reboots, histVars>>

\* Power loss: every connection breaks, and a write in progress leaves no serial number.
Reboot ==
    /\ reboots < MaxReboots /\ reboots' = reboots + 1
    /\ dead' = dead \cup 1 .. conns /\ halfOpen' = {}
    /\ toDev' = [c \in ConnIds |-> <<>>] /\ toApp' = [c \in ConnIds |-> <<>>]
    /\ srv' = 0 /\ job' = NoCall /\ stage' = onFlash
    /\ devSN' = (IF job.kind = "burn" THEN NoSN ELSE devSN)
    /\ UNCHANGED <<appVars, shut, onFlash, histVars>>

-----------------------------------------------------------------------------
Station == \/ Connect \/ Disconnect \/ TestCancel
           \/ \E kind \in Kinds : Refused(kind) \/ \E s \in SNs : Send(kind, s)
           \/ CheckCancel \/ Read \/ RecvFails

Server == \/ \E c \in ConnIds : Accept(c)
          \/ ServerRecv \/ ServerClose \/ \E good \in SUBSET Fields : ServerAnswers(good)

Network == WriteBack \/ Reboot \/ \E c \in ConnIds : ResetByClose(c)

Next == Station \/ Server \/ Network

Spec == Init /\ [][Next]_vars

\* The server's loop goes on, and each of its tests comes to an end.
FairSpec == Spec /\ WF_vars(Server)

-----------------------------------------------------------------------------
(* Properties                                                                    *)

Requests == [kind : Kinds, id : 1 .. MaxCalls, sn : SNs \cup {NoSN}, tries : 0 .. SlowTries - 1,
             at : {"check", "recv"}]
Answers  == [id : 1 .. MaxCalls, good : SUBSET Fields]

\* The type invariant.
TypeOK ==
    /\ sock \in 0 .. conns /\ conns \in 0 .. MaxConns /\ calls \in 0 .. MaxCalls
    /\ call \in Requests \cup {NoCall} /\ cancel \in BOOLEAN
    /\ toDev \in [ConnIds -> Seq(Requests)] /\ toApp \in [ConnIds -> Seq(Answers)]
    /\ shut \subseteq ConnIds /\ halfOpen \subseteq shut \ dead /\ dead \subseteq ConnIds
    /\ srv \in 0 .. conns /\ job \in Requests \cup {NoCall}
    /\ devSN \in SNs \cup {NoSN}
    /\ stage \in {"all", "aging"} /\ onFlash \in {"all", "aging"}
    /\ reboots \in 0 .. MaxReboots
    /\ last \in [id : 0 .. MaxCalls, from : 0 .. MaxCalls]
    /\ givenUp \in 0 .. MaxCalls
    /\ confirmed \in SNs \cup {NoSN} /\ finished \in BOOLEAN

\* Requests and answers stay in step until a call gives up: a call returns the answer of
\* an earlier one only if a call has returned without an answer on this connection.
\* (recv in tnp_... matches answers to requests by their order alone.)
InStepUntilGivenUp ==
    [][last'.id # last.id /\ last'.from \notin {0, last'.id} => givenUp > 0]_vars

\* Once its own answer said that a burn or a check of a serial number was good, the device
\* has that serial number, until the station burns again. Burns that were given up, those of
\* closed connections too, and power losses do not undo it.
ConfirmedIsOnDevice == confirmed # NoSN => devSN = confirmed

\* A device whose tnp_test_done was answered comes up for aging after every power loss,
\* unless the station has it tested again.
FinishedSurvives == finished => stage = "aging" /\ onFlash = "aging"

\* A connection of the station is served, however many it has made before: the server has
\* one connection at a time, and goes to the next when the station has closed that one. The
\* exception is a connection made after one of whose close the device did not learn: the
\* server waits on that one until the power is cut, unless it has a request of it to answer.
ConnectionIsServed ==
    \A c \in ConnIds :
        sock = c /\ (\A b \in halfOpen : b > c) ~> srv = c \/ sock # c \/ c \in dead
=============================================================================
