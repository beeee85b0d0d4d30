----------------------------- MODULE DeviceServer -----------------------------
(* The test program of the device, device-testsw-source-code/src/server.c: main    *)
(* and its connection, heart_beat_thread and button_monitor_thread, with the sound *)
(* tests of AudioTest. The threads share the descriptors of the process, the IR    *)
(* LED and its filter, and unlocked flags.                                         *)
(*                                                                                 *)
(* Files that main, the players and WriteAndCheckSN open and close themselves are  *)
(* left out, and so is the LED of the heartbeat. Commands (system) succeed. What a *)
(* request writes to the device is the subject of TestLink.                        *)
EXTENDS Naturals, FiniteSets

CONSTANT MaxFds    \* the descriptors that the process may have open

ASSUME MaxFdsAssumption == MaxFds \in Nat /\ MaxFds >= 2

Fds  == 1 .. MaxFds
NoFd == 0

\* The stages in which the program runs, and the requests that stations send in them.
Stages == {"iperf", "smt", "all"}
RequestsIn(m) == CASE m = "iperf" -> {"burn", "mic"}
                   [] m = "smt"   -> {"smt"}
                   [] m = "all"   -> {"check", "done"}

VARIABLES
    mode,          \* the stage, as the program's argument gives it
    files,         \* the open files
    srv,           \* main: what it does next, its new_fd and its request
    rtKey,         \* the answer's key result
    hb,            \* the heartbeat thread
    up,            \* g_UsbNetConnected and g_WiFiConnected, as a set
    btn,           \* the button thread
    button,        \* g_button_test
    irAuto,        \* g_IrTestAuto
    ir,            \* who set the IR LED and its filter last
    held,          \* the button is held down
    seen,          \* positions that the button had when it was read (history)
    crossed,       \* main has closed a file of another thread (history)
    unread,        \* a reading of the button failed or read another file (history)
    late           \* the heartbeat was at the IR filter when the button took it over (history)

srvVars == <<srv, rtKey>>
hbVars  == <<hb, up>>
btnVars == <<btn, button, held, seen, unread>>
irVars  == <<irAuto, ir, late>>
vars    == <<mode, files, crossed, srvVars, hbVars, btnVars, irVars>>

-----------------------------------------------------------------------------
(* Descriptors                                                                   *)

Free == {x \in Fds : files[x] = "free"}

\* open, socket and accept give the lowest free descriptor, or -1.
Lowest == IF Free = {} THEN NoFd ELSE CHOOSE x \in Free : \A y \in Free : x <= y

Opened(what) == IF Free = {} THEN files ELSE [files EXCEPT ![Lowest] = what]

Closed(x) == IF x \in Fds THEN [files EXCEPT ![x] = "free"] ELSE files

Init ==
    /\ mode \in Stages
    /\ files = [x \in Fds |-> CASE x = 1 -> "udp" [] x = 2 -> "listen" [] OTHER -> "free"]
    /\ srv = [at |-> "accept", fd |-> NoFd, req |-> "none"] /\ rtKey = FALSE
    /\ hb = [at |-> "usb", fd |-> NoFd] /\ up = {}
    /\ btn = [at |-> IF mode = "iperf" THEN "none" ELSE "open", fd |-> NoFd,
              key |-> 0, press |-> 0]
    /\ button = {} /\ held = FALSE /\ seen = {}
    /\ irAuto = TRUE /\ ir = "beat"
    /\ crossed = FALSE /\ unread = FALSE /\ late = FALSE

-----------------------------------------------------------------------------
(* heart_beat_thread                                                             *)

\* getBroadcastIPUsbNet and getBroadcastIPWiFi open a socket, and do not close it.
LookUp(net, next) ==
    /\ hb.at = net /\ hb' = [hb EXCEPT !.at = next]
    /\ IF net \in up THEN UNCHANGED <<files, up>>
       ELSE /\ files' = Opened("leak")
            /\ up' \in {up} \cup (IF Free = {} THEN {} ELSE {up \cup {net}})
    /\ UNCHANGED <<mode, crossed, srvVars, btnVars, irVars>>

\* Mutant: the IR LED is never left to the button.
MutSendBeat ==
    /\ hb.at = "send"
    /\ hb' = [hb EXCEPT !.at = "adc"]
    /\ UNCHANGED <<mode, files, crossed, srvVars, up, btnVars, irVars>>

\* The heartbeat itself, and a look at g_IrTestAuto.
SendBeat ==
    /\ hb.at = "send"
    /\ hb' = [hb EXCEPT !.at = IF irAuto THEN "adc" ELSE "usb"]
    /\ UNCHANGED <<mode, files, crossed, srvVars, up, btnVars, irVars>>

\* GetLightSensor: without a descriptor, no light.
OpenSensor ==
    /\ hb.at = "adc"
    /\ files' = Opened("adc")
    /\ hb' = [at |-> IF Free = {} THEN "ir" ELSE "light", fd |-> Lowest]
    /\ UNCHANGED <<mode, crossed, srvVars, up, btnVars, irVars>>

\* Mutant: the light sensor is not closed.
MutReadSensor ==
    /\ hb.at = "light" /\ hb' = [at |-> "ir", fd |-> NoFd]
    /\ UNCHANGED <<mode, files, crossed, srvVars, up, btnVars, irVars>>

ReadSensor ==
    /\ hb.at = "light" /\ hb' = [at |-> "ir", fd |-> NoFd]
    /\ files' = Closed(hb.fd)
    /\ UNCHANGED <<mode, crossed, srvVars, up, btnVars, irVars>>

\* EnIRForAuto and EnIRCutForAuto: what the light sensor asks for.
AutoIR ==
    /\ hb.at = "ir" /\ hb' = [hb EXCEPT !.at = "usb"] /\ ir' = "beat"
    /\ UNCHANGED <<mode, files, crossed, srvVars, up, btnVars, irAuto, late>>

HeartBeat ==
    \/ LookUp("usb", "wifi") \/ LookUp("wifi", "send")
    \/ SendBeat \/ OpenSensor \/ ReadSensor \/ AutoIR

-----------------------------------------------------------------------------
(* button_monitor_thread                                                         *)

PressOrRelease ==
    /\ btn.at # "none" /\ held' = ~held
    /\ UNCHANGED <<mode, files, crossed, srvVars, hbVars, btn, button, seen, unread, irVars>>

OpenButton ==
    /\ btn.at = "open"
    /\ files' = Opened("button")
    /\ btn' = [btn EXCEPT !.at = "read", !.fd = Lowest]
    /\ UNCHANGED <<mode, crossed, srvVars, hbVars, button, held, seen, unread, irVars>>

\* The button is pressed when its gpio reads '0'. A failed reading leaves the last key,
\* which is "pressed" at first; a byte of another file is not '0'.
ReadButton ==
    /\ btn.at = "read"
    /\ LET file == IF btn.fd = NoFd THEN "free" ELSE files[btn.fd]
       IN  /\ \E key \in CASE file = "button" -> {IF held THEN 0 ELSE 1}
                           [] file = "free"   -> {btn.key}
                           [] OTHER           -> {btn.key, 1} :
                  btn' = [btn EXCEPT !.at = "count", !.key = key, !.fd = NoFd]
           /\ seen' = (IF file = "button" THEN seen \cup {IF held THEN 0 ELSE 1} ELSE seen)
           /\ unread' = (unread \/ file # "button")
    /\ files' = Closed(btn.fd)
    /\ UNCHANGED <<mode, crossed, srvVars, hbVars, button, held, irVars>>

\* Mutant: a released button counts as pressed, too.
MutCount ==
    /\ btn.at = "count"
    /\ button' = {0, 1}
    /\ LET n == IF btn.key = 1 THEN 0 ELSE IF btn.press < 4 THEN btn.press + 1 ELSE 4
       IN  btn' = [btn EXCEPT !.press = n, !.at = IF n = 3 THEN "off" ELSE "open"]
    /\ UNCHANGED <<mode, files, crossed, srvVars, hbVars, held, seen, unread, irVars>>

\* The third reading in a row that finds the button pressed switches the music off.
Count ==
    /\ btn.at = "count"
    /\ button' = button \cup {btn.key}
    /\ LET n == IF btn.key = 1 THEN 0 ELSE IF btn.press < 4 THEN btn.press + 1 ELSE 4
       IN  btn' = [btn EXCEPT !.press = n, !.at = IF n = 3 THEN "off" ELSE "open"]
    /\ UNCHANGED <<mode, files, crossed, srvVars, hbVars, held, seen, unread, irVars>>

\* When TEST_PLAY_MUSIC(0, 0) returns, it takes IR LED and filter from the heartbeat,
TakeIR ==
    /\ btn.at = "off"
    /\ btn' = [btn EXCEPT !.at = "ir"] /\ irAuto' = FALSE
    /\ late' = (late \/ hb.at \in {"adc", "light", "ir"})
    /\ UNCHANGED <<mode, files, crossed, srvVars, hbVars, button, held, seen, unread, ir>>

\* ... and turns them over.
ButtonIR ==
    /\ btn.at = "ir" /\ btn' = [btn EXCEPT !.at = "open"] /\ ir' = "button"
    /\ UNCHANGED <<mode, files, crossed, srvVars, hbVars, button, held, seen, unread, irAuto,
                   late>>

ButtonThread == OpenButton \/ ReadButton \/ Count \/ TakeIR \/ ButtonIR

-----------------------------------------------------------------------------
(* main                                                                          *)

\* Mutant: a failed accept is not noticed.
MutAccept ==
    /\ srv.at = "accept" /\ up # {}
    /\ files' = Opened("conn") /\ srv' = [srv EXCEPT !.at = "recv", !.fd = Lowest]
    /\ UNCHANGED <<mode, crossed, rtKey, hbVars, btnVars, irVars>>

\* A station connects to a device that is on a network. Without a free descriptor accept
\* fails, and is called again.
Accept ==
    /\ srv.at = "accept" /\ up # {} /\ Free # {}
    /\ files' = Opened("conn") /\ srv' = [srv EXCEPT !.at = "recv", !.fd = Lowest]
    /\ UNCHANGED <<mode, crossed, rtKey, hbVars, btnVars, irVars>>

\* A microphone test calls TEST_SPK_MIC.
Recv(req) ==
    /\ srv.at = "recv" /\ files[srv.fd] = "conn"
    /\ srv' = [srv EXCEPT !.at = "test", !.req = req]
    /\ UNCHANGED <<mode, files, crossed, rtKey, hbVars, btnVars, irVars>>

\* The station is gone, or recv fails. (From a socket of the heartbeat nothing ever comes.)
RecvEnds ==
    /\ srv.at = "recv" /\ files[srv.fd] # "leak"
    /\ srv' = [srv EXCEPT !.at = "close"]
    /\ UNCHANGED <<mode, files, crossed, rtKey, hbVars, btnVars, irVars>>

\* testKey of the full test.
TestsDone ==
    /\ srv.at = "test"
    /\ srv' = [srv EXCEPT !.at = "send"]
    /\ rtKey' = (srv.req = "check" /\ button = {0, 1})
    /\ UNCHANGED <<mode, files, crossed, hbVars, btnVars, irVars>>

Send ==
    /\ srv.at = "send" /\ files[srv.fd] = "conn"
    /\ srv' = [srv EXCEPT !.at = "recv"] /\ rtKey' = FALSE
    /\ UNCHANGED <<mode, files, crossed, hbVars, btnVars, irVars>>

SendFails ==
    /\ srv.at = "send" /\ srv' = [srv EXCEPT !.at = "close"] /\ rtKey' = FALSE
    /\ UNCHANGED <<mode, files, crossed, hbVars, btnVars, irVars>>

\* A connection that ends is closed where it ends, and again after the loop.
CloseIn(at, next) ==
    /\ srv.at = at /\ srv' = [srv EXCEPT !.at = next, !.req = "none"]
    /\ files' = Closed(srv.fd)
    /\ crossed' = (crossed \/ (at = "again" /\ files[srv.fd] # "free"))
    /\ UNCHANGED <<mode, rtKey, hbVars, btnVars, irVars>>

Main ==
    \/ Accept \/ RecvEnds \/ TestsDone \/ Send \/ SendFails
    \/ \E req \in RequestsIn(mode) : Recv(req)
    \/ CloseIn("close", "again") \/ CloseIn("again", "accept")

-----------------------------------------------------------------------------
Next == HeartBeat \/ PressOrRelease \/ ButtonThread \/ Main

Spec == Init /\ [][Next]_vars

-----------------------------------------------------------------------------
(* Properties                                                                    *)

Kinds == {"udp", "listen", "conn", "leak", "button", "adc"}
Open(kind) == {x \in Fds : files[x] = kind}

\* The type invariant.
TypeOK ==
    /\ mode \in Stages /\ files \in [Fds -> Kinds \cup {"free"}]
    /\ srv \in [at : {"accept", "recv", "test", "send", "close", "again"}, fd : 0 .. MaxFds,
                req : RequestsIn(mode) \cup {"none"}]
    /\ srv.at # "accept" => srv.fd # NoFd
    /\ rtKey \in BOOLEAN
    /\ hb \in [at : {"usb", "wifi", "send", "adc", "light", "ir"}, fd : 0 .. MaxFds]
    /\ up \subseteq {"usb", "wifi"}
    /\ btn \in [at : {"none", "open", "read", "count", "off", "ir"}, fd : 0 .. MaxFds,
                key : {0, 1}, press : 0 .. 4]
    /\ button \subseteq {0, 1} /\ held \in BOOLEAN /\ seen \subseteq {0, 1}
    /\ irAuto \in BOOLEAN /\ ir \in {"beat", "button"}
    /\ crossed \in BOOLEAN /\ unread \in BOOLEAN /\ late \in BOOLEAN

\* The socket of the heartbeat and the one that listens stay open; and until main's second
\* close of a connection hits a file that a thread has opened since the first, each thread
\* has the one file open that it works on, and only the look-ups of addresses leak.
FilesAreHeld ==
    /\ Open("udp") = {1} /\ Open("listen") = {2}
    /\ crossed \/ /\ Open("conn") = {srv.fd : x \in {srv.at} \ {"accept", "again"}}
                  /\ Open("button") = {btn.fd : x \in {btn.at} \cap {"read"}} \ {NoFd}
                  /\ Open("adc") = {hb.fd : x \in {hb.at} \cap {"light"}}

\* A full test that finds the key good, and heartbeats that announce it, follow a press and
\* a release that were both read from the button, unless a reading failed or read another
\* file. (Three threads share g_button_test, and the thread's first key is "pressed".)
KeyIsSeen == rtKey \/ button = {0, 1} => seen = {0, 1} \/ unread

\* Once the button thread has taken the IR LED and its filter, and set them, they stay as it
\* set them, unless the heartbeat thread had begun to set them before.
ButtonHasIR == ~irAuto /\ ~late /\ btn.at # "ir" => ir = "button"
=============================================================================
