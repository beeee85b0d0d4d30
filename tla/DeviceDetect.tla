----------------------------- MODULE DeviceDetect ------------------------------
(* The detection thread of common/TestNetProtocol.cpp, which keeps device_list    *)
(* from the heartbeats of the devices, and the dialogs' thread, which is told by  *)
(* posted messages, looks devices up in the same list by their serial numbers,    *)
(* and clears a slot of it when tnp_connect fails. Nothing locks the list.        *)
(*                                                                                *)
(* Addresses are numbers, 0 for none. Every datagram names some serial number: a  *)
(* device may be exchanged for another at its address, or be given a new number.  *)
(* Time is counted in units of the recvfrom timeout.                              *)
EXTENDS Naturals, Sequences

CONSTANTS
    Addrs,         \* addresses of the devices on the networks of the station
    SNs,           \* serial numbers
    NoSN,          \* the serial number of an empty slot
    SlotCount,     \* length of device_list (256)
    TickModulus,   \* GetTickCount() counts modulo this (2^32)
    Timeouts,      \* the values of devlost_timeout: 3, 5 and 10 s in the code
    MaxTime,       \* bound: length of a behaviour in units of time
    MaxQueue       \* bound: posted messages not yet dispatched

ASSUME DetectAssumption ==
    /\ Addrs \subseteq Nat \ {0} /\ SlotCount \in Nat \ {0} /\ NoSN \notin SNs
    /\ TickModulus \in Nat \ {0} /\ Timeouts \subseteq Nat
    /\ \E x \in Timeouts : \A y \in Timeouts : y <= x
    /\ MaxTime \in Nat /\ MaxQueue \in Nat

VARIABLES
    now,           \* true time
    pc,            \* the detection thread: "recv", "stamp", "sn", "scan", "clear"
    waited,        \* how long recvfrom has been waiting
    from,          \* sender of the datagram being handled
    msg,           \* serial number in that datagram
    i,             \* index of the scan over device_list
    slots,         \* device_list
    timeout,       \* devlost_timeout
    conn,          \* tcp_conn_addr
    queue,         \* posted messages
    dpc,           \* the dialog's thread: "idle", "look", "take", "connect"
    j,             \* index of its look-up in device_list
    wanted,        \* serial number it looks up
    target,        \* address it connects to
    heard,         \* heard[a]: when the last datagram of a was received (history)
    said,          \* said[a]: the serial number in that datagram (history)
    told,          \* told[a]: the last announcement made of a (history)
    dropped,       \* devices taken off the list without an announcement (history)
    stirred        \* senders handled since the look-up's hit (history)

thread == <<pc, waited, from, msg, i>>
dialog == <<dpc, j, wanted, target>>
hist   == <<heard, said, told, dropped, stirred>>
vars   == <<now, thread, slots, timeout, conn, queue, dialog, hist>>

Slots    == 0 .. SlotCount - 1
Empty    == [addr |-> 0, tick |-> 0, sn |-> NoSN]
Messages == [type : {"found", "lost", "type"}, addr : Addrs]
MaxOf(S) == CHOOSE x \in S : \A y \in S : y <= x

\* s_b4 of an address, the index of its slot.
LastByte(a) == a % SlotCount

GetTickCount == now % TickModulus

Post(type, a) == /\ Len(queue) < MaxQueue
                 /\ queue' = Append(queue, [type |-> type, addr |-> a])

Init ==
    /\ now = 0 /\ pc = "recv" /\ waited = 0 /\ from = 0 /\ msg = NoSN /\ i = 0
    /\ slots = [b \in Slots |-> Empty]
    /\ timeout = MaxOf(Timeouts) /\ conn = 0 /\ queue = <<>>
    /\ dpc = "idle" /\ j = 0 /\ wanted = NoSN /\ target = 0
    /\ heard = [a \in Addrs |-> 0] /\ said = [a \in Addrs |-> NoSN]
    /\ told = [a \in Addrs |-> "none"] /\ dropped = {} /\ stirred = {}

-----------------------------------------------------------------------------
(* Time passes only while the thread waits in recvfrom, and no longer than its    *)
(* timeout: the other steps take no time on this scale.                           *)

Tick ==
    /\ pc = "recv" /\ waited < 1 /\ now < MaxTime
    /\ now' = now + 1 /\ waited' = waited + 1
    /\ UNCHANGED <<pc, from, msg, i, slots, timeout, conn, queue, dialog, hist>>

-----------------------------------------------------------------------------
(* The detection thread                                                          *)

\* A datagram of address a that names serial number s.
Receive(a, s) ==
    /\ pc = "recv" /\ pc' = "stamp" /\ from' = a /\ msg' = s /\ waited' = 0
    /\ heard' = [heard EXCEPT ![a] = now] /\ said' = [said EXCEPT ![a] = s]
    /\ stirred' = IF dpc = "take" THEN stirred \cup {a} ELSE stirred
    /\ UNCHANGED <<now, i, timeout, conn, dialog>>

\* Its slot holds another address or none: the slot is given to it, and the device is
\* announced before the rest of the slot is filled in.
RecvNew(a, s) ==
    /\ Receive(a, s) /\ slots[LastByte(a)].addr # a
    /\ slots' = [slots EXCEPT ![LastByte(a)].addr = a]
    /\ Post("found", a)
    /\ told' = [told EXCEPT ![a] = "found"]
    /\ dropped' = (dropped \cup {slots[LastByte(a)].addr}) \ {0, a}

RecvKnown(a, s) ==
    /\ Receive(a, s) /\ slots[LastByte(a)].addr = a
    /\ UNCHANGED <<slots, queue, told, dropped>>

\* Mutant: the list is scanned only after a datagram.
MutRecvTimeout ==
    /\ pc = "recv" /\ waited = 1
    /\ pc' = "recv" /\ i' = 0 /\ waited' = 0
    /\ UNCHANGED <<now, from, msg, slots, timeout, conn, queue, dialog, hist>>

RecvTimeout ==
    /\ pc = "recv" /\ waited = 1
    /\ pc' = "scan" /\ i' = 0 /\ waited' = 0
    /\ UNCHANGED <<now, from, msg, slots, timeout, conn, queue, dialog, hist>>

\* Mutant: the tick is taken when the device is new, and never again.
MutStamp ==
    /\ pc = "stamp" /\ pc' = "sn"
    /\ slots' = [slots EXCEPT ![LastByte(from)].tick = IF @ = 0 THEN GetTickCount ELSE @]
    /\ IF conn = from THEN Post("type", from) ELSE UNCHANGED queue
    /\ UNCHANGED <<now, waited, from, msg, i, timeout, conn, dialog, hist>>

Stamp ==
    /\ pc = "stamp" /\ pc' = "sn"
    /\ slots' = [slots EXCEPT ![LastByte(from)].tick = GetTickCount]
    /\ IF conn = from THEN Post("type", from) ELSE UNCHANGED queue
    /\ UNCHANGED <<now, waited, from, msg, i, timeout, conn, dialog, hist>>

\* Mutant: the serial number is taken when the slot has none, and never again.
MutStoreSN ==
    /\ pc = "sn" /\ pc' = "scan" /\ i' = 0 /\ msg' = NoSN
    /\ slots' = [slots EXCEPT ![LastByte(from)].sn = IF @ = NoSN THEN msg ELSE @]
    /\ UNCHANGED <<now, waited, from, timeout, conn, queue, dialog, hist>>

StoreSN ==
    /\ pc = "sn" /\ pc' = "scan" /\ i' = 0 /\ msg' = NoSN
    /\ slots' = [slots EXCEPT ![LastByte(from)].sn = msg]
    /\ UNCHANGED <<now, waited, from, timeout, conn, queue, dialog, hist>>

Expired(s) == (s.tick + timeout) % TickModulus < GetTickCount /\ s.addr # 0

\* Mutant: the loop goes one slot too far.
MutAdvance == IF i < SlotCount THEN pc' = "scan" /\ i' = i + 1 ELSE pc' = "recv" /\ i' = 0

\* The loop goes on to the next slot, or back to recvfrom after the last one.
Advance == IF i + 1 < SlotCount THEN pc' = "scan" /\ i' = i + 1 ELSE pc' = "recv" /\ i' = 0

ScanKeeps ==
    /\ pc = "scan" /\ ~Expired(slots[i]) /\ Advance
    /\ UNCHANGED <<now, waited, from, msg, slots, timeout, conn, queue, dialog, hist>>

\* The loss is announced first, and the slot cleared by the next step (ScanClears).
ScanExpires ==
    /\ pc = "scan" /\ Expired(slots[i]) /\ pc' = "clear"
    /\ Post("lost", slots[i].addr)
    /\ told' = [told EXCEPT ![slots[i].addr] = "lost"]
    /\ UNCHANGED <<now, waited, from, msg, i, slots, timeout, conn, dialog, heard, said, dropped, stirred>>

\* Mutant: only the serial number of the slot is cleared.
MutScanClears ==
    /\ pc = "clear" /\ slots' = [slots EXCEPT ![i].sn = NoSN] /\ Advance
    /\ UNCHANGED <<now, waited, from, msg, timeout, conn, queue, dialog, hist>>

ScanClears ==
    /\ pc = "clear" /\ slots' = [slots EXCEPT ![i] = Empty] /\ Advance
    /\ UNCHANGED <<now, waited, from, msg, timeout, conn, queue, dialog, hist>>

-----------------------------------------------------------------------------
(* The dialog's thread: a handler runs to its end before the next message is       *)
(* dispatched, while the detection thread goes on.                                 *)

Dispatch(type, a) ==
    /\ dpc = "idle" /\ queue # <<>>
    /\ Head(queue) = [type |-> type, addr |-> a] /\ queue' = Tail(queue)

\* tnp_connect_by_sn begins, with a scanned serial number.
LookUp(sn) ==
    /\ dpc' = "look" /\ wanted' = sn
    /\ UNCHANGED <<j, target>>

\* tnp_connect begins, with the address of a message.
Dial(a) ==
    /\ dpc' = "connect" /\ target' = a
    /\ UNCHANGED <<j, wanted>>

\* OnTnpDeviceFound without a device: the SN and SMT stations connect to the one announced,
\* the full one to the device of the label, if one was scanned.
DeviceFound(a) ==
    /\ Dispatch("found", a)
    /\ \/ conn = 0 /\ (Dial(a) \/ \E sn \in SNs : LookUp(sn))
       \/ UNCHANGED dialog
    /\ UNCHANGED <<now, thread, slots, timeout, conn, hist>>

\* OnTnpDeviceLost: tnp_disconnect, if it is the device of this station.
DeviceLost(a) ==
    /\ Dispatch("lost", a)
    /\ conn' = (IF conn = a THEN 0 ELSE conn)
    /\ UNCHANGED <<now, thread, slots, timeout, dialog, hist>>

TypeChanged(a) ==
    /\ Dispatch("type", a)
    /\ UNCHANGED <<now, thread, slots, timeout, conn, dialog, hist>>

\* A label is scanned.
ConnectBySN(sn) ==
    /\ dpc = "idle" /\ LookUp(sn)
    /\ UNCHANGED <<now, thread, slots, timeout, conn, queue, hist>>

Holds(b, sn) == slots[b].addr # 0 /\ slots[b].sn = sn

\* The loop goes on to the next slot, or finds none and returns -1.
LookMisses ==
    /\ dpc = "look" /\ ~Holds(j, wanted)
    /\ IF j + 1 < SlotCount THEN j' = j + 1 /\ UNCHANGED <<dpc, wanted>>
                            ELSE j' = 0 /\ dpc' = "idle" /\ wanted' = NoSN
    /\ UNCHANGED <<now, thread, slots, timeout, conn, queue, target, hist>>

LookHits ==
    /\ dpc = "look" /\ Holds(j, wanted) /\ dpc' = "take"
    /\ stirred' = IF pc \in {"stamp", "sn"} THEN {from} ELSE {}
    /\ UNCHANGED <<now, thread, slots, timeout, conn, queue, j, wanted, target,
                   heard, said, told, dropped>>

\* The address is read after the serial number was compared.
TakeAddr ==
    /\ dpc = "take" /\ dpc' = "connect" /\ target' = slots[j].addr
    /\ j' = 0 /\ wanted' = NoSN /\ stirred' = {}
    /\ UNCHANGED <<now, thread, slots, timeout, conn, queue, heard, said, told, dropped>>

ConnectSucceeds ==
    /\ dpc = "connect" /\ target # 0 /\ conn' = target
    /\ dpc' = "idle" /\ target' = 0
    /\ UNCHANGED <<now, thread, slots, timeout, queue, j, wanted, hist>>

\* Whatever the slot of the address holds by now is cleared, and nothing announced.
ConnectFails ==
    /\ dpc = "connect" /\ slots' = [slots EXCEPT ![LastByte(target)] = Empty]
    /\ dropped' = (dropped \cup {slots[LastByte(target)].addr}) \ {0}
    /\ dpc' = "idle" /\ target' = 0
    /\ UNCHANGED <<now, thread, timeout, conn, queue, j, wanted, heard, said, told, stirred>>

SetTimeout(x) ==
    /\ dpc = "idle" /\ timeout' = x /\ x # timeout
    /\ UNCHANGED <<now, thread, slots, conn, queue, dialog, hist>>

-----------------------------------------------------------------------------
Detection == \/ \E a \in Addrs, s \in SNs : RecvNew(a, s) \/ RecvKnown(a, s)
             \/ RecvTimeout \/ Stamp \/ StoreSN \/ ScanKeeps \/ ScanExpires \/ ScanClears

Dialog == \/ \E a \in Addrs : DeviceFound(a) \/ DeviceLost(a) \/ TypeChanged(a)
          \/ \E sn \in SNs : ConnectBySN(sn)
          \/ LookMisses \/ LookHits \/ TakeAddr \/ ConnectSucceeds \/ ConnectFails
          \/ \E x \in Timeouts : SetTimeout(x)

Next == Tick \/ Detection \/ Dialog

Spec == Init /\ [][Next]_vars

-----------------------------------------------------------------------------
(* Properties                                                                    *)

\* The type invariant.
TypeOK ==
    /\ now \in 0 .. MaxTime /\ waited \in {0, 1}
    /\ pc \in {"recv", "stamp", "sn", "scan", "clear"}
    /\ from \in Addrs \cup {0} /\ msg \in SNs \cup {NoSN} /\ i \in Slots
    /\ slots \in [Slots -> [addr : Addrs \cup {0}, tick : 0 .. TickModulus - 1,
                            sn : SNs \cup {NoSN}]]
    /\ timeout \in Timeouts /\ conn \in Addrs \cup {0}
    /\ queue \in Seq(Messages)
    /\ dpc \in {"idle", "look", "take", "connect"} /\ j \in Slots
    /\ wanted \in SNs \cup {NoSN} /\ target \in Addrs \cup {0}
    /\ heard \in [Addrs -> 0 .. MaxTime] /\ said \in [Addrs -> SNs \cup {NoSN}]
    /\ told \in [Addrs -> {"none", "found", "lost"}]
    /\ dropped \subseteq Addrs /\ stirred \subseteq Addrs

\* A device is announced as lost only after a silence longer than devlost_timeout as it
\* is at that moment, whatever the dialog did to its slot in the meantime, unless the tick
\* of that silence's end is beyond the wrap of the counter, which makes it a small number.
NoFalseLoss ==
    [][\A a \in Addrs : told[a] = "found" /\ told'[a] = "lost" =>
           \/ now - heard[a] > timeout
           \/ slots[LastByte(a)].tick + timeout >= TickModulus]_vars

\* A device that falls silent does not stay on the list: when the thread waits for the
\* next datagram, every device on the list was heard within the longest timeout and one
\* turn of recvfrom, unless the tick counter has wrapped since.
SilenceIsBounded ==
    pc = "recv" => \A b \in Slots : slots[b].addr # 0 =>
        LET last == heard[slots[b].addr]
        IN  now - last <= MaxOf(Timeouts) + 1 \/ now \div TickModulus > last \div TickModulus

\* The announcements and the list agree, also where addresses share a slot. A device in
\* its slot was last announced as found (or its loss is being announced); one announced as
\* found and not in its slot was taken off it by a failed tnp_connect, or by a device with
\* the same last byte, so that its next heartbeat announces it again.
ToldMatchesList ==
    \A a \in Addrs :
        LET listed == slots[LastByte(a)].addr = a
            losing == pc = "clear" /\ i = LastByte(a)
        IN  /\ listed => told[a] = "found" \/ losing
            /\ told[a] = "found" => listed \/ a \in dropped

\* tnp_connect_by_sn, which compares the serial number of a slot and then reads its address
\* while the detection thread fills slots, takes them over and clears them, comes away with
\* an address whose last datagram named the scanned number, or with the 0 of a slot cleared
\* in between. It comes away with another device only if that device's datagram was being
\* handled at the comparison or came before the address was read.
ConnectsToSN ==
    [][TakeAddr => \/ target' = 0
                   \/ said[target'] = wanted
                   \/ target' \in stirred]_vars
=============================================================================
