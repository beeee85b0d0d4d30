-------------------------- MODULE DeviceDetectProofs --------------------------
(* Theorems about DeviceDetect, for any addresses, length of the list, modulus of *)
(* the tick counter and timeouts, and any bounds.                                 *)
EXTENDS DeviceDetect, Integers, TLAPS

-----------------------------------------------------------------------------
(* Arithmetic of the tick counter                                                *)

\* A number counted modulo m: n = q * m + r.
LEMMA Residue ==
    ASSUME NEW n \in Nat, NEW m \in Nat \ {0}
    PROVE  n % m \in 0 .. m - 1 /\ (n % m) <= n /\ (n < m => n % m = n)
OBVIOUS

\* Two ticks of one turn of the counter are as far apart as the times they stand for.
LEMMA SameTurn ==
    ASSUME NEW n \in Nat, NEW k \in Nat, NEW m \in Nat \ {0}, n <= k, n \div m = k \div m
    PROVE  k - n = (k % m) - (n % m)
OBVIOUS

LEMMA TurnsAscend ==
    ASSUME NEW n \in Nat, NEW k \in Nat, NEW m \in Nat \ {0}, n <= k
    PROVE  n \div m \in Nat /\ k \div m \in Nat /\ n \div m <= k \div m
OBVIOUS

\* Whatever the turns, the ticks are no further apart than the times.
LEMMA TicksNoFurther ==
    ASSUME NEW n \in Nat, NEW k \in Nat, NEW m \in Nat \ {0}, n <= k
    PROVE  k - n >= (k % m) - (n % m)
<1>1. n = (n \div m) * m + (n % m) /\ k = (k \div m) * m + (k % m)
  OBVIOUS
<1>2. PICK q \in Nat, r \in Nat : q <= r /\ q = n \div m /\ r = k \div m
  OBVIOUS
<1>3. q * m <= r * m
  BY <1>2
<1> QED BY <1>1, <1>2, <1>3

\* Ticks further apart than x, in times no closer than the ticks.
LEMMA FurtherThan ==
    ASSUME NEW n \in Nat, NEW k \in Nat, NEW nt \in Nat, NEW kt \in Nat, NEW x \in Nat,
           k - n >= kt - nt, nt + x < kt
    PROVE  k - n > x
OBVIOUS

-----------------------------------------------------------------------------
(* The slots                                                                     *)

LEMMA LastByteIsSlot == 0 \in Slots /\ \A a \in Addrs \cup {0} : LastByte(a) \in Slots
BY DetectAssumption, Residue DEF LastByte, Slots

LEMMA LongestTimeout == MaxOf(Timeouts) \in Timeouts /\ \A x \in Timeouts : x <= MaxOf(Timeouts)
BY DetectAssumption DEF MaxOf

Slot == [addr : Addrs \cup {0}, tick : 0 .. TickModulus - 1, sn : SNs \cup {NoSN}]

LEMMA SlotFacts ==
    /\ Empty \in Slot /\ Empty.addr = 0 /\ Empty.sn = NoSN /\ 0 \notin Addrs /\ Addrs \subseteq Nat
    /\ GetTickCount = now % TickModulus
    /\ now \in Nat => GetTickCount \in 0 .. TickModulus - 1
BY DetectAssumption, Residue DEF Empty, Slot, GetTickCount

\* A slot that is filled in, field by field.
LEMMA FillAddr ==
    ASSUME NEW s \in [Slots -> Slot], NEW b \in Slots, NEW a \in Addrs
    PROVE  [s EXCEPT ![b].addr = a] \in [Slots -> Slot]
<1>1. [s[b] EXCEPT !.addr = a] \in Slot
  BY DEF Slot
<1>2. QED BY <1>1

LEMMA FillTick ==
    ASSUME NEW s \in [Slots -> Slot], NEW b \in Slots, NEW t \in 0 .. TickModulus - 1
    PROVE  [s EXCEPT ![b].tick = t] \in [Slots -> Slot]
<1>1. [s[b] EXCEPT !.tick = t] \in Slot
  BY DEF Slot
<1>2. QED BY <1>1

LEMMA FillSN ==
    ASSUME NEW s \in [Slots -> Slot], NEW b \in Slots, NEW n \in SNs
    PROVE  [s EXCEPT ![b].sn = n] \in [Slots -> Slot]
<1>1. [s[b] EXCEPT !.sn = n] \in Slot
  BY DEF Slot
<1>2. QED BY <1>1

\* The thread has a sender and its serial number while it handles a datagram.
HandlesOne == pc \in {"stamp", "sn"} => from \in Addrs /\ msg \in SNs

TypeInv == TypeOK /\ HandlesOne

\* What a step of the dialog's thread may do to the list: empty slots of it. Nothing the
\* detection thread keeps to itself changes.
LEMMA DialogFrame ==
    ASSUME TypeInv, Dialog
    PROVE  /\ UNCHANGED <<now, thread, heard, said, told>>
           /\ slots' \in [Slots -> Slot]
           /\ \A b \in Slots : slots'[b] \in {slots[b], Empty}
           /\ timeout' \in Timeouts /\ conn' \in Addrs \cup {0} /\ queue' \in Seq(Messages)
           /\ dpc' \in {"idle", "look", "take", "connect"} /\ j' \in Slots
           /\ wanted' \in SNs \cup {NoSN} /\ target' \in Addrs \cup {0}
           /\ dropped \subseteq dropped' /\ dropped' \subseteq Addrs /\ stirred' \subseteq Addrs
           /\ (slots' = slots \/ ConnectFails)
           /\ (dpc' = "take" => LookHits)
<1> USE SlotFacts, LastByteIsSlot
<1> DEFINE Goal == /\ UNCHANGED <<now, thread, heard, said, told>>
                   /\ slots' \in [Slots -> Slot]
                   /\ \A b \in Slots : slots'[b] \in {slots[b], Empty}
                   /\ timeout' \in Timeouts /\ conn' \in Addrs \cup {0} /\ queue' \in Seq(Messages)
                   /\ dpc' \in {"idle", "look", "take", "connect"} /\ j' \in Slots
                   /\ wanted' \in SNs \cup {NoSN} /\ target' \in Addrs \cup {0}
                   /\ dropped \subseteq dropped' /\ dropped' \subseteq Addrs /\ stirred' \subseteq Addrs
                   /\ (slots' = slots \/ ConnectFails)
                   /\ (dpc' = "take" => LookHits)
<1>1. slots \in [Slots -> Slot] /\ timeout \in Timeouts /\ conn \in Addrs \cup {0}
      /\ queue \in Seq(Messages) /\ dropped \subseteq Addrs /\ stirred \subseteq Addrs
      /\ dpc \in {"idle", "look", "take", "connect"} /\ j \in Slots
      /\ wanted \in SNs \cup {NoSN} /\ target \in Addrs \cup {0}
  BY DEF TypeInv, TypeOK, Slot
<1>2. \A b \in Slots : slots[b].addr \in Addrs \cup {0}
  BY <1>1 DEF Slot
<1>3. ASSUME queue # <<>>, queue' = Tail(queue) PROVE queue' \in Seq(Messages)
  BY <1>1, <1>3
<1>4. ASSUME NEW a \in Addrs, DeviceFound(a) PROVE Goal
  BY <1>1, <1>3, <1>4 DEF DeviceFound, Dispatch, Dial, LookUp, thread, dialog, hist
<1>5. ASSUME NEW a \in Addrs, DeviceLost(a) PROVE Goal
  BY <1>1, <1>3, <1>5 DEF DeviceLost, Dispatch, thread, dialog, hist
<1>6. ASSUME NEW a \in Addrs, TypeChanged(a) PROVE Goal
  BY <1>1, <1>3, <1>6 DEF TypeChanged, Dispatch, thread, dialog, hist
<1>7. ASSUME NEW sn \in SNs, ConnectBySN(sn) PROVE Goal
  BY <1>1, <1>7 DEF ConnectBySN, LookUp, thread, dialog, hist
<1>8. CASE LookMisses
  <2>1. j' \in Slots
    BY <1>1, <1>8, DetectAssumption DEF LookMisses, Slots
  <2>2. QED BY <1>1, <1>8, <2>1 DEF LookMisses, thread, dialog, hist
<1>9. CASE LookHits
  <2>1. stirred' \subseteq Addrs
    BY <1>9 DEF LookHits, TypeInv, HandlesOne
  <2>2. QED BY <1>1, <1>9, <2>1 DEF LookHits, thread
<1>10. CASE TakeAddr
  BY <1>1, <1>2, <1>10 DEF TakeAddr, thread
<1>11. CASE ConnectSucceeds
  BY <1>1, <1>11 DEF ConnectSucceeds, thread, dialog, hist
<1>12. CASE ConnectFails
  <2>1. /\ slots' = [slots EXCEPT ![LastByte(target)] = Empty] /\ LastByte(target) \in Slots
        /\ dropped' = (dropped \cup {slots[LastByte(target)].addr}) \ {0}
    BY <1>1, <1>12 DEF ConnectFails
  <2>2. slots' \in [Slots -> Slot] /\ \A b \in Slots : slots'[b] \in {slots[b], Empty}
    BY <1>1, <2>1
  <2>3. dropped \subseteq dropped' /\ dropped' \subseteq Addrs
    BY <1>1, <1>2, <2>1
  <2>4. QED BY <1>1, <1>12, <2>2, <2>3 DEF ConnectFails, thread
<1>13. ASSUME NEW x \in Timeouts, SetTimeout(x) PROVE Goal
  BY <1>1, <1>13 DEF SetTimeout, thread, dialog, hist
<1>14. QED
  BY <1>4, <1>5, <1>6, <1>7, <1>8, <1>9, <1>10, <1>11, <1>12, <1>13 DEF Dialog

-----------------------------------------------------------------------------
(* Types                                                                         *)

LEMMA PostKeepsType ==
    ASSUME TypeOK, NEW type \in {"found", "lost", "type"}, NEW a \in Addrs, Post(type, a)
    PROVE  queue' \in Seq(Messages)
BY DEF TypeOK, Post, Messages

LEMMA AdvanceKeepsType ==
    ASSUME TypeOK, Advance
    PROVE  pc' \in {"scan", "recv"} /\ i' \in Slots
<1>1. SlotCount \in Nat \ {0} /\ i \in 0 .. SlotCount - 1
  BY DetectAssumption DEF TypeOK, Slots
<1>2. QED BY <1>1 DEF Advance, Slots

\* The type invariant, without and with what the dialog and the datagrams add to it.
ListTypes ==
    /\ now \in 0 .. MaxTime /\ waited \in {0, 1}
    /\ pc \in {"recv", "stamp", "sn", "scan", "clear"}
    /\ from \in Addrs \cup {0} /\ msg \in SNs \cup {NoSN} /\ i \in Slots
    /\ slots \in [Slots -> Slot] /\ timeout \in Timeouts /\ conn \in Addrs \cup {0}
    /\ queue \in Seq(Messages)
    /\ heard \in [Addrs -> 0 .. MaxTime] /\ told \in [Addrs -> {"none", "found", "lost"}]
    /\ dropped \subseteq Addrs

LookTypes ==
    /\ dpc \in {"idle", "look", "take", "connect"} /\ j \in Slots
    /\ wanted \in SNs \cup {NoSN} /\ target \in Addrs \cup {0}
    /\ said \in [Addrs -> SNs \cup {NoSN}] /\ stirred \subseteq Addrs

LEMMA Types == /\ TypeOK <=> ListTypes /\ LookTypes
               /\ TypeOK' <=> ListTypes' /\ LookTypes'
BY DEF TypeOK, ListTypes, LookTypes, Slot

LEMMA TypeInit == Init => TypeInv
BY SlotFacts, LongestTimeout, DetectAssumption DEF Init, TypeInv, TypeOK, HandlesOne, Slots, Slot

LEMMA TypeStep == TypeInv /\ [Next]_vars => TypeInv'
<1> SUFFICES ASSUME TypeInv, [Next]_vars PROVE TypeInv'
  OBVIOUS
<1>0. GetTickCount \in 0 .. TickModulus - 1
  BY DetectAssumption, SlotFacts DEF TypeInv, TypeOK
<1>1. ListTypes /\ LookTypes /\ TypeOK
  BY Types DEF TypeInv
<1>2. ASSUME UNCHANGED vars PROVE (ListTypes /\ HandlesOne)'
  BY <1>1, <1>2 DEF vars, thread, hist, TypeInv, ListTypes, HandlesOne
<1>3. ASSUME Tick PROVE (ListTypes /\ HandlesOne)'
  <2>1. now' \in 0 .. MaxTime /\ waited' \in {0, 1}
    BY <1>1, <1>3, DetectAssumption DEF Tick, ListTypes
  <2>2. QED BY <1>1, <1>3, <2>1 DEF Tick, hist, TypeInv, ListTypes, HandlesOne
<1>4. ASSUME NEW a \in Addrs, NEW n \in SNs, RecvNew(a, n) PROVE (ListTypes /\ HandlesOne)'
  <2>1. queue' \in Seq(Messages)
    BY <1>1, <1>4, PostKeepsType DEF RecvNew, Receive
  <2>2. slots' \in [Slots -> Slot]
    BY <1>0, <1>1, <1>4, LastByteIsSlot, FillAddr DEF RecvNew, Receive, ListTypes
  <2>3. dropped' \subseteq Addrs
    <3>1. slots[LastByte(a)].addr \in Addrs \cup {0}
      BY <1>1, LastByteIsSlot DEF ListTypes, Slot
    <3>2. QED BY <1>1, <1>4, <3>1 DEF RecvNew, ListTypes
  <2>4. QED
    BY <1>1, <1>4, <2>1, <2>2, <2>3 DEF RecvNew, Receive, TypeInv, ListTypes, HandlesOne
<1>5. ASSUME NEW a \in Addrs, NEW n \in SNs, RecvKnown(a, n) PROVE (ListTypes /\ HandlesOne)'
  BY <1>1, <1>5 DEF RecvKnown, Receive, TypeInv, ListTypes, HandlesOne
<1>6. ASSUME RecvTimeout PROVE (ListTypes /\ HandlesOne)'
  BY <1>1, <1>6, LastByteIsSlot DEF RecvTimeout, hist, TypeInv, ListTypes, HandlesOne
<1>7. ASSUME Stamp PROVE (ListTypes /\ HandlesOne)'
  <2>1. from \in Addrs
    BY <1>7 DEF Stamp, TypeInv, HandlesOne
  <2>2. slots' \in [Slots -> Slot]
    BY <1>1, <1>7, <1>0, <2>1, LastByteIsSlot, FillTick DEF Stamp, ListTypes
  <2>3. queue' \in Seq(Messages)
    <3>1. queue \in Seq(Messages) /\ (Post("type", from) \/ queue' = queue)
      BY <1>1, <1>7 DEF Stamp, ListTypes
    <3>2. QED BY <1>1, <2>1, <3>1, PostKeepsType
  <2>4. QED BY <1>1, <1>7, <2>1, <2>2, <2>3 DEF Stamp, hist, TypeInv, ListTypes, HandlesOne
<1>8. ASSUME StoreSN PROVE (ListTypes /\ HandlesOne)'
  <2>1. from \in Addrs /\ msg \in SNs
    BY <1>8 DEF StoreSN, TypeInv, HandlesOne
  <2>2. slots' \in [Slots -> Slot]
    BY <1>1, <1>8, <1>0, <2>1, LastByteIsSlot, FillSN DEF StoreSN, ListTypes
  <2>3. QED BY <1>1, <1>8, <2>2, LastByteIsSlot DEF StoreSN, hist, TypeInv, ListTypes, HandlesOne
<1>9. ASSUME ScanKeeps PROVE (ListTypes /\ HandlesOne)'
  BY <1>1, <1>9, AdvanceKeepsType DEF ScanKeeps, hist, TypeInv, ListTypes, HandlesOne
<1>10. ASSUME ScanExpires PROVE (ListTypes /\ HandlesOne)'
  <2>1. slots[i].addr \in Addrs
    BY <1>1, <1>10 DEF ScanExpires, Expired, ListTypes, Slot
  <2>2. queue' \in Seq(Messages)
    BY <1>1, <1>10, <2>1, PostKeepsType DEF ScanExpires
  <2>3. QED BY <1>1, <1>10, <2>1, <2>2 DEF ScanExpires, TypeInv, ListTypes, HandlesOne
<1>11. ASSUME ScanClears PROVE (ListTypes /\ HandlesOne)'
  BY <1>1, <1>11, AdvanceKeepsType, SlotFacts DEF ScanClears, hist, TypeInv, ListTypes, HandlesOne
<1>12. ASSUME Dialog PROVE (ListTypes /\ HandlesOne)'
  BY <1>1, <1>12, DialogFrame DEF TypeInv, ListTypes, HandlesOne, thread
<1>13. (ListTypes /\ HandlesOne)'
  BY <1>2, <1>3, <1>4, <1>5, <1>6, <1>7, <1>8, <1>9, <1>10, <1>11, <1>12 DEF Next, Detection
<1>14. LookTypes'
  <2>1. CASE UNCHANGED vars
    BY <1>1, <2>1 DEF vars, dialog, hist, LookTypes
  <2>2. ASSUME NEW a \in Addrs, NEW n \in SNs, Receive(a, n) PROVE LookTypes'
    BY <1>1, <2>2 DEF Receive, dialog, LookTypes
  <2>3. CASE \/ Tick \/ RecvTimeout \/ Stamp \/ StoreSN \/ ScanKeeps \/ ScanExpires \/ ScanClears
    BY <1>1, <2>3
       DEF Tick, RecvTimeout, Stamp, StoreSN, ScanKeeps, ScanExpires, ScanClears, dialog, hist,
           LookTypes
  <2>4. CASE Dialog
    BY <1>1, <2>4, DialogFrame DEF LookTypes
  <2>5. QED BY <2>1, <2>2, <2>3, <2>4 DEF Next, Detection, RecvNew, RecvKnown
<1>15. QED BY <1>13, <1>14, Types DEF TypeInv

\* Every variable keeps its type, the ticks below the modulus of the counter.
THEOREM TypeCorrect == Spec => []TypeOK
<1>1. TypeInv => TypeOK
  BY DEF TypeInv
<1>2. QED BY TypeInit, TypeStep, <1>1, PTL DEF Spec

-----------------------------------------------------------------------------
(* A loss is announced only after a silence                                      *)

\* An address is only ever in its slot.
Placed == \A b \in Slots : slots[b].addr # 0 => LastByte(slots[b].addr) = b

\* While a datagram is handled, its sender's slot is its own, or a failed connection has
\* emptied it: no other sender gets it before the handler is through.
SlotIsSenders ==
    /\ pc \in {"stamp", "sn"} => slots[LastByte(from)].addr \in {from, 0}
    /\ pc = "stamp" => heard[from] = now

\* The tick of a slot is that of the last datagram of its device, but for the device whose
\* datagram is being handled.
Stamped ==
    \A b \in Slots :
        slots[b].addr # 0 /\ ~(pc = "stamp" /\ LastByte(from) = b) =>
            slots[b].tick = heard[slots[b].addr] % TickModulus

HeardBefore == \A a \in Addrs : heard[a] <= now

SlotInv == Placed /\ SlotIsSenders /\ Stamped /\ HeardBefore

-----------------------------------------------------------------------------
(* A silent device does not stay on the list                                     *)

\* At time t, a device last heard then was heard within the longest timeout and k units, or
\* in an earlier turn of the counter.
Recent(t, then, k) == t - then <= MaxOf(Timeouts) + k \/ t \div TickModulus > then \div TickModulus

Fresh(b, k) == slots[b].addr # 0 => Recent(now, heard[slots[b].addr], k)

\* The scan leaves fresh devices behind it, and recvfrom waits no longer than its timeout.
FreshInv ==
    /\ pc = "recv" => \A b \in Slots : Fresh(b, waited)
    /\ pc \in {"scan", "clear"} => \A b \in Slots : b < i => Fresh(b, 0)

-----------------------------------------------------------------------------
(* The announcements, also where addresses share a slot                           *)

\* The slot to be cleared is that of a device whose loss is announced.
ClearsTheLost == pc = "clear" /\ slots[i].addr # 0 => told[slots[i].addr] = "lost"

ToldInv == ToldMatchesList /\ ClearsTheLost

-----------------------------------------------------------------------------

LEMMA SlotInit == Init => SlotInv
BY SlotFacts, LastByteIsSlot
   DEF Init, SlotInv, Placed, SlotIsSenders, Stamped, HeardBefore

\* Emptying slots disturbs nothing of it.
LEMMA SlotInvIfEmptied ==
    ASSUME TypeInv, SlotInv, UNCHANGED <<now, pc, from, heard>>,
           \A b \in Slots : slots'[b] \in {slots[b], Empty}
    PROVE  SlotInv'
BY SlotFacts, LastByteIsSlot
   DEF TypeInv, HandlesOne, SlotInv, Placed, SlotIsSenders, Stamped, HeardBefore

LEMMA SlotStep == TypeInv /\ SlotInv /\ [Next]_vars => SlotInv'
<1> SUFFICES ASSUME TypeInv, SlotInv, [Next]_vars PROVE SlotInv'
  OBVIOUS
<1>1. /\ now \in Nat /\ slots \in [Slots -> Slot] /\ heard \in [Addrs -> Nat] /\ i \in Slots
      /\ \A a \in Addrs : heard[a] \in Nat /\ heard[a] <= now
      /\ \A b \in Slots : slots[b].addr # 0 => slots[b].addr \in Addrs
  BY DetectAssumption DEF TypeInv, TypeOK, Slot, SlotInv, HeardBefore
<1>2. CASE UNCHANGED vars
  BY <1>2 DEF vars, thread, dialog, hist, SlotInv, Placed, SlotIsSenders, Stamped, HeardBefore
<1>3. CASE Tick
  BY <1>1, <1>3 DEF Tick, dialog, hist, SlotInv, Placed, SlotIsSenders, Stamped, HeardBefore
<1>4. ASSUME NEW a \in Addrs, pc = "recv", pc' = "stamp", from' = a, now' = now,
             heard' = [heard EXCEPT ![a] = now],
             slots' = [slots EXCEPT ![LastByte(a)].addr = a]
      PROVE  SlotInv'
  <2>1. \A b \in Slots : slots'[b] = IF b = LastByte(a) THEN [slots[b] EXCEPT !.addr = a]
                                                        ELSE slots[b]
    BY <1>1, <1>4, LastByteIsSlot
  <2>2. slots'[LastByte(a)].addr = a
    BY <1>1, <2>1, LastByteIsSlot DEF Slot
  <2>3. Placed'
    BY <2>1, <2>2 DEF SlotInv, Placed
  <2>4. \A c \in Addrs : heard'[c] = IF c = a THEN now ELSE heard[c]
    BY <1>1, <1>4
  <2>5. SlotIsSenders'
    BY <1>4, <2>2, <2>4 DEF SlotIsSenders
  <2>6. ASSUME NEW b \in Slots, b # LastByte(a), slots[b].addr # 0
        PROVE  slots[b].tick = heard'[slots[b].addr] % TickModulus
    BY <1>1, <1>4, <2>4, <2>6 DEF SlotInv, Placed, Stamped
  <2>7. Stamped'
    BY <1>4, <2>1, <2>6 DEF Stamped
  <2>8. HeardBefore'
    BY <1>1, <1>4, <2>4 DEF HeardBefore
  <2>9. QED BY <2>3, <2>5, <2>7, <2>8 DEF SlotInv
<1>5. ASSUME NEW a \in Addrs, NEW n \in SNs, RecvNew(a, n) PROVE SlotInv'
  BY <1>4, <1>5 DEF RecvNew, Receive
<1>6. ASSUME NEW a \in Addrs, NEW n \in SNs, RecvKnown(a, n) PROVE SlotInv'
  <2>1. slots = [slots EXCEPT ![LastByte(a)].addr = a]
    BY <1>1, <1>6, LastByteIsSlot DEF RecvKnown, Receive, Slot
  <2>2. QED BY <1>4, <1>6, <2>1 DEF RecvKnown, Receive
<1>7. CASE RecvTimeout
  BY <1>7 DEF RecvTimeout, dialog, hist, SlotInv, Placed, SlotIsSenders, Stamped, HeardBefore
<1>8. CASE Stamp
  <2>1. from \in Addrs /\ pc = "stamp" /\ pc' = "sn" /\ UNCHANGED <<now, from, heard>>
    BY <1>8 DEF Stamp, TypeInv, HandlesOne, dialog, hist
  <2>2. \A b \in Slots : /\ slots'[b].addr = slots[b].addr
                         /\ slots'[b].tick = IF b = LastByte(from) THEN now % TickModulus
                                                                   ELSE slots[b].tick
    BY <1>1, <1>8, <2>1, LastByteIsSlot DEF Stamp, GetTickCount, Slot
  <2>3. slots[LastByte(from)].addr \in {from, 0} /\ heard[from] = now
    BY <2>1 DEF SlotInv, SlotIsSenders
  <2>4. QED BY <2>1, <2>2, <2>3, LastByteIsSlot
            DEF SlotInv, Placed, SlotIsSenders, Stamped, HeardBefore
<1>9. CASE StoreSN
  <2>1. from \in Addrs /\ pc = "sn" /\ pc' = "scan" /\ UNCHANGED <<now, from, heard>>
    BY <1>9 DEF StoreSN, TypeInv, HandlesOne, dialog, hist
  <2>2. \A b \in Slots : slots'[b].addr = slots[b].addr /\ slots'[b].tick = slots[b].tick
    BY <1>1, <1>9, <2>1, LastByteIsSlot DEF StoreSN, Slot
  <2>3. QED BY <2>1, <2>2 DEF SlotInv, Placed, SlotIsSenders, Stamped, HeardBefore
<1>10. CASE ScanKeeps
  BY <1>10 DEF ScanKeeps, Advance, dialog, hist, SlotInv, Placed, SlotIsSenders, Stamped, HeardBefore
<1>11. CASE ScanExpires
  BY <1>11 DEF ScanExpires, SlotInv, Placed, SlotIsSenders, Stamped, HeardBefore
<1>12. CASE ScanClears
  <2>1. pc = "clear" /\ pc' \in {"scan", "recv"} /\ UNCHANGED <<now, from, heard>>
    BY <1>12 DEF ScanClears, Advance, dialog, hist
  <2>2. \A b \in Slots : slots'[b] \in {slots[b], Empty}
    BY <1>1, <1>12 DEF ScanClears
  <2>3. QED BY <2>1, <2>2, SlotFacts DEF SlotInv, Placed, SlotIsSenders, Stamped, HeardBefore
<1>13. CASE Dialog
  BY <1>13, DialogFrame, SlotInvIfEmptied DEF TypeInv, thread
<1>14. QED
  BY <1>2, <1>3, <1>5, <1>6, <1>7, <1>8, <1>9, <1>10, <1>11, <1>12, <1>13 DEF Next, Detection

\* A device of the list, where the thread scans, bears the tick of its last datagram.
LEMMA TickOfLast ==
    ASSUME TypeInv, SlotInv, NEW b \in Slots, slots[b].addr # 0, pc \in {"scan", "clear"}
    PROVE  /\ slots[b].addr \in Addrs /\ LastByte(slots[b].addr) = b
           /\ now \in Nat /\ heard[slots[b].addr] \in Nat /\ heard[slots[b].addr] <= now
           /\ slots[b].tick = heard[slots[b].addr] % TickModulus
<1>1. slots[b].addr \in Addrs /\ now \in Nat /\ heard \in [Addrs -> Nat]
  BY DetectAssumption DEF TypeInv, TypeOK
<1>2. QED BY <1>1 DEF SlotInv, Placed, Stamped, HeardBefore

\* A loss is announced only after a silence longer than devlost_timeout, or at the wrap of
\* the counter: what the scan compares is the tick of the last datagram.
THEOREM NoFalseLossHolds == Spec => NoFalseLoss
<1> DEFINE A(a) == told[a] = "found" /\ told'[a] = "lost" =>
                     \/ now - heard[a] > timeout
                     \/ slots[LastByte(a)].tick + timeout >= TickModulus
<1>1. ASSUME TypeInv, SlotInv, [Next]_vars, NEW a \in Addrs,
             told[a] = "found", told'[a] = "lost"
      PROVE  A(a)
  <2>1. told \in [Addrs -> {"none", "found", "lost"}] /\ i \in Slots /\ timeout \in Nat
    BY <1>1, DetectAssumption DEF TypeInv, TypeOK
  <2>2. CASE ScanExpires
    <3>1. slots[i].addr = a /\ pc = "scan" /\ Expired(slots[i])
      BY <1>1, <2>1, <2>2 DEF ScanExpires
    <3>2. /\ LastByte(a) = i /\ now \in Nat /\ heard[a] \in Nat /\ heard[a] <= now
          /\ slots[i].tick = heard[a] % TickModulus
      BY <1>1, <2>1, <3>1, SlotFacts, TickOfLast
    <3>3. /\ heard[a] % TickModulus \in Nat /\ now % TickModulus \in Nat /\ timeout \in Nat
          /\ TickModulus \in Nat \ {0} /\ (heard[a] % TickModulus) + timeout \in Nat
      <4>1. TickModulus \in Nat \ {0}
        BY DetectAssumption
      <4>2. heard[a] % TickModulus \in Nat /\ now % TickModulus \in Nat
        BY ONLY <3>2, <4>1
      <4>3. QED BY ONLY <2>1, <4>1, <4>2
    <3>4. CASE (heard[a] % TickModulus) + timeout < TickModulus
      <4>1. ((heard[a] % TickModulus) + timeout) % TickModulus < now % TickModulus
        BY <3>1, <3>2 DEF Expired, GetTickCount
      <4>2. ((heard[a] % TickModulus) + timeout) % TickModulus
              = (heard[a] % TickModulus) + timeout
        BY <3>3, <3>4, Residue
      <4>3. now - heard[a] >= (now % TickModulus) - (heard[a] % TickModulus)
        BY <3>2, <3>3, TicksNoFurther
      <4>4. PICK ht \in Nat, nt \in Nat : ht = heard[a] % TickModulus /\ nt = now % TickModulus
        BY <3>3
      <4>5. now - heard[a] >= nt - ht /\ ht + timeout < nt
        BY <4>1, <4>2, <4>3, <4>4
      <4>6. QED BY ONLY <3>2, <3>3, <4>4, <4>5, FurtherThan
    <3>5. CASE ~((heard[a] % TickModulus) + timeout < TickModulus)
      <4>1. (heard[a] % TickModulus) + timeout >= TickModulus
        BY ONLY <3>3, <3>5
      <4>2. QED BY <3>2, <4>1
    <3>6. QED BY <3>4, <3>5
  <2>3. CASE \E c \in Addrs, n \in SNs : RecvNew(c, n)
    BY <1>1, <2>1, <2>3 DEF RecvNew, Receive
  <2>4. CASE UNCHANGED told
    BY <1>1, <2>4
  <2>5. ASSUME ~ScanExpires, ~\E c \in Addrs, n \in SNs : RecvNew(c, n) PROVE UNCHANGED told
    BY <1>1, <2>5, DialogFrame
       DEF Next, Detection, Tick, RecvKnown, Receive, RecvTimeout, Stamp, StoreSN, ScanKeeps, ScanClears,
           vars, dialog, hist, TypeInv
  <2>6. QED BY <2>2, <2>3, <2>4, <2>5
<1>2. TypeInv /\ SlotInv /\ [Next]_vars => [\A a \in Addrs : A(a)]_vars
  BY <1>1
<1>3. QED BY <1>2, TypeInit, TypeStep, SlotInit, SlotStep, PTL DEF Spec, NoFalseLoss

-----------------------------------------------------------------------------

LEMMA FreshInit == Init => FreshInv
BY SlotFacts DEF Init, FreshInv, Fresh

\* A device that the scan keeps was heard within the timeout.
LEMMA KeptIsFresh ==
    ASSUME TypeInv, SlotInv, pc = "scan", ~Expired(slots[i])
    PROVE  Fresh(i, 0)
<1> SUFFICES ASSUME slots[i].addr # 0 PROVE Fresh(i, 0)
  BY DEF Fresh
<1> DEFINE last == heard[slots[i].addr]
<1>1. i \in Slots /\ timeout \in Timeouts /\ TickModulus \in Nat \ {0} /\ MaxOf(Timeouts) \in Nat
  BY DetectAssumption, LongestTimeout DEF TypeInv, TypeOK
<1>2. now \in Nat /\ last \in Nat /\ last <= now /\ slots[i].tick = last % TickModulus
  BY <1>1, TickOfLast
<1>3. timeout \in Nat /\ timeout <= MaxOf(Timeouts)
  BY <1>1, LongestTimeout, DetectAssumption
<1>4. ~(((last % TickModulus) + timeout) % TickModulus < now % TickModulus)
  BY <1>2 DEF Expired, GetTickCount
<1>5. last % TickModulus \in Nat /\ now % TickModulus \in Nat
  BY ONLY <1>1, <1>2
<1>6. ((last % TickModulus) + timeout) % TickModulus <= (last % TickModulus) + timeout
      /\ ((last % TickModulus) + timeout) % TickModulus \in Nat
  <2>1. (last % TickModulus) + timeout \in Nat
    BY ONLY <1>3, <1>5
  <2>2. QED BY ONLY <1>1, <2>1
<1>7. CASE last \div TickModulus = now \div TickModulus
  <2>1. now - last = (now % TickModulus) - (last % TickModulus)
    BY <1>1, <1>2, <1>7, SameTurn
  <2>2. now - last <= MaxOf(Timeouts) + 0
    BY ONLY <1>1, <1>2, <1>3, <1>4, <1>5, <1>6, <2>1
  <2>3. QED BY <2>2 DEF Fresh, Recent
<1>8. CASE last \div TickModulus # now \div TickModulus
  <2>1. now \div TickModulus > last \div TickModulus
    BY <1>1, <1>2, <1>8, TurnsAscend
  <2>2. QED BY <2>1 DEF Fresh, Recent
<1>9. QED BY <1>7, <1>8


LEMMA RecentWeaker ==
    ASSUME NEW t \in Nat, NEW then \in Nat, NEW k \in Nat, Recent(t, then, 0)
    PROVE  Recent(t, then, k)
<1>1. MaxOf(Timeouts) \in Nat
  BY DetectAssumption, LongestTimeout
<1>2. QED BY <1>1 DEF Recent

\* The loop leaves slot i behind it, or the whole list.
LEMMA FreshAdvance ==
    ASSUME TypeInv, FreshInv, pc \in {"scan", "clear"}, Advance,
           UNCHANGED <<now, waited, heard>>,
           \A b \in Slots : slots'[b] \in {slots[b], Empty},
           slots'[i] = Empty \/ Fresh(i, 0)
    PROVE  FreshInv'
<1>0. \A b \in Slots : slots[b].addr # 0 => heard[slots[b].addr] \in Nat
  <2>1. heard \in [Addrs -> Nat] /\ slots \in [Slots -> Slot]
    BY DetectAssumption DEF TypeInv, TypeOK, Slot
  <2>2. QED BY <2>1 DEF Slot
<1>1. SlotCount \in Nat \ {0} /\ i \in Slots /\ now \in Nat /\ waited \in Nat
  BY DetectAssumption DEF TypeInv, TypeOK
<1>2. ASSUME NEW b \in Slots, b <= i, slots'[b].addr # 0
      PROVE  Recent(now, heard[slots[b].addr], 0) /\ slots'[b] = slots[b]
  <2>1. slots'[b] = slots[b]
    BY <1>2, SlotFacts
  <2>2. Fresh(b, 0)
    <3>1. CASE b = i
      BY <1>2, <3>1, SlotFacts
    <3>2. CASE b # i
      BY <1>1, <1>2, <3>2 DEF FreshInv, Slots
    <3>3. QED BY <3>1, <3>2
  <2>3. QED BY <1>2, <2>1, <2>2 DEF Fresh
<1>3. ASSUME NEW b \in Slots, b <= i, NEW k \in Nat, slots'[b].addr # 0
      PROVE  Recent(now', heard'[slots'[b].addr], k)
  BY <1>0, <1>1, <1>2, <1>3, RecentWeaker
<1>4. CASE i + 1 < SlotCount
  <2>1. pc' = "scan" /\ i' = i + 1 /\ \A b \in Slots : b < i' => b <= i
    BY <1>1, <1>4 DEF Advance, Slots
  <2>2. QED BY <1>3, <2>1 DEF FreshInv, Fresh
<1>5. CASE ~(i + 1 < SlotCount)
  <2>1. pc' = "recv" /\ waited' \in Nat /\ \A b \in Slots : b <= i
    BY <1>1, <1>5 DEF Advance, Slots
  <2>2. QED BY <1>3, <2>1 DEF FreshInv, Fresh
<1>6. QED BY <1>4, <1>5

LEMMA FreshStep == TypeInv /\ SlotInv /\ FreshInv /\ [Next]_vars => FreshInv'
<1> SUFFICES ASSUME TypeInv, SlotInv, FreshInv, [Next]_vars PROVE FreshInv'
  OBVIOUS
<1>1. /\ now \in Nat /\ waited \in {0, 1} /\ slots \in [Slots -> Slot] /\ i \in Slots
      /\ heard \in [Addrs -> Nat] /\ MaxOf(Timeouts) \in Nat
  <2>1. MaxOf(Timeouts) \in Nat
    BY DetectAssumption, LongestTimeout
  <2>2. QED BY <2>1, DetectAssumption DEF TypeInv, TypeOK, Slot
<1>2. CASE UNCHANGED vars
  BY <1>2 DEF vars, thread, dialog, hist, FreshInv, Fresh
<1>3. CASE Tick
  <2>1. now' = now + 1 /\ waited' = waited + 1 /\ pc = "recv" /\ pc' = "recv"
        /\ UNCHANGED <<slots, heard>>
    BY <1>3 DEF Tick, dialog, hist
  <2>2. ASSUME NEW then \in Nat, then <= now, Recent(now, then, waited)
        PROVE  Recent(now + 1, then, waited + 1)
    <3>1. CASE now - then <= MaxOf(Timeouts) + waited
      BY <1>1, <2>2, <3>1 DEF Recent
    <3>2. CASE now \div TickModulus > then \div TickModulus
      <4>1. TickModulus \in Nat \ {0}
        BY DetectAssumption
      <4>2. now \div TickModulus <= (now + 1) \div TickModulus
        BY ONLY <1>1, <4>1
      <4>3. /\ now \div TickModulus \in Nat /\ (now + 1) \div TickModulus \in Nat
            /\ then \div TickModulus \in Nat
        BY ONLY <1>1, <2>2, <4>1
      <4>4. (now + 1) \div TickModulus > then \div TickModulus
        BY ONLY <3>2, <4>2, <4>3
      <4>5. QED BY <4>4 DEF Recent
    <3>3. QED BY <2>2, <3>1, <3>2 DEF Recent
  <2>3. ASSUME NEW b \in Slots, slots[b].addr # 0
        PROVE  heard[slots[b].addr] \in Nat /\ heard[slots[b].addr] <= now
    BY <1>1, <2>3 DEF Slot, SlotInv, HeardBefore
  <2>4. ASSUME NEW b \in Slots, slots[b].addr # 0
        PROVE  Recent(now + 1, heard[slots[b].addr], waited + 1)
    BY <2>1, <2>2, <2>3, <2>4 DEF FreshInv, Fresh
  <2>5. QED BY <2>1, <2>4 DEF FreshInv, Fresh
<1>4. CASE \E a \in Addrs, n \in SNs : RecvNew(a, n) \/ RecvKnown(a, n)
  BY <1>4 DEF RecvNew, Receive, RecvKnown, FreshInv
<1>5. CASE RecvTimeout
  BY <1>1, <1>5 DEF RecvTimeout, FreshInv, Slots
<1>6. CASE Stamp
  BY <1>6 DEF Stamp, FreshInv
<1>7. CASE StoreSN
  BY <1>7 DEF StoreSN, FreshInv, Slots
<1>8. CASE ScanKeeps
  BY <1>1, <1>8, KeptIsFresh, FreshAdvance DEF ScanKeeps, dialog, hist
<1>9. CASE ScanExpires
  BY <1>9 DEF ScanExpires, FreshInv, Fresh
<1>10. CASE ScanClears
  <2>1. slots'[i] = Empty /\ \A b \in Slots : slots'[b] \in {slots[b], Empty}
    BY <1>1, <1>10 DEF ScanClears
  <2>2. QED BY <1>10, <2>1, FreshAdvance DEF ScanClears, dialog, hist
<1>11. CASE Dialog
  <2>1. UNCHANGED <<now, pc, waited, i, heard>> /\ \A b \in Slots : slots'[b] \in {slots[b], Empty}
    BY <1>11, DialogFrame DEF TypeInv, thread
  <2>2. \A b \in Slots : slots'[b].addr # 0 => slots'[b] = slots[b]
    BY <2>1, SlotFacts
  <2>3. QED BY <2>1, <2>2 DEF FreshInv, Fresh
<1>12. QED
  BY <1>2, <1>3, <1>4, <1>5, <1>6, <1>7, <1>8, <1>9, <1>10, <1>11 DEF Next, Detection

\* When the thread waits for the next datagram, every device of the list was heard within
\* the longest timeout and one turn of recvfrom, or in an earlier turn of the counter.
THEOREM SilenceIsBoundedHolds == Spec => []SilenceIsBounded
<1>1. ASSUME TypeInv, FreshInv PROVE SilenceIsBounded
  <2>1. SUFFICES ASSUME pc = "recv", NEW b \in Slots, slots[b].addr # 0
                 PROVE  Recent(now, heard[slots[b].addr], 1)
    BY DEF SilenceIsBounded, Recent
  <2>2. Recent(now, heard[slots[b].addr], waited) /\ waited \in {0, 1}
    BY <1>1, <2>1 DEF FreshInv, Fresh, TypeInv, TypeOK
  <2>3. heard[slots[b].addr] \in Nat /\ now \in Nat
    <3>1. slots[b].addr \in Addrs /\ heard \in [Addrs -> Nat] /\ now \in Nat
      BY <1>1, <2>1, DetectAssumption DEF TypeInv, TypeOK
    <3>2. QED BY <3>1
  <2>4. QED BY <2>2, <2>3, RecentWeaker
<1>2. QED BY <1>1, TypeInit, TypeStep, SlotInit, SlotStep, FreshInit, FreshStep, PTL DEF Spec

-----------------------------------------------------------------------------

\* What a failed connection empties is remembered, whoever's slot it is.
LEMMA EmptiedIsDropped ==
    ASSUME TypeInv, Dialog
    PROVE  \A a \in Addrs : slots[LastByte(a)].addr = a /\ slots'[LastByte(a)].addr # a
                              => a \in dropped'
<1> SUFFICES ASSUME NEW a \in Addrs, slots[LastByte(a)].addr = a, slots'[LastByte(a)].addr # a
             PROVE  a \in dropped'
  OBVIOUS
<1>1. ConnectFails
  BY DialogFrame
<1>2. /\ slots' = [slots EXCEPT ![LastByte(target)] = Empty]
      /\ dropped' = (dropped \cup {slots[LastByte(target)].addr}) \ {0}
  BY <1>1 DEF ConnectFails
<1>3. LastByte(target) = LastByte(a) /\ a # 0
  BY <1>2, LastByteIsSlot, SlotFacts DEF TypeInv, TypeOK
<1>4. QED BY <1>2, <1>3

LEMMA ToldInit == Init => ToldInv
BY SlotFacts, LastByteIsSlot DEF Init, ToldInv, ToldMatchesList, ClearsTheLost

\* While the thread does not clear a slot, the lists agree but for what failed connections
\* took off.
LEMMA ToldKept ==
    ASSUME TypeInv, ToldInv, pc # "clear", pc' # "clear", UNCHANGED <<told, dropped>>,
           \A b \in Slots : slots'[b].addr = slots[b].addr
    PROVE  ToldInv'
BY LastByteIsSlot DEF ToldInv, ToldMatchesList, ClearsTheLost

LEMMA ToldStep == TypeInv /\ SlotInv /\ ToldInv /\ [Next]_vars => ToldInv'
<1> SUFFICES ASSUME TypeInv, SlotInv, ToldInv, [Next]_vars PROVE ToldInv'
  OBVIOUS
<1>1. /\ slots \in [Slots -> Slot] /\ i \in Slots
      /\ told \in [Addrs -> {"none", "found", "lost"}]
  BY DEF TypeInv, TypeOK, Slot
<1>2. CASE UNCHANGED vars
  BY <1>2 DEF vars, thread, dialog, hist, ToldInv, ToldMatchesList, ClearsTheLost
<1>3. CASE Tick
  BY <1>3, ToldKept DEF Tick, dialog, hist
<1>4. ASSUME NEW a \in Addrs, NEW n \in SNs, RecvNew(a, n) PROVE ToldInv'
  <2>1. \A b \in Slots : slots'[b].addr = IF b = LastByte(a) THEN a ELSE slots[b].addr
    BY <1>1, <1>4, LastByteIsSlot DEF RecvNew, Receive, Slot
  <2>2. \A c \in Addrs : told'[c] = IF c = a THEN "found" ELSE told[c]
    BY <1>1, <1>4 DEF RecvNew, Receive
  <2>3. pc = "recv" /\ pc' = "stamp" /\ UNCHANGED i
        /\ dropped' = (dropped \cup {slots[LastByte(a)].addr}) \ {0, a}
    BY <1>4 DEF RecvNew, Receive
  <2>4. ASSUME NEW c \in Addrs, c # a, told'[c] = "found"
        PROVE  slots'[LastByte(c)].addr = c \/ c \in dropped'
    <3>1. slots[LastByte(c)].addr = c \/ c \in dropped
      BY <2>2, <2>4 DEF ToldInv, ToldMatchesList
    <3>2. CASE LastByte(c) = LastByte(a)
      BY <2>3, <2>4, <3>1, <3>2, SlotFacts
    <3>3. CASE LastByte(c) # LastByte(a)
      BY <2>1, <2>3, <2>4, <3>1, <3>3, LastByteIsSlot, SlotFacts
    <3>4. QED BY <3>2, <3>3
  <2>5. ASSUME NEW c \in Addrs, slots'[LastByte(c)].addr = c PROVE told'[c] = "found"
    <3>1. CASE c # a
      <4>1. slots[LastByte(c)].addr = c
        BY <2>1, <2>5, <3>1, LastByteIsSlot
      <4>2. QED BY <2>2, <2>3, <3>1, <4>1 DEF ToldInv, ToldMatchesList
    <3>2. QED BY <2>2, <3>1
  <2>6. slots'[LastByte(a)].addr = a
    BY <2>1, LastByteIsSlot
  <2>7. ToldMatchesList'
    BY <2>4, <2>5, <2>6 DEF ToldMatchesList
  <2>8. QED BY <2>3, <2>7 DEF ToldInv, ClearsTheLost
<1>5. ASSUME NEW a \in Addrs, NEW n \in SNs, RecvKnown(a, n) PROVE ToldInv'
  BY <1>5, ToldKept DEF RecvKnown, Receive
<1>6. CASE RecvTimeout
  BY <1>6, ToldKept DEF RecvTimeout, dialog, hist
<1>7. CASE Stamp
  <2>1. \A b \in Slots : slots'[b].addr = slots[b].addr
    BY <1>1, <1>7 DEF Stamp, Slot
  <2>2. QED BY <1>7, <2>1, ToldKept DEF Stamp, dialog, hist
<1>8. CASE StoreSN
  <2>1. \A b \in Slots : slots'[b].addr = slots[b].addr
    BY <1>1, <1>8 DEF StoreSN, Slot
  <2>2. QED BY <1>8, <2>1, ToldKept DEF StoreSN, dialog, hist
<1>9. CASE ScanKeeps
  BY <1>9, ToldKept DEF ScanKeeps, Advance, dialog, hist
<1>10. CASE ScanExpires
  <2>1. slots[i].addr \in Addrs /\ LastByte(slots[i].addr) = i
    BY <1>1, <1>10 DEF ScanExpires, Expired, Slot, SlotInv, Placed
  <2>2. \A c \in Addrs : told'[c] = IF c = slots[i].addr THEN "lost" ELSE told[c]
    BY <1>1, <1>10 DEF ScanExpires
  <2>3. pc = "scan" /\ pc' = "clear" /\ UNCHANGED <<i, slots, dropped>>
    BY <1>10 DEF ScanExpires
  <2>4. QED BY <2>1, <2>2, <2>3 DEF ToldInv, ToldMatchesList, ClearsTheLost
<1>11. CASE ScanClears
  <2>1. pc = "clear" /\ pc' # "clear" /\ UNCHANGED <<told, dropped>>
    BY <1>11 DEF ScanClears, Advance, dialog, hist
  <2>2. \A b \in Slots : slots'[b].addr = IF b = i THEN 0 ELSE slots[b].addr
    BY <1>1, <1>11, SlotFacts DEF ScanClears
  <2>3. QED BY <2>1, <2>2, LastByteIsSlot, SlotFacts DEF ToldInv, ToldMatchesList, ClearsTheLost
<1>12. CASE Dialog
  <2>1. UNCHANGED <<pc, i, told>> /\ dropped \subseteq dropped'
        /\ \A b \in Slots : slots'[b].addr \in {slots[b].addr, 0}
    BY <1>12, DialogFrame, SlotFacts DEF TypeInv, thread
  <2>2. \A a \in Addrs : slots[LastByte(a)].addr = a /\ slots'[LastByte(a)].addr # a
                            => a \in dropped'
    BY <1>12, EmptiedIsDropped
  <2>3. ToldMatchesList'
    BY <2>1, <2>2, LastByteIsSlot, SlotFacts DEF ToldInv, ToldMatchesList
  <2>4. ClearsTheLost'
    BY <1>1, <2>1 DEF ToldInv, ClearsTheLost
  <2>5. QED BY <2>3, <2>4 DEF ToldInv
<1>13. QED
  BY <1>2, <1>3, <1>4, <1>5, <1>6, <1>7, <1>8, <1>9, <1>10, <1>11, <1>12 DEF Next, Detection

\* What the station was told of the devices is what the list says of them, but for those
\* that failed connections, or devices with the same last byte, took off it.
THEOREM ToldMatchesListHolds == Spec => []ToldMatchesList
<1>1. ToldInv => ToldMatchesList
  BY DEF ToldInv
<1>2. QED BY <1>1, TypeInit, TypeStep, SlotInit, SlotStep, ToldInit, ToldStep, PTL DEF Spec

-----------------------------------------------------------------------------
(* A station connects to the device whose serial number was scanned              *)

\* The thread stores what its sender said.
MsgIsSaid == pc \in {"stamp", "sn"} => said[from] = msg

\* A slot bears the number that its device last said, unless the device's datagram is being
\* handled.
SlotAgrees ==
    \A b \in Slots :
        slots[b].addr # 0 /\ ~(pc \in {"stamp", "sn"} /\ LastByte(from) = b) =>
            slots[b].sn = said[slots[b].addr]

\* Between the comparison and the reading of the address.
HitAgrees ==
    dpc = "take" => \/ slots[j].addr = 0
                    \/ said[slots[j].addr] = wanted
                    \/ slots[j].addr \in stirred

SNInv == MsgIsSaid /\ SlotAgrees /\ HitAgrees

LEMMA SNInit == Init => SNInv
BY SlotFacts DEF Init, SNInv, MsgIsSaid, SlotAgrees, HitAgrees

\* Where the detection thread neither receives nor stores a serial number, it may clear
\* slots, or leave the addresses and serial numbers as they are.
LEMMA SNKept ==
    ASSUME TypeInv, SNInv, UNCHANGED <<said, dialog, stirred>>,
           pc' \in {"stamp", "sn"} => UNCHANGED <<from, msg>> /\ pc \in {"stamp", "sn"},
           pc \in {"stamp", "sn"} => pc' \in {"stamp", "sn"},
           \A b \in Slots : \/ slots'[b].addr = slots[b].addr /\ slots'[b].sn = slots[b].sn
                            \/ slots'[b].addr = 0
    PROVE  SNInv'
<1>1. j \in Slots
  BY DEF TypeInv, TypeOK
<1>2. MsgIsSaid' /\ HitAgrees'
  BY <1>1 DEF SNInv, MsgIsSaid, HitAgrees, dialog
<1>3. SlotAgrees'
  BY DEF SNInv, SlotAgrees
<1>4. QED BY <1>2, <1>3 DEF SNInv

LEMMA SNStep == TypeInv /\ SlotInv /\ SNInv /\ [Next]_vars => SNInv'
<1> SUFFICES ASSUME TypeInv, SlotInv, SNInv, [Next]_vars PROVE SNInv'
  OBVIOUS
<1>1. /\ slots \in [Slots -> Slot] /\ i \in Slots /\ j \in Slots
      /\ said \in [Addrs -> SNs \cup {NoSN}]
      /\ \A b \in Slots : slots[b].addr \in Addrs \cup {0}
  BY DEF TypeInv, TypeOK, Slot
<1>2. CASE UNCHANGED vars
  BY <1>2, SNKept DEF vars, thread, hist
<1>3. CASE Tick
  BY <1>3, SNKept DEF Tick, hist
<1>4. ASSUME NEW a \in Addrs, NEW n \in SNs, Receive(a, n),
             slots' = [slots EXCEPT ![LastByte(a)].addr = a]
      PROVE  SNInv'
  <2>1. /\ pc = "recv" /\ pc' = "stamp" /\ from' = a /\ msg' = n
        /\ UNCHANGED <<dpc, j, wanted, target>>
        /\ stirred' = IF dpc = "take" THEN stirred \cup {a} ELSE stirred
    BY <1>4 DEF Receive, dialog
  <2>2. \A c \in Addrs : said'[c] = IF c = a THEN n ELSE said[c]
    BY <1>1, <1>4 DEF Receive
  <2>3. \A b \in Slots : /\ slots'[b].addr = IF b = LastByte(a) THEN a ELSE slots[b].addr
                         /\ slots'[b].sn = slots[b].sn
    BY <1>1, <1>4, LastByteIsSlot DEF Slot
  <2>4. MsgIsSaid'
    BY <2>1, <2>2 DEF MsgIsSaid
  <2>5. SlotAgrees'
    <3>1. SUFFICES ASSUME NEW b \in Slots, b # LastByte(a), slots[b].addr # 0
                   PROVE  slots[b].sn = said'[slots[b].addr]
      BY <2>1, <2>3 DEF SlotAgrees
    <3>2. slots[b].addr \in Addrs /\ slots[b].addr # a /\ slots[b].sn = said[slots[b].addr]
      BY <1>1, <2>1, <3>1 DEF SNInv, SlotAgrees, SlotInv, Placed
    <3>3. QED BY <2>2, <3>2
  <2>6. HitAgrees'
    <3>1. SUFFICES ASSUME dpc = "take", slots[j].addr # a, slots'[j].addr # a,
                          slots[j].addr # 0
                   PROVE  said'[slots[j].addr] = wanted \/ slots[j].addr \in stirred'
      BY <1>1, <2>1, <2>3 DEF HitAgrees
    <3>2. slots[j].addr \in Addrs /\ (said[slots[j].addr] = wanted \/ slots[j].addr \in stirred)
      BY <1>1, <3>1 DEF SNInv, HitAgrees
    <3>3. QED BY <2>1, <2>2, <3>1, <3>2
  <2>7. QED BY <2>4, <2>5, <2>6 DEF SNInv
<1>5. ASSUME NEW a \in Addrs, NEW n \in SNs, RecvNew(a, n) PROVE SNInv'
  BY <1>4, <1>5 DEF RecvNew
<1>6. ASSUME NEW a \in Addrs, NEW n \in SNs, RecvKnown(a, n) PROVE SNInv'
  <2>1. slots = [slots EXCEPT ![LastByte(a)].addr = a]
    BY <1>1, <1>6, LastByteIsSlot DEF RecvKnown, Slot
  <2>2. QED BY <1>4, <1>6, <2>1 DEF RecvKnown
<1>7. CASE RecvTimeout
  BY <1>7, SNKept DEF RecvTimeout, hist
<1>8. CASE Stamp
  <2>1. \A b \in Slots : slots'[b].addr = slots[b].addr /\ slots'[b].sn = slots[b].sn
    BY <1>1, <1>8 DEF Stamp, Slot
  <2>2. QED BY <1>8, <2>1, SNKept DEF Stamp, hist
<1>9. CASE StoreSN
  <2>1. from \in Addrs /\ msg = said[from] /\ slots[LastByte(from)].addr \in {from, 0}
    BY <1>9 DEF StoreSN, TypeInv, HandlesOne, SNInv, MsgIsSaid, SlotInv, SlotIsSenders
  <2>2. \A b \in Slots : /\ slots'[b].addr = slots[b].addr
                         /\ slots'[b].sn = IF b = LastByte(from) THEN msg ELSE slots[b].sn
    BY <1>1, <1>9, <2>1, LastByteIsSlot DEF StoreSN, Slot
  <2>3. pc' = "scan" /\ UNCHANGED <<said, stirred, dpc, j, wanted, target>>
    BY <1>9 DEF StoreSN, dialog, hist
  <2>4. SlotAgrees' /\ MsgIsSaid' /\ HitAgrees'
    BY <1>1, <2>1, <2>2, <2>3 DEF SNInv, SlotAgrees, MsgIsSaid, HitAgrees
  <2>5. QED BY <2>4 DEF SNInv
<1>10. CASE ScanKeeps
  BY <1>10, SNKept DEF ScanKeeps, Advance, hist
<1>11. CASE ScanExpires
  BY <1>11, SNKept DEF ScanExpires
<1>12. CASE ScanClears
  <2>1. \A b \in Slots : slots'[b] = slots[b] \/ slots'[b].addr = 0
    BY <1>1, <1>12, SlotFacts DEF ScanClears
  <2>2. QED BY <1>12, <2>1, SNKept DEF ScanClears, Advance, hist
<1>13. CASE Dialog
  <2>1. /\ UNCHANGED <<pc, from, msg, said>> /\ (dpc' = "take" => LookHits)
        /\ \A b \in Slots : slots'[b] = slots[b] \/ slots'[b].addr = 0
    BY <1>13, DialogFrame, SlotFacts DEF thread
  <2>2. MsgIsSaid' /\ SlotAgrees'
    BY <2>1 DEF SNInv, MsgIsSaid, SlotAgrees
  <2>3. CASE LookHits
    <3>1. slots[j].addr # 0 /\ slots[j].sn = wanted /\ UNCHANGED <<slots, j, wanted>>
          /\ stirred' = IF pc \in {"stamp", "sn"} THEN {from} ELSE {}
      BY <2>3 DEF LookHits, Holds
    <3>2. CASE pc \in {"stamp", "sn"} /\ LastByte(from) = j
      BY <2>1, <2>2, <3>1, <3>2 DEF SlotInv, SlotIsSenders, SNInv, HitAgrees
    <3>3. CASE ~(pc \in {"stamp", "sn"} /\ LastByte(from) = j)
      BY <1>1, <2>1, <2>2, <3>1, <3>3 DEF SNInv, SlotAgrees, HitAgrees
    <3>4. QED BY <3>2, <3>3
  <2>4. CASE ~LookHits
    BY <2>1, <2>2, <2>4 DEF SNInv, HitAgrees
  <2>5. QED BY <2>3, <2>4
<1>14. QED
  BY <1>2, <1>3, <1>5, <1>6, <1>7, <1>8, <1>9, <1>10, <1>11, <1>12, <1>13 DEF Next, Detection

\* tnp_connect_by_sn, which nothing keeps from reading slots that are being taken over, filled
\* in and cleared, comes away with the device that last said the scanned number, with none, or
\* with one whose datagram was handled at that moment: a serial number that an earlier device
\* left in a slot does not outlive the handling of the next datagram for it.
THEOREM ConnectsToSNHolds == Spec => ConnectsToSN
<1>1. SNInv => [TakeAddr => \/ target' = 0
                            \/ said[target'] = wanted
                            \/ target' \in stirred]_vars
  BY DEF SNInv, HitAgrees, TakeAddr
<1>2. QED
  BY <1>1, TypeInit, TypeStep, SlotInit, SlotStep, SNInit, SNStep, PTL DEF Spec, ConnectsToSN
===============================================================================
