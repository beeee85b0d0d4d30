--------------------------- MODULE AudioTestProofs ----------------------------
(* Theorems about AudioTest: for any interleaving of its threads and any of the   *)
(* calls that fail in them. It has no constants.                                  *)
EXTENDS AudioTest, TLAPS

\* The recording and the verdict of a test, from its start to its word: whatever went wrong
\* with either was noted. A tone that is over without a recording of it, a recording of
\* silence and a verdict on anything but the tone are all of them noted.
ToneInv ==
    /\ rec.at = "none" => rec.buf = "junk"
    /\ mic = "create" => rec.at = "none"
    /\ mic # "idle" => play["tone"] # "none"
    /\ mic = "rec" => play["tone"] = "ended"
    /\ sinOver /\ mic \in {"create", "tone"} => play["tone"] = "ended"
    /\ mic \in {"create", "tone", "rec"} /\ play["tone"] = "ended" /\ rec.buf = "junk" => spoiled
    /\ rec.buf = "silence" => spoiled
    /\ rec.at = "ended" => (testOK = "tone" /\ rec.buf = "tone") \/ spoiled
    /\ VerdictIsOnTone

SoundInv == TypeOK /\ ToneInv

LEMMA SoundInit == Init => SoundInv
<1> SUFFICES ASSUME Init PROVE SoundInv
  OBVIOUS
<1>1. TypeOK
  <2>1. play \in [Players -> {"none", "starts", "plays", "ended"}]
    BY DEF Init
  <2>2. QED BY <2>1 DEF Init, TypeOK, NoRecorder
<1>2. ToneInv
  BY DEF Init, ToneInv, VerdictIsOnTone, NoRecorder
<1>3. QED BY <1>1, <1>2 DEF SoundInv

\* The end of a playing thread: that of the tone is noted, unless its recording was taken.
LEMMA PlayerEnds ==
    ASSUME SoundInv, NEW p \in Players, play' = [play EXCEPT ![p] = "ended"],
           play[p] \in {"starts", "plays"}, spoiled' \in BOOLEAN, spoiled => spoiled',
           p = "tone" /\ rec.at # "ended" /\ rec.buf = "junk" => spoiled',
           UNCHANGED <<loop, stop, sinOver, rec, testOK, mic, off>>
    PROVE  SoundInv'
<1>1. TypeOK'
  BY DEF SoundInv, TypeOK
<1>2. \A q \in Players : play'[q] = IF q = p THEN "ended" ELSE play[q]
  BY DEF SoundInv, TypeOK
<1>3. "tone" \in Players
  BY DEF Players
<1>4. ToneInv'
  BY <1>2, <1>3 DEF SoundInv, ToneInv, VerdictIsOnTone
<1>5. QED BY <1>1, <1>4 DEF SoundInv

LEMMA SoundStep == SoundInv /\ [Next]_vars => SoundInv'
<1> SUFFICES ASSUME SoundInv, [Next]_vars PROVE SoundInv'
  OBVIOUS
<1> USE DEF SoundInv, ToneInv, VerdictIsOnTone
<1>1. /\ TypeOK /\ spoiled \in BOOLEAN /\ "tone" \in Players /\ "word" \in Players
      /\ play \in [Players -> {"none", "starts", "plays", "ended"}]
  BY DEF TypeOK, Players
<1>2. CASE UNCHANGED vars
  BY <1>2 DEF vars, TypeOK
<1>3. ASSUME NEW p \in Players, PlaySetup(p) PROVE SoundInv'
  <2>1. TypeOK'
    BY <1>3 DEF PlaySetup, TypeOK
  <2>2. play' = [play EXCEPT ![p] = "plays"] /\ play[p] = "starts"
        /\ UNCHANGED <<sinOver, rec, testOK, mic, spoiled>>
    BY <1>3 DEF PlaySetup
  <2>3. QED BY <1>1, <2>1, <2>2
<1>4. ASSUME NEW p \in Players, PlayFails(p) PROVE SoundInv'
  BY <1>1, <1>4, PlayerEnds DEF PlayFails
<1>5. ASSUME NEW p \in Players, PlayStops(p) PROVE SoundInv'
  BY <1>1, <1>5, PlayerEnds DEF PlayStops
<1>6. ASSUME NEW p \in Players, PlayEnds(p) PROVE SoundInv'
  BY <1>1, <1>6, PlayerEnds DEF PlayEnds
<1>7. CASE RecSetup
  BY <1>7 DEF RecSetup, TypeOK
<1>8. CASE RecFails
  BY <1>8 DEF RecFails, TypeOK
<1>9. CASE RecSamples
  <2>1. rec.at = "records" /\ rec.buf = "junk" /\ mic \in {"tone", "rec"}
    BY <1>9 DEF RecSamples, TypeOK
  <2>2. play["tone"] # "plays" => spoiled'
    BY <1>1, <1>9, <2>1 DEF RecSamples
  <2>3. TypeOK'
    BY <1>9 DEF RecSamples, TypeOK
  <2>4. QED BY <1>1, <1>9, <2>1, <2>2, <2>3 DEF RecSamples, TypeOK
<1>10. CASE RecVerdict
  <2>1. rec.at = "records" /\ mic \in {"tone", "rec"} /\ testOK' = rec.buf
        /\ rec' = [rec EXCEPT !.at = "ended"] /\ rec.buf \in {"junk", "silence", "tone"}
    BY <1>10 DEF RecVerdict, TypeOK
  <2>2. rec.buf = "junk" => spoiled
    BY <1>10, <2>1 DEF RecVerdict
  <2>3. TypeOK'
    BY <1>10 DEF RecVerdict, TypeOK
  <2>4. QED BY <1>10, <2>1, <2>2, <2>3 DEF RecVerdict, TypeOK
<1>11. CASE MicStarts
  <2>1. rec.at = "none" /\ play'["tone"] = "starts"
    BY <1>1, <1>11 DEF MicStarts, TypeOK
  <2>2. TypeOK'
    BY <1>11, <2>1 DEF MicStarts, TypeOK
  <2>3. QED BY <1>11, <2>1, <2>2 DEF MicStarts
<1>12. CASE MicRecords
  BY <1>12 DEF MicRecords, TypeOK
<1>13. CASE MicJoinsTone
  <2>1. TypeOK'
    BY <1>13 DEF MicJoinsTone, TypeOK
  <2>2. QED BY <1>13, <2>1 DEF MicJoinsTone
<1>14. CASE MicJoinsRec
  <2>1. play'["tone"] = play["tone"]
    BY <1>1, <1>14 DEF MicJoinsRec
  <2>2. TypeOK'
    BY <1>14 DEF MicJoinsRec, NoRecorder, TypeOK
  <2>3. QED BY <1>14, <2>1, <2>2 DEF MicJoinsRec, NoRecorder
<1>15. CASE MicJoinsWord
  BY <1>15 DEF MicJoinsWord, TypeOK
<1>16. CASE OffBegins \/ OffJoins \/ OffResets
  <2>1. UNCHANGED <<sinOver, play, rec, testOK, mic, spoiled>>
    BY <1>16 DEF OffBegins, OffJoins, OffResets
  <2>2. loop' \in BOOLEAN /\ stop' \in BOOLEAN /\ off' \in {"idle", "join", "reset"}
    <3>1. CASE OffBegins
      BY <3>1 DEF OffBegins
    <3>2. CASE OffJoins
      BY <1>1, <3>2 DEF OffJoins, TypeOK
    <3>3. CASE OffResets
      BY <3>3 DEF OffResets
    <3>4. QED BY <1>16, <3>1, <3>2, <3>3
  <2>3. QED BY <2>1, <2>2 DEF TypeOK
<1>17. QED
  BY <1>2, <1>3, <1>4, <1>5, <1>6, <1>7, <1>8, <1>9, <1>10, <1>11, <1>12, <1>13, <1>14, <1>15,
     <1>16 DEF Next, Main, Button, RecThread, PlayThread

LEMMA SoundInvariant == Spec => []SoundInv
BY SoundInit, SoundStep, PTL DEF Spec

\* The threads keep the types, and there is a recorder only while TEST_SPK_MIC waits for it.
THEOREM TypeCorrect == Spec => []TypeOK
<1>1. SoundInv => TypeOK
  BY DEF SoundInv
<1>2. QED BY <1>1, SoundInvariant, PTL

\* The verdict of a speaker and microphone test is about its own recording of its own tone,
\* or something went wrong that the test could have noted.
THEOREM VerdictHolds == Spec => []VerdictIsOnTone
<1>1. SoundInv => VerdictIsOnTone
  BY DEF SoundInv, ToneInv
<1>2. QED BY <1>1, SoundInvariant, PTL
===============================================================================
