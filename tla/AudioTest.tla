------------------------------- MODULE AudioTest -------------------------------
(* The sound tests of the device, device-testsw-source-code/src/appMicSn.c: the   *)
(* music of the full test (TEST_PLAY_MUSIC) and the speaker and microphone test   *)
(* (TEST_SPK_MIC), which plays a tone of 1 kHz in one thread, records in another, *)
(* and plays a word for its verdict. All the threads that play share g_play_loop  *)
(* and g_play_stop; the one that records leaves its verdict in g_TestOK.          *)
(*                                                                                *)
(* Threads are always created. A recording is abstracted to what was played when  *)
(* it was taken, and the verdict to the recording it is about: Is1Khz may say     *)
(* either, as it reads 2048 bytes of the recording's 1025.                        *)
EXTENDS Naturals

Players == {"music", "tone", "word"}   \* startrecord, sin1khz, testOK or testFail

VARIABLES
    loop,          \* g_play_loop
    stop,          \* g_play_stop
    sinOver,       \* g_PlaySinOver
    play,          \* the playing threads; "ended" until they are joined, and after
    rec,           \* the recording thread, and what its buffer holds
    testOK,        \* the recording that g_TestOK is about, "old" if an earlier test's
    mic,           \* what TEST_SPK_MIC, in the main thread, does next
    off,           \* what TEST_PLAY_MUSIC(0, 0), in the button thread, does next
    spoiled        \* something went wrong in the current sound test (history)

vars == <<loop, stop, sinOver, play, rec, testOK, mic, off, spoiled>>

NoRecorder == [at |-> "none", buf |-> "junk"]

\* In the stage "all", main has started the music before it creates any other thread.
Init ==
    /\ loop \in BOOLEAN /\ stop = FALSE /\ sinOver = FALSE
    /\ play = [p \in Players |-> IF loop /\ p = "music" THEN "starts" ELSE "none"]
    /\ rec = NoRecorder
    /\ testOK = "old" /\ mic = "idle" /\ off = "idle" /\ spoiled = FALSE

-----------------------------------------------------------------------------
(* IMP_Audio_Play_Thread                                                         *)

PlaySetup(p) ==
    /\ play[p] = "starts" /\ play' = [play EXCEPT ![p] = "plays"]
    /\ UNCHANGED <<loop, stop, sinOver, rec, testOK, mic, off, spoiled>>

\* A call of the audio library, or the file, fails.
PlayFails(p) ==
    /\ play[p] \in {"starts", "plays"} /\ play' = [play EXCEPT ![p] = "ended"]
    /\ spoiled' = (spoiled \/ p = "tone")
    /\ UNCHANGED <<loop, stop, sinOver, rec, testOK, mic, off>>

\* The thread sees g_play_stop.
PlayStops(p) ==
    /\ play[p] = "plays" /\ stop /\ play' = [play EXCEPT ![p] = "ended"]
    /\ spoiled' = (spoiled \/ p = "tone")
    /\ UNCHANGED <<loop, stop, sinOver, rec, testOK, mic, off>>

\* The end of the file. While g_play_loop is set, the file is played again.
PlayEnds(p) ==
    /\ play[p] = "plays" /\ ~loop /\ play' = [play EXCEPT ![p] = "ended"]
    /\ spoiled' = (spoiled \/ (p = "tone" /\ rec.at # "ended" /\ rec.buf = "junk"))
    /\ UNCHANGED <<loop, stop, sinOver, rec, testOK, mic, off>>

PlayThread(p) == PlaySetup(p) \/ PlayStops(p) \/ PlayEnds(p)

-----------------------------------------------------------------------------
(* IMP_Audio_Record_Ref_Thread                                                   *)

RecSetup ==
    /\ rec.at = "starts" /\ rec' = [rec EXCEPT !.at = "records"]
    /\ UNCHANGED <<loop, stop, sinOver, play, testOK, mic, off, spoiled>>

\* A call of the audio library fails: the thread returns, and g_TestOK stays as it is.
RecFails ==
    /\ rec.at \in {"starts", "records"} /\ rec' = [rec EXCEPT !.at = "ended"]
    /\ spoiled' = TRUE
    /\ UNCHANGED <<loop, stop, sinOver, play, testOK, mic, off>>

\* The one frame, after the first 16 kByte, that fills the buffer.
RecSamples ==
    /\ rec.at = "records" /\ rec.buf = "junk"
    /\ rec' = [rec EXCEPT !.buf = IF play["tone"] = "plays" THEN "tone" ELSE "silence"]
    /\ spoiled' = (spoiled \/ play["tone"] = "starts")
    /\ UNCHANGED <<loop, stop, sinOver, play, testOK, mic, off>>

\* The tone is over, or REF_AUDIO_RECORD_NUM frames, more than fill the buffer, were taken.
RecVerdict ==
    /\ rec.at = "records" /\ (sinOver \/ rec.buf # "junk")
    /\ testOK' = rec.buf /\ rec' = [rec EXCEPT !.at = "ended"]
    /\ UNCHANGED <<loop, stop, sinOver, play, mic, off, spoiled>>

RecThread == RecSetup \/ RecSamples \/ RecVerdict

-----------------------------------------------------------------------------
(* TEST_SPK_MIC                                                                  *)

\* A restriction on who asks, which the code does not enforce: the SMT and the SN station
\* send testSpkMic, to devices in their stages, and main starts the music in the stage of
\* the full station alone, which never sends it. With the music on, g_play_loop would
\* repeat the tone, and the test last, until the button is pressed.
StageWithoutMusic == play["music"] = "none"

\* Mutant: g_PlaySinOver is not reset, and ends the recording of the next test.
MutMicStarts ==
    /\ mic = "idle" /\ StageWithoutMusic
    /\ mic' = "create" /\ play' = [play EXCEPT !["tone"] = "starts"]
    /\ testOK' = "old" /\ spoiled' = FALSE
    /\ UNCHANGED <<loop, stop, sinOver, rec, off>>

MicStarts ==
    /\ mic = "idle" /\ StageWithoutMusic
    /\ mic' = "create" /\ sinOver' = FALSE
    /\ play' = [play EXCEPT !["tone"] = "starts"]
    /\ testOK' = "old" /\ spoiled' = FALSE
    /\ UNCHANGED <<loop, stop, rec, off>>

MicRecords ==
    /\ mic = "create" /\ mic' = "tone" /\ rec' = [at |-> "starts", buf |-> "junk"]
    /\ UNCHANGED <<loop, stop, sinOver, play, testOK, off, spoiled>>

\* Mutant: the test returns with its tone, and leaves its recorder alone.
MutMicJoinsTone ==
    /\ mic = "tone" /\ play["tone"] = "ended" /\ mic' = "idle" /\ sinOver' = TRUE
    /\ UNCHANGED <<loop, stop, play, rec, testOK, off, spoiled>>

MicJoinsTone ==
    /\ mic = "tone" /\ play["tone"] = "ended" /\ mic' = "rec" /\ sinOver' = TRUE
    /\ UNCHANGED <<loop, stop, play, rec, testOK, off, spoiled>>

\* rtMic is what g_TestOK says, and so is the word.
MicJoinsRec ==
    /\ mic = "rec" /\ rec.at = "ended" /\ mic' = "word"
    /\ play' = [play EXCEPT !["word"] = "starts"] /\ rec' = NoRecorder
    /\ UNCHANGED <<loop, stop, sinOver, testOK, off, spoiled>>

MicJoinsWord ==
    /\ mic = "word" /\ play["word"] = "ended" /\ mic' = "idle"
    /\ UNCHANGED <<loop, stop, sinOver, play, rec, testOK, off, spoiled>>

-----------------------------------------------------------------------------
(* TEST_PLAY_MUSIC(0, 0)                                                         *)

\* Mutant: the thread is waited for before it is told to stop.
MutOffBegins ==
    /\ off = "idle"
    /\ off' = (IF play["music"] = "none" THEN "reset" ELSE "join")
    /\ UNCHANGED <<loop, stop, sinOver, play, rec, testOK, mic, spoiled>>

\* The button was found pressed three times in a row. Once the music was started,
\* g_tid_play is never reset.
OffBegins ==
    /\ off = "idle" /\ stop' = TRUE /\ loop' = FALSE
    /\ off' = (IF play["music"] = "none" THEN "reset" ELSE "join")
    /\ UNCHANGED <<sinOver, play, rec, testOK, mic, spoiled>>

OffJoins ==
    /\ off = "join" /\ play["music"] = "ended" /\ off' = "reset"
    /\ UNCHANGED <<loop, stop, sinOver, play, rec, testOK, mic, spoiled>>

OffResets ==
    /\ off = "reset" /\ loop' = FALSE /\ stop' = FALSE /\ off' = "idle"
    /\ UNCHANGED <<sinOver, play, rec, testOK, mic, spoiled>>

-----------------------------------------------------------------------------
Main   == MicRecords \/ MicJoinsTone \/ MicJoinsRec \/ MicJoinsWord
Button == OffJoins \/ OffResets

Next == \/ MicStarts \/ Main \/ OffBegins \/ Button \/ RecThread \/ RecFails
        \/ \E p \in Players : PlayThread(p) \/ PlayFails(p)

Spec == Init /\ [][Next]_vars

\* Every thread is scheduled, and the files come to an end; no call has to fail.
FairSpec ==
    /\ Spec /\ WF_vars(Main) /\ WF_vars(Button) /\ WF_vars(RecThread)
    /\ \A p \in Players : WF_vars(PlayThread(p))

-----------------------------------------------------------------------------
(* Properties                                                                    *)

\* The type invariant.
TypeOK ==
    /\ loop \in BOOLEAN /\ stop \in BOOLEAN /\ sinOver \in BOOLEAN
    /\ play \in [Players -> {"none", "starts", "plays", "ended"}]
    /\ rec \in [at : {"none", "starts", "records", "ended"},
                buf : {"junk", "silence", "tone"}]
    /\ rec.at # "none" => mic \in {"tone", "rec"}
    /\ testOK \in {"old", "junk", "silence", "tone"} /\ spoiled \in BOOLEAN
    /\ mic \in {"idle", "create", "tone", "rec", "word"}
    /\ off \in {"idle", "join", "reset"}

\* The verdict of a speaker and microphone test is about a recording that this test made of
\* its tone, unless a call of the audio library failed, the button thread stopped the tone,
\* or the recording was not taken while the tone played. (g_TestOK, g_PlaySinOver and
\* g_play_stop are shared by five threads, and never locked.)
VerdictIsOnTone == mic = "word" => testOK = "tone" \/ spoiled

\* A microphone test ends, and so does the button thread's wait for the music, although the
\* threads they wait for are stopped by flags that other threads set and reset.
WaitsEnd == (mic # "idle" ~> mic = "idle") /\ (off # "idle" ~> off = "idle")
=============================================================================
