--------------------------- MODULE PlaybackProof ---------------------------
(***************************************************************************)
(* The frame counter, which paces picture and sound, stays in step with    *)
(* the packets of the file, and no picture is rendered without the row     *)
(* guard, for every file, seek target and limit.                           *)
(***************************************************************************)
EXTENDS Playback, TLAPS

\* Packets consumed and not yet counted: a picture that waits to be presented
\* and a result that waits to be collected.
Waiting == IF pending = None THEN 0 ELSE 1
Held    == IF result.status \in {"ok", "skipped"} THEN 1 ELSE 0

\* Where the loop is tells what it has asked for and what it holds.
LoopInv ==
  /\ main = "loop" => job = "none"
  /\ main = "present" => pending # None /\ (pipelined <=> job # "none")
  /\ main = "wait" => pending = None /\ job # "none"
  /\ ~pipelined /\ main = "loop" => pending = None
  /\ ~open => main = "loop" /\ pending = None
  /\ main # "wait" => drew
  /\ job = "none" => result = NoResult
  /\ result.status = "ok" => result.picture # None
  /\ result.status = "skipped" => job = "catchup"

\* Every packet consumed is counted once, unless a display error is about to
\* close the file.
CountInv == open /\ drew => decoded + Waiting + Held = pos

\* A fast-forward has its target ahead and never meets catch-up; the guard is
\* down exactly for the pictures it passes over.
SeekInv ==
  /\ seek => target > 0 /\ ~waiting /\ job # "catchup"
  /\ open /\ seek => decoded < target
  /\ pipelined /\ main = "present" => (guarded <=> ~seek)

\* What keeps the counters of lateness and of discarded audio in range.
LimitInv ==
  /\ ~waiting => lates < LateFrames
  /\ consumed <= discarded

IInv == TypeOK /\ LoopInv /\ CountInv /\ SeekInv /\ LimitInv

-----------------------------------------------------------------------------
(* Steps that several actions share.                                       *)

\* The types of the constants.
LEMMA ConstantTypes ==
  /\ Frames \in Nat \ {0} /\ LateFrames \in Nat \ {0}
  /\ SdFailures \in Nat \ {0} /\ Targets \subseteq Nat
  /\ None \notin Picture /\ NoResult.status = "none"
  /\ NoResult.picture = None
<1>1. None \notin Picture  BY SMT DEF None, Picture
<1>2. NoResult.status = "none" /\ NoResult.picture = None  BY DEF NoResult
<1>3. QED  BY <1>1, <1>2, PlaybackAssumption

\* The build does not change while it runs.
LEMMA BuildKept == IInv /\ pipelined' = pipelined => pipelined' \in BOOLEAN
  BY DEF IInv, TypeOK

\* openVideo and closeVideo lead back to a consistent loop, whatever was going
\* on, as long as a fast-forward that goes on has a target ahead.
LEMMA ResetStep ==
  ASSUME IInv, pipelined' = pipelined,
         Opened \/ (Closed /\ UNCHANGED decoded), main' = "loop",
         mounted' \in BOOLEAN, browser' \in BOOLEAN, session' \in BOOLEAN,
         failures' \in 0 .. SdFailures - 1,
         seek' \in BOOLEAN, target' \in Targets \cup {0},
         discarded' \in 0 .. Frames, seek' => target' > 0
  PROVE  IInv'
<1>1. /\ pending' = None /\ guarded' = FALSE /\ drew' = TRUE
      /\ job' = "none" /\ result' = NoResult /\ pos' = 0 /\ reference' = 0
      /\ waiting' = FALSE /\ lates' = 0 /\ audio' \in BOOLEAN /\ consumed' = 0
      /\ open' \in BOOLEAN /\ decoded' \in 0 .. Frames
      /\ open' => decoded' = 0
  <2>1. CASE Closed /\ UNCHANGED decoded
    BY <2>1 DEF Closed, IInv, TypeOK
  <2>2. CASE Opened /\ ~(Closed /\ UNCHANGED decoded)
    <3>1. 0 \in 0 .. Frames  BY ConstantTypes
    <3>2. QED  BY <2>2, <3>1, Zenon DEF Opened
  <2>3. QED  BY <2>1, <2>2
<1>2. NoResult \in [status : {"none", "ok", "skipped", "eof", "io", "bad"},
                    picture : Picture \cup {None}]
  BY DEF NoResult
<1>3. TypeOK'
  <2>1. 0 \in 0 .. Frames /\ 0 \in 0 .. LateFrames  BY ConstantTypes
  <2>2. QED  BY <1>1, <1>2, <2>1, BuildKept, Zenon DEF TypeOK
<1>4. LoopInv'  BY <1>1, ConstantTypes DEF LoopInv
<1>5. CountInv'  BY <1>1, ConstantTypes DEF CountInv, Waiting, Held
<1>6. SeekInv'  BY <1>1, ConstantTypes DEF SeekInv
<1>7. LimitInv'  BY <1>1, ConstantTypes DEF LimitInv
<1>8. QED  BY <1>3, <1>4, <1>5, <1>6, <1>7 DEF IInv

-----------------------------------------------------------------------------
LEMMA IInvInit == Init => IInv
<1> SUFFICES ASSUME Init PROVE IInv  OBVIOUS
<1>1. TypeOK
  <2>1. /\ 0 \in 0 .. Frames /\ 0 \in 0 .. LateFrames
        /\ 0 \in 0 .. SdFailures - 1
    BY ConstantTypes
  <2>2. NoResult \in [status : {"none", "ok", "skipped", "eof", "io", "bad"},
                      picture : Picture \cup {None}]
    BY DEF NoResult
  <2>3. QED  BY <2>1, <2>2, Zenon DEF Init, TypeOK
<1>2. LoopInv  BY ConstantTypes DEF Init, LoopInv
<1>3. CountInv  BY DEF Init, CountInv
<1>4. SeekInv  BY DEF Init, SeekInv
<1>5. LimitInv  BY ConstantTypes DEF Init, LimitInv
<1>6. QED  BY <1>1, <1>2, <1>3, <1>4, <1>5 DEF IInv

LEMMA SubmitDecodeStep ==
  IInv /\ pipelined' = pipelined /\ SubmitDecode => IInv'
<1> SUFFICES ASSUME IInv, pipelined' = pipelined, SubmitDecode
             PROVE IInv'  OBVIOUS
<1> USE DEF SubmitDecode, clockVars, seekVars
<1>1. TypeOK'  BY DEF IInv, TypeOK
<1>2. LoopInv'  BY ConstantTypes DEF IInv, TypeOK, LoopInv
<1>3. CountInv'  BY ConstantTypes DEF IInv, LoopInv, CountInv, Waiting, Held
<1>4. SeekInv'  BY ConstantTypes DEF IInv, TypeOK, SeekInv
<1>5. LimitInv'  BY DEF IInv, LimitInv
<1>6. QED  BY <1>1, <1>2, <1>3, <1>4, <1>5 DEF IInv

LEMMA DecodeStep ==
  IInv /\ pipelined' = pipelined /\ Decode => IInv'
<1> SUFFICES ASSUME IInv, pipelined' = pipelined, Decode
             PROVE IInv'  OBVIOUS
<1> USE DEF Decode, loopVars, frameVars, clockVars, seekVars
<1>1. /\ job # "none" /\ result = NoResult
      /\ \/ /\ result'.status \in {"eof", "io", "bad"} /\ result'.picture = None
            /\ UNCHANGED <<pos, reference>>
         \/ /\ pos < Frames /\ pos' = pos + 1
            /\ \/ /\ job = "catchup" /\ result'.status = "skipped"
                  /\ result'.picture = None /\ UNCHANGED reference
               \/ /\ result'.status = "ok" /\ reference' = pos'
                  /\ result'.picture = [n |-> pos', base |-> reference]
      /\ result' = [status |-> result'.status, picture |-> result'.picture]
  BY DEF Answer
<1>2. result'.status = "ok" => result'.picture \in Picture
  BY <1>1, ConstantTypes DEF IInv, TypeOK, Picture
<1>3. TypeOK'
  <2>1. result' \in [status : {"none", "ok", "skipped", "eof", "io", "bad"},
                     picture : Picture \cup {None}]
    BY <1>1, <1>2
  <2>2. pos' \in 0 .. Frames /\ reference' \in 0 .. Frames
    BY <1>1, ConstantTypes DEF IInv, TypeOK
  <2>3. QED  BY <2>1, <2>2 DEF IInv, TypeOK
<1>4. LoopInv'
  BY <1>1, <1>2, ConstantTypes DEF IInv, LoopInv
<1>5. CountInv'
  BY <1>1, ConstantTypes DEF IInv, TypeOK, CountInv, Waiting, Held
<1>6. SeekInv'  BY DEF IInv, SeekInv
<1>7. LimitInv'  BY DEF IInv, LimitInv
<1>8. QED  BY <1>3, <1>4, <1>5, <1>6, <1>7 DEF IInv

\* What a presentation makes of the loop and of the counter, with a fast-forward
\* or without.
LEMMA PresentedCount ==
  ASSUME IInv, pipelined' = pipelined,
         main = "present", Presented
  PROVE  /\ LoopInv' /\ CountInv'
         /\ open /\ decoded' \in 0 .. Frames /\ decoded' = decoded + 1
<1> USE DEF Presented, jobVars
<1>1. open /\ drew /\ pending # None  BY DEF IInv, LoopInv
<1>2. /\ decoded \in Nat /\ pos \in 0 .. Frames /\ Held \in {0, 1}
      /\ decoded + 1 + Held = pos
  BY <1>1, ConstantTypes DEF IInv, TypeOK, CountInv, Waiting, Held
<1>3. decoded' \in 0 .. Frames  BY <1>2, ConstantTypes
<1>4. LoopInv'  BY ConstantTypes, <1>1 DEF IInv, TypeOK, LoopInv
<1>5. CountInv'  BY <1>2 DEF CountInv, Waiting, Held
<1>6. QED  BY <1>1, <1>3, <1>4, <1>5

LEMMA PresentSeekingStep ==
  IInv /\ pipelined' = pipelined /\ PresentSeeking => IInv'
<1> SUFFICES ASSUME IInv, pipelined' = pipelined, PresentSeeking
             PROVE IInv'  OBVIOUS
<1>0. pipelined' \in BOOLEAN  BY BuildKept
<1>1. /\ LoopInv' /\ CountInv' /\ open
      /\ decoded' \in 0 .. Frames /\ decoded' = decoded + 1
  BY PresentedCount DEF PresentSeeking
<1>2. /\ seek /\ main = "present" /\ Presented /\ target' = target
      /\ waiting' = waiting /\ seek' = (decoded' < target)
  BY DEF PresentSeeking, Seeking
<1>3. discarded' \in 0 .. Frames /\ consumed' \in 0 .. Frames
      /\ consumed' <= discarded'
  <2>1. /\ discarded \in 0 .. Frames /\ consumed \in 0 .. Frames
        /\ consumed <= discarded
    BY DEF IInv, TypeOK, LimitInv
  <2>2. \/ /\ discarded < decoded' /\ discarded' = decoded'
           /\ consumed' = consumed + decoded' - discarded
        \/ UNCHANGED <<discarded, consumed>>
    BY DEF PresentSeeking
  <2>3. QED  BY <1>1, <2>1, <2>2, ConstantTypes
<1>4. audio' \in BOOLEAN /\ lates' \in {0, lates}
  BY DEF PresentSeeking, IInv, TypeOK
<1>5. TypeOK'
  <2>1. lates' \in 0 .. LateFrames  BY <1>4, ConstantTypes DEF IInv, TypeOK
  <2>2. /\ failures' \in 0 .. SdFailures - 1
        /\ main' \in {"loop", "present", "wait"}
    BY <1>2, ConstantTypes DEF Presented
  <2>3. seek' \in BOOLEAN  BY <1>2
  <2>4. QED
    BY <1>1, <1>2, <1>3, <1>4, <2>1, <2>2, <2>3, <1>0, ZenonT(60)
    DEF IInv, TypeOK, Presented, jobVars
<1>6. SeekInv'
  BY <1>1, <1>2, ConstantTypes DEF Presented, jobVars, IInv, TypeOK, SeekInv
<1>7. LimitInv'
  BY <1>2, <1>3, <1>4, ConstantTypes DEF IInv, TypeOK, LimitInv
<1>8. QED  BY <1>1, <1>5, <1>6, <1>7 DEF IInv

\* The catch-up filter keeps its count below the limit until it is reached.
LEMMA PacedLates ==
  ASSUME IInv, pipelined' = pipelined,
         PaceFrame
  PROVE  /\ waiting' \in BOOLEAN /\ audio' \in BOOLEAN
         /\ lates' \in 0 .. LateFrames /\ (~waiting' => lates' < LateFrames)
<1>1. PICK late \in BOOLEAN, fallback \in BOOLEAN :
        /\ audio' = (audio /\ ~fallback)
        /\ applyKeyframeCatchup(pending.n \in KeyFrames, late,
                                IF fallback THEN 0 ELSE lates)
  BY DEF PaceFrame
<1>2. audio' \in BOOLEAN  BY <1>1
<1> DEFINE count == IF fallback THEN 0 ELSE lates
           key   == pending.n \in KeyFrames
<1>3. /\ count \in 0 .. LateFrames /\ (~waiting => count < LateFrames)
  BY ConstantTypes DEF IInv, TypeOK, LimitInv
<1>4. CASE waiting
  <2>1. waiting' = ~key /\ lates' = IF key THEN 0 ELSE count
    BY <1>1, <1>4 DEF applyKeyframeCatchup
  <2>2. waiting' \in BOOLEAN  BY <2>1
  <2>3. lates' \in 0 .. LateFrames  BY <1>3, <2>1, ConstantTypes
  <2>4. CASE key
    <3>1. lates' = 0  BY <2>1, <2>4
    <3>2. QED  BY <1>2, <2>2, <2>3, <3>1, ConstantTypes
  <2>5. CASE ~key
    <3>1. waiting' = TRUE  BY <2>1, <2>5, Zenon
    <3>2. QED  BY <1>2, <2>2, <2>3, <3>1
  <2>6. QED  BY <2>4, <2>5
<1>5. CASE ~waiting
  <2>1. /\ lates' = IF late /\ ~key THEN count + 1 ELSE 0
        /\ waiting' = (lates' >= LateFrames)
    BY <1>1, <1>5 DEF applyKeyframeCatchup
  <2>2. waiting' \in BOOLEAN /\ (waiting' <=> lates' >= LateFrames)
    <3>1. waiting' \in BOOLEAN  BY <2>1
    <3>2. waiting' <=> lates' >= LateFrames  BY <2>1, Zenon
    <3>3. QED  BY <3>1, <3>2
  <2>3. count \in Nat /\ count < LateFrames  BY <1>3, <1>5, ConstantTypes
  <2>4. lates' \in 0 .. LateFrames  BY <2>1, <2>3, ConstantTypes
  <2>5. ~waiting' => lates' < LateFrames  BY <2>2, <2>4, ConstantTypes
  <2>6. QED  BY <1>2, <2>2, <2>4, <2>5
<1>6. QED  BY <1>4, <1>5

LEMMA PresentFrameStep ==
  IInv /\ pipelined' = pipelined /\ PresentFrame => IInv'
<1> SUFFICES ASSUME IInv, pipelined' = pipelined, PresentFrame
             PROVE IInv'  OBVIOUS
<1>0. pipelined' \in BOOLEAN  BY BuildKept
<1>1. /\ LoopInv' /\ CountInv' /\ open
      /\ decoded' \in 0 .. Frames /\ decoded' = decoded + 1
  BY PresentedCount DEF PresentFrame
<1>2. /\ main = "present" /\ Presented /\ ~Seeking /\ UNCHANGED seekVars
  BY DEF PresentFrame
<1>3. /\ waiting' \in BOOLEAN /\ audio' \in BOOLEAN
      /\ lates' \in 0 .. LateFrames /\ (~waiting' => lates' < LateFrames)
  BY PacedLates DEF PresentFrame
<1>4. ~seek  BY <1>1, <1>2 DEF IInv, SeekInv, Seeking
<1>5. TypeOK'
  <2>1. /\ failures' \in 0 .. SdFailures - 1
        /\ main' \in {"loop", "present", "wait"}
    BY <1>2, ConstantTypes DEF Presented
  <2>2. QED
    BY <1>1, <1>2, <1>3, <2>1, <1>0, ZenonT(60)
    DEF IInv, TypeOK, Presented, jobVars, seekVars
<1>6. SeekInv'
  BY <1>2, <1>4 DEF Presented, seekVars, SeekInv
<1>7. LimitInv'  BY <1>2, <1>3 DEF seekVars, IInv, LimitInv
<1>8. QED  BY <1>1, <1>5, <1>6, <1>7 DEF IInv

LEMMA DisplayErrorStep ==
  IInv /\ pipelined' = pipelined /\ DisplayError => IInv'
<1> SUFFICES ASSUME IInv, pipelined' = pipelined, DisplayError
             PROVE IInv'  OBVIOUS
<1>0. pipelined' \in BOOLEAN  BY BuildKept
<1>1. /\ main = "present" /\ ~Seeking
      /\ UNCHANGED <<mounted, browser, session, seek, target, discarded,
                     failures>>
  BY DEF DisplayError
<1>2. CASE ~pipelined
  <2>1. main' = "loop" /\ Closed /\ UNCHANGED decoded
    BY <1>2 DEF DisplayError
  <2>2. QED  BY <1>1, <2>1, ResetStep DEF IInv, TypeOK, SeekInv
<1>3. CASE pipelined
  <2>1. /\ PaceFrame /\ drew' = FALSE /\ main' = "wait"
        /\ pending' = None /\ guarded' = FALSE
        /\ UNCHANGED <<open, job, result, pos, reference, consumed, decoded>>
    BY <1>3 DEF DisplayError, jobVars
  <2>2. /\ waiting' \in BOOLEAN /\ audio' \in BOOLEAN
        /\ lates' \in 0 .. LateFrames /\ (~waiting' => lates' < LateFrames)
    BY <2>1, PacedLates
  <2>3. open /\ job # "none"  BY <1>1, <1>3 DEF IInv, LoopInv
  <2>4. ~seek  BY <1>1, <2>3 DEF IInv, SeekInv, Seeking
  <2>5. TypeOK'  BY <1>1, <2>1, <2>2, <1>0, ZenonT(60) DEF IInv, TypeOK
  <2>6. LoopInv'  BY <2>1, <2>3 DEF IInv, LoopInv
  <2>7. CountInv'  BY <2>1 DEF CountInv
  <2>8. SeekInv'  BY <1>1, <2>1, <2>4 DEF SeekInv
  <2>9. LimitInv'  BY <1>1, <2>1, <2>2 DEF IInv, LimitInv
  <2>10. QED  BY <2>5, <2>6, <2>7, <2>8, <2>9 DEF IInv
<1>4. QED  BY <1>2, <1>3

\* The end of the file leads back to its start, a fast-forward over.
LEMMA VideoLoopStep ==
  ASSUME IInv, pipelined' = pipelined,
         finishVideoLoop, UNCHANGED <<browser, session>>
  PROVE  IInv'
BY ResetStep DEF finishVideoLoop, IInv, TypeOK

\* A read error closes the file and keeps the count of errors below its limit.
LEMMA ReadErrorStep ==
  ASSUME IInv, pipelined' = pipelined,
         failSdCardRead, Closed, main' = "loop",
         UNCHANGED <<browser, session, decoded, seek, target, discarded>>
  PROVE  IInv'
<1>1. failures' \in 0 .. SdFailures - 1
  BY ConstantTypes DEF failSdCardRead, IInv, TypeOK
<1>2. mounted' \in BOOLEAN
  BY Zenon DEF failSdCardRead, IInv, TypeOK
<1>3. QED  BY <1>1, <1>2, ResetStep DEF IInv, TypeOK, SeekInv

\* A skipped packet is counted where it is dropped; no fast-forward is under
\* way, because the filter is off then.
LEMMA SkipStep ==
  ASSUME IInv, pipelined' = pipelined,
         main = "wait", drew, result.status = "skipped",
         finishCompressedPredictiveSkip, UNCHANGED <<browser, session>>
  PROVE  IInv'
<1> USE DEF finishCompressedPredictiveSkip, frameVars, seekVars
<1>1. open /\ pending = None /\ ~seek
  BY DEF IInv, LoopInv, SeekInv
<1>2. /\ decoded \in Nat /\ pos \in 0 .. Frames /\ decoded + 1 = pos
  BY <1>1, ConstantTypes DEF IInv, TypeOK, CountInv, Waiting, Held
<1>3. /\ decoded' \in 0 .. Frames /\ failures' \in 0 .. SdFailures - 1
      /\ NoResult \in [status : {"none", "ok", "skipped", "eof", "io", "bad"},
                       picture : Picture \cup {None}]
  BY <1>2, ConstantTypes DEF NoResult
<1>4. TypeOK'  BY <1>3 DEF IInv, TypeOK
<1>5. LoopInv'  BY <1>1, ConstantTypes DEF LoopInv
<1>6. CountInv'  BY <1>1, <1>2, ConstantTypes DEF CountInv, Waiting, Held
<1>7. SeekInv'  BY <1>1 DEF SeekInv
<1>8. LimitInv'  BY DEF IInv, LimitInv
<1>9. QED  BY <1>4, <1>5, <1>6, <1>7, <1>8 DEF IInv

\* An intact picture is kept for the next iteration, or presented at once.
LEMMA KeepStep ==
  ASSUME IInv, pipelined' = pipelined,
         main = "wait", drew, result.status = "ok",
         pending' = result.picture, guarded' = FALSE,
         main' = IF pipelined THEN "loop" ELSE "present",
         job' = "none", result' = NoResult,
         UNCHANGED <<mounted, browser, session, open, drew, pos, reference,
                     clockVars, seekVars, failures>>
  PROVE  IInv'
<1> USE DEF clockVars, seekVars
<1>0. pipelined' \in BOOLEAN  BY BuildKept
<1>1. /\ open /\ pending = None /\ result.picture # None
      /\ result.picture \in Picture \cup {None}
  BY DEF IInv, TypeOK, LoopInv
<1>2. /\ main' \in {"loop", "present", "wait"}
      /\ NoResult \in [status : {"none", "ok", "skipped", "eof", "io", "bad"},
                       picture : Picture \cup {None}]
  BY DEF NoResult
<1>3. TypeOK'  BY <1>1, <1>2, <1>0, Zenon DEF IInv, TypeOK
<1>4. LoopInv'  BY <1>1, ConstantTypes DEF IInv, TypeOK, LoopInv
<1>5. CountInv'
  <2>1. Waiting = 0 /\ Held = 1  BY <1>1 DEF Waiting, Held
  <2>2. Waiting' = 1 /\ Held' = 0  BY <1>1, ConstantTypes DEF Waiting, Held
  <2>3. decoded \in Nat  BY DEF IInv, TypeOK
  <2>4. QED  BY <2>1, <2>2, <2>3 DEF IInv, CountInv
<1>6. SeekInv'  BY ConstantTypes DEF IInv, SeekInv
<1>7. LimitInv'  BY DEF IInv, LimitInv
<1>8. QED  BY <1>3, <1>4, <1>5, <1>6, <1>7 DEF IInv

LEMMA WaitDecodeStep ==
  IInv /\ pipelined' = pipelined /\ WaitDecode => IInv'
<1> SUFFICES ASSUME IInv, pipelined' = pipelined, WaitDecode
             PROVE IInv'  OBVIOUS
<1>1. main = "wait" /\ UNCHANGED <<browser, session>>  BY DEF WaitDecode
<1>2. CASE /\ drew /\ result.status = "ok"
           /\ pending' = result.picture /\ guarded' = FALSE
           /\ main' = IF pipelined THEN "loop" ELSE "present"
           /\ job' = "none" /\ result' = NoResult
           /\ UNCHANGED <<mounted, open, drew, pos, reference, clockVars,
                          seekVars, failures>>
  BY <1>1, <1>2, KeepStep
<1>3. CASE drew /\ result.status = "skipped" /\ finishCompressedPredictiveSkip
  BY <1>1, <1>3, SkipStep
<1>4. CASE drew /\ result.status = "eof" /\ finishVideoLoop
  BY <1>1, <1>4, VideoLoopStep
<1>5. CASE /\ failSdCardRead /\ Closed /\ main' = "loop"
           /\ UNCHANGED <<decoded, seek, target, discarded>>
  BY <1>1, <1>5, ReadErrorStep
<1>6. CASE /\ Closed /\ main' = "loop"
           /\ UNCHANGED <<mounted, decoded, seek, target, discarded, failures>>
  BY <1>1, <1>6, ResetStep DEF IInv, TypeOK, SeekInv
<1>7. QED  BY <1>2, <1>3, <1>4, <1>5, <1>6 DEF WaitDecode

-----------------------------------------------------------------------------
(* Commands.                                                               *)

\* What closes or opens the file and leaves a fast-forward as it is.
LEMMA ReopenStep ==
  ASSUME IInv, pipelined' = pipelined,
         Opened \/ (Closed /\ UNCHANGED decoded), main' = "loop",
         mounted' \in BOOLEAN, browser' \in BOOLEAN, session' \in BOOLEAN,
         UNCHANGED <<seek, target, discarded, failures>>
  PROVE  IInv'
BY ResetStep DEF IInv, TypeOK, SeekInv

\* What leaves the file alone.
LEMMA IdleStep ==
  ASSUME IInv, pipelined' = pipelined,
         main = "loop", mounted' \in BOOLEAN, browser' \in BOOLEAN,
         session' \in BOOLEAN,
         UNCHANGED <<open, main, frameVars, jobVars, clockVars, seekVars,
                     failures>>
  PROVE  IInv'
<1> USE DEF frameVars, jobVars, clockVars, seekVars
<1>1. TypeOK'  BY DEF IInv, TypeOK
<1>2. LoopInv'  BY DEF IInv, LoopInv
<1>3. CountInv'  BY DEF IInv, CountInv, Waiting, Held
<1>4. SeekInv'  BY DEF IInv, SeekInv
<1>5. LimitInv'  BY DEF IInv, LimitInv
<1>6. QED  BY <1>1, <1>2, <1>3, <1>4, <1>5 DEF IInv

LEMMA SeekCommandStep ==
  ASSUME IInv, pipelined' = pipelined,
         NEW frame \in Targets, SeekCommand(frame)
  PROVE  IInv'
<1>1. /\ main = "loop" /\ main' = "loop" /\ browser' = FALSE
      /\ UNCHANGED <<session, failures>>
  BY DEF SeekCommand
<1>2. CASE /\ mounted' = TRUE /\ Opened
           /\ IF open'
              THEN target' = frame /\ discarded' = 0 /\ seek' = (frame > 0)
              ELSE seek' = FALSE /\ UNCHANGED <<target, discarded>>
  <2>1. /\ seek' \in BOOLEAN /\ target' \in Targets \cup {0}
        /\ seek' => target' > 0
    <3>1. CASE open'
      <4>1. target' = frame /\ seek' = (frame > 0)  BY <1>2, <3>1
      <4>2. seek' \in BOOLEAN /\ (seek' <=> frame > 0)
        <5>1. seek' \in BOOLEAN  BY <4>1
        <5>2. seek' <=> frame > 0  BY <4>1, Zenon
        <5>3. QED  BY <5>1, <5>2
      <4>3. QED  BY <4>1, <4>2
    <3>2. CASE ~open'  BY <1>2, <3>2 DEF IInv, TypeOK
    <3>3. QED  BY <3>1, <3>2
  <2>2. discarded' \in 0 .. Frames  BY <1>2, ConstantTypes DEF IInv, TypeOK
  <2>3. mounted' \in BOOLEAN /\ browser' \in BOOLEAN /\ session' \in BOOLEAN
        /\ failures' \in 0 .. SdFailures - 1
    BY <1>1, <1>2 DEF IInv, TypeOK
  <2>4. QED  BY <1>1, <1>2, <2>1, <2>2, <2>3, ResetStep
<1>3. CASE /\ ~mounted /\ UNCHANGED mounted
           /\ Closed /\ seek' = FALSE
           /\ UNCHANGED <<decoded, target, discarded>>
  BY <1>1, <1>3, ResetStep DEF IInv, TypeOK
<1>4. QED  BY <1>2, <1>3 DEF SeekCommand

LEMMA CommandStep ==
  IInv /\ pipelined' = pipelined /\ Command => IInv'
<1> SUFFICES ASSUME IInv, pipelined' = pipelined, Command
             PROVE IInv'  OBVIOUS
<1> USE DEF IInv, TypeOK
<1>1. CASE SessionCommand  BY <1>1, ReopenStep DEF SessionCommand
<1>2. CASE StopCommand  BY <1>2, ReopenStep DEF StopCommand
<1>3. CASE BaudCommand  BY <1>3, IdleStep DEF BaudCommand
<1>4. CASE MonitorCommand
  <2>1. main = "loop" /\ session' = FALSE /\ UNCHANGED <<mounted, browser,
             main, seek, target, discarded, failures>>
    BY <1>4 DEF MonitorCommand
  <2>2. CASE Opened  BY <2>1, <2>2, ReopenStep
  <2>3. CASE UNCHANGED <<open, frameVars, jobVars, clockVars, consumed>>
    BY <2>1, <2>3, IdleStep DEF seekVars
  <2>4. QED  BY <1>4, <2>2, <2>3 DEF MonitorCommand
<1>5. CASE EnterBrowser  BY <1>5, ReopenStep DEF EnterBrowser
<1>6. CASE SelectFile  BY <1>6, ReopenStep DEF SelectFile
<1>7. CASE RetryOpen  BY <1>7, ReopenStep DEF RetryOpen
<1>8. CASE \E frame \in Targets : SeekCommand(frame)
  BY <1>8, SeekCommandStep
<1>9. QED
  BY <1>1, <1>2, <1>3, <1>4, <1>5, <1>6, <1>7, <1>8 DEF Command

-----------------------------------------------------------------------------
LEMMA IInvStep == IInv /\ [Next]_vars => IInv'
<1> SUFFICES ASSUME IInv, [Next]_vars PROVE IInv'  OBVIOUS
<1>0. pipelined' = pipelined  BY DEF Next, vars
<1>1. CASE SubmitDecode  BY <1>0, <1>1, SubmitDecodeStep
<1>2. CASE PresentSeeking  BY <1>0, <1>2, PresentSeekingStep
<1>3. CASE PresentFrame  BY <1>0, <1>3, PresentFrameStep
<1>4. CASE DisplayError  BY <1>0, <1>4, DisplayErrorStep
<1>5. CASE WaitDecode  BY <1>0, <1>5, WaitDecodeStep
<1>6. CASE Decode  BY <1>0, <1>6, DecodeStep
<1>7. CASE Command  BY <1>0, <1>7, CommandStep
<1>8. CASE UNCHANGED vars
  BY <1>8 DEF vars, loopVars, frameVars, jobVars, clockVars, seekVars, IInv,
              TypeOK, LoopInv, CountInv, Waiting, Held, SeekInv, LimitInv
<1>9. QED
  BY <1>1, <1>2, <1>3, <1>4, <1>5, <1>6, <1>7, <1>8 DEF Next, Play

\* The counters and flags of the main loop belong together in every reachable
\* state: this is what keeps the clock right across every early return.
THEOREM Inductive == Spec => []IInv
<1>1. Init => IInv  BY IInvInit
<1>2. IInv /\ [Next]_vars => IInv'  BY IInvStep
<1>3. QED  BY <1>1, <1>2, PTL DEF Spec

\* The variables of the main loop keep their types: the count of late pictures
\* stays within its limit, and what a seek discards within the file.
THEOREM TypeCorrect == Spec => []TypeOK
<1>1. IInv => TypeOK  BY DEF IInv
<1>2. QED  BY <1>1, Inductive, PTL

\* Every packet of the file is counted once by the counter that drives the
\* presentation clock, whatever is skipped, sought, closed or fails
\* (decoded_frames in hlv_player.c).
THEOREM TimelineKept == Spec => []TimelineExact
<1>1. IInv => TimelineExact
  <2> SUFFICES ASSUME IInv, open, main = "loop"
               PROVE  decoded + (IF pending = None THEN 0 ELSE 1) = pos
    BY DEF TimelineExact
  <2>1. drew /\ result.status = "none"
    BY ConstantTypes DEF IInv, LoopInv
  <2>2. Held = 0  BY <2>1 DEF Held
  <2>3. decoded + Waiting = pos /\ decoded \in Nat
    BY <2>1, <2>2 DEF IInv, TypeOK, CountInv, Waiting
  <2>4. QED  BY <2>3 DEF Waiting
<1>2. QED  BY <1>1, Inductive, PTL

\* No picture is drawn without the row guard and none keeps it up for nothing;
\* a fast-forward never meets the catch-up filter (playOneFramepipelined and
\* beginPresentation in hlv_player.c).
THEOREM RenderingGuarded == Spec => []SeekRendersGuarded
<1>1. IInv => SeekRendersGuarded
  <2> SUFFICES ASSUME IInv PROVE SeekRendersGuarded  OBVIOUS
  <2>1. ASSUME pipelined, main = "present" PROVE guarded <=> ~Seeking
    <3>1. open  BY <2>1 DEF IInv, LoopInv
    <3>2. QED  BY <2>1, <3>1 DEF IInv, SeekInv, Seeking
  <2>2. QED  BY <2>1 DEF IInv, SeekInv, SeekRendersGuarded
<1>2. QED  BY <1>1, Inductive, PTL
-----------------------------------------------------------------------------
(* The references of the single-core loop.                                 *)

\* A picture is predicted from the one before it in the file.
Exact(p) == p # None /\ p.n \notin KeyFrames => p.base = p.n - 1

\* The single-core loop only loses the reference while packets are skipped,
\* and a packet is only decoded with the filter off when it was not lost.
ReferenceInv ==
  ~pipelined =>
    /\ Exact(pending) /\ Exact(result.picture)
    /\ job = "catchup" => waiting
    /\ job = "decode" \/ main = "present" \/ result.status = "ok" =>
         reference = pos
    /\ open /\ main = "loop" /\ ~waiting => reference = pos

\* Nothing is left of a file that was closed.
LEMMA ResetReference ==
  ASSUME Opened \/ Closed, main' = "loop" PROVE ReferenceInv'
<1>1. /\ pending' = None /\ job' = "none" /\ result' = NoResult
      /\ pos' = 0 /\ reference' = 0
  BY DEF Opened, Closed
<1>2. Exact(pending)' /\ Exact(result.picture)'
  BY <1>1, ConstantTypes DEF Exact
<1>3. QED  BY <1>1, <1>2, ConstantTypes DEF ReferenceInv

LEMMA DecodeReference ==
  IInv /\ ReferenceInv /\ pipelined' = pipelined /\ Decode => ReferenceInv'
<1> SUFFICES ASSUME IInv, ReferenceInv, ~pipelined, pipelined' = pipelined,
                    Decode
             PROVE ReferenceInv'
  BY DEF ReferenceInv
<1>1. /\ job # "none" /\ job' = job /\ pending' = pending /\ main' = main
      /\ main # "loop" /\ waiting' = waiting
      /\ job \in {"decode", "catchup"} /\ pos \in Nat /\ main = "wait"
      /\ result.status = "none"
  BY ConstantTypes
     DEF Decode, loopVars, frameVars, clockVars, IInv, TypeOK, LoopInv
<1>2. Exact(pending)'  BY <1>1 DEF ReferenceInv, Exact
<1>3. CASE /\ \E status \in {"eof", "io", "bad"} : Answer(status, None)
           /\ UNCHANGED <<pos, reference>>
  <2>1. result'.picture = None /\ result'.status # "ok"
    BY <1>3 DEF Answer
  <2>2. Exact(result.picture)'  BY <2>1 DEF Exact
  <2>3. QED  BY <1>1, <1>2, <1>3, <2>1, <2>2 DEF ReferenceInv
<1>4. CASE /\ pos' = pos + 1 /\ job = "catchup" /\ pos' \notin KeyFrames
           /\ Answer("skipped", None)
  <2>1. result'.picture = None /\ result'.status # "ok"
    BY <1>4 DEF Answer
  <2>2. Exact(result.picture)'  BY <2>1 DEF Exact
  <2>3. QED  BY <1>1, <1>2, <1>4, <2>1, <2>2 DEF ReferenceInv
<1>5. CASE /\ pos' = pos + 1 /\ (job = "decode" \/ pos' \in KeyFrames)
           /\ Answer("ok", [n |-> pos', base |-> reference])
           /\ reference' = pos'
  <2>1. /\ result'.picture.n = pos' /\ result'.picture.base = reference
    BY <1>5 DEF Answer
  <2>2. Exact(result.picture)'
    BY <1>1, <1>5, <2>1 DEF Exact, ReferenceInv
  <2>3. QED  BY <1>1, <1>2, <1>5, <2>2 DEF ReferenceInv
<1>6. QED  BY <1>1, <1>3, <1>4, <1>5 DEF Decode

LEMMA PlayReference ==
  IInv /\ ReferenceInv /\ pipelined' = pipelined /\ Play => ReferenceInv'
<1> SUFFICES ASSUME IInv, ReferenceInv, ~pipelined, pipelined' = pipelined,
                    Play
             PROVE ReferenceInv'
  BY DEF ReferenceInv
<1>1. CASE SubmitDecode
  BY <1>1, ConstantTypes
     DEF SubmitDecode, clockVars, ReferenceInv, Exact, IInv, LoopInv
<1>2. CASE Presented /\ main = "present"
  <2>1. /\ pending' = None /\ main' = "loop" /\ job' = job /\ job = "none"
        /\ result' = result /\ result = NoResult /\ reference' = reference
        /\ pos' = pos /\ reference = pos
    BY <1>2 DEF Presented, jobVars, IInv, LoopInv, ReferenceInv
  <2>2. Exact(pending)' /\ Exact(result.picture)'
    BY <2>1, ConstantTypes DEF Exact
  <2>3. QED  BY <2>1, <2>2 DEF ReferenceInv
<1>3. CASE PresentSeeking \/ PresentFrame
  BY <1>2, <1>3 DEF PresentSeeking, PresentFrame
<1>4. CASE DisplayError
  BY <1>4, ResetReference DEF DisplayError
<1>5. CASE WaitDecode
  <2>1. CASE /\ result.status = "ok" /\ pending' = result.picture
             /\ main' = IF pipelined THEN "loop" ELSE "present"
             /\ job' = "none" /\ result' = NoResult
             /\ UNCHANGED <<pos, reference>>
    <3>1. Exact(pending)' /\ Exact(result.picture)'
      BY <2>1, ConstantTypes DEF Exact, ReferenceInv
    <3>2. QED  BY <2>1, <3>1, ConstantTypes DEF ReferenceInv
  <2>2. CASE result.status = "skipped" /\ finishCompressedPredictiveSkip
    <3>1. /\ job = "catchup" /\ waiting' = waiting /\ job' = "none"
          /\ result' = NoResult /\ pending' = pending /\ main' = "loop"
      BY <2>2 DEF finishCompressedPredictiveSkip, frameVars, IInv, LoopInv
    <3>2. Exact(pending)' /\ Exact(result.picture)'
      BY <3>1, ConstantTypes DEF Exact, ReferenceInv
    <3>3. QED  BY <3>1, <3>2, ConstantTypes DEF ReferenceInv
  <2>3. CASE finishVideoLoop
    BY <2>3, ResetReference DEF finishVideoLoop
  <2>4. CASE Closed /\ main' = "loop"  BY <2>4, ResetReference
  <2>5. QED  BY <1>5, <2>1, <2>2, <2>3, <2>4 DEF WaitDecode, clockVars
<1>6. QED  BY <1>1, <1>3, <1>4, <1>5 DEF Play

LEMMA CommandReference ==
  IInv /\ ReferenceInv /\ pipelined' = pipelined /\ Command => ReferenceInv'
<1> SUFFICES ASSUME IInv, ReferenceInv, pipelined' = pipelined, Command
             PROVE ReferenceInv'
  OBVIOUS
<1>1. CASE (Opened \/ Closed) /\ main' = "loop"  BY <1>1, ResetReference
<1>2. CASE UNCHANGED <<main, open, frameVars, jobVars, clockVars>>
  BY <1>2 DEF frameVars, jobVars, clockVars, ReferenceInv, Exact
<1>3. QED
  BY <1>1, <1>2
     DEF Command, SessionCommand, StopCommand, BaudCommand, MonitorCommand,
         SeekCommand, EnterBrowser, SelectFile, RetryOpen

\* The single-core loop never decodes a predicted picture from anything but the
\* picture before it: it samples video_waiting_for_keyframe after the
\* presentation that may have changed it.
THEOREM ReferencesKept == Spec => []SequentialReferenceExact
<1>1. Init => ReferenceInv
  BY ConstantTypes DEF Init, ReferenceInv, Exact
<1>2. IInv /\ ReferenceInv /\ [Next]_vars => ReferenceInv'
  <2> SUFFICES ASSUME IInv, ReferenceInv, [Next]_vars PROVE ReferenceInv'
    OBVIOUS
  <2>1. pipelined' = pipelined  BY DEF Next, vars
  <2>2. CASE Play  BY <2>1, <2>2, PlayReference
  <2>3. CASE Decode  BY <2>1, <2>3, DecodeReference
  <2>4. CASE Command  BY <2>1, <2>4, CommandReference
  <2>5. CASE UNCHANGED vars
    BY <2>5 DEF vars, loopVars, frameVars, jobVars, clockVars, ReferenceInv,
       Exact
  <2>6. QED  BY <2>2, <2>3, <2>4, <2>5 DEF Next
<1>3. ReferenceInv => SequentialReferenceExact
  BY DEF ReferenceInv, Exact, SequentialReferenceExact, ReferenceExact
<1>4. QED  BY <1>1, <1>2, <1>3, Inductive, PTL DEF Spec
=============================================================================
