------------------------------ MODULE Playback ------------------------------
(***************************************************************************)
(* The player's main loop (app_main) over one selected HLV video: opening, *)
(* the dual-core frame pipeline or the single-core loop, the presentation  *)
(* clock, keyframe catch-up, UART seek, the file browser, SD-card errors   *)
(* and retries.                                                            *)
(*                                                                         *)
(* The file is packets 1 .. Frames; packet n is a keyframe or predicted    *)
(* from picture n - 1.  A decoded picture remembers its number and the     *)
(* number of the picture that was in the reference buffer (base).  One     *)
(* audio sample lasts one picture.  HlvRowPipeline is what happens inside  *)
(* one decode.                                                             *)
(***************************************************************************)
EXTENDS Integers

CONSTANTS
  Frames,      \* packets in the file
  KeyFrames,   \* the independently decodable ones
  LateFrames,  \* PLAYER_KEYFRAME_CATCHUP_LATE_FRAMES
  SdFailures,  \* kSdReadFailuresBeforeReinit
  SampleBytes, \* bytes of a sample in audio_stream: 1, or 2 for PCM16
  Targets      \* frames a UART seek may ask for

ASSUME PlaybackAssumption ==
  /\ Frames \in Nat \ {0} /\ KeyFrames \subseteq 1 .. Frames /\ 1 \in KeyFrames
  /\ LateFrames \in Nat \ {0} /\ SdFailures \in Nat \ {0}
  /\ SampleBytes \in {1, 2} /\ Targets \subseteq Nat

VARIABLES
  pipelined, \* PLAYER_USE_DUAL_CORE_PIPELINE, chosen when the firmware is built
  mounted,   \* sd_mounted
  browser,   \* file_browser_active
  session,   \* a UART session is active
  open,      \* video_file with a ready decoder
  main,      \* where app_main is
  pending,   \* pending_frame, None when pending_frame_valid is false
  guarded,   \* the row guard was raised for the pending picture
  drew,      \* local `rendered`: the last display transfer succeeded
  job,       \* decode request: "none", "decode", or "catchup" to skip P packets
  result,    \* decode result
  pos,       \* packets of the file consumed
  reference, \* picture in the decoder's reference buffer, 0 if none
  decoded,   \* decoded_frames: presentation intervals since the file was opened
  waiting,   \* video_waiting_for_keyframe
  lates,     \* consecutive_late_presentations
  audio,     \* audio_enabled
  seek,      \* seek_fast_forward
  target,    \* seek_target_frame
  discarded, \* seek_discarded_audio_samples
  consumed,  \* bytes that seeking took from audio_stream of this open file
  failures   \* consecutive_sd_read_failures

loopVars  == <<mounted, browser, session, open, main>>
frameVars == <<pending, guarded, drew>>
jobVars   == <<job, result, pos, reference>>
clockVars == <<decoded, waiting, lates, audio>>
seekVars  == <<seek, target, discarded, consumed>>
vars == <<pipelined, loopVars, frameVars, jobVars, clockVars, seekVars, failures>>

Picture == [n : 1 .. Frames, base : 0 .. Frames]
None    == [n |-> 0, base |-> 0]
NoResult == [status |-> "none", picture |-> None]

TypeOK ==
  /\ pipelined \in BOOLEAN
  /\ mounted \in BOOLEAN /\ browser \in BOOLEAN /\ session \in BOOLEAN
  /\ open \in BOOLEAN
  /\ main \in {"loop", "present", "wait"}
  /\ pending \in Picture \cup {None} /\ guarded \in BOOLEAN /\ drew \in BOOLEAN
  /\ job \in {"none", "decode", "catchup"}
  /\ result \in [status : {"none", "ok", "skipped", "eof", "io", "bad"},
                 picture : Picture \cup {None}]
  /\ pos \in 0 .. Frames /\ reference \in 0 .. Frames
  /\ decoded \in 0 .. Frames /\ waiting \in BOOLEAN
  /\ lates \in 0 .. LateFrames /\ audio \in BOOLEAN
  /\ seek \in BOOLEAN /\ target \in Targets \cup {0}
  /\ discarded \in 0 .. Frames /\ consumed \in 0 .. Frames
  /\ failures \in 0 .. SdFailures - 1

-----------------------------------------------------------------------------
(* Opening and closing.                                                    *)

\* closeVideo, which waits for a decode in flight and stops the audio.  The
\* frame counter and the seek state are not touched.
Closed ==
  /\ open' = FALSE /\ pending' = None /\ guarded' = FALSE /\ drew' = TRUE
  /\ job' = "none" /\ result' = NoResult /\ pos' = 0 /\ reference' = 0
  /\ waiting' = FALSE /\ lates' = 0 /\ audio' = FALSE /\ consumed' = 0

\* Fault: the catch-up state survives a reopening.
Bug_Opened ==
  \/ /\ open' = TRUE /\ pending' = None /\ guarded' = FALSE /\ drew' = TRUE
     /\ job' = "none" /\ result' = NoResult /\ pos' = 0 /\ reference' = 0
     /\ UNCHANGED <<waiting, lates>> /\ audio' \in BOOLEAN /\ consumed' = 0
     /\ decoded' = 0
  \/ Closed /\ UNCHANGED decoded

\* openVideo closes what is open and opens the selected file, with audio if it
\* has a usable track; or fails, closed.
Opened ==
  \/ /\ open' = TRUE /\ pending' = None /\ guarded' = FALSE /\ drew' = TRUE
     /\ job' = "none" /\ result' = NoResult /\ pos' = 0 /\ reference' = 0
     /\ waiting' = FALSE /\ lates' = 0 /\ audio' \in BOOLEAN /\ consumed' = 0
     /\ decoded' = 0
  \/ Closed /\ UNCHANGED decoded

Init ==
  /\ pipelined \in BOOLEAN
  /\ mounted = FALSE /\ browser = FALSE /\ session = FALSE
  /\ open = FALSE /\ main = "loop"
  /\ pending = None /\ guarded = FALSE /\ drew = TRUE
  /\ job = "none" /\ result = NoResult /\ pos = 0 /\ reference = 0
  /\ decoded = 0 /\ waiting = FALSE /\ lates = 0 /\ audio = FALSE
  /\ seek = FALSE /\ target = 0 /\ discarded = 0 /\ consumed = 0
  /\ failures = 0

-----------------------------------------------------------------------------
(* One iteration of playback.                                              *)

\* The top of playOneFramePipelined or playOneFrameSequential: the packet to
\* decode next is requested, with the catch-up flag as it is at this moment.
SubmitDecode ==
  /\ main = "loop" /\ open /\ ~browser /\ job = "none"
  /\ job' = IF waiting THEN "catchup" ELSE "decode"
  /\ guarded' = (pending # None /\ ~seek)
  /\ main' = IF pending # None THEN "present" ELSE "wait"
  /\ drew' = TRUE
  /\ UNCHANGED <<mounted, browser, session, open, pending, result, pos, reference,
                 clockVars, seekVars, failures>>

Answer(status, picture) == result' = [status |-> status, picture |-> picture]

\* hlv_esp32_decoder_decode_next_catchup, on CPU1 when pipelined.
Decode ==
  /\ job # "none" /\ result = NoResult
  /\ \/ /\ pos = Frames /\ Answer("eof", None)
        /\ UNCHANGED <<pos, reference>>
     \/ /\ \E status \in {"io", "bad"} : Answer(status, None)
        /\ UNCHANGED <<pos, reference>>
     \/ /\ pos < Frames /\ pos' = pos + 1
        /\ IF job = "catchup" /\ pos' \notin KeyFrames
           THEN Answer("skipped", None) /\ UNCHANGED reference
           ELSE /\ Answer("ok", [n |-> pos', base |-> reference])
                /\ reference' = pos'
  /\ UNCHANGED <<loopVars, frameVars, job, clockVars, seekVars, failures>>

\* applyKeyframeCatchup: after LateFrames late predicted pictures in a row,
\* predicted packets are skipped until a keyframe is presented.
applyKeyframeCatchup(key, late, count) ==
  IF waiting
  THEN /\ waiting' = ~key
       /\ lates' = IF key THEN 0 ELSE count
  ELSE /\ lates' = IF late /\ ~key THEN count + 1 ELSE 0
       /\ waiting' = (lates' >= LateFrames)

\* finishPresentation, and back to playOne...
Presented ==
  /\ decoded' = decoded + 1 /\ failures' = 0
  /\ pending' = None /\ guarded' = FALSE
  /\ main' = IF pipelined THEN "wait" ELSE "loop"
  /\ UNCHANGED <<mounted, browser, session, open, drew, jobVars>>

Seeking == seek /\ decoded < target

\* beginPresentation with a seek under way: the picture is not rendered, and
\* the audio up to its end is discarded; finishPresentationDetailed counts the
\* bytes it takes from the stream as samples.
PresentSeeking ==
  /\ main = "present" /\ Seeking
  /\ Presented
  /\ \/ /\ audio /\ discarded < decoded'
        /\ discarded' = decoded' /\ consumed' = consumed + decoded' - discarded
        /\ UNCHANGED <<audio, lates>>
     \/ \* the track ends or its reader fails before that: stopAudio
        /\ audio /\ discarded < decoded'
        /\ audio' = FALSE /\ lates' = 0
        /\ UNCHANGED <<discarded, consumed>>
     \/ /\ ~audio \/ discarded >= decoded'
        /\ UNCHANGED <<audio, lates, discarded, consumed>>
  /\ seek' = (decoded' < target)
  /\ UNCHANGED <<waiting, target>>

\* Otherwise the picture is paced and rendered, late or not.  An audio clock
\* that stopped is replaced by the timer (stopAudio), which is never late.
PaceFrame ==
  \E late \in BOOLEAN, fallback \in BOOLEAN :
    /\ late => audio /\ ~fallback
    /\ fallback => audio
    /\ audio' = (audio /\ ~fallback)
    /\ applyKeyframeCatchup(pending.n \in KeyFrames, late,
                            IF fallback THEN 0 ELSE lates)

PresentFrame ==
  /\ main = "present" /\ ~Seeking
  /\ PaceFrame /\ Presented
  /\ UNCHANGED seekVars

\* The display transfer fails: the pipeline still collects its decode, the
\* single-core loop fails at once.
DisplayError ==
  /\ main = "present" /\ ~Seeking
  /\ IF pipelined
     THEN /\ PaceFrame /\ drew' = FALSE /\ main' = "wait"
          /\ pending' = None /\ guarded' = FALSE
          /\ UNCHANGED <<open, jobVars, consumed, decoded>>
     ELSE main' = "loop" /\ Closed /\ UNCHANGED decoded
  /\ UNCHANGED <<mounted, browser, session, seek, target, discarded, failures>>

\* Fault: one failure too many before the card is released.
Bug_failSdCardRead ==
  \/ UNCHANGED <<mounted, failures>>
  \/ failures + 1 <= SdFailures /\ failures' = failures + 1 /\ UNCHANGED mounted
  \/ failures + 1 > SdFailures /\ failures' = 0 /\ mounted' = FALSE

\* failSdCardRead: reopen later, and after SdFailures failures in a row with no
\* presentation between them unmount the card and release the bus.  Without
\* DMA memory the failure is not the card's and is not counted.
failSdCardRead ==
  \/ UNCHANGED <<mounted, failures>>
  \/ failures + 1 < SdFailures /\ failures' = failures + 1 /\ UNCHANGED mounted
  \/ failures + 1 >= SdFailures /\ failures' = 0 /\ mounted' = FALSE

\* Faults: the skipped packet is not counted; catch-up ends with the first
\* packet skipped; the decode in flight is not collected.
Bug_skipUncounted ==
  /\ failures' = 0 /\ main' = "loop" /\ job' = "none" /\ result' = NoResult
  /\ UNCHANGED <<mounted, open, frameVars, pos, reference, clockVars, seekVars>>
Bug_skipEndsCatchup ==
  /\ decoded' = decoded + 1 /\ failures' = 0 /\ waiting' = FALSE
  /\ main' = "loop" /\ job' = "none" /\ result' = NoResult
  /\ UNCHANGED <<mounted, open, frameVars, pos, reference, lates, audio,
                 seekVars>>
Bug_skipInFlight ==
  /\ decoded' = decoded + 1 /\ failures' = 0 /\ main' = "loop"
  /\ UNCHANGED <<mounted, open, frameVars, jobVars, waiting, lates, audio,
                 seekVars>>

\* A packet skipped during catch-up takes its presentation interval.
finishCompressedPredictiveSkip ==
  /\ decoded' = decoded + 1 /\ failures' = 0
  /\ main' = "loop" /\ job' = "none" /\ result' = NoResult
  /\ UNCHANGED <<mounted, open, frameVars, pos, reference, waiting,
                 lates, audio, seekVars>>

\* Fault: the fast-forward goes on from the start of the file.
Bug_finishVideoLoop ==
  /\ Opened /\ main' = "loop" /\ UNCHANGED <<mounted, seek, target, discarded,
                                             failures>>

\* The file is played again from its start, a fast-forward over.
finishVideoLoop ==
  /\ Opened /\ main' = "loop" /\ seek' = FALSE
  /\ UNCHANGED <<mounted, target, discarded, failures>>

\* waitDecode and what the loop makes of the result.
WaitDecode ==
  /\ main = "wait" /\ result # NoResult
  /\ UNCHANGED <<browser, session>>
  /\ \/ \* an intact picture: kept for the next iteration, or presented now
        /\ drew /\ result.status = "ok"
        /\ pending' = result.picture /\ guarded' = FALSE
        /\ main' = IF pipelined THEN "loop" ELSE "present"
        /\ job' = "none" /\ result' = NoResult
        /\ UNCHANGED <<mounted, open, drew, pos, reference, clockVars,
                       seekVars, failures>>
     \/ drew /\ result.status = "skipped" /\ finishCompressedPredictiveSkip
     \/ drew /\ result.status = "eof" /\ finishVideoLoop
     \/ /\ drew /\ result.status = "io"
        /\ failSdCardRead /\ Closed /\ main' = "loop"
        /\ UNCHANGED <<decoded, seek, target, discarded>>
     \/ \* failPlayback
        /\ ~drew \/ result.status = "bad"
        /\ Closed /\ main' = "loop"
        /\ UNCHANGED <<mounted, decoded, seek, target, discarded, failures>>

-----------------------------------------------------------------------------
(* Between iterations: commands and retries.                               *)

\* HLVSESSION stops playback before it is answered.
SessionCommand ==
  /\ main = "loop"
  /\ session' = TRUE /\ browser' = FALSE /\ Closed
  /\ UNCHANGED <<mounted, main, decoded, seek, target, discarded, failures>>

\* In a session: upload, listing, delete, checksum, read, patch or benchmark,
\* each with the card mounted and the video closed.
StopCommand ==
  /\ main = "loop" /\ session
  /\ mounted' = TRUE /\ browser' = FALSE /\ Closed
  /\ UNCHANGED <<session, main, decoded, seek, target, discarded, failures>>

\* HLVBAUD, in a session, leaves the video alone.
BaudCommand ==
  /\ main = "loop" /\ session /\ browser' = FALSE
  /\ UNCHANGED <<mounted, session, open, main, frameVars, jobVars, clockVars,
                 seekVars, failures>>

\* HLVMONITOR 1 ON ends the session.
MonitorCommand ==
  /\ main = "loop" /\ session' = FALSE
  /\ IF mounted /\ ~open THEN Opened
     ELSE UNCHANGED <<open, frameVars, jobVars, clockVars, consumed>>
  /\ UNCHANGED <<mounted, browser, main, seek, target, discarded, failures>>

\* HLVSEEK: the video is reopened and fast-forwarded.
SeekCommand(frame) ==
  /\ main = "loop" /\ browser' = FALSE
  /\ \/ /\ mounted' = TRUE /\ Opened
        /\ IF open'
           THEN target' = frame /\ discarded' = 0 /\ seek' = (frame > 0)
           ELSE seek' = FALSE /\ UNCHANGED <<target, discarded>>
     \/ \* NO_SD
        /\ ~mounted /\ UNCHANGED mounted
        /\ Closed /\ seek' = FALSE /\ UNCHANGED <<decoded, target, discarded>>
  /\ UNCHANGED <<session, main, failures>>

\* BOOT button: a short press enters the browser, a long press there plays the
\* chosen file (or leaves the browser open when it cannot be written down).
EnterBrowser ==
  /\ main = "loop" /\ ~browser
  /\ mounted' = TRUE /\ browser' = TRUE /\ Closed
  /\ UNCHANGED <<session, main, decoded, seek, target, discarded, failures>>

SelectFile ==
  /\ main = "loop" /\ browser
  /\ browser' = FALSE /\ Opened
  /\ UNCHANGED <<mounted, session, main, seek, target, discarded, failures>>

\* Nothing plays and kRetryDelayMs have passed.
RetryOpen ==
  /\ main = "loop" /\ ~open /\ ~browser
  /\ mounted' = TRUE /\ Opened
  /\ UNCHANGED <<browser, session, main, seek, target, discarded, failures>>

-----------------------------------------------------------------------------
Play == SubmitDecode \/ PresentSeeking \/ PresentFrame \/ DisplayError
          \/ WaitDecode
Command == SessionCommand \/ StopCommand \/ BaudCommand \/ MonitorCommand
             \/ EnterBrowser \/ SelectFile \/ RetryOpen
             \/ \E frame \in Targets : SeekCommand(frame)
Next == (Play \/ Decode \/ Command) /\ UNCHANGED pipelined

Spec == Init /\ [][Next]_vars

\* app_main keeps iterating and the decode task keeps running.
FairSpec == Spec /\ WF_vars(Play /\ UNCHANGED pipelined)
                 /\ WF_vars(Decode /\ UNCHANGED pipelined)

-----------------------------------------------------------------------------
(* Properties                                                              *)

\* A predicted picture that the player keeps was reconstructed from the
\* picture before it in the file, not from an older one: catch-up drops
\* predicted pictures up to a keyframe and none after it.
ReferenceExact ==
  \A p \in {pending, result.picture} :
    p # None /\ p.n \notin KeyFrames => p.base = p.n - 1

\* The single-core loop samples the flag after the presentation: it is exact.
SequentialReferenceExact == ~pipelined => ReferenceExact

\* The frame counter drives the clock and the audio target: every packet of
\* the file is counted once, presented, skipped or waiting to be presented.
TimelineExact ==
  open /\ main = "loop" =>
    decoded + (IF pending = None THEN 0 ELSE 1) = pos

\* A picture reaches renderFrame only under the row guard, although the guard
\* is raised on seek_fast_forward and the presentation also looks at the
\* target; and a fast-forward never meets the catch-up filter, which would
\* skip the frame that ends it.
SeekRendersGuarded ==
  /\ pipelined /\ main = "present" => (guarded <=> ~Seeking)
  /\ open /\ seek => decoded < target /\ ~waiting

\* Catch-up ends: a keyframe is presented, or the file is closed or restarted.
CatchupEnds == waiting ~> ~waiting

\* A fast-forward that no further command interrupts ends: at its frame, at the
\* end of a file that is shorter, or with the file closed by an error.  (The
\* browser holds playback; HLVMONITOR opens the video even then.)
SeekEnds ==
  <>[][~Command]_vars => (seek /\ open /\ ~browser ~> ~seek \/ ~open)

\* "Compressed audio is consumed to the same timeline before normal
\* A/V-synchronised playback resumes": when a seek has reached its frame, the
\* audio that was discarded is that of the frames before it.
SeekAudioAligned ==
  [][main = "present" /\ seek /\ ~seek' /\ audio'
       => consumed' = decoded' * SampleBytes]_vars
=============================================================================
