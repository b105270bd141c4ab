---------------------------- MODULE AudioOutput ----------------------------
(***************************************************************************)
(* The audio clock of the player: the reader task on CPU1                  *)
(* (audioReaderTask) fills a stream buffer, the DMA callback of the PDM    *)
(* output (onAudioPdmSent) takes samples from it, and the main loop starts *)
(* and stops both and paces the pictures by the samples that were played   *)
(* (waitForAudioTarget).                                                   *)
(*                                                                         *)
(* Samples are counted, not named: every buffer on their way keeps order.  *)
(* The bias ramps of the output are one callback long.  FreeRTOS and the   *)
(* I2S driver are modelled by what the code uses of them.                  *)
(***************************************************************************)
EXTENDS Integers, Sequences, FiniteSetsExt

CONSTANTS
  Total,        \* samples of the track
  Capacity,     \* kAudioStreamBytes, also audio_preroll_bytes
  Chunk,        \* samples the reader gets from one packet or read
  Dma,          \* kAudioDmaSamples
  Descriptors,  \* kAudioDmaDescriptors
  Frames,       \* pictures of the video
  FrameSamples, \* samples of a picture
  Seeks         \* pictures an opening may fast-forward to, 0 for none

ASSUME AudioAssumption ==
  /\ {Total, Capacity, Chunk, Dma, Descriptors, Frames, FrameSamples}
       \subseteq Nat \ {0}
  /\ Seeks \subseteq Nat

VARIABLES
  \* the main loop
  main,      \* where it is
  after,     \* where it goes on after stopAudio
  frame,     \* decoded_frames
  seeking,   \* seek_fast_forward
  target,    \* seek_target_frame
  discarded, \* seek_discarded_audio_samples
  enabled,   \* audio_enabled: the audio clock, not the timer
  started,   \* audio_started
  stop,      \* audio_reader_stop_requested
  \* the reader task
  reader,    \* where it is; "finished" is audio_reader_task_finished
  left,      \* samples of the track still in the file
  chunk,     \* samples read and not yet queued
  ending,    \* its local result
  result,    \* audio_reader_result
  eof,       \* audio_prefetch_eof
  \* the stream buffer
  alive,     \* it exists
  stream,    \* samples in it
  rebuf,     \* audio_rebuffering
  \* the output
  pdm,       \* audio_pdm_enabled
  bias,      \* audio_bias_state
  dma,       \* audio_dma_valid_samples, the next to finish first
  pending,   \* audio_pending_samples
  played,    \* audio_played_samples
  failed     \* audio_output_failed

mainVars   == <<main, after, frame, seeking, target, discarded, enabled,
                started, stop>>
readerVars == <<reader, left, chunk, ending, result, eof>>
streamVars == <<alive, stream, rebuf>>
outputVars == <<pdm, bias, dma, pending, played, failed>>
vars == <<mainVars, readerVars, streamVars, outputVars>>

TypeOK ==
  /\ main \in {"closed", "ramp", "preroll", "frame", "discard", "wait",
               "check", "stopping", "draining"}
  /\ after \in {"frame", "closed"}
  /\ frame \in 0 .. Frames /\ target \in Seeks \cup {0}
  /\ discarded \in 0 .. Total
  /\ {seeking, enabled, started, stop, eof, alive, rebuf, pdm, failed}
       \subseteq BOOLEAN
  /\ reader \in {"none", "read", "send", "level", "publish", "eof", "finished"}
  /\ left \in 0 .. Total /\ chunk \in 0 .. Chunk
  /\ {ending, result} \subseteq {"ok", "eof", "err"}
  /\ stream \in 0 .. Capacity
  /\ bias \in {"low", "up", "centre", "down"}
  /\ dma \in [1 .. Descriptors -> 0 .. Dma]
  /\ pending \in 0 .. Descriptors * Dma /\ played \in 0 .. Total

Silent == [d \in 1 .. Descriptors |-> 0]

Init ==
  /\ main = "closed" /\ after = "closed" /\ frame = 0
  /\ seeking = FALSE /\ target = 0 /\ discarded = 0
  /\ enabled = FALSE /\ started = FALSE /\ stop = FALSE
  /\ reader = "none" /\ left = Total /\ chunk = 0
  /\ ending = "ok" /\ result = "ok" /\ eof = FALSE
  /\ alive = FALSE /\ stream = 0 /\ rebuf = FALSE
  /\ pdm = FALSE /\ bias = "low" /\ dma = Silent
  /\ pending = 0 /\ played = 0 /\ failed = FALSE

-----------------------------------------------------------------------------
(* The reader task.                                                        *)

\* The head of audioReaderTask's loop and the read of a packet.  Once begun, a
\* read goes on whether or not the task is asked to stop.
ReadChunk ==
  /\ reader = "read"
  /\ \/ /\ stop
        /\ ending' = "ok" /\ reader' = "publish" /\ UNCHANGED <<left, chunk>>
     \/ /\ left > 0
        /\ chunk' = Min({Chunk, left}) /\ left' = left - chunk'
        /\ reader' = "send" /\ UNCHANGED ending
     \/ /\ ending' \in {"err"} \cup (IF left = 0 THEN {"eof"} ELSE {})
        /\ reader' = "publish" /\ UNCHANGED <<left, chunk>>
  /\ UNCHANGED <<mainVars, result, eof, streamVars, outputVars>>

\* Fault: the stream buffer takes what it is given.
Bug_Accepted == chunk

\* xStreamBufferSend accepts what there is room for.
Accepted == Min({chunk, Capacity - stream})

\* queueAudioBytes: when asked to stop the rest of the chunk is dropped.
SendChunk ==
  /\ reader = "send"
  /\ \/ /\ stop
        /\ chunk' = 0 /\ reader' = "read" /\ UNCHANGED stream
     \/ /\ stream < Capacity
        /\ stream' = stream + Accepted /\ chunk' = chunk - Accepted
        /\ reader' = "level"
  /\ UNCHANGED <<mainVars, left, ending, result, eof, alive, rebuf, outputVars>>

\* Rebuffering ends when the queue is full again.
CheckLevel ==
  /\ reader = "level"
  /\ rebuf' = (rebuf /\ stream < Capacity)
  /\ reader' = IF chunk > 0 THEN "send" ELSE "read"
  /\ UNCHANGED <<mainVars, left, chunk, ending, result, eof, alive, stream,
                 outputVars>>

PublishResult ==
  /\ reader = "publish" /\ result' = ending /\ reader' = "eof"
  /\ UNCHANGED <<mainVars, left, chunk, ending, eof, streamVars, outputVars>>

PublishEof ==
  /\ reader = "eof" /\ eof' = (ending = "eof") /\ reader' = "finished"
  /\ UNCHANGED <<mainVars, left, chunk, ending, result, streamVars, outputVars>>

-----------------------------------------------------------------------------
(* The output.                                                             *)

TakesSamples == bias = "centre" /\ started /\ ~rebuf /\ alive
Taken == IF TakesSamples THEN Min({Dma, stream}) ELSE 0

\* Fault: samples count as played when they are queued.
Bug_Completed == Taken

\* Samples of the descriptor that was sent.
Completed == Head(dma)

\* onAudioPdmSent: the descriptor that was sent is counted and filled again,
\* from the stream, with silence, or with a bias ramp.
onAudioPdmSent ==
  /\ pdm
  /\ played' = played + Completed
  /\ dma' = Append(Tail(dma), Taken)
  /\ pending' = pending - Completed + Taken
  /\ stream' = stream - Taken
  /\ rebuf' = (rebuf \/ (TakesSamples /\ Taken = 0 /\ ~eof /\ result # "err"))
  /\ bias' = CASE bias = "up" -> "centre" [] bias = "down" -> "low"
               [] OTHER -> bias
  /\ failed' \in {failed, TRUE}
  /\ UNCHANGED <<mainVars, readerVars, alive, pdm>>

-----------------------------------------------------------------------------
(* The main loop.                                                          *)

\* openVideo with prepareAudio: up to the start of the bias ramp, or without
\* an audio output.
OpenVideo ==
  /\ main = "closed"
  /\ target' \in Seeks \cup {0} /\ seeking' = (target' > 0)
  /\ frame' = 0 /\ discarded' = 0 /\ left' = Total
  /\ \/ /\ alive' = TRUE /\ pdm' = TRUE /\ bias' = "up" /\ main' = "ramp"
     \/ main' = "frame" /\ UNCHANGED <<alive, pdm, bias>>
  /\ UNCHANGED <<after, enabled, started, stop, reader, chunk, ending, result,
                 eof, stream, rebuf, dma, pending, played, failed>>

\* The ramp is over (vTaskDelay is longer): the reader is created.
StartReader ==
  /\ main = "ramp" /\ bias = "centre"
  /\ enabled' = TRUE /\ reader' = "read" /\ main' = "preroll"
  /\ UNCHANGED <<after, frame, seeking, target, discarded, started, stop, left,
                 chunk, ending, result, eof, streamVars, outputVars>>

\* stopAudio up to its wait for the reader.
StopAudio(next) ==
  /\ main' = "stopping" /\ after' = next
  /\ started' = FALSE /\ stop' = TRUE
  /\ bias' = IF pdm /\ ~failed /\ bias = "centre" THEN "down" ELSE bias

\* The preroll ends with a full queue, the end of a short track, an error, or
\* after kAudioPrerollTimeoutMs.
FinishPreroll ==
  /\ main = "preroll"
  /\ IF result = "err" \/ stream = 0 \/ (~eof /\ stream < Capacity)
     THEN StopAudio("frame")
     ELSE main' = "frame" /\ UNCHANGED <<after, started, stop, bias>>
  /\ UNCHANGED <<frame, seeking, target, discarded, enabled, readerVars,
                 streamVars, pdm, dma, pending, played, failed>>

\* beginPresentation: a picture of the fast-forward, one paced by the audio
\* clock, which the first of them starts, or one paced by the timer.
BeginPresentation ==
  /\ main = "frame" /\ frame < Frames
  /\ \/ /\ seeking /\ frame' = frame + 1
        /\ main' = IF enabled THEN "discard" ELSE "frame"
        /\ seeking' = (enabled \/ frame' < target)
        /\ UNCHANGED <<started, rebuf>>
     \/ /\ ~seeking /\ enabled
        /\ started' = TRUE /\ rebuf' = (started /\ rebuf) /\ main' = "wait"
        /\ UNCHANGED <<frame, seeking>>
     \/ /\ ~seeking /\ ~enabled /\ frame' = frame + 1
        /\ UNCHANGED <<main, seeking, started, rebuf>>
  /\ UNCHANGED <<after, target, discarded, enabled, stop, readerVars, alive,
                 stream, outputVars>>

\* Fault: nobody looks for the end of the track.
Bug_TrackOver == FALSE

TrackOver == eof /\ stream = 0

\* finishPresentationDetailed in a fast-forward: audio up to the end of the
\* picture is discarded, and at the target becomes the clock.
DiscardAudio ==
  /\ main = "discard"
  /\ \/ /\ discarded >= frame * FrameSamples
        /\ main' = "frame" /\ seeking' = (frame < target)
        /\ played' = IF seeking' THEN played ELSE discarded
        /\ UNCHANGED <<after, started, stop, discarded, stream, bias>>
     \/ /\ discarded < frame * FrameSamples /\ stream > 0
        /\ discarded' = Min({discarded + stream, frame * FrameSamples})
        /\ stream' = stream - (discarded' - discarded)
        /\ UNCHANGED <<main, after, started, stop, seeking, played, bias>>
     \/ /\ discarded < frame * FrameSamples /\ stream = 0
        /\ failed \/ result = "err" \/ TrackOver
        /\ StopAudio("frame") /\ seeking' = (frame < target)
        /\ UNCHANGED <<discarded, stream, played>>
  /\ UNCHANGED <<frame, target, enabled, readerVars, alive, rebuf, pdm, dma,
                 pending, failed>>

\* waitForAudioTarget, one turn of its loop: the position of the clock, then
\* the end of the track, then the deadline.
TargetReached == played + Dma >= frame * FrameSamples

ReadClock ==
  /\ main = "wait"
  /\ \/ /\ failed \/ result = "err"
        /\ StopAudio("frame") /\ UNCHANGED frame
     \/ /\ ~failed /\ result # "err" /\ TargetReached
        /\ main' = "frame" /\ frame' = frame + 1
        /\ UNCHANGED <<after, started, stop, bias>>
     \/ /\ ~failed /\ result # "err" /\ ~TargetReached
        /\ main' = "check" /\ UNCHANGED <<after, started, stop, bias, frame>>
  /\ UNCHANGED <<seeking, target, discarded, enabled, readerVars, streamVars,
                 pdm, dma, pending, played, failed>>

CheckTrack ==
  /\ main = "check"
  /\ IF TrackOver /\ pending = 0
     THEN StopAudio("frame")
     ELSE main' = "wait" /\ UNCHANGED <<after, started, stop, bias>>
  /\ UNCHANGED <<frame, seeking, target, discarded, enabled, readerVars,
                 streamVars, pdm, dma, pending, played, failed>>

\* Fault: no deadline.
Bug_ClockStalled == FALSE

\* kAudioClockWaitTimeoutMs is far longer than a picture and the whole queue:
\* it only passes while no sample is taken from the stream.
ClockStalled == rebuf /\ ~TargetReached

ClockTimeout ==
  /\ main \in {"wait", "check"} /\ ClockStalled
  /\ StopAudio("frame")
  /\ UNCHANGED <<frame, seeking, target, discarded, enabled, readerVars,
                 streamVars, pdm, dma, pending, played, failed>>

\* finishVideoLoop waits for the rest of the track, but not for long, and
\* closes; a command or an error closes between two pictures.
CloseVideo ==
  /\ main = "frame"
  /\ StopAudio("closed")
  /\ UNCHANGED <<frame, seeking, target, discarded, enabled, readerVars,
                 streamVars, pdm, dma, pending, played, failed>>

\* Fault: stopAudio goes on without the reader.
Bug_DeleteReader ==
  /\ main = "stopping" /\ main' = "draining"
  /\ UNCHANGED <<after, frame, seeking, target, discarded, enabled, started,
                 stop, readerVars, streamVars, outputVars>>

\* The reader is deleted when it is suspended, or after
\* kAudioReaderStopTimeoutMs: only a read of the card takes that long.
DeleteReader ==
  /\ main = "stopping" /\ reader \in {"none", "finished", "read"}
  /\ main' = "draining" /\ reader' = "none"
  /\ UNCHANGED <<after, frame, seeking, target, discarded, enabled, started,
                 stop, left, chunk, ending, result, eof, streamVars,
                 outputVars>>

\* The rest of stopAudio: after the ramp the output is disabled, then the
\* stream deleted and everything reset.
DisableOutput ==
  /\ main = "draining" /\ bias # "down"
  /\ main' = after
  /\ enabled' = FALSE /\ stop' = FALSE
  /\ chunk' = 0 /\ ending' = "ok" /\ result' = "ok" /\ eof' = FALSE
  /\ alive' = FALSE /\ stream' = 0 /\ rebuf' = FALSE
  /\ pdm' = FALSE /\ bias' = "low" /\ dma' = Silent
  /\ pending' = 0 /\ played' = 0 /\ failed' = FALSE
  /\ UNCHANGED <<after, frame, seeking, target, discarded, started, reader,
                 left>>

-----------------------------------------------------------------------------
Reader == SendChunk \/ CheckLevel \/ PublishResult \/ PublishEof
MainLoop == \/ OpenVideo \/ StartReader \/ FinishPreroll \/ BeginPresentation
            \/ DiscardAudio \/ ReadClock \/ CheckTrack \/ CloseVideo
            \/ DeleteReader \/ DisableOutput
Next == MainLoop \/ ClockTimeout \/ ReadChunk \/ Reader \/ onAudioPdmSent

Spec == Init /\ [][Next]_vars

\* The tasks are scheduled, the DMA interrupt keeps coming while the output is
\* enabled and deadlines pass; nothing is said of how long the card takes, and
\* the output never has to fail.
FairSpec ==
  Spec /\ WF_vars(MainLoop) /\ WF_vars(ClockTimeout) /\ WF_vars(Reader)
       /\ WF_vars(onAudioPdmSent /\ failed' = failed)

-----------------------------------------------------------------------------
(* Properties                                                              *)

\* Samples in the DMA descriptors.
Queued(descriptors) ==
  LET sum[n \in 0 .. Len(descriptors)] ==
        IF n = 0 THEN 0 ELSE sum[n - 1] + descriptors[n]
  IN  sum[Len(descriptors)]
PendingExact == pending = Queued(dma)

\* Samples that the clock has counted: those discarded so far, then those
\* played.
Counted == IF seeking THEN discarded ELSE played
ClockExact ==
  alive /\ ~stop => left + chunk + stream + pending + Counted = Total

\* Every sample of the track is at one place: in the file, with the reader, in
\* the queue, in a DMA descriptor, or counted by the clock; so the clock that
\* paces the video is exact across underruns, seeks and partial sends.
SamplesAccounted == PendingExact /\ ClockExact

\* The stream buffer outlives its users: the reader task and the DMA callback.
StreamOutlivesUsers ==
  ~alive => reader = "none" /\ ~(pdm /\ started)

\* A picture waits for the audio clock only for a time, whatever the card does.
WaitEnds == main \in {"wait", "check"} ~> main = "frame"

\* The discarding of a fast-forward, which has no deadline, ends if reads end.
DiscardEnds == WF_vars(ReadChunk) => (main = "discard" ~> main # "discard")

\* "Files without audio, an explicitly disabled output, or a failed audio
\* reader/PDM output automatically use the monotonic ESP timer": a track that
\* was read to its end without an error is played to its end.
TrackPlayedOut ==
  [][(main \in {"wait", "check"} /\ main' = "stopping" /\ eof /\ ~failed)
       => (TrackOver /\ pending = 0)]_vars
=============================================================================
