# TLA+ models of HLV-codec

HLV-codec is a video codec (HLV, with a second one, BPV), the tools that encode
it, and a player on a dual-core ESP32 with an SD card, a small display, a speaker
and one serial line. What is hard to get right and hard to test is the firmware
around the codec (two cores that share a picture buffer, an interrupt that is the
clock of the video, a serial protocol over a line that loses bytes, files that are
replaced on a card that may lose power) and the places where the codec keeps two
states in step: the encoder with every decoder, trial encoders with the real one,
threads with the order of the file. This directory models both. The firmware is
`src/firmware/esp32_2432s028_hlv_player_idf_c`, called *the firmware* below.
Everything is translated from the source; `PROJECT.json` gives the lines of every
definition.

## 1. The system

### Parts

| Part | Source | State it keeps | Operations | Model |
|---|---|---|---|---|
| HLV two-core picture pipeline | `main/hlv_player.c` (`decodeTask`, `waitForHlvReferenceRows`, `renderFrame`), `components/hlv1/src/hlv1_decode.c` | one reference picture, a ring of 32 decoded luma rows, request and result queues of length 1, the row guard (`hlv_row_guard_active`, rendered rows) | submit, decode a macroblock row, commit rows, convert a line, send a strip, collect the result, open and close | `HlvRowPipeline` |
| Main loop and presentation clock | `main/hlv_player.c` (`app_main`, `playOneFrame*`, `presentFrame`, `finishVideoLoop`, the UART command handler) | open file, pending picture, frame counter, catch-up flag, seek state, error counter, session and browser flags | open, play, skip, seek, stop, retry, enter and leave the browser | `Playback`, for HLV |
| UART upload | `uart_upload.py`, `main/uart_file_upload.c` (`uart_file_upload_receive`, `upload_writer_task`) | client window and timers; receiver sequence, two block buffers, writer queues | send, acknowledge, refuse, retransmit, write, complete | `UartUpload`, `UploadDelivery` |
| UART file services | `main/uart_file_upload.c`, `uart_sync.py`, `uart_patch.py`, `uart_read.py`, `uart_list.py`, `uart_crc.py`, `uart_baud.py` | the files on the card, with `.part`, `.bak`, `.patch`, `.patchbak`, and the index `crc32.txt` | replace, patch, delete, checksum, list, read, benchmark, change the baud rate | `SdFiles`: what they do to the files |
| Audio output | `main/hlv_player.c` (`audioReaderTask`, `onAudioPdmSent`, `prepareAudio`, `stopAudio`, `waitForAudioTarget`) | stream buffer, rebuffering flag, DMA descriptors, pending and played samples, bias ramp | read, queue, play, pre-roll, discard, wait, stop | `AudioOutput` |
| BPV and MJPEG input prefetch | `main/hlv_player.c` (`mjpegInputReaderTask`, `bpvInputReaderTask`) | a ring of bytes, a slot for a packet descriptor, a command for the reader | read ahead, decode, skip, stop | `MjpegInput`; BPV not modelled |
| HLV encoder and its tool | `src/codecs/hlv/src/hlv1_encode.c`, `src/codecs/hlv/tools/hlvenc.c` | the encoder's reference picture and counters, clones of it, search state, GOP jobs on threads, the output file | choose a frame type, encode, try a quantizer, probe a window, run GOPs on threads, write | `HlvEncoder` |
| HLV bit stream | `src/codecs/hlv/src/hlv1_common.c`, `hlv1_encode.c`, `hlv1_decode.c`, the firmware's copy | bit writer and reader, vector context, skip run | write and parse the macroblocks of a picture | `HlvBits`, `HlvPicture` |
| File browser and BOOT button | `main/hlv_player.c`, `main/boot_button.c` | debouncer, event queue of 4, listing | short and long press, next, select | transitions in `Playback`, the write of `play.txt` in `SdFiles`; else not modelled |
| Display DMA | `main/cyd_display.c` | two strip buffers | queue, complete, flush | succeeds or fails in `HlvRowPipeline`; else not modelled |
| MJPEG decoder | `main/mjpeg_*.c`, `common/esp_new_jpeg_stream` | Huffman stream, strip | decode a strip | not modelled |
| Windows player | `src/codecs/hlv/tools/hlvplay_win32.cpp` | file, decoder and `waveOut` buffers of one thread with a timer | play, seek | not modelled |
| BPV codec | `src/codecs/bpv` | palette, GOP workers of the encoder | encode, decode | not modelled |
| Shared container and audio helpers | `src/codecs/common` | none | AVI walk, IMA ADPCM, colour conversion | not modelled |
| DivX 3, H.263, AMR-NB readers | `src/codecs/divx3`, `h263`, `amrnb` | bit readers | decode | not modelled |
| Other firmware variants | the C++, Zephyr and UART-sweep firmwares | as above | as above | not modelled: an older copy, and bring-up programs |
| Third-party and generated code | `src/third_party`, disassembly, QEMU models | | | not modelled: not this project's logic |

### How they interact

* CPU0 (`app_main`) and CPU1 (`decodeTask`) exchange a request and a result
  through queues of length 1 and share the reference picture: CPU1 decodes
  picture N in place while CPU0 still converts picture N-1 out of the same rows.
  Two words, the guard flag and the number of rows rendered, keep them apart.
* The audio reader (a task on CPU1), the DMA callback (an interrupt) and the main
  loop share the stream buffer, the rebuffering flag and the sample counters.
  The samples played are the clock that the main loop waits for.
* The MJPEG reader (a task on CPU1) puts the bytes of a packet into the ring
  before the main loop has decided whether to decode or to skip it; the decision
  comes back as a task notification.
* A UART command stops playback, closes the file and blocks the main loop in a
  file service; inside an upload a writer task on CPU1 and the receiver on CPU0
  exchange two buffers over two queues; client and device exchange blocks and
  text responses over the line.
* The file services, the retry timer and the browser of the main loop all decide
  whether a video is open.
* `hlvenc` drives one encoder, or clones of it: a quality trial's clone takes the
  place of the encoder, a window's probe is thrown away, a GOP's clone runs on a
  thread, and the main thread writes the results in order.
* What the encoder writes, each decoder parses with its own copy of the vector
  context and of the reference picture.

### What is hard, and what makes each part correct

* *Pipeline.* Interleaving of two cores over one buffer; a failed transfer half
  way down a picture. Correct: each displayed picture is whole; motion
  compensation reads the previous picture only; nobody waits forever; a task is
  never deleted inside a decode.
* *Main loop.* Results of packet n+1 handled after packet n is presented, flags
  sampled before they change, early returns, errors and commands anywhere.
  Correct: a kept predicted picture has the right reference; the frame counter
  counts each packet once; catch-up and seeks end; audio and video meet after a
  seek.
* *Upload.* Loss, damage and misframing in both directions, timeouts that race
  late answers, a write error behind an accepted block. Correct: blocks stored in
  order, each once; an ACK means stored; success means replaced; every transfer
  ends.
* *Files.* Card errors and power loss between any two steps, an index written
  after the file it describes. Correct: answers are true; one fault loses no
  video; a half-written range keeps its backup; a cached CRC is that of the file.
* *Audio.* Three actors without a lock, underruns, stopping while both ends use
  the stream. Correct: no sample lost or counted twice; the stream outlives its
  users; every wait ends.
* *MJPEG input.* A skip or a stop that meets bytes already sent, a full ring, the
  end of the file. Correct: a picture is decoded from its own bytes, in order; a
  short one has a reason; a late skip is taken.
* *Encoder.* The same picture coded several times on clones, counters that only
  one of them may keep, GOPs on threads, `--frames` and the end of the input
  inside a window or a batch, an error in one GOP. Correct: the file holds the
  pictures in order with their audio; a decoder keeps the encoder's reference; key
  frames come in time; searches end and take what their rules name.
* *Bit stream.* Skipped macroblocks held back as a run while the vector context
  goes on; two codings of a residual of which the shorter is chosen; packets that
  arrive damaged. Correct: what is parsed is what was written; a damaged packet
  never makes a decoder leave the picture or the reference.

`PROJECT.json` lists these hazards at their lines, with the properties that watch
each, or the reason why none does.

## 2. The modules

**`HlvRowPipeline`.** One picture at a time is decoded into `ref`, the reference
rows, each holding the number of the picture it belongs to; `ring` holds the
newest rows. CPU1: `TakeRequest`, `ParsePacket`, `EnterRow` (what to commit before
a macroblock row), `PassRowGuard` (the spin of `waitForHlvReferenceRows`),
`CopyRow`, `DecodeMbRow` (predicts from the rows within the search radius; a row
that belongs to the wrong picture makes the result `Torn`). CPU0: `OpenVideo`,
`BeginIteration`, `SubmitDecode`, `ConvertLine`, `DrawStrip` (may fail),
`FinishPresent` (lifts the guard), `WaitDecode`, `CloseVideo`. Coefficients,
entropy decoding and chroma (which follows luma 16 rows at a time) are abstracted.

**`Playback`.** The main loop over packets 1..Frames. A decoded picture is its
number and the number of the picture it was predicted from (`base`). `pending`,
`job` and `result` are the three places of a picture; `decoded`, `waiting`,
`lates`, `seek`, `target`, `discarded`, `failures` are the variables of the same
meaning in the source. One audio sample lasts one picture; whether a picture is
late, and whether audio still runs, is a choice. `pipelined`, chosen initially and
never changed, is `PLAYER_USE_DUAL_CORE_PIPELINE`.

**`UploadDelivery`** is what an upload promises: blocks stored in order,
acknowledged after, the video replaced by a complete one only, success reported
after that. **`UartUpload`** is the protocol: the client's window
(`SendBlock`, `HandleResponse`, `AckTimeout`, `ClientGivesUp`, `HandleCompletion`),
the receiver's loop (`AwaitBlock`, `ReadBlock`, `ReadTimeout`, `Drained`, `Finish`,
`Heartbeat`), the writer (`WriteBlock`, which may fail) and the line
(`LineFault`: loses, damages or misframes a message; it keeps order).
`DiscardBlock` is the device after the transfer, which reads blocks as commands.
`Delivers` states that it implements `UploadDelivery`.

**`SdFiles`.** What the services do to the card. A file is a sequence of blocks;
its length is the size and the sequence itself the CRC, so two contents have the
same CRC only if they are equal. `Torn` is a block written in part. Each rename,
unlink and write is a step that may fail, and power may go between any two:
upload (`BeginUpload` to `DropReplaced`), patch (`BeginPatch` to `RestoreRange`),
`RemoveFile`, the checksum commands (`LookUp`, `ScanFile`), the BOOT button's
`play.txt` (`BeginChoice`, `WriteChoice`) and the rewriting of `crc32.txt`
(`MoveIndex`, `ReplaceIndex`), which the code does last and whose result it
ignores. How the bytes arrive is not here: the transfer works or fails
(`UartUpload` is how).

**`AudioOutput`.** Samples are counted, not named. The reader: `ReadChunk`,
`SendChunk`, `CheckLevel` (clears rebuffering on a full queue), `PublishResult`,
`PublishEof`. The interrupt: `onAudioPdmSent`. The main loop: `OpenVideo`,
`StartReader`, `FinishPreroll`, `BeginPresentation`, `DiscardAudio`, `ReadClock`
and `CheckTrack` (two reads of shared state with the others in between),
`ClockTimeout`, `CloseVideo`, `DeleteReader`, `DisableOutput`.

**`MjpegInput`.** `<<n, k>>` is piece k of packet n of the file. The reader task:
`Demux`, `Offer` (the descriptor, into a queue of one), `Speculate` (pieces sent
before the decision, up to the ring less one chunk), `Command` (takes the decision;
a skip resets the ring), `Rest`, `Align`, `Quit`, `Finish`. The main loop:
`NextPacket`, `Decide`, `Receive`, `ReceiveTimeout`, `CheckFinished` (the flag is
read after the ring was, and the ring not again), `Close`, `Release`.

**`HlvEncoder`.** A picture of the input is its number; what the code measures of
its pixels is part of the input (`video`: how far it is from the one before, whether
coding it as P changes nothing, whether a key frame wins the comparison), and what
it measures of a trial is a choice (`Psnrs`, `Sizes`). A reconstruction is the
sequence of codes it was made from, so two are equal exactly when they were made
the same way; `dec` is the reference of a decoder that reads the file. `Encode` is
`hlv1_encoder_encode`, with the fixed and the adaptive GOP and REPEAT frames.
`Write` is the audio interval, the packet and the reconstruction. The loops of
`main`: `CodeFrame` (plain and bitrate), `StartSearch` to `TakeChosen` (constant
quality with its clones, the reduced lambdas and the finest quantizer),
`SpoolWindow` to `EndWindow` (two passes), `PrepareJob` to `EndBatch` (GOPs on
threads: `WorkerStep`, `WorkerError`, `WorkerEnd` interleave; a failed `thrd_create`
makes the main thread do the job).

**`HlvBits`** has the codes (bits, exp-Golomb, coefficient levels, vectors) as pure
operators with their readers. **`HlvPicture`** takes a picture of macroblocks the
encoder has decided on through `EncodeMacroblock`, `Send`, maybe `DamagePacket` (one
bit turned, or the tail missing), `StartDecode`, `DecodeMacroblock`, `EndDecode`.
Both sides keep the vector context (`Moved`, `Predictor`) and the skip run on their
own. All eleven modes of version 15, the two residual codings and the mask, palette,
gradient and literal rows, and the checks of vectors against the edges are there;
prediction, transform and the choice of a mode, being functions of these, are not.
What the encoder may have decided is assumed of the constant `Pictures`
(`PictureAssumption`): a macroblock for every place of the picture, and each one a
`Candidate` for its place, as `encoder_encode_internal` builds them: P modes in P
pictures, GLOBAL where there is a global vector, and vectors that `motion_valid` and
`motion_valid_rect` accept.

The models meet at named places: `Playback`'s `Decode` is one decode of
`HlvRowPipeline`, and its choice of late or on time is `AudioOutput`'s wait;
`SdFiles` starts from what `UartUpload` puts into the `.part` file; a packet of
`HlvEncoder` is one picture of `HlvPicture`, and the key interval that `HlvEncoder`
keeps is what `Playback`'s catch-up and seeks rely on.

Operators commented as faults or mutants are faulty variants of the definition that
follows them; no specification uses them. Replacing the definition by its variant
breaks the property that `PROJECT.json` names under "mutants".

## 3. The runs

Each passing run explores its whole bounded state space.

| Run | Checks | States | What it shows |
|---|---|---|---|
| `hlv` | `TypeOK`, `PendingRowsIntact`, `DecodedPictureWhole`, `WorkerDeletedIdle`, `DecodeAnswered` | 3,526 | no row is replaced before it is converted, none is committed while it is still needed for prediction; every decode is answered |
| `playback` | `TypeOK`, `SequentialReferenceExact`, `TimelineExact`, `SeekRendersGuarded`, `CatchupEnds`, `SeekEnds` | 32,792 | both builds of the main loop keep timeline, row guard, catch-up and seeks right; the single-core one also the references |
| `upload` | `TypeOK`, `StoredInOrder`, `AckMeansStored`, `ResponsesUnderstood`, `UploadEnds`, `Delivers` | 64,073 | the window protocol implements `UploadDelivery` and always ends |
| `audio` | `TypeOK`, `SamplesAccounted`, `StreamOutlivesUsers`, `WaitEnds`, `DiscardEnds` | 39,376 | the clock is exact, the stream outlives reader and interrupt, waits end |
| `files` | `TypeOK`, `AnswerTrue`, `VideoSurvives`, `CrcExact`, `TornKeepsBackup` | 1,187,753 | answers tell the truth about the card, one fault loses no video |
| `mjpeg_input` | `TypeOK`, `InputExact`, `ShortInputExplained`, `SkipTaken`, `DecodeEnds` | 1,155 | every byte reaches the picture it belongs to, a late skip never blocks, decoding a packet ends |
| `hlv_encoder` | `StreamExact`, `DecoderFollows`, `KeyInterval`, `FixedGopIdentical`, `SearchChoice`, `EncodeEnds` | 230,545 | every loop of the tool writes a complete, decodable file, and with a fixed GOP threads change nothing |
| `hlv_picture` | `RoundTrip`, `OnlyValidDecoded` | 49,589 | what is parsed is what was written; a damaged packet stays inside |

Four runs expect a violation; each is a finding (section 6): `playback_reference`,
`playback_pcm16`, `audio_tail`, `files_interrupted`.

### Bounds

* `hlv`: 3 pictures (a keyframe and its successors, so that each of the two
  buffers' roles is taken over twice), macroblock rows of 2 luma rows, 4 of them
  with a ring of 2: the decoder commits before the ring is full, in the middle
  and at the end of the picture. Radius 2 is the largest that the ring allows, as
  8 of 16 is not; 7 visible rows leave padding below the picture; 9 lines show
  some rows once and some twice; a transfer of 2 lines fails inside a picture.
* `playback` and its two violations: 8 packets with keyframes 1 and 6 give both a
  stretch long enough to fall behind (3 late pictures of the source are 2 here), to
  be caught up and to be decoded after it, and a file that ends in predicted
  pictures. Seeks go to 0 (restart), 3 (behind and ahead) and 9 (past the end). Two
  SD failures instead of three reach the unmounting. `SampleBytes` is 1, or 2 for
  PCM16. Both builds start in one run.
* `upload`: 3 blocks pass through both buffers and back to the first (the source
  has two buffers of 4096 bytes); 3 attempts, 2 copies of the completion, and 2
  line faults, which may hit a block and the answer to its retransmission. It ends
  by design, so deadlock is not checked there.
* `audio`: a track of 7 samples, longer than the queue (3) with the packet of 2 that
  does not divide it, descriptors of 1 sample, pictures of 2 samples; seeks to
  picture 2 and past the end. A track that ends in a picture and one whose end
  falls into a rebuffering queue occur (`audio_tail` has other sizes that make the
  latter short).
* `files`: a video and `play.txt`, two contents of one size, which only the CRC tells
  apart, and the empty file of a choice cut short; one block a file, so that every
  patch is of the whole; two faults, so that a failing step and its failing
  recovery occur together. Larger files only add positions that the services
  treat alike.
* `mjpeg_input`: packets of 1, 5 and 3 pieces with a ring of 3 and a speculation of
  2: one fits into the speculation, one is longer than the ring, one just fills it.
* `hlv_encoder`: 5 pictures at most, of which the first four are any mix of calm,
  still, calm but better as a key frame, cut and hard cut; GOPs of 2 and 3, so that
  intervals end inside a window of 2, inside a batch of 2 threads and at the end of
  the input; `--frames` inside a GOP, inside a window, and absent; 3 quantizers, 2
  trials, a PSNR below, at and above the target and two sizes, which reach every
  branch of the searches. The program ends by design, so deadlock is not checked.
* `hlv_picture`: blocks and rows of 3 values instead of 16; residuals of every mix of
  7 blocks and every pair of 14 levels (around the ends of each code); all pictures
  of 2x2 macroblocks over 11 kinds and of 3x2 over 4, with and without a global
  vector; every placement of two coded macroblocks in a row of 19 (a run is at most
  17); every pair of modes; and one wrong bit anywhere, or any missing tail, for four
  pictures that have each kind of syntax. It ends by design.

### Fairness

* `HlvRowPipeline`: each core goes on with what it has begun. CPU1 runs one task of
  the player that is never suspended; CPU0 does not leave the loop between
  submitting and collecting.
* `Playback`: `app_main` iterates and the decode task runs. No user command, no late
  picture and no error is ever required; `SeekEnds` is only claimed when commands
  stop.
* `UartUpload`: client, receiver and writer run; timeouts fire because both sides wait
  with deadlines. The line is never required to fail or to deliver.
* `AudioOutput`: tasks are scheduled, deadlines pass, the DMA interrupt keeps coming
  while the output is enabled, and the output is not required to fail. Card reads
  are not assumed to end, except in `DiscardEnds`, which says so: the discarding
  of a fast-forward has no deadline of its own.
* `MjpegInput`: both tasks run. Opening, closing and the timeout of the queue are never
  required.
* `HlvEncoder`: the program and its threads are scheduled as a whole; an error need
  not happen. Every step makes progress, so nothing stronger is needed.
* `SdFiles` and `HlvPicture` have no liveness properties.

## 4. The proofs

TLC checks the instances above; the theorems hold for every value of the
constants within the named assumptions (`SizeAssumption`, `RowMapAssumption`,
`PlaybackAssumption`, `UploadAssumption`, `AudioAssumption`, `MjpegInputAssumption`,
`EncoderAssumption`, `FilesAssumption`, `PictureAssumption`). Each proof goes through an inductive invariant
`IInv`, shown to hold initially, to be kept by each action in a lemma of its own,
and to imply the property.

* **`HlvRowPipelineProof`**: `TypeCorrect`, `PendingIntact`, `DecodedWhole`,
  `DeletedIdle`. `PendingRowsIntact` is not inductive: it says nothing of what a
  copy already past the guard will overwrite. `GuardInv` adds that a copy under way
  lies below the rows published (or above the visible ones), `DecoderInv` describes
  reference and ring at each point of a decode (rows below `copied` are new, the
  others old, the ring holds what lies between), `QueueInv` who holds request and
  result. The assumption `Radius <= (RingMbs - 1) * MB` is where the ring is large
  enough: it is what the source's 32 rows and radius 8 satisfy.
* **`PlaybackProof`**: `TypeCorrect`, `TimelineKept`, `RenderingGuarded`, for both
  builds, and `ReferencesKept` for the single-core one. `TimelineExact` speaks of the
  loop's head; `CountInv` counts the packet inside the decoder and its result as well,
  `SeekInv` ties the guard to the seek, and `LimitInv` keeps the lateness counter in
  range. `ReferenceInv` says where the single-core decoder has the right reference:
  with the filter off whenever a packet is decoded, and as long as a picture waits to
  be presented; it is lost only while packets are skipped.
* **`UartUploadProof`**: `TypeCorrect`, `PartInOrder`, `AcknowledgedStored`,
  `NoResponseStray` (for `ResponsesUnderstood`), and `ProtocolDelivers`: initial states of `UartUpload` map to initial states of
  `UploadDelivery` and each step to a step or a stutter. `QueueInv` says that the
  queue holds the blocks after those written and that their buffers still have
  their contents, for which the receiver must be one buffer short while it reads
  (`ReceiverInv`); `Promise` says what a response on the line commits the device to.
  `UnderstoodInv` says that the device is never ahead of the client, and that it asks
  for a block not sent yet only before its first acknowledgement and while the window
  has room, so that the client sends that block before it reads the request.
  `ResentInterval` finds the blocks sent again to be an interval, from the least
  element of a set of numbers.
* **`AudioOutputProof`**: `TypeCorrect`, `EverySampleAccounted` (for
  `SamplesAccounted`) and `StreamSafe`. `StageInv` tells from the stage of the main
  loop which of output, stream and reader exist; `SilentInv` that nothing is on its
  way to the speaker before the output is started. `PendingExact`, one half of
  `SamplesAccounted`, equates the counter with a sum over the descriptors in the queue,
  of any length: the lemmas about that sum (what a push and a pop do to it, and that
  it is a natural number) go by well-foundedness of the naturals, applied to the
  set of the lengths for which they hold.
* **`MjpegInputProof`**: `TypeCorrect`, `InputInOrder`, `ShortInputHasReason`.
  `InputExact` is about single steps; the invariant says what the whole ring holds
  (`RingInv`: the rest of the packet being decoded, then what the reader has sent of
  its own), how far the reader may be ahead (`OrderInv`), and that a decision is
  made once for a packet and taken before the reader leaves it (`DecisionInv`).
* **`HlvEncoderProof`**: `EncoderInvariant`, from which `StreamKept`, `DecoderKept`,
  `KeysInTime` and `ChoiceKept` follow, for any input, GOP length, number of
  threads, window, trials and quantizers, and `GopsIdentical` (for
  `FixedGopIdentical`). `KeyInterval` is about the file; the code
  decides by the counters of whichever encoder is at work. `Tracks` ties the two:
  `frames_since_key` leads back to a key frame of the packets coded so far, and with
  a fixed GOP is bounded by the frame number modulo the GOP. `TrialInv` says that a
  trial that is kept was coded from the encoder of main, so that taking it is one
  step of that encoder; `Best` what good and bad trials are among the tested;
  `JobInv` that the packets of a GOP begin with a key frame and each picture is what
  a decoder makes of the one before it; `JobsInv` and `WriteInv` that jobs follow
  each other and the file, and where the writer is. The audio is exact because
  `samples * FpsNum + phase` is the sum of all steps; what `\div` and `%` do to
  that is proved from their definition (`DivMod`, `Remainder`). `GopInv` says that
  with a fixed GOP every packet a worker or the main loop has made is the one that a
  single encoder, run over the whole input, makes for that picture.
* **`HlvPictureProof`**: `SignedRoundTrip`, `SignedOneToOne`, `VectorUnits`, `LevelSplit`: the
  arithmetic between a number and its code, for all integers; and `ValidDecoded` (for
  `OnlyValidDecoded`), for any size of the picture, any macroblocks and whatever
  `DamagePacket` leaves of the packet. Its invariant: packets are 0/1 sequences
  (`EncoderInv`), both vector contexts hold 16-bit numbers, the reader of a decoder at work
  has not failed (`DecoderInv`), and every macroblock taken so far is one
  that may stand at its place (`ParsedInv`). `Readers(S)` says of a reader that what
  it returns, if it has not failed, is in `S`; it is shown for every code, from bits
  up to a macroblock, and `Sound` puts the modes together. `MotionInside` is the step
  from `motion_valid` to the samples that prediction reads. Where the code has a loop,
  `Recursion` builds the function that follows it, one step after another, and carries
  the type of the reader along.
  `PictureRoundTrip` (for `RoundTrip`) is about a packet that is not damaged.
  `At(r, s)` says that reader `r` stands in front of the bits `s`, `After(r, s, v)` is
  the reader behind them with the value `v`; for every code, "at the code of a value
  the reader returns the value and stands behind it" is a lemma, from bits over numbers,
  levels and blocks (`ResidualReadBack`, both codings), vectors (`VectorReadBack`), bytes
  and packed rows to the macroblock of any mode (`MacroblockReadBack`). `Encodes(t)`
  takes the encoder through the picture: `t[n]` is what it holds behind n macroblocks,
  and the packet begins with the bits of each of them (`Written`). The invariant
  `Faithful` says that, unless the packet is damaged, there is such a `t` on which both
  sides are: the encoder at `coded`, the decoder behind a macroblock where no run of
  skips is open (`Boundary`), with the same vector context, and its reader behind what
  was written up to there or in front of the padding of that (`Follows`). It needs all
  of this because a run is written only when it ends: `RunFound` shows that every run
  ends within 17 macroblocks and within its row, and that what one step of the decoder
  does with it is what the encoder did in k steps.
* **`SdFilesProof`**: `FilesInvariant`, from which `TypeCorrect`, `AnswersTrue`,
  `VideosSurvive`, `ChecksumsExact` and `BackupsKept` follow, for any names, contents
  and number of faults. The properties speak of answers and of faults so far; what
  makes them true is spread over the steps before. `UploadInv` says where the old
  file and the verified one are in each stage of a replacement, `PatchInv` that a
  patched file differs from what it was in the one block of which the `.patchbak`
  is the copy, and that only a fault leads to the restoring of it, `DoneInv` that a
  service has done its work when it turns to the index, `IndexInv` that without a
  fault the records are exact but for the file being changed, and `OwnedInv` that
  a file is missing only between the two renames.

Only model-checked is liveness (`DecodeAnswered`, `CatchupEnds`, `SeekEnds`,
`UploadEnds`, `WaitEnds`, `DiscardEnds`, `SkipTaken`, `DecodeEnds`, `EncodeEnds`):
fairness and ENABLED are out of the prover's reach. Every other property of a passing
run is stated by a theorem.

## 5. What is not modelled

* Pixel and coefficient arithmetic of all codecs, the rate-distortion choice and the
  in-loop filters: long sequential computations over whole pictures, out of TLC's
  reach. Their syntax (HLV version 15) and where a picture's rows come from are
  modelled. Older stream versions and the container are not.
* The FreeRTOS queues, the stream buffer, the I2S and UART drivers and the FAT file
  system, except for what the firmware relies on. A rename or an unlink is taken
  to be atomic and synced data to stay; a file system damaged by power loss is out
  of scope.
* In `HlvPicture`: the 32-bit wrap of a vector that a damaged packet makes 2^30 or
  more before it is checked. The numbers are unbounded there, and such a vector is
  rejected; in C its doubling is undefined.
* Memory allocation failures, other than as an error of the operation they are in;
  formatting, logging, statistics.
* In `Playback`: the loops of the other codecs (BPV, MPEG-1, H.263, DivX 3). In
  `UartUpload`: the HLVPUT hand-shake and the change of the baud rate. In `SdFiles`:
  the packets of patch, read and list. In `AudioOutput`: the packet formats, and the
  wrap of the 32-bit clock after a day. The BPV reader of the input prefetch, which
  has the ring of `MjpegInput` without skip and speculation.
* The Windows player (one thread with a timer), the BPV codec (its GOP workers split the
  input like those of `hlvenc`), the MJPEG, DivX 3, H.263 and AMR-NB decoders, the
  AVI, ADPCM and colour helpers (conversions without state between calls), the BOOT
  button and the browser's list (one sequential task), the display driver's two
  strips (owned by one task), other firmware variants and third-party code. They
  are most of the repository's lines.

## 6. Findings

* `playback_reference` (`hlv_player.c:1074`). The dual-core loop samples the catch-up flag
  when it requests the next packet, before the pending keyframe is presented and
  clears it. The predicted packet after the keyframe is dropped too, and the one
  after that is decoded against the wrong reference. The single-core loop is right.
* `playback_pcm16` (`hlv_player.c:5528`). Discarding after a seek compares bytes with
  samples: with 16-bit audio half of it stays.
* `audio_tail` (`hlv_player.c:1953`). After an underrun near the end of the track the
  queue can never be full again: the rest of the track is never played.
* `files_interrupted` (`uart_file_upload.c:2156`). Power loss between the two renames of an
  upload leaves the file under its `.bak` name only; nothing looks for it.

Observations without a run of their own:

* `hlv_player.c:5527`: the count of discarded audio survives the reopening of the file in
  the middle of a seek; `hlv_player.c:7085`: the retry timer reopens the video inside a
  UART session, where the firmware's README.md:197-199 and 370-371 says that only
  `HLVMONITOR 1 ON` does. `Playback` has both as they are.
* README.md:323-325 says that the output does not depend on `--threads`. That holds for
  a fixed GOP (`FixedGopIdentical`). With an adaptive GOP every job of `gop` pictures
  begins with a key frame, which one encoder need not choose, so the plain statement
  (`ByteIdentical`) is false of the model.
* `hlvenc.c:679-687` restores the normal lambda in a trial that meets the target, but
  `hlvenc.c:1461` also takes the encoder of a miss, whose reduced lambda then stays for
  the pictures after it.
* `hlv_player.c:1386`: the MJPEG loop may end a picture early at the end of the file
  although the last bytes have just arrived (`ShortInputExplained` says when).
* `hlv1_decode.c:322`: a row of the desktop decoder has 12 bytes, one of the firmware's
  14, which is what a literal row takes; `HlvPicture` follows the firmware.
* The documentation gives 4 KiB for an audio queue that has 3072 bytes; after a seek
  playback starts with whatever the queue has left; HLVCRC answers from a stale record
  after an error or a power loss between a change and the update of the index, and
  after the BOOT button has rewritten `play.txt` in the same length.

## 7. What is left

In the order of what it would add:

1. A session model: the session gate of the main loop, the request parser's states, the
   HLVPUT, HLVREAD, HLVLIST and HLVBAUD hand-shakes with repeated answers, both ends,
   against an abstract "request answered once".
2. The BPV loop: the palette hand-over, the failed prefetch (`hlv_player.c:6682`) and the
   BPV reader; the H.263 row guard as a second instance of the guard of
   `HlvRowPipeline`.
3. A file replaced atomically as the abstract specification against which `SdFiles` shows
   its crash window; the two strips of the display driver composed with
   `HlvRowPipeline`.
4. The AVI walk, IMA ADPCM and colour conversion as operators against reference
   definitions.
