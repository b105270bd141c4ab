----------------------------- MODULE HlvEncoder -----------------------------
(***************************************************************************)
(* The HLV encoder above the macroblocks: which frame type a picture gets  *)
(* (hlv1_encode.c: hlv1_encoder_encode, the head and the tail of           *)
(* encoder_encode_internal), and the loops of the tool that drive it       *)
(* (hlvenc.c): plain, bitrate feedback, constant quality with its trial    *)
(* clones, bounded two-pass windows, and independent GOPs on threads.      *)
(*                                                                         *)
(* A picture is its number.  What the code measures of the pixels is a     *)
(* choice: "video" says of each picture how far it is from the one before  *)
(* it, whether coding it as P changes nothing and whether a key frame      *)
(* would win the comparison; a trial's PSNR and size are picked when it is *)
(* encoded.  A reconstruction is the sequence of codes it was made from,   *)
(* the newest last, starting at its key frame: two are the same picture    *)
(* exactly when they were made the same way.                               *)
(***************************************************************************)
EXTENDS Naturals, Sequences, FiniteSets

CONSTANTS
  NFrames,      \* pictures of the Y4M input
  Inputs,       \* the command lines and contents that are considered
  MaxQ,         \* HLV1_MAX_QSTEP, scaled down
  Workers,      \* --threads
  Trials,       \* --cq-trials and --two-pass-trials
  Window,       \* frames_per_window of the two-pass mode
  Psnrs, Target,\* measured quality of a trial, and the wanted one
  Sizes,        \* packet sizes; distances of a probe from its target
  AudioStep,    \* sample_rate * fps_den
  FpsNum        \* fps_num

\* Command lines that main accepts; q is the configured quantizer, repeat
\* stands for version 15 of the syntax.
Configs ==
  {c \in [mode : {"plain", "bitrate", "quality", "window", "gops"},
          adaptive : BOOLEAN, repeat : BOOLEAN, q : 1..MaxQ,
          gop : Nat \ {0}, minKey : Nat \ {0}, max : Nat] :
     c.minKey < c.gop}

Videos == [1..NFrames -> [diff : {"calm", "cut", "hard"},
                          still : BOOLEAN, keyWins : BOOLEAN]]

ASSUME EncoderAssumption ==
  /\ NFrames \in Nat /\ MaxQ \in Nat \ {0} /\ Workers \in Nat \ {0}
  /\ Trials \in Nat \ {0} /\ Window \in Nat \ {0}
  /\ Psnrs \subseteq Nat /\ Target \in Nat /\ Sizes \subseteq Nat
  /\ AudioStep \in Nat /\ FpsNum \in Nat \ {0}
  /\ Inputs \subseteq Configs \X Videos

VARIABLES
  conf,     \* the command line
  video,    \* the input
  pc,       \* where main is
  enc,      \* the encoder of main (the template of the GOP jobs)
  rate,     \* rate_q_y
  read,     \* pictures read from the input
  eof,      \* input_eof
  jobs,     \* ParallelGopJob jobs[]
  at,       \* the job started or written, the packet of it, the window frame
  search,   \* the running search for a quantizer
  file,     \* the packets written
  recon,    \* the pictures written to --recon
  dec,      \* the reference picture of a decoder that reads the file
  phase,    \* AudioInput.phase
  samples   \* audio samples in the file, for 8-bit PCM

loop  == <<conf, video>>
out   == <<file, recon, dec, phase, samples>>
vars  == <<conf, video, pc, enc, rate, read, eof, jobs, at, search, out>>

Q == 1..MaxQ
Least(a, b) == IF a < b THEN a ELSE b
\* Mutant of Clamped: without the upper bound.
ClampedBelow(q) == IF q < 1 THEN 1 ELSE q

Clamped(q) == IF q < 1 THEN 1 ELSE IF q > MaxQ THEN MaxQ ELSE q

-----------------------------------------------------------------------------
(* One encoder.                                                            *)

\* hlv1_encoder_create; lambda 0 is the configured --lambda-scale, 1 and 2
\* its reductions by the constant-quality search.
NewEncoder(q) == [have |-> FALSE, previous |-> <<>>, frames_since_key |-> 0,
                  frame_index |-> 0, q |-> q, lambda |-> 0]

SetQ(e, q) == [e EXCEPT !.q = q]

\* encoder_encode_internal decides on the type it was not told.
KeyDue(e, i) ==
  \/ ~e.have
  \/ e.frame_index % conf.gop = 0
  \/ video[i].diff # "calm"

\* A P picture that equals the reference is sent as REPEAT (version 15).
FrameType(e, i, forced) ==
  IF forced = "K" \/ (forced = "any" /\ KeyDue(e, i)) THEN "K"
  ELSE IF conf.repeat /\ video[i].still THEN "R" ELSE "P"

\* What a decoder makes of a packet: a key frame replaces the reference, a
\* P frame is added to it, REPEAT leaves it.
Decoded(reference, p) ==
  IF p.type = "K" THEN <<p.code>>
  ELSE IF p.type = "P" THEN Append(reference, p.code)
  ELSE reference

Packet(e, i, t) ==
  [type |-> t, frame |-> i,
   code |-> [frame |-> i, q |-> e.q, lambda |-> e.lambda]]

\* The encoder after it has coded picture i as type t: the reconstructed
\* picture becomes the reference and the counters move on.
After(e, p) ==
  [e EXCEPT !.have = TRUE,
            !.previous = Decoded(e.previous, p),
            !.frames_since_key = IF p.type = "K" THEN 0 ELSE @ + 1,
            !.frame_index = @ + 1]

EncodeInternal(e, i, forced) ==
  LET p == Packet(e, i, FrameType(e, i, forced))
  IN  [packet |-> p, encoder |-> After(e, p)]

\* Mutant of Encode: the hard maximum is compared after the frame, not
\* before it.
EncodeLate(e, i) ==
  EncodeInternal(e, i,
    IF ~conf.adaptive \/ ~e.have THEN "any"
    ELSE IF e.frames_since_key >= conf.gop THEN "K"
    ELSE IF e.frames_since_key < conf.minKey /\ video[i].diff # "hard"
    THEN "P"
    ELSE IF video[i].keyWins THEN "K" ELSE "P")

\* hlv1_encoder_encode: with an adaptive GOP both types are tried on clones
\* between the minimum and the maximum interval, and the winner's whole
\* state replaces the encoder's.
Encode(e, i) ==
  EncodeInternal(e, i,
    IF ~conf.adaptive \/ ~e.have THEN "any"
    ELSE IF e.frames_since_key + 1 >= conf.gop THEN "K"
    ELSE IF e.frames_since_key < conf.minKey /\ video[i].diff # "hard"
    THEN "P"
    ELSE IF video[i].keyWins THEN "K" ELSE "P")

-----------------------------------------------------------------------------
(* Writing a picture: its audio interval, its packet, its reconstruction.  *)

\* append_audio_interval, hlv1_packet_write, hlv1_y4m_write_frame.
Write(p, r) ==
  /\ file'    = Append(file, p)
  /\ recon'   = Append(recon, r)
  /\ dec'     = Decoded(dec, p)
  /\ samples' = samples + (phase + AudioStep) \div FpsNum
  /\ phase'   = (phase + AudioStep) % FpsNum

\* while (!max_frames || encoded_frames < max_frames)
Wanted(n) == conf.max = 0 \/ n < conf.max

\* Mutant of Requested: the written packets are counted, not the pictures
\* already scheduled.
RequestedUnwritten(limit) ==
  IF conf.max = 0 THEN limit ELSE Least(limit, conf.max - Len(file))

\* Pictures that a loop collecting up to "limit" of them asks for, and gets.
Requested(limit) ==
  IF conf.max = 0 THEN limit ELSE Least(limit, conf.max - read)

Available(limit) == Least(Requested(limit), NFrames - read)

Idle == [kind |-> "none"]

-----------------------------------------------------------------------------
(* Plain and bitrate modes.                                                *)

\* The input or --frames ends the loop of each mode.
Finish ==
  /\ pc = "frame" /\ jobs = <<>>
  /\ \/ ~Wanted(Len(file))
     \/ eof
     \/ conf.mode \in {"plain", "bitrate", "quality"} /\ read = NFrames
  /\ pc' = "done"
  /\ UNCHANGED <<loop, enc, rate, read, eof, jobs, at, search, out>>

\* next_q of the bitrate feedback: a factor of 0.80 .. 1.25, rounded, and
\* one more or less when that changes nothing.
RateNext(r) ==
  {Clamped(n) : n \in ((8 * r + 5) \div 10) .. ((5 * r + 2) \div 4)}
  \cup {Clamped(r + 1), IF r > 1 THEN r - 1 ELSE 1}

CodeFrame ==
  /\ pc = "frame" /\ conf.mode \in {"plain", "bitrate"}
  /\ Wanted(Len(file)) /\ read < NFrames
  /\ LET base == IF conf.mode = "bitrate" THEN SetQ(enc, rate) ELSE enc
         r    == Encode(base, read + 1)
     IN  /\ enc' = r.encoder
         /\ Write(r.packet, r.encoder.previous)
  /\ rate' \in IF conf.mode = "bitrate" THEN RateNext(rate) ELSE {rate}
  /\ read' = read + 1
  /\ UNCHANGED <<loop, pc, eof, jobs, at, search>>

-----------------------------------------------------------------------------
(* Constant quality: encode_constant_quality.                              *)

NoTrial == [q |-> 0]

StartSearch ==
  /\ pc = "frame" /\ conf.mode = "quality"
  /\ Wanted(Len(file)) /\ read < NFrames
  /\ read' = read + 1
  /\ pc' = "trial"
  /\ search' = [kind |-> "quality", q |-> rate, count |-> 0, tested |-> {},
                good_q |-> 0, bad_q |-> 0, good |-> NoTrial, bad |-> NoTrial]
  /\ UNCHANGED <<loop, enc, rate, eof, jobs, at, out>>

TestedQ == {t.q : t \in {u \in search.tested : u.reduced = 0}}

\* The quantizer of the next iteration; 0 ends the search.
TrialQ ==
  LET s == search
      q == IF s.q \notin TestedQ THEN s.q
           ELSE IF s.good_q # 0 /\ s.bad_q # 0 /\ s.bad_q > s.good_q + 1
           THEN s.good_q + (s.bad_q - s.good_q) \div 2
           ELSE IF s.good_q # 0 /\ s.good_q < MaxQ THEN s.good_q + 1
           ELSE IF s.bad_q > 1 THEN s.bad_q - 1
           ELSE 0
  IN  IF q \in TestedQ THEN 0 ELSE q

\* The next guess of the loop: halfway between a good and a bad quantizer,
\* else the tested one times 0.25 .. 4 by what the PSNR says, at least one
\* step away (downwards also from a PSNR that meets the target barely).
Guesses(q, met, good_q, bad_q) ==
  IF good_q # 0 /\ bad_q # 0 /\ bad_q > good_q + 1
  THEN {good_q + (bad_q - good_q) \div 2}
  ELSE {Clamped(n) : n \in IF met THEN {q - 1} \cup (q + 1) .. (4 * q)
                           ELSE ((q + 2) \div 4) .. (q - 1)}

\* A trial on a clone of the encoder, with its measured quality and size.
Trial(q, lambda, psnr, size) ==
  LET r == Encode([enc EXCEPT !.q = q, !.lambda = lambda], read)
  IN  [q |-> q, psnr |-> psnr, size |-> size,
       packet |-> r.packet, encoder |-> r.encoder]

\* Mutant of BetterGood: the larger packet.
LargerGood(t, best) == best = NoTrial \/ t.size > best.size

BetterGood(t, best) ==
  \/ best = NoTrial
  \/ t.size < best.size
  \/ t.size = best.size /\ t.psnr < best.psnr

BetterBad(t, best) == best = NoTrial \/ t.psnr > best.psnr

Outcome(t, reduced) ==
  [q |-> t.q, psnr |-> t.psnr, size |-> t.size, reduced |-> reduced]

TryQ ==
  /\ pc = "trial" /\ search.count < Trials /\ TrialQ # 0
  /\ \E psnr \in Psnrs, size \in Sizes :
       LET q    == TrialQ
           s    == search
           t    == Trial(q, enc.lambda, psnr, size)
           met  == psnr >= Target
           good == IF met /\ q > s.good_q THEN q ELSE s.good_q
           bad  == IF ~met /\ (s.bad_q = 0 \/ q < s.bad_q)
                   THEN q ELSE s.bad_q
       IN  \E guess \in Guesses(q, met, good, bad) :
             search' =
               [s EXCEPT !.q = guess, !.count = @ + 1,
                         !.tested = @ \cup {Outcome(t, 0)},
                         !.good_q = good, !.bad_q = bad,
                         !.good = IF met /\ BetterGood(t, @) THEN t ELSE @,
                         !.bad = IF ~met /\ BetterBad(t, @) THEN t ELSE @]
  /\ UNCHANGED <<loop, pc, enc, rate, read, eof, jobs, at, out>>

EndTrials ==
  /\ pc = "trial"
  /\ search.count = Trials \/ TrialQ = 0
  /\ pc' = IF search.good # NoTrial THEN "choose" ELSE "lambda"
  /\ search' = [search EXCEPT !.count = 0]
  /\ UNCHANGED <<loop, enc, rate, read, eof, jobs, at, out>>

\* The normal lambda is put back into the encoder that met the target.
Restored(t) == [t EXCEPT !.encoder.lambda = 0]

\* No trial was good: the two reduced lambdas at the best bad quantizer.
TryLambda ==
  /\ pc = "lambda" /\ search.count < 2
  /\ \E psnr \in Psnrs, size \in Sizes :
       LET s == search
           t == Trial(s.bad.q, s.count + 1, psnr, size)
       IN  IF psnr >= Target
           THEN /\ search' = [s EXCEPT !.good = Restored(t),
                                       !.tested = @ \cup {Outcome(t, s.count + 1)}]
                /\ pc' = "choose"
           ELSE /\ search' = [s EXCEPT !.count = @ + 1,
                                       !.tested = @ \cup {Outcome(t, s.count + 1)},
                                       !.bad = IF BetterBad(t, @) THEN t ELSE @]
                /\ UNCHANGED pc
  /\ UNCHANGED <<loop, enc, rate, read, eof, jobs, at, out>>

EndLambda ==
  /\ pc = "lambda" /\ search.count = 2
  /\ pc' = IF 1 \in TestedQ THEN "choose" ELSE "finest"
  /\ UNCHANGED <<loop, enc, rate, read, eof, jobs, at, search, out>>

\* The finest quantizer, before a miss is accepted.
TryFinest ==
  /\ pc = "finest"
  /\ \E psnr \in Psnrs, size \in Sizes :
       LET t == Trial(1, enc.lambda, psnr, size)
       IN  search' = [search EXCEPT
             !.tested = @ \cup {Outcome(t, 0)},
             !.good = IF psnr >= Target THEN Restored(t) ELSE @,
             !.bad = IF psnr < Target /\ BetterBad(t, @) THEN t ELSE @]
  /\ pc' = "choose"
  /\ UNCHANGED <<loop, enc, rate, read, eof, jobs, at, out>>

Chosen == IF search.good # NoTrial THEN search.good ELSE search.bad

\* main takes the chosen trial's encoder and packet.
TakeChosen ==
  /\ pc = "choose"
  /\ enc' = Chosen.encoder
  /\ rate' = Chosen.q
  /\ Write(Chosen.packet, Chosen.encoder.previous)
  /\ pc' = "frame"
  /\ search' = Idle
  /\ UNCHANGED <<loop, read, eof, jobs, at>>

-----------------------------------------------------------------------------
(* Two-pass windows.                                                       *)

SpoolWindow ==
  /\ pc = "frame" /\ conf.mode = "window"
  /\ Wanted(Len(file)) /\ ~eof
  /\ LET n == Available(Window)
     IN  IF n = 0
         THEN /\ eof' = TRUE
              /\ UNCHANGED <<pc, read, search, at>>
         ELSE /\ read' = read + n
              /\ eof' = (n < Requested(Window))
              /\ pc' = "probe"
              /\ at' = [at EXCEPT !.packet = read + 1]
              /\ search' = [kind |-> "window", q |-> rate, count |-> 0,
                            tested |-> {}, over_q |-> 0, under_q |-> 0,
                            best |-> [q |-> rate, error |-> 0]]
  /\ UNCHANGED <<loop, enc, rate, jobs, out>>

ProbedQ == {t.q : t \in search.tested}

\* Mutant of ProbeWindow: the window is analysed with main's own encoder.
ProbeOwnEncoder ==
  /\ pc = "probe" /\ search.count < Trials /\ search.q \notin ProbedQ
  /\ search' = [search EXCEPT
       !.count = Trials,
       !.tested = {[q |-> search.q, error |-> 0]},
       !.best = [q |-> search.q, error |-> 0]]
  /\ enc' = Encode(SetQ(enc, search.q), at.packet).encoder
  /\ UNCHANGED <<loop, pc, rate, read, eof, jobs, at, out>>

\* analyse_window codes the window with a clone; only the bytes are kept.
\* Error 0 is within two percent of the target and ends the search, as does
\* a pair of neighbours around the target.
ProbeWindow ==
  /\ pc = "probe" /\ search.count < Trials /\ search.q \notin ProbedQ
  /\ \E error \in Sizes, over \in BOOLEAN :
       LET s     == search
           tried == [q |-> s.q, error |-> error]
           near  == error = 0
           o     == IF over /\ s.q > s.over_q THEN s.q ELSE s.over_q
           u     == IF ~over /\ (s.under_q = 0 \/ s.q < s.under_q)
                    THEN s.q ELSE s.under_q
           q     == IF o # 0 /\ u > o + 1 THEN o + (u - o) \div 2
                    ELSE IF o # 0 /\ u = 0 THEN Least(2 * s.q, MaxQ)
                    ELSE IF u # 0 /\ o = 0 THEN (s.q + 1) \div 2
                    ELSE 0
       IN  /\ search' = [s EXCEPT
                !.q = IF near \/ q = 0 THEN @ ELSE q,
                !.count = IF near \/ q = 0 THEN Trials ELSE @ + 1,
                !.tested = @ \cup {tried},
                !.over_q = o, !.under_q = u,
                !.best = IF s.tested = {} \/ error < @.error THEN tried ELSE @]
  /\ UNCHANGED <<loop, pc, enc, rate, read, eof, jobs, at, out>>

\* Mutant of EndProbe: a quantizer probed before does not end the search.
EndProbeLate ==
  /\ pc = "probe" /\ search.count = Trials
  /\ pc' = "window"
  /\ enc' = SetQ(enc, search.best.q)
  /\ rate' = search.best.q
  /\ UNCHANGED <<loop, read, eof, jobs, at, search, out>>

EndProbe ==
  /\ pc = "probe"
  /\ search.count = Trials \/ search.q \in ProbedQ
  /\ pc' = "window"
  /\ enc' = SetQ(enc, search.best.q)
  /\ rate' = search.best.q
  /\ UNCHANGED <<loop, read, eof, jobs, at, search, out>>

CodeWindowFrame ==
  /\ pc = "window" /\ at.packet <= read
  /\ LET r == Encode(enc, at.packet)
     IN  /\ enc' = r.encoder
         /\ Write(r.packet, r.encoder.previous)
  /\ at' = [at EXCEPT !.packet = @ + 1]
  /\ UNCHANGED <<loop, pc, rate, read, eof, jobs, search>>

EndWindow ==
  /\ pc = "window" /\ at.packet > read
  /\ pc' = "frame"
  /\ search' = Idle
  /\ UNCHANGED <<loop, enc, rate, read, eof, jobs, at, out>>

-----------------------------------------------------------------------------
(* Independent GOPs.                                                       *)

\* Mutant of JobSize: the pictures are dealt out evenly.
EvenJob == 1

\* The pictures a job may take: gop_frames.
JobSize == conf.gop

\* parallel_gop_prepare: the pictures of one GOP and a clone of the encoder
\* that main never uses itself.
PrepareJob ==
  /\ pc = "frame" /\ conf.mode = "gops"
  /\ Wanted(Len(file)) /\ ~eof
  /\ Len(jobs) < Workers /\ Wanted(read)
  /\ LET n == Available(JobSize)
     IN  /\ eof' = (n < Requested(JobSize))
         /\ read' = read + n
         /\ jobs' = IF n = 0 THEN jobs
                    ELSE Append(jobs, [first |-> read + 1, frame_count |-> n,
                                       encoder |-> enc, packets |-> <<>>,
                                       reconstructed |-> <<>>,
                                       state |-> "new", result |-> "OK"])
  /\ UNCHANGED <<loop, pc, enc, rate, at, search, out>>

\* The batch is full or the input has ended.
StartJobs ==
  /\ pc = "frame" /\ conf.mode = "gops" /\ jobs # <<>>
  /\ Len(jobs) = Workers \/ eof \/ ~Wanted(read)
  /\ pc' = "start"
  /\ at' = [at EXCEPT !.job = 1]
  /\ UNCHANGED <<loop, enc, rate, read, eof, jobs, search, out>>

\* thrd_create; when it fails main does the GOP itself and waits for it.
StartWorker ==
  /\ pc = "start" /\ at.job <= Len(jobs)
  /\ at.job > 1 => jobs[at.job - 1].state # "inline"
  /\ \E state \in {"thread", "inline"} :
       jobs' = [jobs EXCEPT ![at.job].state = state]
  /\ at' = [at EXCEPT !.job = @ + 1]
  /\ UNCHANGED <<loop, pc, enc, rate, read, eof, search, out>>

\* parallel_gop_worker: the next picture of job k, or an error.
WorkerStep(k) ==
  LET j == jobs[k]
      r == Encode(j.encoder, j.first + Len(j.packets))
  IN  /\ j.state \in {"thread", "inline"}
      /\ Len(j.packets) < j.frame_count
      /\ jobs' = [jobs EXCEPT ![k] =
                   [j EXCEPT !.encoder = r.encoder,
                             !.packets = Append(@, r.packet),
                             !.reconstructed = Append(@, r.encoder.previous)]]
      /\ UNCHANGED <<loop, pc, enc, rate, read, eof, at, search, out>>

WorkerError(k) ==
  /\ jobs[k].state \in {"thread", "inline"}
  /\ Len(jobs[k].packets) < jobs[k].frame_count
  /\ jobs' = [jobs EXCEPT ![k] =
                [@ EXCEPT !.result = "ERR", !.state = "ended"]]
  /\ UNCHANGED <<loop, pc, enc, rate, read, eof, at, search, out>>

WorkerEnd(k) ==
  /\ jobs[k].state \in {"thread", "inline"}
  /\ Len(jobs[k].packets) = jobs[k].frame_count
  /\ jobs' = [jobs EXCEPT ![k].state = "ended"]
  /\ UNCHANGED <<loop, pc, enc, rate, read, eof, at, search, out>>

\* thrd_join of every worker; then the packets in the order of the GOPs.
JoinWorkers ==
  /\ pc = "start" /\ at.job > Len(jobs)
  /\ \A k \in 1..Len(jobs) : jobs[k].state = "ended"
  /\ pc' = "write"
  /\ at' = [job |-> 1, packet |-> 1]
  /\ UNCHANGED <<loop, enc, rate, read, eof, jobs, search, out>>

WritePacket ==
  /\ pc = "write" /\ at.job <= Len(jobs)
  /\ LET j == jobs[at.job]
     IN  /\ j.result = "OK"
         /\ Write(j.packets[at.packet], j.reconstructed[at.packet])
         /\ at' = IF at.packet < j.frame_count
                  THEN [at EXCEPT !.packet = @ + 1]
                  ELSE [job |-> at.job + 1, packet |-> 1]
  /\ UNCHANGED <<loop, pc, enc, rate, read, eof, jobs, search>>

\* A failed GOP ends the program before any of its packets is written.
RefuseJob ==
  /\ pc = "write" /\ at.job <= Len(jobs)
  /\ jobs[at.job].result # "OK"
  /\ pc' = "failed"
  /\ UNCHANGED <<loop, enc, rate, read, eof, jobs, at, search, out>>

EndBatch ==
  /\ pc = "write" /\ at.job > Len(jobs)
  /\ pc' = "frame"
  /\ jobs' = <<>>
  /\ UNCHANGED <<loop, enc, rate, read, eof, at, search, out>>

-----------------------------------------------------------------------------
\* An error of the input, the output or the memory in main.
Fail ==
  /\ pc \notin {"start", "done", "failed"}
  /\ pc' = "failed"
  /\ UNCHANGED <<loop, enc, rate, read, eof, jobs, at, search, out>>

Init ==
  /\ \E i \in Inputs : conf = i[1] /\ video = i[2]
  /\ pc = "frame"
  /\ rate = conf.q
  /\ enc = NewEncoder(rate)
  /\ read = 0 /\ eof = FALSE
  /\ jobs = <<>>
  /\ at = [job |-> 1, packet |-> 1]
  /\ search = Idle
  /\ file = <<>> /\ recon = <<>> /\ dec = <<>>
  /\ phase = 0 /\ samples = 0

Step ==
  \/ Finish \/ CodeFrame
  \/ StartSearch \/ TryQ \/ EndTrials \/ TryLambda \/ EndLambda
  \/ TryFinest \/ TakeChosen
  \/ SpoolWindow \/ ProbeWindow \/ EndProbe \/ CodeWindowFrame \/ EndWindow
  \/ PrepareJob \/ StartJobs \/ StartWorker \/ JoinWorkers
  \/ \E k \in 1..Len(jobs) : WorkerStep(k) \/ WorkerError(k) \/ WorkerEnd(k)
  \/ WritePacket \/ RefuseJob \/ EndBatch

Next == Step \/ Fail

\* The program and its threads are scheduled; an error need not happen.
Spec == Init /\ [][Next]_vars /\ WF_vars(Step)

-----------------------------------------------------------------------------
(* Properties.                                                             *)

Codes == [frame : 1..NFrames, q : Q, lambda : 0..2]
Encoders == [have : BOOLEAN, previous : Seq(Codes), frames_since_key : Nat,
             frame_index : Nat, q : Q, lambda : 0..2]
Packets == [type : {"K", "P", "R"}, frame : 1..NFrames, code : Codes]

\* Every variable has its type.
TypeOK ==
  /\ pc \in {"frame", "trial", "lambda", "finest", "choose", "probe",
             "window", "start", "write", "done", "failed"}
  /\ enc \in Encoders /\ rate \in Q
  /\ read \in 0..NFrames /\ eof \in BOOLEAN
  /\ file \in Seq(Packets) /\ recon \in Seq(Seq(Codes))
  /\ dec \in Seq(Codes)
  /\ phase \in 0..(FpsNum - 1) /\ samples \in Nat

\* Whichever loop runs and whatever fails, the file is the pictures of the
\* input in order, one packet each and no more than --frames, and after n of
\* them it holds the audio of n pictures to the sample: the phase of
\* append_audio_interval carries the fraction over.
StreamExact ==
  /\ \A n \in 1..Len(file) : file[n].frame = n
  /\ conf.max # 0 => Len(file) <= conf.max
  /\ samples = (Len(file) * AudioStep) \div FpsNum
  /\ pc = "done" => Len(file) = IF conf.max = 0 THEN NFrames
                                ELSE Least(conf.max, NFrames)

\* A decoder of the file has, after every packet, the picture that the
\* encoder reconstructed for it: no trial clone, probe, swap, repeated
\* picture or GOP boundary leaves the two references different.
DecoderFollows ==
  Len(file) > 0 => dec = recon[Len(file)]

\* "--gop is the hard maximum interval": among every gop packets is a key
\* frame, so a seek or a catch-up is never further away.
KeyInterval ==
  \A n \in 1..Len(file) :
    \E m \in 1..n : file[m].type = "K" /\ n - m < conf.gop

\* What one encoder makes of the whole input.
OneEncoder ==
  LET f[n \in 0..NFrames] ==
        IF n = 0 THEN [encoder |-> NewEncoder(enc.q)]
        ELSE Encode(f[n - 1].encoder, n)
  IN  f

\* "--threads 1 and --threads 4 produce byte-identical output": the GOPs
\* coded on threads are the packets and pictures of one encoder.
ByteIdentical ==
  conf.mode = "gops" =>
    \A n \in 1..Len(file) :
      /\ file[n] = OneEncoder[n].packet
      /\ recon[n] = OneEncoder[n].encoder.previous

\* It holds where the type of a picture depends on its place in the GOP and
\* on the pictures alone.
FixedGopIdentical == ~conf.adaptive => ByteIdentical

\* The constant-quality search takes the smallest packet of the trials that
\* meet the target; it accepts a miss only when none did, and then the best
\* of them.  The two-pass search takes the probe closest to its target.
SearchChoice ==
  /\ pc = "choose" =>
       LET met == {t \in search.tested : t.psnr >= Target}
       IN  IF met # {}
           THEN Chosen.psnr >= Target /\ \A t \in met : Chosen.size <= t.size
           ELSE \A t \in search.tested : t.psnr <= Chosen.psnr
  /\ pc = "window" =>
       \A t \in search.tested : search.best.error <= t.error

\* Every search ends, every worker is joined, and the program with them.
EncodeEnds == <>(pc \in {"done", "failed"})
=============================================================================
