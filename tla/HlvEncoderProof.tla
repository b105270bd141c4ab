-------------------------- MODULE HlvEncoderProof --------------------------
(***************************************************************************)
(* For every input, GOP length, number of threads and quantizer search the *)
(* file is the pictures of the input in order, a decoder of it keeps the   *)
(* reference of the encoder, key frames come in time, a search takes what  *)
(* its rules name, and fixed GOPs on threads are those of one encoder.     *)
(***************************************************************************)
EXTENDS HlvEncoder, WellFoundedInduction, TLAPS

Trying == {"trial", "lambda", "finest", "choose"}

\* What the model keeps of a search and of a job.
NoneOr(S)  == S \cup {NoTrial}
TrialsOf   == [q : Q, psnr : Nat, size : Nat, packet : Packets,
               encoder : Encoders]
Outcomes   == [q : Q, psnr : Nat, size : Nat, reduced : 0..2]
Searches   == [kind : {"quality"}, q : Q, count : Nat,
               tested : SUBSET Outcomes, good_q : 0..MaxQ, bad_q : 0..MaxQ,
               good : NoneOr(TrialsOf), bad : NoneOr(TrialsOf)]
Probes     == [q : Q, error : Nat]
WindowSearches ==
  [kind : {"window"}, q : Q, count : Nat, tested : SUBSET Probes,
   over_q : 0..MaxQ, under_q : 0..MaxQ, best : Probes]
Jobs       == [first : Nat \ {0}, frame_count : Nat, encoder : Encoders,
               packets : Seq(Packets), reconstructed : Seq(Seq(Codes)),
               state : {"new", "thread", "inline", "ended"},
               result : {"OK", "ERR"}]

TypeInv ==
  /\ conf \in Configs /\ video \in Videos
  /\ TypeOK
  /\ jobs \in Seq(Jobs)
  /\ at \in [job : Nat \ {0}, packet : Nat \ {0}]

\* Packet p is picture i coded by e, which is n afterwards.
Coded(e, i, p, n) ==
  /\ p \in Packets /\ p.frame = i
  /\ n \in Encoders /\ n.have
  /\ n.previous = Decoded(e.previous, p)
  /\ n.frame_index = e.frame_index + 1
  /\ n.frames_since_key = IF p.type = "K" THEN 0 ELSE e.frames_since_key + 1
  /\ ~e.have => p.type = "K"
  /\ p.type # "K" => IF conf.adaptive THEN e.frames_since_key + 1 < conf.gop
                     ELSE e.frame_index % conf.gop # 0

\* The counters of encoder e are those of the packets s: frames_since_key
\* leads back to a key frame less than a GOP ago.
Tracks(e, s) ==
  /\ e.have <=> Len(s) > 0
  /\ e.frame_index = Len(s)
  /\ Len(s) > 0 =>
       /\ e.frames_since_key < Len(s) /\ e.frames_since_key < conf.gop
       /\ s[Len(s) - e.frames_since_key].type = "K"
       /\ ~conf.adaptive => e.frames_since_key <= (Len(s) - 1) % conf.gop

\* What has been written.
FileInv ==
  /\ \A n \in 1..Len(file) : file[n].frame = n
  /\ Len(recon) = Len(file)
  /\ DecoderFollows
  /\ KeyInterval
  /\ samples * FpsNum + phase = Len(file) * AudioStep

\* The encoder of main has coded exactly the packets of the file, or, when
\* the GOPs are coded by its clones, none.
EncoderInv ==
  /\ conf.mode # "gops" => Tracks(enc, file) /\ dec = enc.previous
  /\ conf.mode = "gops" => ~enc.have /\ enc.previous = <<>>

\* How far the input is read at each place of main.
ReadInv ==
  /\ eof => read = NFrames
  /\ conf.max # 0 => read <= conf.max
  /\ Len(file) <= read
  /\ pc \in Trying => conf.mode = "quality" /\ read = Len(file) + 1
  /\ pc \in {"probe", "window"} => conf.mode = "window"
                                   /\ at.packet = Len(file) + 1
  /\ pc = "probe" => at.packet <= read
  /\ pc = "window" => at.packet <= read + 1
  /\ pc = "done" => Len(file) = IF conf.max = 0 THEN NFrames
                                ELSE Least(conf.max, NFrames)

\* One GOP: its packets are the pictures from "first" on, the first is a key
\* frame, and each picture is what a decoder makes of the one before it.
JobOf(j, gop, last) ==
  /\ j.frame_count \in 1..gop
  /\ j.first + j.frame_count <= last + 1
  /\ Len(j.packets) <= j.frame_count
  /\ Len(j.reconstructed) = Len(j.packets)
  /\ j.encoder.have <=> Len(j.packets) > 0
  /\ j.encoder.previous = IF Len(j.packets) = 0 THEN <<>>
                          ELSE j.reconstructed[Len(j.packets)]
  /\ Len(j.packets) > 0 => j.packets[1].type = "K"
  /\ \A k \in 1..Len(j.packets) :
       /\ j.packets[k].frame = j.first + k - 1
       /\ j.reconstructed[k] =
            Decoded(IF k = 1 THEN <<>> ELSE j.reconstructed[k - 1],
                    j.packets[k])
  /\ j.state = "ended" /\ j.result = "OK" => Len(j.packets) = j.frame_count

JobInv(j) == JobOf(j, conf.gop, read)

\* The first picture of job k, or of the batch after the last one.
Start(k) == IF k <= Len(jobs) THEN jobs[k].first ELSE read + 1

\* The place of the writer in the batch.
WriteInv ==
  /\ \A k \in 1..Len(jobs) : jobs[k].state = "ended"
  /\ at.job <= Len(jobs) + 1
  /\ Start(at.job) + at.packet = Len(file) + 2
  /\ at.job <= Len(jobs) => at.packet <= jobs[at.job].frame_count
  /\ at.job > Len(jobs) => at.packet = 1
  /\ at.packet > 1 => /\ file[Start(at.job)].type = "K"
                      /\ dec = jobs[at.job].reconstructed[at.packet - 1]

\* The GOPs of a batch follow each other, and the file.
JobsInv ==
  /\ conf.mode # "gops" => jobs = <<>>
  /\ pc \in {"start", "write"} => conf.mode = "gops"
  /\ \A k \in 1..Len(jobs) :
       JobInv(jobs[k]) /\ Start(k + 1) = jobs[k].first + jobs[k].frame_count
  /\ pc \in {"frame", "start"} => Start(1) = Len(file) + 1
  /\ pc = "write" => WriteInv

\* A trial that is kept was coded from the encoder of main.
TrialInv(t) == t # NoTrial => Coded(enc, read, t.packet, t.encoder)

\* The good one is the smallest of the tested that meet the target, the bad
\* one the best of the others.
Best(good, bad, tested) ==
  /\ good \in NoneOr(TrialsOf) /\ bad \in NoneOr(TrialsOf)
  /\ tested \in SUBSET Outcomes
  /\ tested # {} => good # NoTrial \/ bad # NoTrial
  /\ IF good = NoTrial THEN \A t \in tested : t.psnr < Target
     ELSE /\ good.psnr >= Target
          /\ \A t \in tested : t.psnr >= Target => good.size <= t.size
  /\ IF bad = NoTrial THEN \A t \in tested : t.psnr >= Target
     ELSE \A t \in tested : t.psnr < Target => t.psnr <= bad.psnr

QualityInv ==
  /\ search \in Searches
  /\ TrialInv(search.good) /\ TrialInv(search.bad)
  /\ search.count > 0 => search.tested # {}
  /\ Best(search.good, search.bad, search.tested)
  /\ pc \in {"lambda", "finest"} => search.good = NoTrial
                                    /\ search.bad # NoTrial
  /\ pc = "choose" => search.good # NoTrial \/ search.bad # NoTrial

ProbeInv ==
  /\ search \in WindowSearches
  /\ \A t \in search.tested : search.best.error <= t.error

SearchInv ==
  /\ pc \in Trying => QualityInv
  /\ pc \in {"probe", "window"} => ProbeInv

IInv == /\ TypeInv /\ FileInv /\ EncoderInv /\ ReadInv /\ JobsInv /\ SearchInv

-----------------------------------------------------------------------------
(* Arithmetic.                                                             *)

LEMMA DivMod ==
  ASSUME NEW n \in Nat, NEW c \in Nat \ {0}
  PROVE  /\ n \div c \in Nat /\ n % c \in 0..(c - 1)
         /\ n = (n \div c) * c + (n % c)
BY Z3

LEMMA Multiples ==
  ASSUME NEW p \in Nat, NEW q \in Nat, NEW c \in Nat, p < q
  PROVE  p * c + c <= q * c
<1>1. (p + 1) * c = p * c + c /\ (p + 1) * c \in Nat /\ q * c \in Nat
  BY Z3
<1>2. (p + 1) * c <= q * c
  BY Z3
<1>3. QED BY <1>1, <1>2

LEMMA Remainder ==
  ASSUME NEW q \in Nat, NEW c \in Nat \ {0}, NEW r \in 0..(c - 1)
  PROVE  (q * c + r) \div c = q /\ (q * c + r) % c = r
<1> DEFINE n == q * c + r
           p == n \div c
           t == n % c
<1>1. q * c \in Nat
  BY Z3
<1>n. n \in Nat /\ n = q * c + r
  BY <1>1
<1> HIDE DEF n
<1>2. p \in Nat /\ t \in 0..(c - 1) /\ n = p * c + t
  BY <1>n, DivMod
<1> HIDE DEF p, t
<1>3. p * c \in Nat
  BY <1>2, Z3
<1>4. ~(p < q) /\ ~(q < p)
  <2>1. p < q => p * c + c <= q * c  BY <1>2, Multiples
  <2>2. q < p => q * c + c <= p * c  BY <1>2, Multiples
  <2>3. QED BY <2>1, <2>2, <1>n, <1>1, <1>2, <1>3
<1>5. p = q
  BY <1>2, <1>4
<1>6. t = r
  BY <1>n, <1>1, <1>2, <1>5
<1>7. QED BY <1>5, <1>6 DEF n, p, t

LEMMA ModNext ==
  ASSUME NEW n \in Nat, NEW c \in Nat \ {0}, (n + 1) % c # 0
  PROVE  (n + 1) % c = (n % c) + 1
<1> DEFINE q == n \div c
           r == n % c
<1>1. q \in Nat /\ r \in 0..(c - 1) /\ n = q * c + r
  BY DivMod
<1>2. q * c \in Nat
  BY <1>1, Z3
<1> HIDE DEF q, r
<1>3. CASE r + 1 < c
  <2>1. n + 1 = q * c + (r + 1) /\ r + 1 \in 0..(c - 1)
    BY <1>1, <1>2, <1>3
  <2>2. (q * c + (r + 1)) % c = r + 1
    BY <2>1, <1>1, Remainder
  <2>3. QED BY <2>1, <2>2 DEF r
<1>4. CASE r + 1 = c
  <2>1. (q + 1) * c = q * c + c
    BY <1>1, Z3
  <2>2. n + 1 = (q + 1) * c + 0 /\ 0 \in 0..(c - 1) /\ q + 1 \in Nat
    BY <1>1, <1>2, <1>4, <2>1
  <2>3. (n + 1) % c = 0
    BY <2>2, Remainder
  <2>4. QED BY <2>3
<1>5. QED BY <1>1, <1>3, <1>4

LEMMA AudioStepExact ==
  ASSUME NEW s \in Nat, NEW f \in Nat, NEW n \in Nat, NEW a \in Nat,
         NEW c \in Nat \ {0}, f < c, s * c + f = n * a
  PROVE  /\ (s + ((f + a) \div c)) * c + ((f + a) % c) = (n + 1) * a
         /\ (f + a) % c \in 0..(c - 1) /\ s + ((f + a) \div c) \in Nat
<1> DEFINE e == f + a
           d == e \div c
           m == e % c
<1>e. e \in Nat /\ e = f + a
  OBVIOUS
<1> HIDE DEF e
<1>1. d \in Nat /\ m \in 0..(c - 1) /\ e = d * c + m
  BY <1>e, DivMod
<1> HIDE DEF d, m
<1>2. (s + d) * c = s * c + d * c /\ (n + 1) * a = n * a + a
  BY <1>1, Z3
<1>3. s * c \in Nat /\ d * c \in Nat /\ n * a \in Nat
  BY <1>1, Z3
<1>4. (s + d) * c + m = (n + 1) * a /\ s + d \in Nat
  BY <1>e, <1>1, <1>2, <1>3
<1>5. QED BY <1>1, <1>4 DEF d, m, e

LEMMA Quotients ==
  ASSUME NEW s \in Nat, NEW f \in Nat, NEW n \in Nat, NEW c \in Nat \ {0},
         f < c, s * c + f = n
  PROVE  s = n \div c
BY Remainder

-----------------------------------------------------------------------------
(* One picture.                                                            *)

LEMMA DecodedType ==
  ASSUME NEW s \in Seq(Codes), NEW p \in Packets
  PROVE  Decoded(s, p) \in Seq(Codes)
BY DEF Decoded, Packets

LEMMA InternalStep ==
  ASSUME EncoderAssumption, conf \in Configs,
         NEW e \in Encoders, NEW i \in 1..NFrames, NEW forced
  PROVE  LET r == EncodeInternal(e, i, forced)
         IN  /\ r.packet \in Packets /\ r.packet.frame = i
             /\ r.packet.type = FrameType(e, i, forced)
             /\ r.encoder \in Encoders /\ r.encoder.have
             /\ r.encoder.previous = Decoded(e.previous, r.packet)
             /\ r.encoder.frame_index = e.frame_index + 1
             /\ r.encoder.frames_since_key =
                  IF r.packet.type = "K" THEN 0 ELSE e.frames_since_key + 1
<1> DEFINE t == FrameType(e, i, forced)
           p == Packet(e, i, t)
           n == After(e, p)
<1>1. t \in {"K", "P", "R"}
  BY DEF FrameType
<1> HIDE DEF t
<1>2. p \in Packets /\ p.frame = i /\ p.type = t
  BY <1>1 DEF Packet, Packets, Codes, Encoders
<1> HIDE DEF p
<1> DEFINE d == Decoded(e.previous, p)
           k == IF p.type = "K" THEN 0 ELSE e.frames_since_key + 1
<1>3. d \in Seq(Codes) /\ k \in Nat
  BY <1>2, DecodedType DEF Encoders
<1>a. n = [e EXCEPT !.have = TRUE, !.previous = d,
                    !.frames_since_key = k, !.frame_index = @ + 1]
  BY DEF After
<1> HIDE DEF d, k, n
<1>4. /\ n \in Encoders /\ n.have /\ n.previous = Decoded(e.previous, p)
      /\ n.frame_index = e.frame_index + 1
      /\ n.frames_since_key = IF p.type = "K" THEN 0
                              ELSE e.frames_since_key + 1
  <2>1. /\ n \in Encoders /\ n.have /\ n.previous = d
        /\ n.frame_index = e.frame_index + 1 /\ n.frames_since_key = k
    <3>1. e.frame_index + 1 \in Nat
      BY DEF Encoders
    <3>2. n = [have |-> TRUE, previous |-> d, frames_since_key |-> k,
               frame_index |-> e.frame_index + 1, q |-> e.q,
               lambda |-> e.lambda]
      BY <1>a DEF Encoders
    <3>3. QED BY <1>3, <3>1, <3>2 DEF Encoders
  <2>2. QED BY <2>1 DEF d, k
<1>5. EncodeInternal(e, i, forced) = [packet |-> p, encoder |-> n]
  BY DEF EncodeInternal, p, t, n
<1>6. QED BY <1>2, <1>4, <1>5 DEF t

\* hlv1_encoder_encode with every choice of the frame type.
LEMMA EncodeStep ==
  ASSUME EncoderAssumption, conf \in Configs,
         NEW e \in Encoders, NEW i \in 1..NFrames
  PROVE  Coded(e, i, Encode(e, i).packet, Encode(e, i).encoder)
<1> DEFINE forced ==
      IF ~conf.adaptive \/ ~e.have THEN "any"
      ELSE IF e.frames_since_key + 1 >= conf.gop THEN "K"
      ELSE IF e.frames_since_key < conf.minKey /\ video[i].diff # "hard"
      THEN "P"
      ELSE IF video[i].keyWins THEN "K" ELSE "P"
<1>1. Encode(e, i) = EncodeInternal(e, i, forced)
  BY DEF Encode
<1>2. FrameType(e, i, forced) # "K" =>
        /\ e.have
        /\ IF conf.adaptive THEN e.frames_since_key + 1 < conf.gop
           ELSE e.frame_index % conf.gop # 0
  <2> SUFFICES ASSUME FrameType(e, i, forced) # "K"
               PROVE  /\ e.have
                      /\ IF conf.adaptive THEN e.frames_since_key + 1 < conf.gop
                         ELSE e.frame_index % conf.gop # 0
    OBVIOUS
  <2>1. forced # "K" /\ (forced = "any" => ~KeyDue(e, i))
    BY DEF FrameType
  <2>2. CASE ~conf.adaptive \/ ~e.have
    <3>1. forced = "any"
      BY <2>2
    <3>2. ~KeyDue(e, i)
      BY <2>1, <3>1
    <3>3. QED BY <2>2, <3>2 DEF KeyDue
  <2>3. CASE conf.adaptive /\ e.have
    <3>1. ~(e.frames_since_key + 1 >= conf.gop)
      BY <2>1, <2>3
    <3>2. e.frames_since_key + 1 < conf.gop
      BY <3>1 DEF Encoders, Configs
    <3>3. QED BY <2>3, <3>2
  <2>4. QED BY <2>2, <2>3 DEF Encoders, Configs
<1> HIDE DEF forced
<1>3. QED BY <1>1, <1>2, InternalStep DEF Coded

LEMMA TracksStep ==
  ASSUME EncoderAssumption, conf \in Configs,
         NEW e \in Encoders, NEW s \in Seq(Packets), NEW i,
         NEW p, NEW n, Tracks(e, s), Coded(e, i, p, n)
  PROVE  Tracks(n, Append(s, p))
<1> DEFINE z == Append(s, p)
           g == conf.gop
<1>1. /\ g \in Nat \ {0} /\ Len(s) \in Nat /\ Len(z) = Len(s) + 1
      /\ p \in Packets /\ n \in Encoders
      /\ e.frames_since_key \in Nat
      /\ z[Len(z)] = p /\ \A k \in 1..Len(s) : z[k] = s[k]
  BY DEF Configs, Coded, Encoders
<1> HIDE DEF z, g
<1>2. n.have /\ n.frame_index = Len(z) /\ Len(z) > 0
  BY <1>1 DEF Coded, Tracks
<1>3. CASE p.type = "K"
  <2>1. n.frames_since_key = 0
    BY <1>3 DEF Coded
  <2>2. (Len(z) - 1) % g \in 0..(g - 1)
    <3>1. Len(z) - 1 \in Nat /\ g \in Nat \ {0}
      BY <1>1
    <3>2. QED BY <3>1, DivMod
  <2>3. QED BY <1>1, <1>2, <1>3, <2>1, <2>2 DEF Tracks, g, z
<1>4. CASE p.type # "K"
  <2>1. n.frames_since_key = e.frames_since_key + 1 /\ e.have
    BY <1>4 DEF Coded
  <2>2. /\ Len(s) > 0
        /\ e.frames_since_key < Len(s) /\ e.frames_since_key < g
        /\ s[Len(s) - e.frames_since_key].type = "K"
        /\ ~conf.adaptive => e.frames_since_key <= (Len(s) - 1) % g
    BY <2>1 DEF Tracks, g
  <2>3. z[Len(z) - n.frames_since_key].type = "K"
    <3>1. Len(z) - n.frames_since_key = Len(s) - e.frames_since_key
      BY <1>1, <2>1
    <3>2. Len(s) - e.frames_since_key \in 1..Len(s)
      BY <1>1, <2>2
    <3>3. QED BY <1>1, <2>2, <3>1, <3>2
  <2>4. CASE conf.adaptive
    BY <1>1, <1>2, <1>4, <2>1, <2>2, <2>3, <2>4 DEF Tracks, Coded, g, z
  <2>5. CASE ~conf.adaptive
    <3>1. Len(s) % g # 0
      BY <1>4, <2>5 DEF Coded, Tracks, g
    <3>2. Len(s) - 1 \in Nat /\ (Len(s) - 1) + 1 = Len(s)
      BY <1>1, <2>2
    <3>3. Len(s) % g = ((Len(s) - 1) % g) + 1
      BY <1>1, <3>1, <3>2, ModNext
    <3>4. Len(s) % g \in 0..(g - 1) /\ (Len(s) - 1) % g \in 0..(g - 1)
      BY <1>1, <3>2, DivMod
    <3>5. /\ n.frames_since_key <= (Len(z) - 1) % g
          /\ n.frames_since_key < g /\ n.frames_since_key < Len(z)
      <4>1. Len(z) - 1 = Len(s)
        BY <1>1
      <4>2. e.frames_since_key <= (Len(s) - 1) % g
        BY <2>2, <2>5
      <4> DEFINE u == Len(s) % g
                 v == (Len(s) - 1) % g
      <4> HIDE DEF u, v
      <4>3. u = v + 1 /\ u \in 0..(g - 1) /\ v \in 0..(g - 1)
            /\ e.frames_since_key <= v
        BY <3>3, <3>4, <4>2 DEF u, v
      <4>4. n.frames_since_key <= u /\ n.frames_since_key < g
            /\ n.frames_since_key < Len(z)
        BY <4>3, <1>1, <2>1, <2>2
      <4>5. QED BY <4>1, <4>4 DEF u
    <3>6. QED BY <1>2, <2>3, <2>5, <3>5 DEF Tracks, g, z
  <2>6. QED BY <2>4, <2>5
<1>5. QED BY <1>3, <1>4

\* The key interval from the counter of the encoder.
LEMMA TracksKey ==
  ASSUME NEW e \in Encoders, NEW s \in Seq(Packets), Tracks(e, s), Len(s) > 0
  PROVE  \E m \in 1..Len(s) : s[m].type = "K" /\ Len(s) - m < conf.gop
<1> DEFINE m == Len(s) - e.frames_since_key
<1>1. e.frames_since_key \in Nat /\ Len(s) \in Nat
  BY DEF Encoders
<1>2. m \in 1..Len(s) /\ Len(s) - m = e.frames_since_key
  BY <1>1 DEF Tracks
<1>3. QED BY <1>2 DEF Tracks

-----------------------------------------------------------------------------
(* Steps that leave a part of the invariant alone.                         *)

LEMMA OutKept == FileInv /\ UNCHANGED <<conf, out>> => FileInv'
BY DEF FileInv, DecoderFollows, KeyInterval, out

LEMMA EncoderKept ==
  EncoderInv /\ UNCHANGED <<conf, enc, file, dec>> => EncoderInv'
BY DEF EncoderInv, Tracks

LEMMA JobsKept ==
  ASSUME JobsInv, UNCHANGED <<conf, jobs, read, file>>,
         pc' \notin {"start", "write"}, pc' = "frame" => pc = "frame"
  PROVE  JobsInv'
BY DEF JobsInv, JobInv, JobOf, Start

\* Without threads there are no jobs.
LEMMA JobsNone ==
  ASSUME TypeInv, JobsInv, conf.mode # "gops", UNCHANGED <<conf, jobs>>,
         pc' \notin {"start", "write"}, pc' = "frame" => read' = Len(file')
  PROVE  JobsInv'
<1>1. jobs' = <<>> /\ Len(jobs') = 0
  BY DEF JobsInv
<1>2. pc' = "frame" => Start(1)' = Len(file')+ 1
  BY <1>1 DEF Start
<1>3. conf'.mode # "gops"
  OBVIOUS
<1>4. QED BY <1>1, <1>2, <1>3 DEF JobsInv

LEMMA SearchIdle ==
  pc' \notin Trying \cup {"probe", "window"} => SearchInv'
BY DEF SearchInv

\* A picture is written: it is the next one, it is what a decoder makes of
\* the packet, and a key frame is near.
LEMMA WriteStep ==
  ASSUME TypeInv, FileInv, conf' = conf,
         NEW p \in Packets, NEW r, Write(p, r),
         p.frame = Len(file) + 1, r = Decoded(dec, p),
         \E m \in 1..(Len(file) + 1) :
           Append(file, p)[m].type = "K" /\ Len(file) + 1 - m < conf.gop
  PROVE  /\ FileInv'
         /\ file' = Append(file, p) /\ Len(file') = Len(file) + 1
         /\ dec' = r
         /\ file' \in Seq(Packets) /\ recon' \in Seq(Seq(Codes))
         /\ dec' \in Seq(Codes)
         /\ phase' \in 0..(FpsNum - 1) /\ samples' \in Nat
<1>1. /\ file \in Seq(Packets) /\ recon \in Seq(Seq(Codes))
      /\ dec \in Seq(Codes) /\ phase \in 0..(FpsNum - 1) /\ samples \in Nat
  BY DEF TypeInv, TypeOK
<1>2. file' = Append(file, p) /\ recon' = Append(recon, r) /\ dec' = r
  BY DEF Write
<1>3. r \in Seq(Codes)
  BY <1>1, DecodedType
<1>4. /\ file' \in Seq(Packets) /\ recon' \in Seq(Seq(Codes))
      /\ Len(file) \in Nat /\ Len(file') = Len(file) + 1
      /\ Len(recon') = Len(recon) + 1 /\ Len(recon) = Len(file)
  <2>1. file' \in Seq(Packets) /\ Len(file) \in Nat
        /\ Len(file') = Len(file) + 1
    BY <1>1, <1>2
  <2>2. recon' \in Seq(Seq(Codes)) /\ Len(recon') = Len(recon) + 1
    BY <1>1, <1>2, <1>3
  <2>3. QED BY <2>1, <2>2 DEF FileInv
<1>5. \A n \in 1..Len(file') : file'[n].frame = n
  BY <1>1, <1>2, <1>4 DEF FileInv
<1>6. dec' = recon'[Len(file')]
  BY <1>1, <1>2, <1>3, <1>4
<1>7. KeyInterval'
  <2> SUFFICES ASSUME NEW n \in 1..Len(file')
               PROVE  \E m \in 1..n : file'[m].type = "K" /\ n - m < conf.gop
    BY DEF KeyInterval
  <2>1. CASE n = Len(file')
    BY <2>1, <1>2, <1>4
  <2>2. CASE n \in 1..Len(file)
    <3>1. PICK m \in 1..n : file[m].type = "K" /\ n - m < conf.gop
      BY <2>2 DEF FileInv, KeyInterval
    <3>2. file'[m] = file[m]
      BY <2>2, <1>1, <1>2
    <3>3. QED BY <3>1, <3>2
  <2>3. QED BY <2>1, <2>2, <1>4
<1>8. /\ samples' * FpsNum + phase' = Len(file') * AudioStep
      /\ phase' \in 0..(FpsNum - 1) /\ samples' \in Nat
  <2>1. samples * FpsNum + phase = Len(file) * AudioStep
    BY DEF FileInv
  <2>2. /\ samples' = samples + (phase + AudioStep) \div FpsNum
        /\ phase' = (phase + AudioStep) % FpsNum
    BY DEF Write
  <2>3. /\ AudioStep \in Nat /\ FpsNum \in Nat \ {0}
        /\ phase \in Nat /\ phase < FpsNum
    BY <1>1, EncoderAssumption
  <2>4. /\ (samples + ((phase + AudioStep) \div FpsNum)) * FpsNum
           + ((phase + AudioStep) % FpsNum) = (Len(file) + 1) * AudioStep
        /\ (phase + AudioStep) % FpsNum \in 0..(FpsNum - 1)
        /\ samples + ((phase + AudioStep) \div FpsNum) \in Nat
    BY <2>1, <2>3, <1>1, <1>4, AudioStepExact
  <2>5. QED BY <2>2, <2>4, <1>4
<1>9. QED BY <1>2, <1>3, <1>4, <1>5, <1>6, <1>7, <1>8
          DEF FileInv, DecoderFollows

\* The same for a picture that the encoder of main has coded.
LEMMA WriteCoded ==
  ASSUME TypeInv, FileInv, EncoderInv, conf.mode # "gops", conf' = conf,
         NEW p, NEW n, Coded(enc, Len(file) + 1, p, n),
         enc' = n, Write(p, n.previous)
  PROVE  /\ FileInv' /\ EncoderInv'
         /\ Len(file') = Len(file) + 1
         /\ enc' \in Encoders
         /\ file' \in Seq(Packets) /\ recon' \in Seq(Seq(Codes))
         /\ dec' \in Seq(Codes)
         /\ phase' \in 0..(FpsNum - 1) /\ samples' \in Nat
<1>1. /\ file \in Seq(Packets) /\ enc \in Encoders /\ n \in Encoders
      /\ p \in Packets /\ conf \in Configs
  BY DEF TypeInv, TypeOK, Coded
<1>2. Tracks(enc, file) /\ dec = enc.previous
  BY DEF EncoderInv
<1>3. Tracks(n, Append(file, p))
  BY <1>1, <1>2, TracksStep, EncoderAssumption
<1>4. Append(file, p) \in Seq(Packets) /\ Len(Append(file, p)) = Len(file) + 1
      /\ Len(file) \in Nat
  BY <1>1
<1>5. \E m \in 1..(Len(file) + 1) :
        Append(file, p)[m].type = "K" /\ Len(file) + 1 - m < conf.gop
  <2> DEFINE z == Append(file, p)
  <2>1. z \in Seq(Packets) /\ Len(z) = Len(file) + 1 /\ Len(z) > 0
        /\ Tracks(n, z)
    BY <1>3, <1>4
  <2> HIDE DEF z
  <2>2. \E m \in 1..Len(z) : z[m].type = "K" /\ Len(z) - m < conf.gop
    BY <1>1, <2>1, TracksKey
  <2>3. QED BY <2>1, <2>2 DEF z
<1>6. n.previous = Decoded(dec, p) /\ p.frame = Len(file) + 1
  BY <1>2 DEF Coded
<1>7. /\ FileInv' /\ file' = Append(file, p) /\ Len(file') = Len(file) + 1
      /\ dec' = n.previous
      /\ file' \in Seq(Packets) /\ recon' \in Seq(Seq(Codes))
      /\ dec' \in Seq(Codes)
      /\ phase' \in 0..(FpsNum - 1) /\ samples' \in Nat
  BY <1>1, <1>5, <1>6, WriteStep
<1>8. EncoderInv'
  BY <1>3, <1>7 DEF EncoderInv, Tracks
<1>9. QED BY <1>1, <1>7, <1>8

-----------------------------------------------------------------------------
(* The steps.                                                              *)

LEMMA IInvInit == Init => IInv
<1> SUFFICES ASSUME Init PROVE IInv
  OBVIOUS
<1>1. conf \in Configs /\ video \in Videos
  BY EncoderAssumption DEF Init
<1>2. conf.q \in Q
  BY <1>1 DEF Configs, Q
<1>3. enc \in Encoders /\ ~enc.have /\ enc.previous = <<>>
      /\ enc.frame_index = 0
  BY <1>2 DEF Init, NewEncoder, Encoders
<1>4. TypeInv
  <2>1. TypeOK
    <3>1. rate \in Q /\ read \in 0..NFrames /\ phase \in 0..(FpsNum - 1)
      BY <1>2, EncoderAssumption DEF Init
    <3>2. file \in Seq(Packets) /\ recon \in Seq(Seq(Codes))
          /\ dec \in Seq(Codes)
      BY DEF Init
    <3>3. QED BY <1>3, <3>1, <3>2 DEF Init, TypeOK
  <2>2. jobs \in Seq(Jobs) /\ at \in [job : Nat \ {0}, packet : Nat \ {0}]
    BY DEF Init
  <2>3. QED BY <1>1, <2>1, <2>2 DEF TypeInv
<1>5. Len(file) = 0 /\ Len(recon) = 0 /\ Len(jobs) = 0 /\ dec = <<>>
  BY DEF Init
<1>6. FileInv
  <2>1. samples * FpsNum + phase = Len(file) * AudioStep
    BY <1>5, EncoderAssumption DEF Init
  <2>2. QED BY <1>5, <2>1 DEF FileInv, DecoderFollows, KeyInterval
<1>7. EncoderInv
  BY <1>3, <1>5 DEF EncoderInv, Tracks
<1>8. ReadInv
  BY <1>1, <1>5, EncoderAssumption DEF Init, ReadInv, Trying, Configs
<1>9. JobsInv
  BY <1>5 DEF Init, JobsInv, Start
<1>10. SearchInv
  BY DEF Init, SearchInv, Trying
<1>11. QED BY <1>4, <1>6, <1>7, <1>8, <1>9, <1>10 DEF IInv

\* At the head of the loop the file holds every picture that was read.
LEMMA HeadOfLoop ==
  IInv /\ pc = "frame" /\ jobs = <<>> => Len(file) = read
BY DEF IInv, JobsInv, Start, TypeInv, TypeOK

LEMMA FinishStep == IInv /\ Finish => IInv'
<1> SUFFICES ASSUME IInv, Finish PROVE IInv'
  OBVIOUS
<1> USE DEF IInv, Finish, loop, out
<1>1. TypeInv'
  BY DEF TypeInv, TypeOK
<1>2. FileInv' /\ EncoderInv'
  BY OutKept, EncoderKept
<1>3. ReadInv'
  <2>1. Len(file) = read /\ read \in 0..NFrames /\ conf.max \in Nat
    BY HeadOfLoop DEF TypeInv, TypeOK, Configs
  <2>2. Len(file) = IF conf.max = 0 THEN NFrames ELSE Least(conf.max, NFrames)
    BY <2>1, EncoderAssumption DEF ReadInv, Wanted, Least
  <2>3. QED BY <2>2 DEF ReadInv, Trying
<1>4. JobsInv'
  BY JobsKept
<1>5. SearchInv'
  BY SearchIdle DEF Trying
<1>6. QED BY <1>1, <1>2, <1>3, <1>4, <1>5

LEMMA FailStep == IInv /\ Fail => IInv'
<1> SUFFICES ASSUME IInv, Fail PROVE IInv'
  OBVIOUS
<1> USE DEF IInv, Fail, loop, out
<1>1. TypeInv'
  BY DEF TypeInv, TypeOK
<1>2. FileInv' /\ EncoderInv'
  BY OutKept, EncoderKept
<1>3. ReadInv'
  BY DEF ReadInv, Trying
<1>4. JobsInv'
  BY JobsKept
<1>5. SearchInv'
  BY SearchIdle DEF Trying
<1>6. QED BY <1>1, <1>2, <1>3, <1>4, <1>5

LEMMA CodeFrameStep == IInv /\ CodeFrame => IInv'
<1> SUFFICES ASSUME IInv, CodeFrame PROVE IInv'
  OBVIOUS
<1> USE DEF IInv
<1> DEFINE base == IF conf.mode = "bitrate" THEN SetQ(enc, rate) ELSE enc
           r    == Encode(base, read + 1)
<1>1. /\ enc' = r.encoder /\ Write(r.packet, r.encoder.previous)
      /\ pc = "frame" /\ conf.mode \in {"plain", "bitrate"}
      /\ Wanted(Len(file)) /\ read < NFrames /\ read' = read + 1
      /\ UNCHANGED <<conf, video, pc, eof, jobs, at, search>>
  BY DEF CodeFrame, loop
<1>2. /\ enc \in Encoders /\ rate \in Q /\ read \in Nat
      /\ conf \in Configs /\ Len(file) = read
  <2>1. jobs = <<>>
    BY <1>1 DEF JobsInv
  <2>2. QED BY <2>1, <1>1, HeadOfLoop DEF TypeInv, TypeOK
<1>3. /\ base \in Encoders /\ base.have = enc.have
      /\ base.previous = enc.previous
      /\ base.frame_index = enc.frame_index
      /\ base.frames_since_key = enc.frames_since_key
  BY <1>2 DEF SetQ, Encoders
<1> HIDE DEF base
<1>4. Coded(base, read + 1, r.packet, r.encoder)
  BY <1>1, <1>2, <1>3, EncodeStep, EncoderAssumption
<1> HIDE DEF r
<1>5. Coded(enc, Len(file) + 1, r.packet, r.encoder)
  BY <1>2, <1>3, <1>4 DEF Coded
<1>6. /\ FileInv' /\ EncoderInv'
      /\ Len(file') = Len(file) + 1
      /\ enc' \in Encoders
      /\ file' \in Seq(Packets) /\ recon' \in Seq(Seq(Codes))
      /\ dec' \in Seq(Codes)
      /\ phase' \in 0..(FpsNum - 1) /\ samples' \in Nat
  BY <1>1, <1>5, WriteCoded
<1>7. rate' \in Q
  <2>1. rate' \in RateNext(rate) \/ rate' = rate
    BY DEF CodeFrame
  <2>2. RateNext(rate) \subseteq Q
    BY <1>2, EncoderAssumption DEF RateNext, Clamped, Q
  <2>3. QED BY <2>1, <2>2, <1>2
<1>8. TypeInv'
  BY <1>1, <1>2, <1>6, <1>7, EncoderAssumption DEF TypeInv, TypeOK
<1>9. ReadInv'
  <2>1. conf.max # 0 => read + 1 <= conf.max
    BY <1>1, <1>2 DEF Wanted, Configs
  <2>2. ~eof
    BY <1>1, <1>2 DEF ReadInv
  <2>3. QED BY <2>1, <2>2, <1>1, <1>2, <1>6 DEF ReadInv, Trying
<1>10. JobsInv'
  <2>1. read' = Len(file')
    BY <1>1, <1>2, <1>6
  <2>2. QED BY <2>1, <1>1, JobsNone
<1>11. SearchInv'
  BY <1>1, SearchIdle DEF Trying
<1>12. QED BY <1>6, <1>8, <1>9, <1>10, <1>11

LEMMA StartSearchStep == IInv /\ StartSearch => IInv'
<1> SUFFICES ASSUME IInv, StartSearch PROVE IInv'
  OBVIOUS
<1> USE DEF IInv, StartSearch, loop, out
<1>1. Len(file) = read /\ read \in Nat /\ read' = read + 1 /\ read' <= NFrames
      /\ conf \in Configs /\ rate \in Q
  <2>1. jobs = <<>>
    BY DEF JobsInv
  <2>2. QED BY <2>1, HeadOfLoop, EncoderAssumption DEF TypeInv, TypeOK
<1>2. TypeInv'
  BY <1>1, EncoderAssumption DEF TypeInv, TypeOK
<1>3. FileInv' /\ EncoderInv'
  BY OutKept, EncoderKept
<1>4. ReadInv'
  BY <1>1 DEF ReadInv, Wanted, Configs, Trying
<1>5. JobsInv'
  BY JobsNone
<1>6. SearchInv'
  <2>1. search' \in Searches
    BY <1>1, EncoderAssumption DEF Searches, NoneOr, Q
  <2>2. search'.good = NoTrial /\ search'.bad = NoTrial
        /\ search'.tested = {} /\ search'.count = 0
    OBVIOUS
  <2>3. QualityInv'
    BY <2>1, <2>2 DEF QualityInv, TrialInv, Best, NoneOr
  <2>4. QED BY <2>3 DEF SearchInv
<1>7. QED BY <1>2, <1>3, <1>4, <1>5, <1>6

\* Within a search for a quantizer only the search changes.
LEMMA TryingKept ==
  ASSUME IInv, pc \in Trying, pc' \in Trying,
         UNCHANGED <<loop, enc, rate, read, eof, jobs, at, out>>
  PROVE  /\ TypeInv' /\ FileInv' /\ EncoderInv' /\ ReadInv' /\ JobsInv'
<1> USE DEF IInv, loop, out
<1>1. TypeInv'
  BY DEF TypeInv, TypeOK, Trying
<1>2. FileInv' /\ EncoderInv'
  BY OutKept, EncoderKept
<1>3. ReadInv'
  BY DEF ReadInv, Trying
<1>4. JobsInv'
  <2>1. conf.mode # "gops"
    BY DEF ReadInv
  <2>2. pc' \notin {"start", "write"} /\ pc' # "frame"
    BY DEF Trying
  <2>3. QED BY <2>1, <2>2, JobsNone
<1>5. QED BY <1>1, <1>2, <1>3, <1>4

LEMMA TrialFacts ==
  ASSUME IInv, pc \in Trying, NEW q \in Q, NEW lambda \in 0..2,
         NEW psnr \in Psnrs, NEW size \in Sizes
  PROVE  LET t == Trial(q, lambda, psnr, size)
         IN  /\ t \in TrialsOf /\ t.q = q /\ t.psnr = psnr /\ t.size = size
             /\ Coded(enc, read, t.packet, t.encoder)
<1> DEFINE base == [enc EXCEPT !.q = q, !.lambda = lambda]
           r == Encode(base, read)
<1>1. enc \in Encoders /\ conf \in Configs /\ read \in 1..NFrames
  <2>1. read = Len(file) + 1 /\ read \in 0..NFrames /\ Len(file) \in Nat
    BY DEF IInv, ReadInv, TypeInv, TypeOK
  <2>2. QED BY <2>1 DEF IInv, TypeInv, TypeOK
<1>2. /\ base \in Encoders /\ base.have = enc.have
      /\ base.previous = enc.previous
      /\ base.frame_index = enc.frame_index
      /\ base.frames_since_key = enc.frames_since_key
  BY <1>1 DEF Encoders
<1> HIDE DEF base
<1>3. Coded(base, read, r.packet, r.encoder)
  BY <1>1, <1>2, EncodeStep, EncoderAssumption
<1>4. Trial(q, lambda, psnr, size) =
        [q |-> q, psnr |-> psnr, size |-> size,
         packet |-> r.packet, encoder |-> r.encoder]
  BY DEF Trial, base
<1> HIDE DEF r
<1>5. Coded(enc, read, r.packet, r.encoder)
  BY <1>2, <1>3 DEF Coded
<1>6. r.packet \in Packets /\ r.encoder \in Encoders
  BY <1>5 DEF Coded
<1>7. psnr \in Nat /\ size \in Nat
  BY EncoderAssumption
<1>8. QED BY <1>4, <1>5, <1>6, <1>7 DEF TrialsOf

LEMMA RestoredFacts ==
  ASSUME NEW t \in TrialsOf, Coded(enc, read, t.packet, t.encoder)
  PROVE  LET u == Restored(t)
         IN  /\ u \in TrialsOf /\ u.q = t.q /\ u.psnr = t.psnr
             /\ u.size = t.size
             /\ Coded(enc, read, u.packet, u.encoder)
<1> DEFINE e == [t.encoder EXCEPT !.lambda = 0]
<1>1. /\ e \in Encoders /\ e.have = t.encoder.have
      /\ e.previous = t.encoder.previous
      /\ e.frame_index = t.encoder.frame_index
      /\ e.frames_since_key = t.encoder.frames_since_key
  BY DEF TrialsOf, Encoders
<1>2. Restored(t) = [t EXCEPT !.encoder = e]
  BY DEF Restored
<1> HIDE DEF e
<1>3. Restored(t) = [q |-> t.q, psnr |-> t.psnr, size |-> t.size,
                     packet |-> t.packet, encoder |-> e]
  BY <1>2 DEF TrialsOf
<1>4. Coded(enc, read, t.packet, e)
  BY <1>1 DEF Coded
<1>5. QED BY <1>1, <1>3, <1>4 DEF TrialsOf

LEMMA TrialIsOne ==
  ASSUME NEW t \in TrialsOf
  PROVE  t # NoTrial
<1>1. t.q \in Q /\ NoTrial.q = 0
  BY DEF TrialsOf, NoTrial
<1>2. QED BY <1>1, EncoderAssumption DEF Q

\* What a trial adds to the search.
LEMMA TrialAdded ==
  ASSUME NEW good, NEW bad, NEW tested, Best(good, bad, tested),
         NEW t \in TrialsOf, NEW o \in Outcomes,
         o.psnr = t.psnr, o.size = t.size,
         NEW g, NEW b,
         g = IF t.psnr >= Target /\ BetterGood(t, good) THEN t ELSE good,
         b = IF ~(t.psnr >= Target) /\ BetterBad(t, bad) THEN t ELSE bad
  PROVE  Best(g, b, tested \cup {o})
<1>1. t # NoTrial /\ t.psnr \in Nat /\ t.size \in Nat /\ Target \in Nat
  BY TrialIsOne, EncoderAssumption DEF TrialsOf
<1>2. /\ good # NoTrial => good.psnr \in Nat /\ good.size \in Nat
      /\ bad # NoTrial => bad.psnr \in Nat /\ bad.size \in Nat
  BY DEF Best, NoneOr, TrialsOf
<1>3. tested \cup {o} \in SUBSET Outcomes
  BY DEF Best
<1>4. \A u \in tested \cup {o} : u.psnr \in Nat /\ u.size \in Nat
  BY <1>3 DEF Outcomes
<1>5. g \in NoneOr(TrialsOf) /\ b \in NoneOr(TrialsOf)
  BY DEF Best, NoneOr
<1>6. CASE t.psnr >= Target
  <2>1. b = bad /\ g # NoTrial /\ g.psnr >= Target
    BY <1>1, <1>6 DEF BetterGood, Best
  <2>2. g.size <= o.size
    BY <1>1, <1>2, <1>6 DEF BetterGood
  <2>3. \A u \in tested : u.psnr >= Target => g.size <= u.size
    BY <1>1, <1>2, <1>4, <1>6 DEF BetterGood, Best
  <2>4. QED BY <1>1, <1>3, <1>4, <1>5, <1>6, <2>1, <2>2, <2>3 DEF Best
<1>7. CASE ~(t.psnr >= Target)
  <2>1. g = good /\ b # NoTrial
    BY <1>1, <1>7 DEF BetterBad
  <2>2. o.psnr <= b.psnr
    BY <1>1, <1>2, <1>7 DEF BetterBad
  <2>3. \A u \in tested : u.psnr < Target => u.psnr <= b.psnr
    BY <1>1, <1>2, <1>4, <1>7 DEF BetterBad, Best
  <2>4. QED BY <1>1, <1>3, <1>4, <1>5, <1>7, <2>1, <2>2, <2>3 DEF Best
<1>8. QED BY <1>6, <1>7

LEMMA TrialQRange ==
  ASSUME IInv, pc \in Trying
  PROVE  /\ TrialQ \in 0..MaxQ
         /\ search.tested = {} => TrialQ # 0
<1>1. search \in Searches /\ MaxQ \in Nat \ {0}
  BY EncoderAssumption DEF IInv, SearchInv, QualityInv
<1> DEFINE s == search
           q == IF s.q \notin TestedQ THEN s.q
                ELSE IF s.good_q # 0 /\ s.bad_q # 0 /\ s.bad_q > s.good_q + 1
                THEN s.good_q + (s.bad_q - s.good_q) \div 2
                ELSE IF s.good_q # 0 /\ s.good_q < MaxQ THEN s.good_q + 1
                ELSE IF s.bad_q > 1 THEN s.bad_q - 1
                ELSE 0
<1>2. TrialQ = IF q \in TestedQ THEN 0 ELSE q
  BY DEF TrialQ
<1>3. s.q \in Q /\ s.good_q \in 0..MaxQ /\ s.bad_q \in 0..MaxQ
  BY <1>1 DEF Searches
<1>4. q \in 0..MaxQ
  BY <1>1, <1>3 DEF Q
<1>5. s.tested = {} => TestedQ = {}
  BY DEF TestedQ
<1>6. s.tested = {} => q = s.q
  BY <1>5
<1>7. s.tested = {} => q \notin TestedQ /\ q # 0
  BY <1>3, <1>5, <1>6 DEF Q
<1> HIDE DEF q
<1>8. TrialQ \in 0..MaxQ
  BY <1>1, <1>2, <1>4
<1>9. s.tested = {} => TrialQ # 0
  BY <1>2, <1>7
<1>10. QED BY <1>8, <1>9

LEMMA GuessRange ==
  ASSUME NEW q \in Q, NEW met \in BOOLEAN, NEW good \in 0..MaxQ,
         NEW bad \in 0..MaxQ
  PROVE  Guesses(q, met, good, bad) \subseteq Q
BY EncoderAssumption DEF Guesses, Clamped, Q

LEMMA TryQStep == IInv /\ TryQ => IInv'
<1> SUFFICES ASSUME IInv, TryQ PROVE IInv'
  OBVIOUS
<1> DEFINE s == search
           q == TrialQ
<1>1. /\ pc = "trial" /\ pc' = pc /\ q # 0
      /\ UNCHANGED <<loop, enc, rate, read, eof, jobs, at, out>>
  BY DEF TryQ
<1>2. pc \in Trying /\ pc' \in Trying
  BY <1>1 DEF Trying
<1>3. TypeInv' /\ FileInv' /\ EncoderInv' /\ ReadInv' /\ JobsInv'
  BY <1>1, <1>2, TryingKept
<1>4. q \in Q
  BY <1>1, <1>2, TrialQRange, EncoderAssumption DEF Q
<1>5. QualityInv /\ enc.lambda \in 0..2
  BY <1>2 DEF IInv, SearchInv, TypeInv, TypeOK, Encoders
<1> HIDE DEF q
<1>6. PICK psnr \in Psnrs, size \in Sizes :
        LET t    == Trial(q, enc.lambda, psnr, size)
            met  == psnr >= Target
            good == IF met /\ q > s.good_q THEN q ELSE s.good_q
            bad  == IF ~met /\ (s.bad_q = 0 \/ q < s.bad_q)
                    THEN q ELSE s.bad_q
        IN  \E guess \in Guesses(q, met, good, bad) :
              search' =
                [s EXCEPT !.q = guess, !.count = @ + 1,
                          !.tested = @ \cup {Outcome(t, 0)},
                          !.good_q = good, !.bad_q = bad,
                          !.good = IF met /\ BetterGood(t, @) THEN t ELSE @,
                          !.bad = IF ~met /\ BetterBad(t, @) THEN t ELSE @]
  BY DEF TryQ, q
<1> DEFINE t    == Trial(q, enc.lambda, psnr, size)
           met  == psnr >= Target
           goodq == IF met /\ q > s.good_q THEN q ELSE s.good_q
           badq  == IF ~met /\ (s.bad_q = 0 \/ q < s.bad_q)
                    THEN q ELSE s.bad_q
           o    == Outcome(t, 0)
           g    == IF met /\ BetterGood(t, s.good) THEN t ELSE s.good
           b    == IF ~met /\ BetterBad(t, s.bad) THEN t ELSE s.bad
<1>7. PICK guess \in Guesses(q, met, goodq, badq) :
        search' = [s EXCEPT !.q = guess, !.count = @ + 1,
                            !.tested = @ \cup {o},
                            !.good_q = goodq, !.bad_q = badq,
                            !.good = g, !.bad = b]
  BY <1>6
<1>8. /\ s \in Searches /\ goodq \in 0..MaxQ /\ badq \in 0..MaxQ
      /\ guess \in Q
  <2>1. s \in Searches
    BY <1>5 DEF QualityInv
  <2>2. goodq \in 0..MaxQ /\ badq \in 0..MaxQ
    BY <2>1, <1>4 DEF Searches, Q
  <2>3. met \in BOOLEAN
    OBVIOUS
  <2> HIDE DEF goodq, badq, met
  <2>4. QED BY <2>1, <2>2, <2>3, <1>4, GuessRange
<1>9. /\ t \in TrialsOf /\ t.q = q /\ t.psnr = psnr /\ t.size = size
      /\ Coded(enc, read, t.packet, t.encoder)
  BY <1>2, <1>4, <1>5, TrialFacts
<1> HIDE DEF t
<1>10. o \in Outcomes /\ o.psnr = t.psnr /\ o.size = t.size
  BY <1>9 DEF Outcome, Outcomes, TrialsOf
<1> HIDE DEF o, goodq, badq
<1>11. Best(g, b, s.tested \cup {o})
  <2>1. Best(s.good, s.bad, s.tested)
    BY <1>5 DEF QualityInv
  <2>2. /\ g = IF t.psnr >= Target /\ BetterGood(t, s.good) THEN t ELSE s.good
        /\ b = IF ~(t.psnr >= Target) /\ BetterBad(t, s.bad) THEN t ELSE s.bad
    BY <1>9
  <2> HIDE DEF g, b, s
  <2>3. QED BY <2>1, <2>2, <1>9, <1>10, TrialAdded
<1>12. /\ g # NoTrial => Coded(enc, read, g.packet, g.encoder)
       /\ b # NoTrial => Coded(enc, read, b.packet, b.encoder)
  BY <1>5, <1>9 DEF TrialInv, QualityInv
<1> HIDE DEF g, b
<1>13. /\ search' \in Searches
       /\ search'.good = g /\ search'.bad = b
       /\ search'.tested = s.tested \cup {o}
  <2>1. search' = [kind |-> s.kind, q |-> guess, count |-> s.count + 1,
                   tested |-> s.tested \cup {o}, good_q |-> goodq,
                   bad_q |-> badq, good |-> g, bad |-> b]
    BY <1>7, <1>8 DEF Searches
  <2>2. s.tested \cup {o} \in SUBSET Outcomes /\ s.count + 1 \in Nat
        /\ s.kind = "quality"
    BY <1>8, <1>10 DEF Searches
  <2>3. g \in NoneOr(TrialsOf) /\ b \in NoneOr(TrialsOf)
    BY <1>11 DEF Best
  <2>4. QED BY <2>1, <2>2, <2>3, <1>8 DEF Searches
<1>14. QualityInv'
  <2>1. /\ TrialInv(search.good)' /\ TrialInv(search.bad)'
    <3>1. enc' = enc /\ read' = read /\ conf' = conf
      BY <1>1 DEF loop
    <3>2. QED BY <3>1, <1>12, <1>13 DEF TrialInv, Coded
  <2>2. pc' = "trial"
    BY <1>1
  <2>3. QED BY <2>1, <2>2, <1>11, <1>13 DEF QualityInv
<1>15. SearchInv'
  BY <1>1, <1>14 DEF SearchInv
<1>16. QED BY <1>3, <1>15 DEF IInv

LEMMA EndTrialsStep == IInv /\ EndTrials => IInv'
<1> SUFFICES ASSUME IInv, EndTrials PROVE IInv'
  OBVIOUS
<1>1. /\ pc = "trial"
      /\ pc' = IF search.good # NoTrial THEN "choose" ELSE "lambda"
      /\ search' = [search EXCEPT !.count = 0]
      /\ UNCHANGED <<loop, enc, rate, read, eof, jobs, at, out>>
  BY DEF EndTrials
<1>2. pc \in Trying /\ pc' \in Trying
  BY <1>1 DEF Trying
<1>3. TypeInv' /\ FileInv' /\ EncoderInv' /\ ReadInv' /\ JobsInv'
  BY <1>1, <1>2, TryingKept
<1>4. QualityInv
  BY <1>2 DEF IInv, SearchInv
<1>5. search.tested # {}
  <2>1. search.count = Trials \/ TrialQ = 0
    BY DEF EndTrials
  <2>2. CASE search.count = Trials
    BY <2>2, <1>4, EncoderAssumption DEF QualityInv
  <2>3. CASE TrialQ = 0
    BY <2>3, <1>2, TrialQRange
  <2>4. QED BY <2>1, <2>2, <2>3
<1>6. /\ search' \in Searches /\ search'.good = search.good
      /\ search'.bad = search.bad /\ search'.tested = search.tested
  BY <1>1, <1>4 DEF QualityInv, Searches
<1>7. search.good # NoTrial \/ search.bad # NoTrial
  BY <1>4, <1>5 DEF QualityInv, Best
<1>8. TrialInv(search.good)' /\ TrialInv(search.bad)'
  <2>1. enc' = enc /\ read' = read /\ conf' = conf
    BY <1>1 DEF loop
  <2>2. QED BY <2>1, <1>4, <1>6 DEF TrialInv, Coded, QualityInv
<1>9. QualityInv'
  BY <1>1, <1>4, <1>5, <1>6, <1>7, <1>8 DEF QualityInv
<1>10. SearchInv'
  BY <1>1, <1>9 DEF SearchInv
<1>11. QED BY <1>3, <1>10 DEF IInv

LEMMA EndLambdaStep == IInv /\ EndLambda => IInv'
<1> SUFFICES ASSUME IInv, EndLambda PROVE IInv'
  OBVIOUS
<1>1. /\ pc = "lambda" /\ pc' \in {"choose", "finest"} /\ search' = search
      /\ UNCHANGED <<loop, enc, rate, read, eof, jobs, at, out>>
  BY DEF EndLambda
<1>2. pc \in Trying /\ pc' \in Trying
  BY <1>1 DEF Trying
<1>3. TypeInv' /\ FileInv' /\ EncoderInv' /\ ReadInv' /\ JobsInv'
  BY <1>1, <1>2, TryingKept
<1>4. QualityInv
  BY <1>2 DEF IInv, SearchInv
<1>5. enc' = enc /\ read' = read /\ conf' = conf
  BY <1>1 DEF loop
<1>6. TrialInv(search.good)' /\ TrialInv(search.bad)'
  BY <1>1, <1>4, <1>5 DEF TrialInv, Coded, QualityInv
<1>7. QualityInv'
  BY <1>1, <1>4, <1>6 DEF QualityInv
<1>8. SearchInv'
  BY <1>1, <1>7 DEF SearchInv
<1>9. QED BY <1>3, <1>8 DEF IInv

\* A trial after all of the others missed: the first that meets the target
\* is taken with its lambda restored, a better miss replaces the best one.
LEMMA LastTrial ==
  ASSUME IInv, pc \in {"lambda", "finest"},
         UNCHANGED <<loop, enc, rate, read, eof, jobs, at, out>>,
         pc' \in Trying,
         NEW t \in TrialsOf, Coded(enc, read, t.packet, t.encoder),
         NEW n \in 0..2, NEW g, NEW b, NEW c \in Nat,
         g = IF t.psnr >= Target THEN Restored(t) ELSE search.good,
         b = IF ~(t.psnr >= Target) /\ BetterBad(t, search.bad)
             THEN t ELSE search.bad,
         search' = [search EXCEPT !.tested = @ \cup {Outcome(t, n)},
                                  !.good = g, !.bad = b, !.count = c],
         t.psnr >= Target => pc' = "choose", pc' # "trial"
  PROVE  IInv'
<1> DEFINE o == Outcome(t, n)
           u == IF t.psnr >= Target THEN Restored(t) ELSE t
<1>1. pc \in Trying /\ QualityInv /\ search.good = NoTrial
      /\ search.bad # NoTrial
  BY DEF Trying, IInv, SearchInv, QualityInv
<1>2. TypeInv' /\ FileInv' /\ EncoderInv' /\ ReadInv' /\ JobsInv'
  BY <1>1, TryingKept
<1>3. /\ u \in TrialsOf /\ u.psnr = t.psnr /\ u.size = t.size
      /\ Coded(enc, read, u.packet, u.encoder)
  BY RestoredFacts
<1>4. o \in Outcomes /\ o.psnr = u.psnr /\ o.size = u.size
  BY <1>3 DEF Outcome, Outcomes, TrialsOf
<1>5. /\ g = IF u.psnr >= Target /\ BetterGood(u, search.good)
             THEN u ELSE search.good
      /\ b = IF ~(u.psnr >= Target) /\ BetterBad(u, search.bad)
             THEN u ELSE search.bad
  BY <1>1, <1>3 DEF BetterGood
<1> HIDE DEF u, o
<1>6. Best(g, b, search.tested \cup {o})
  BY <1>1, <1>3, <1>4, <1>5, TrialAdded DEF QualityInv
<1>7. /\ g # NoTrial => Coded(enc, read, g.packet, g.encoder)
      /\ b # NoTrial => Coded(enc, read, b.packet, b.encoder)
  BY <1>1, <1>3, <1>5 DEF TrialInv, QualityInv
<1>8. b # NoTrial /\ (g = NoTrial \/ pc' = "choose")
  BY <1>1, <1>3, <1>5, TrialIsOne
<1>9. /\ search' \in Searches /\ search'.good = g /\ search'.bad = b
      /\ search'.tested = search.tested \cup {o}
  <2>1. search \in Searches
    BY <1>1 DEF QualityInv
  <2>2. search' = [kind |-> search.kind, q |-> search.q, count |-> c,
                   tested |-> search.tested \cup {o},
                   good_q |-> search.good_q, bad_q |-> search.bad_q,
                   good |-> g, bad |-> b]
    BY <2>1 DEF Searches, o
  <2>3. /\ g \in NoneOr(TrialsOf) /\ b \in NoneOr(TrialsOf)
        /\ search.tested \cup {o} \in SUBSET Outcomes
    BY <1>6 DEF Best
  <2>4. /\ search.kind = "quality" /\ search.q \in Q
        /\ search.good_q \in 0..MaxQ /\ search.bad_q \in 0..MaxQ
    BY <2>1 DEF Searches
  <2> DEFINE z == [kind |-> search.kind, q |-> search.q, count |-> c,
                   tested |-> search.tested \cup {o},
                   good_q |-> search.good_q, bad_q |-> search.bad_q,
                   good |-> g, bad |-> b]
  <2>5. /\ z \in Searches /\ z.good = g /\ z.bad = b
        /\ z.tested = search.tested \cup {o}
    BY <2>3, <2>4 DEF Searches
  <2> HIDE DEF z
  <2>6. search' = z
    BY <2>2 DEF z
  <2>7. QED BY <2>5, <2>6
<1>10. TrialInv(search.good)' /\ TrialInv(search.bad)'
  <2>1. enc' = enc /\ read' = read /\ conf' = conf
    BY DEF loop
  <2>2. QED BY <2>1, <1>7, <1>9 DEF TrialInv, Coded
<1>11. QualityInv'
  BY <1>6, <1>8, <1>9, <1>10 DEF QualityInv
<1>12. SearchInv'
  BY <1>11 DEF SearchInv, Trying
<1>13. QED BY <1>2, <1>12 DEF IInv

LEMMA TryLambdaStep == IInv /\ TryLambda => IInv'
<1> SUFFICES ASSUME IInv, TryLambda PROVE IInv'
  OBVIOUS
<1> DEFINE s == search
<1>1. /\ pc = "lambda" /\ s.count < 2
      /\ UNCHANGED <<loop, enc, rate, read, eof, jobs, at, out>>
  BY DEF TryLambda
<1>2. pc \in Trying
  BY <1>1 DEF Trying
<1>3. QualityInv /\ s \in Searches /\ s.bad # NoTrial
  BY <1>1, <1>2 DEF IInv, SearchInv, QualityInv
<1>4. s.bad.q \in Q /\ s.count + 1 \in 0..2 /\ s.count \in Nat
  BY <1>1, <1>3 DEF Searches, NoneOr, TrialsOf
<1>5. PICK psnr \in Psnrs, size \in Sizes :
        LET t == Trial(s.bad.q, s.count + 1, psnr, size)
        IN  IF psnr >= Target
            THEN /\ search' = [s EXCEPT !.good = Restored(t),
                                        !.tested = @ \cup {Outcome(t, s.count + 1)}]
                 /\ pc' = "choose"
            ELSE /\ search' = [s EXCEPT !.count = @ + 1,
                                        !.tested = @ \cup {Outcome(t, s.count + 1)},
                                        !.bad = IF BetterBad(t, @) THEN t ELSE @]
                 /\ UNCHANGED pc
  BY DEF TryLambda
<1> DEFINE t == Trial(s.bad.q, s.count + 1, psnr, size)
           g == IF t.psnr >= Target THEN Restored(t) ELSE s.good
           b == IF ~(t.psnr >= Target) /\ BetterBad(t, s.bad)
                THEN t ELSE s.bad
           c == IF t.psnr >= Target THEN s.count ELSE s.count + 1
<1>6. /\ t \in TrialsOf /\ t.psnr = psnr
      /\ Coded(enc, read, t.packet, t.encoder)
  BY <1>2, <1>4, TrialFacts
<1> HIDE DEF t
<1>7. search' = [s EXCEPT !.tested = @ \cup {Outcome(t, s.count + 1)},
                          !.good = g, !.bad = b, !.count = c]
  <2>1. CASE psnr >= Target
    <3>1. search' = [s EXCEPT !.good = Restored(t),
                              !.tested = @ \cup {Outcome(t, s.count + 1)}]
      BY <1>5, <2>1 DEF t
    <3>2. g = Restored(t) /\ b = s.bad /\ c = s.count
      BY <1>6, <2>1
    <3> HIDE DEF g, b, c
    <3>3. QED BY <3>1, <3>2, <1>3 DEF Searches
  <2>2. CASE ~(psnr >= Target)
    <3>1. search' = [s EXCEPT !.count = s.count + 1,
                              !.tested = @ \cup {Outcome(t, s.count + 1)},
                              !.bad = IF BetterBad(t, s.bad) THEN t ELSE s.bad]
      BY <1>5, <2>2 DEF t
    <3>2. /\ g = s.good /\ c = s.count + 1
          /\ b = IF BetterBad(t, s.bad) THEN t ELSE s.bad
      BY <1>6, <2>2
    <3> HIDE DEF g, b, c
    <3>3. QED BY <3>1, <3>2, <1>3 DEF Searches
  <2>3. QED BY <2>1, <2>2
<1>8. /\ pc' \in Trying /\ (t.psnr >= Target => pc' = "choose")
      /\ pc' # "trial"
  BY <1>1, <1>5, <1>6 DEF Trying
<1>9. c \in Nat
  BY <1>4
<1>10. /\ g = IF t.psnr >= Target THEN Restored(t) ELSE search.good
       /\ b = IF ~(t.psnr >= Target) /\ BetterBad(t, search.bad)
              THEN t ELSE search.bad
  OBVIOUS
<1> HIDE DEF g, b, c
<1>11. QED BY <1>1, <1>4, <1>6, <1>7, <1>8, <1>9, <1>10, LastTrial

LEMMA TryFinestStep == IInv /\ TryFinest => IInv'
<1> SUFFICES ASSUME IInv, TryFinest PROVE IInv'
  OBVIOUS
<1> DEFINE s == search
<1>1. /\ pc = "finest" /\ pc' = "choose"
      /\ UNCHANGED <<loop, enc, rate, read, eof, jobs, at, out>>
  BY DEF TryFinest
<1>2. pc \in Trying /\ pc' \in Trying
  BY <1>1 DEF Trying
<1>3. s \in Searches /\ s.count \in Nat /\ 1 \in Q /\ enc.lambda \in 0..2
  BY <1>2, EncoderAssumption
     DEF IInv, SearchInv, QualityInv, Searches, Q, TypeInv, TypeOK, Encoders
<1>4. PICK psnr \in Psnrs, size \in Sizes :
        LET t == Trial(1, enc.lambda, psnr, size)
        IN  search' = [s EXCEPT
              !.tested = @ \cup {Outcome(t, 0)},
              !.good = IF psnr >= Target THEN Restored(t) ELSE @,
              !.bad = IF psnr < Target /\ BetterBad(t, @) THEN t ELSE @]
  BY DEF TryFinest
<1> DEFINE t == Trial(1, enc.lambda, psnr, size)
           g == IF t.psnr >= Target THEN Restored(t) ELSE s.good
           b == IF ~(t.psnr >= Target) /\ BetterBad(t, s.bad)
                THEN t ELSE s.bad
<1>5. /\ t \in TrialsOf /\ t.psnr = psnr
      /\ Coded(enc, read, t.packet, t.encoder)
  BY <1>2, <1>3, TrialFacts
<1> HIDE DEF t
<1>6. search' = [s EXCEPT !.tested = @ \cup {Outcome(t, 0)},
                          !.good = g, !.bad = b, !.count = s.count]
  <2>1. psnr < Target <=> ~(psnr >= Target)
    BY EncoderAssumption
  <2>2. search' = [s EXCEPT !.tested = @ \cup {Outcome(t, 0)},
                            !.good = g, !.bad = b]
    BY <1>4, <1>5, <2>1 DEF t
  <2> HIDE DEF g, b
  <2>3. QED BY <2>2, <1>3 DEF Searches
<1>7. /\ g = IF t.psnr >= Target THEN Restored(t) ELSE search.good
      /\ b = IF ~(t.psnr >= Target) /\ BetterBad(t, search.bad)
             THEN t ELSE search.bad
  OBVIOUS
<1> HIDE DEF g, b
<1>8. 0 \in 0..2 /\ pc \in {"lambda", "finest"} /\ pc' # "trial"
  BY <1>1
<1>9. QED BY <1>1, <1>2, <1>3, <1>5, <1>6, <1>7, <1>8, LastTrial

LEMMA TakeChosenStep == IInv /\ TakeChosen => IInv'
<1> SUFFICES ASSUME IInv, TakeChosen PROVE IInv'
  OBVIOUS
<1> DEFINE t == Chosen
<1>1. /\ pc = "choose" /\ pc' = "frame" /\ enc' = t.encoder /\ rate' = t.q
      /\ Write(t.packet, t.encoder.previous)
      /\ UNCHANGED <<conf, video, read, eof, jobs, at>>
  BY DEF TakeChosen, loop
<1>2. QualityInv /\ conf.mode = "quality" /\ read = Len(file) + 1
  BY <1>1 DEF IInv, SearchInv, ReadInv, Trying
<1>3. t \in TrialsOf /\ Coded(enc, read, t.packet, t.encoder)
  <2>1. search.good \in NoneOr(TrialsOf) /\ search.bad \in NoneOr(TrialsOf)
        /\ (search.good # NoTrial \/ search.bad # NoTrial)
    BY <1>1, <1>2 DEF QualityInv, Best
  <2>2. QED BY <2>1, <1>2 DEF Chosen, QualityInv, TrialInv, NoneOr
<1> HIDE DEF t
<1>4. /\ FileInv' /\ EncoderInv'
      /\ Len(file') = Len(file) + 1
      /\ enc' \in Encoders
      /\ file' \in Seq(Packets) /\ recon' \in Seq(Seq(Codes))
      /\ dec' \in Seq(Codes)
      /\ phase' \in 0..(FpsNum - 1) /\ samples' \in Nat
  BY <1>1, <1>2, <1>3, WriteCoded DEF IInv
<1>5. rate' \in Q
  BY <1>1, <1>3 DEF TrialsOf
<1>6. TypeInv'
  BY <1>1, <1>4, <1>5 DEF IInv, TypeInv, TypeOK
<1>7. ReadInv'
  BY <1>1, <1>2, <1>4 DEF IInv, ReadInv, Trying
<1>8. JobsInv'
  <2>1. conf.mode # "gops" /\ read' = Len(file')
    BY <1>1, <1>2, <1>4
  <2>2. QED BY <2>1, <1>1, JobsNone DEF IInv
<1>9. SearchInv'
  BY <1>1, SearchIdle DEF Trying
<1>10. QED BY <1>4, <1>6, <1>7, <1>8, <1>9 DEF IInv

\* What a loop that asks for up to "limit" pictures gets.
LEMMA AvailableRange ==
  ASSUME IInv, NEW limit \in Nat \ {0}, Wanted(read)
  PROVE  /\ Available(limit) \in 0..limit
         /\ read + Available(limit) <= NFrames
         /\ conf.max # 0 => read + Available(limit) <= conf.max
         /\ Available(limit) = 0 => read = NFrames
         /\ Available(limit) < Requested(limit) =>
              read + Available(limit) = NFrames
<1>1. read \in 0..NFrames /\ NFrames \in Nat /\ conf.max \in Nat
  BY EncoderAssumption DEF IInv, TypeInv, TypeOK, Configs
<1>2. QED BY <1>1 DEF Available, Requested, Least, Wanted

LEMMA SpoolWindowStep == IInv /\ SpoolWindow => IInv'
<1> SUFFICES ASSUME IInv, SpoolWindow PROVE IInv'
  OBVIOUS
<1> DEFINE n == Available(Window)
<1>1. /\ pc = "frame" /\ conf.mode = "window" /\ Wanted(Len(file)) /\ ~eof
      /\ UNCHANGED <<loop, enc, rate, jobs, out>>
  BY DEF SpoolWindow
<1>2. jobs = <<>> /\ Len(file) = read /\ read \in Nat
  <2>1. jobs = <<>>
    BY <1>1 DEF IInv, JobsInv
  <2>2. QED BY <2>1, <1>1, HeadOfLoop DEF IInv, TypeInv, TypeOK
<1>3. /\ n \in Nat /\ read + n <= NFrames
      /\ conf.max # 0 => read + n <= conf.max
      /\ n = 0 => read = NFrames
      /\ n < Requested(Window) => read + n = NFrames
  BY <1>1, <1>2, AvailableRange, EncoderAssumption
<1>4. FileInv' /\ EncoderInv'
  BY <1>1, OutKept, EncoderKept DEF IInv, out, loop
<1>5. CASE n = 0
  <2>1. eof' = TRUE /\ UNCHANGED <<pc, read, search, at>>
    BY <1>5 DEF SpoolWindow
  <2>2. TypeInv'
    BY <1>1, <2>1 DEF IInv, TypeInv, TypeOK, loop, out
  <2>3. ReadInv'
    BY <1>1, <1>3, <1>5, <2>1 DEF IInv, ReadInv, Trying, loop, out
  <2>4. JobsInv'
    BY <1>1, <2>1, JobsKept DEF IInv, loop, out
  <2>5. SearchInv'
    BY <1>1, <2>1, SearchIdle DEF Trying
  <2>6. QED BY <1>4, <2>2, <2>3, <2>4, <2>5 DEF IInv
<1>6. CASE n # 0
  <2>1. /\ read' = read + n /\ eof' = (n < Requested(Window))
        /\ pc' = "probe" /\ at' = [at EXCEPT !.packet = read + 1]
        /\ search' = [kind |-> "window", q |-> rate, count |-> 0,
                      tested |-> {}, over_q |-> 0, under_q |-> 0,
                      best |-> [q |-> rate, error |-> 0]]
    BY <1>6 DEF SpoolWindow
  <2>2. /\ at' \in [job : Nat \ {0}, packet : Nat \ {0}]
        /\ at'.packet = read + 1
    BY <2>1, <1>2 DEF IInv, TypeInv
  <2>3. TypeInv'
    <3>1. eof' \in BOOLEAN
      BY <2>1
    <3>2. read' \in 0..NFrames
      <4> HIDE DEF n
      <4>1. QED BY <1>2, <1>3, <2>1, EncoderAssumption
    <3>3. QED BY <1>1, <2>1, <2>2, <3>1, <3>2
              DEF IInv, TypeInv, TypeOK, loop, out
  <2>4. ReadInv'
    <3>1. conf' = conf /\ file' = file
      BY <1>1 DEF loop, out
    <3> HIDE DEF n
    <3>2. eof' => read' = NFrames
      BY <1>3, <2>1
    <3>3. /\ conf.max # 0 => read' <= conf.max
          /\ Len(file) <= read' /\ at'.packet = Len(file) + 1
          /\ at'.packet <= read'
      BY <1>2, <1>3, <1>6, <2>1, <2>2
    <3>4. QED BY <1>1, <2>1, <3>1, <3>2, <3>3 DEF ReadInv, Trying
  <2>5. JobsInv'
    BY <1>1, <2>1, JobsNone DEF IInv, loop
  <2>6. SearchInv'
    <3>1. rate \in Q /\ MaxQ \in Nat
      BY EncoderAssumption DEF IInv, TypeInv, TypeOK
    <3>2. ProbeInv'
      BY <2>1, <3>1 DEF ProbeInv, WindowSearches, Probes
    <3>3. QED BY <2>1, <3>2 DEF SearchInv, Trying
  <2>7. QED BY <1>4, <2>3, <2>4, <2>5, <2>6 DEF IInv
<1>7. QED BY <1>5, <1>6

LEMMA ProbeWindowStep == IInv /\ ProbeWindow => IInv'
<1> SUFFICES ASSUME IInv, ProbeWindow PROVE IInv'
  OBVIOUS
<1> DEFINE s == search
<1>1. /\ pc = "probe"
      /\ UNCHANGED <<loop, pc, enc, rate, read, eof, jobs, at, out>>
  BY DEF ProbeWindow
<1>2. ProbeInv /\ conf.mode = "window"
  BY <1>1 DEF IInv, SearchInv, ReadInv
<1>3. TypeInv'
  BY <1>1 DEF IInv, TypeInv, TypeOK, loop, out
<1>4. FileInv' /\ EncoderInv'
  BY <1>1, OutKept, EncoderKept DEF IInv, out, loop
<1>5. ReadInv'
  BY <1>1 DEF IInv, ReadInv, Trying, loop, out
<1>6. JobsInv'
  BY <1>1, <1>2, JobsNone DEF IInv, loop
<1>7. PICK error \in Sizes, over \in BOOLEAN :
       LET tried == [q |-> s.q, error |-> error]
           near  == error = 0
           o     == IF over /\ s.q > s.over_q THEN s.q ELSE s.over_q
           u     == IF ~over /\ (s.under_q = 0 \/ s.q < s.under_q)
                    THEN s.q ELSE s.under_q
           q     == IF o # 0 /\ u > o + 1 THEN o + (u - o) \div 2
                    ELSE IF o # 0 /\ u = 0 THEN Least(2 * s.q, MaxQ)
                    ELSE IF u # 0 /\ o = 0 THEN (s.q + 1) \div 2
                    ELSE 0
       IN  search' = [s EXCEPT
                !.q = IF near \/ q = 0 THEN @ ELSE q,
                !.count = IF near \/ q = 0 THEN Trials ELSE @ + 1,
                !.tested = @ \cup {tried},
                !.over_q = o, !.under_q = u,
                !.best = IF s.tested = {} \/ error < @.error THEN tried ELSE @]
  BY DEF ProbeWindow
<1> DEFINE tried == [q |-> s.q, error |-> error]
           o     == IF over /\ s.q > s.over_q THEN s.q ELSE s.over_q
           u     == IF ~over /\ (s.under_q = 0 \/ s.q < s.under_q)
                    THEN s.q ELSE s.under_q
           q     == IF o # 0 /\ u > o + 1 THEN o + (u - o) \div 2
                    ELSE IF o # 0 /\ u = 0 THEN Least(2 * s.q, MaxQ)
                    ELSE IF u # 0 /\ o = 0 THEN (s.q + 1) \div 2
                    ELSE 0
           p     == IF error = 0 \/ q = 0 THEN s.q ELSE q
           c     == IF error = 0 \/ q = 0 THEN Trials ELSE s.count + 1
           best  == IF s.tested = {} \/ error < s.best.error
                    THEN tried ELSE s.best
<1>8. search' = [s EXCEPT !.q = p, !.count = c, !.tested = @ \cup {tried},
                          !.over_q = o, !.under_q = u, !.best = best]
  BY <1>7
<1>9. /\ s \in WindowSearches /\ s.q \in Q /\ s.count \in Nat
      /\ s.over_q \in 0..MaxQ /\ s.under_q \in 0..MaxQ
      /\ s.tested \in SUBSET Probes /\ s.best \in Probes
      /\ error \in Nat /\ MaxQ \in Nat \ {0} /\ Trials \in Nat
  BY <1>2, EncoderAssumption DEF ProbeInv, WindowSearches
<1>10. tried \in Probes /\ tried.error = error
  BY <1>9 DEF Probes
<1> HIDE DEF tried
<1>11. o \in 0..MaxQ /\ u \in 0..MaxQ
  BY <1>9 DEF Q
<1> HIDE DEF o, u
<1>12. q \in 0..MaxQ
  BY <1>9, <1>11 DEF Q, Least
<1> HIDE DEF q
<1>13. p \in Q /\ c \in Nat
  BY <1>9, <1>12 DEF Q
<1>14. /\ best \in Probes
       /\ \A t \in s.tested \cup {tried} : best.error <= t.error
  <2>1. \A t \in s.tested : s.best.error <= t.error
    BY <1>2 DEF ProbeInv
  <2>2. /\ \A t \in s.tested : t.error \in Nat
        /\ s.best.error \in Nat
    BY <1>9 DEF Probes
  <2>3. CASE s.tested = {} \/ error < s.best.error
    <3>1. best = tried
      BY <2>3
    <3> HIDE DEF best
    <3>2. QED BY <3>1, <2>1, <2>2, <2>3, <1>9, <1>10
  <2>4. CASE ~(s.tested = {} \/ error < s.best.error)
    <3>1. best = s.best
      BY <2>4
    <3> HIDE DEF best
    <3>2. QED BY <3>1, <2>1, <2>2, <2>4, <1>9, <1>10
  <2>5. QED BY <2>3, <2>4
<1> HIDE DEF p, c, best
<1>15. ProbeInv'
  <2> DEFINE z == [kind |-> "window", q |-> p, count |-> c,
                   tested |-> s.tested \cup {tried}, over_q |-> o,
                   under_q |-> u, best |-> best]
  <2>1. search' = z
    BY <1>8, <1>9 DEF WindowSearches
  <2>2. /\ z \in WindowSearches /\ z.best = best
        /\ z.tested = s.tested \cup {tried}
    BY <1>9, <1>10, <1>11, <1>13, <1>14 DEF WindowSearches
  <2> HIDE DEF z
  <2>3. QED BY <2>1, <2>2, <1>14 DEF ProbeInv
<1>16. SearchInv'
  BY <1>1, <1>15 DEF SearchInv, Trying
<1>17. QED BY <1>3, <1>4, <1>5, <1>6, <1>16 DEF IInv

LEMMA EndProbeStep == IInv /\ EndProbe => IInv'
<1> SUFFICES ASSUME IInv, EndProbe PROVE IInv'
  OBVIOUS
<1> DEFINE q == search.best.q
<1>1. /\ pc = "probe" /\ pc' = "window" /\ enc' = SetQ(enc, q) /\ rate' = q
      /\ UNCHANGED <<loop, read, eof, jobs, at, search, out>>
  BY DEF EndProbe
<1>2. ProbeInv /\ conf.mode = "window"
  BY <1>1 DEF IInv, SearchInv, ReadInv
<1>3. q \in Q
  BY <1>2 DEF ProbeInv, WindowSearches, Probes
<1> HIDE DEF q
<1>4. /\ enc' \in Encoders /\ enc'.have = enc.have
      /\ enc'.previous = enc.previous
      /\ enc'.frame_index = enc.frame_index
      /\ enc'.frames_since_key = enc.frames_since_key
  BY <1>1, <1>3 DEF SetQ, Encoders, IInv, TypeInv, TypeOK
<1>5. TypeInv'
  BY <1>1, <1>3, <1>4 DEF IInv, TypeInv, TypeOK, loop, out
<1>6. FileInv'
  BY <1>1, OutKept DEF IInv, loop
<1>7. EncoderInv'
  BY <1>1, <1>4 DEF IInv, EncoderInv, Tracks, loop, out
<1>8. ReadInv'
  <2>1. read \in Nat /\ at.packet \in Nat
    BY DEF IInv, TypeInv, TypeOK
  <2>2. QED BY <2>1, <1>1 DEF IInv, ReadInv, Trying, loop, out
<1>9. JobsInv'
  BY <1>1, <1>2, JobsNone DEF IInv, loop
<1>10. ProbeInv'
  BY <1>1, <1>2 DEF ProbeInv
<1>11. SearchInv'
  BY <1>1, <1>10 DEF SearchInv, Trying
<1>12. QED BY <1>5, <1>6, <1>7, <1>8, <1>9, <1>11 DEF IInv

LEMMA CodeWindowFrameStep == IInv /\ CodeWindowFrame => IInv'
<1> SUFFICES ASSUME IInv, CodeWindowFrame PROVE IInv'
  OBVIOUS
<1> DEFINE r == Encode(enc, at.packet)
<1>1. /\ pc = "window" /\ at.packet <= read
      /\ enc' = r.encoder /\ Write(r.packet, r.encoder.previous)
      /\ at' = [at EXCEPT !.packet = @ + 1]
      /\ UNCHANGED <<conf, video, pc, rate, read, eof, jobs, search>>
  BY DEF CodeWindowFrame, loop
<1>2. /\ conf.mode = "window" /\ ProbeInv /\ at.packet = Len(file) + 1
      /\ at \in [job : Nat \ {0}, packet : Nat \ {0}]
      /\ enc \in Encoders /\ conf \in Configs /\ read \in 0..NFrames
      /\ Len(file) \in Nat
  BY <1>1 DEF IInv, ReadInv, SearchInv, TypeInv, TypeOK
<1>3. at.packet \in 1..NFrames
  BY <1>1, <1>2, EncoderAssumption
<1>4. Coded(enc, Len(file) + 1, r.packet, r.encoder)
  BY <1>2, <1>3, EncodeStep, EncoderAssumption
<1> HIDE DEF r
<1>5. /\ FileInv' /\ EncoderInv'
      /\ Len(file') = Len(file) + 1
      /\ enc' \in Encoders
      /\ file' \in Seq(Packets) /\ recon' \in Seq(Seq(Codes))
      /\ dec' \in Seq(Codes)
      /\ phase' \in 0..(FpsNum - 1) /\ samples' \in Nat
  BY <1>1, <1>2, <1>4, WriteCoded DEF IInv
<1>6. /\ at' \in [job : Nat \ {0}, packet : Nat \ {0}]
      /\ at'.packet = at.packet + 1
  BY <1>1, <1>2
<1>7. TypeInv'
  BY <1>1, <1>5, <1>6 DEF IInv, TypeInv, TypeOK
<1>8. ReadInv'
  BY <1>1, <1>2, <1>5, <1>6 DEF IInv, ReadInv, Trying
<1>9. JobsInv'
  BY <1>1, <1>2, JobsNone DEF IInv
<1>10. SearchInv'
  BY <1>1, <1>2 DEF SearchInv, ProbeInv, Trying
<1>11. QED BY <1>5, <1>7, <1>8, <1>9, <1>10 DEF IInv

LEMMA EndWindowStep == IInv /\ EndWindow => IInv'
<1> SUFFICES ASSUME IInv, EndWindow PROVE IInv'
  OBVIOUS
<1> USE DEF IInv, EndWindow, loop, out
<1>1. TypeInv'
  BY DEF TypeInv, TypeOK
<1>2. FileInv' /\ EncoderInv'
  BY OutKept, EncoderKept
<1>3. ReadInv'
  BY DEF ReadInv, Trying
<1>4. JobsInv'
  <2>1. conf.mode # "gops" /\ Len(file) = read
    BY DEF ReadInv, TypeInv, TypeOK
  <2>2. QED BY <2>1, JobsNone
<1>5. SearchInv'
  BY SearchIdle DEF Trying
<1>6. QED BY <1>1, <1>2, <1>3, <1>4, <1>5

-----------------------------------------------------------------------------
(* The jobs.                                                               *)

\* A job stays right when more of the input is read.
LEMMA JobGrows ==
  ASSUME NEW j \in Jobs, NEW gop, NEW last \in Nat, NEW more \in Nat,
         last <= more, JobOf(j, gop, last)
  PROVE  JobOf(j, gop, more)
<1>1. j.first \in Nat /\ j.frame_count \in Nat
  BY DEF Jobs
<1>2. j.first + j.frame_count <= more + 1
  BY <1>1 DEF JobOf
<1>3. QED BY <1>2 DEF JobOf

\* Only job k changes, and what a batch knows of it from outside does not.
LEMMA JobStep ==
  ASSUME IInv, NEW k \in 1..Len(jobs), NEW j,
         jobs' = [jobs EXCEPT ![k] = j],
         UNCHANGED <<loop, pc, enc, rate, read, eof, search, out>>,
         pc # "write", at' \in [job : Nat \ {0}, packet : Nat \ {0}],
         j \in Jobs, JobInv(j),
         j.first = jobs[k].first, j.frame_count = jobs[k].frame_count
  PROVE  IInv'
<1> USE DEF loop, out
<1>1. jobs \in Seq(Jobs) /\ jobs' \in Seq(Jobs) /\ Len(jobs') = Len(jobs)
      /\ conf.mode = "gops"
  BY DEF IInv, TypeInv, JobsInv
<1>2. TypeInv'
  BY <1>1 DEF IInv, TypeInv, TypeOK
<1>3. FileInv' /\ EncoderInv'
  BY OutKept, EncoderKept DEF IInv
<1>4. pc \notin Trying /\ pc \notin {"probe", "window"}
  BY <1>1 DEF IInv, ReadInv
<1>5. ReadInv'
  BY <1>4 DEF IInv, ReadInv
<1>6. JobsInv'
  <2>1. \A i \in 1..Len(jobs) :
          /\ jobs'[i].first = jobs[i].first
          /\ jobs'[i].frame_count = jobs[i].frame_count
          /\ i # k => jobs'[i] = jobs[i]
          /\ jobs'[k] = j
    BY <1>1
  <2>2. \A i \in Nat \ {0} : Start(i)' = Start(i)
    BY <1>1, <2>1 DEF Start
  <2>3. \A i \in 1..Len(jobs) : JobInv(jobs[i])'
    <3>1. \A i \in 1..Len(jobs) : JobInv(jobs'[i])
      BY <2>1 DEF IInv, JobsInv
    <3>2. conf' = conf /\ read' = read
      OBVIOUS
    <3>3. QED BY <3>1, <3>2 DEF JobInv, JobOf
  <2>4. \A i \in 1..Len(jobs') :
          JobInv(jobs[i])'
          /\ Start(i + 1)' = jobs'[i].first + jobs'[i].frame_count
    BY <1>1, <2>1, <2>2, <2>3 DEF IInv, JobsInv
  <2>5. QED BY <1>1, <2>2, <2>4 DEF IInv, JobsInv
<1>7. SearchInv'
  BY <1>4, SearchIdle
<1>8. QED BY <1>2, <1>3, <1>5, <1>6, <1>7 DEF IInv

LEMMA PrepareJobStep == IInv /\ PrepareJob => IInv'
<1> SUFFICES ASSUME IInv, PrepareJob PROVE IInv'
  OBVIOUS
<1> DEFINE n == Available(JobSize)
           j == [first |-> read + 1, frame_count |-> n,
                 encoder |-> enc, packets |-> <<>>, reconstructed |-> <<>>,
                 state |-> "new", result |-> "OK"]
<1>1. /\ pc = "frame" /\ conf.mode = "gops" /\ ~eof /\ Wanted(read)
      /\ eof' = (n < Requested(JobSize))
      /\ read' = read + n
      /\ jobs' = IF n = 0 THEN jobs ELSE Append(jobs, j)
      /\ UNCHANGED <<loop, pc, enc, rate, at, search, out>>
  BY DEF PrepareJob
<1>2. /\ conf.gop \in Nat \ {0} /\ read \in Nat /\ Len(file) \in Nat
      /\ jobs \in Seq(Jobs) /\ NFrames \in Nat /\ enc \in Encoders
      /\ Len(file) <= read /\ ~enc.have /\ enc.previous = <<>>
  BY <1>1, EncoderAssumption
     DEF IInv, TypeInv, TypeOK, Configs, ReadInv, EncoderInv
<1>3. /\ n \in 0..conf.gop /\ read + n <= NFrames
      /\ conf.max # 0 => read + n <= conf.max
      /\ n < Requested(JobSize) => read + n = NFrames
  BY <1>1, <1>2, AvailableRange DEF JobSize
<1>4. eof' \in BOOLEAN /\ (eof' => read' = NFrames)
  <2>1. eof' \in BOOLEAN
    BY <1>1
  <2>2. eof' => n < Requested(JobSize)
    BY <1>1
  <2> HIDE DEF n
  <2>3. QED BY <2>1, <2>2, <1>1, <1>3
<1> HIDE DEF n
<1>5. j \in Jobs /\ j.first = read + 1 /\ j.frame_count = n
      /\ j.encoder = enc /\ Len(j.packets) = 0 /\ Len(j.reconstructed) = 0
      /\ j.state = "new"
  BY <1>2, <1>3 DEF Jobs
<1> HIDE DEF j
<1>6. jobs' \in Seq(Jobs) /\ read' \in 0..NFrames
  BY <1>1, <1>2, <1>3, <1>5
<1>7. TypeInv'
  BY <1>1, <1>4, <1>6 DEF IInv, TypeInv, TypeOK, loop, out
<1>8. FileInv' /\ EncoderInv'
  BY <1>1, OutKept, EncoderKept DEF IInv, out, loop
<1>9. ReadInv'
  BY <1>1, <1>2, <1>3, <1>4 DEF IInv, ReadInv, Trying, loop, out
<1>10. SearchInv'
  BY <1>1, SearchIdle DEF Trying
<1>11. conf' = conf /\ file' = file
  BY <1>1 DEF loop, out
<1>12. \A i \in 1..Len(jobs) : JobInv(jobs[i])
         /\ Start(i + 1) = jobs[i].first + jobs[i].frame_count
  BY DEF IInv, JobsInv
<1>13. JobsInv'
  <2>1. CASE n = 0
    BY <2>1, <1>1, <1>2, <1>11, JobsKept DEF IInv
  <2>2. CASE n # 0
    <3>1. /\ Len(jobs') = Len(jobs) + 1 /\ jobs'[Len(jobs) + 1] = j
          /\ \A i \in 1..Len(jobs) : jobs'[i] = jobs[i]
          /\ Len(jobs) \in Nat
      BY <2>2, <1>1, <1>2, <1>5
    <3>2. \A i \in 1..(Len(jobs) + 1) : Start(i)' = Start(i)
      BY <3>1, <1>5 DEF Start
    <3>3. ASSUME NEW m, m = Len(jobs) + 2
          PROVE  Start(m)' = read + 1 + n
      BY <3>3, <3>1, <1>1, <1>2, <1>3 DEF Start
    <3>4. ASSUME NEW i, JobOf(jobs'[i], conf.gop, read')
          PROVE  JobInv(jobs[i])'
      BY <3>4, <1>11 DEF JobInv
    <3>5. \A i \in 1..Len(jobs) : JobOf(jobs'[i], conf.gop, read')
      <4>1. SUFFICES ASSUME NEW i \in 1..Len(jobs)
                     PROVE  JobOf(jobs[i], conf.gop, read')
        BY <3>1
      <4>2. jobs[i] \in Jobs /\ JobOf(jobs[i], conf.gop, read)
        BY <1>2, <1>12 DEF JobInv
      <4>3. read' \in Nat /\ read <= read'
        BY <1>1, <1>2, <1>3
      <4>4. QED BY <4>2, <4>3, <1>2, JobGrows
    <3>9. JobOf(j, conf.gop, read')
      <4>1. n \in 1..conf.gop /\ read + 1 + n <= read' + 1
        BY <2>2, <1>1, <1>2, <1>3
      <4>2. QED BY <4>1, <1>2, <1>5 DEF JobOf
    <3>6. \A i \in 1..Len(jobs') :
            JobInv(jobs[i])'
            /\ Start(i + 1)' = jobs'[i].first + jobs'[i].frame_count
      <4>1. SUFFICES ASSUME NEW i \in 1..(Len(jobs) + 1)
                     PROVE  JobInv(jobs[i])' /\ Start(i + 1)'
                              = jobs'[i].first + jobs'[i].frame_count
        BY <3>1
      <4>2. CASE i \in 1..Len(jobs)
        <5>1. Start(i + 1)' = Start(i + 1)
          BY <4>2, <3>1, <3>2
        <5>2. QED BY <4>2, <5>1, <3>1, <3>4, <3>5, <1>12
      <4>3. CASE i = Len(jobs) + 1
        <5>1. i + 1 = Len(jobs) + 2 /\ jobs'[i] = j
          BY <4>3, <3>1
        <5>2. JobInv(jobs[i])'
          BY <5>1, <3>4, <3>9
        <5>3. Start(i + 1)' = read + 1 + n
          BY <5>1, <3>3
        <5>4. j.first + j.frame_count = read + 1 + n
          BY <1>5
        <5>5. QED BY <5>1, <5>2, <5>3, <5>4
      <4>4. QED BY <4>2, <4>3, <3>1
    <3>7. Start(1)' = Len(file') + 1
      BY <3>1, <3>2, <1>1, <1>11 DEF IInv, JobsInv
    <3>8. QED BY <3>6, <3>7, <1>1, <1>11 DEF JobsInv
  <2>3. QED BY <2>1, <2>2
<1>14. QED BY <1>7, <1>8, <1>9, <1>10, <1>13 DEF IInv

LEMMA StartJobsStep == IInv /\ StartJobs => IInv'
<1> SUFFICES ASSUME IInv, StartJobs PROVE IInv'
  OBVIOUS
<1> USE DEF IInv, StartJobs, loop, out
<1>1. TypeInv'
  BY DEF TypeInv, TypeOK
<1>2. FileInv' /\ EncoderInv'
  BY OutKept, EncoderKept
<1>3. ReadInv'
  BY DEF ReadInv, Trying
<1>4. JobsInv'
  BY DEF JobsInv, JobInv, JobOf, Start
<1>5. SearchInv'
  BY SearchIdle DEF Trying
<1>6. QED BY <1>1, <1>2, <1>3, <1>4, <1>5

LEMMA StartWorkerStep == IInv /\ StartWorker => IInv'
<1> SUFFICES ASSUME IInv, StartWorker PROVE IInv'
  OBVIOUS
<1> DEFINE k == at.job
<1>1. /\ pc = "start" /\ at.job <= Len(jobs)
      /\ at' = [at EXCEPT !.job = @ + 1]
      /\ UNCHANGED <<loop, pc, enc, rate, read, eof, search, out>>
  BY DEF StartWorker
<1>2. PICK state \in {"thread", "inline"} :
        jobs' = [jobs EXCEPT ![k].state = state]
  BY DEF StartWorker
<1>3. /\ jobs \in Seq(Jobs) /\ at \in [job : Nat \ {0}, packet : Nat \ {0}]
      /\ k \in 1..Len(jobs)
  BY <1>1 DEF IInv, TypeInv
<1> DEFINE j == [jobs[k] EXCEPT !.state = state]
<1>4. jobs' = [jobs EXCEPT ![k] = j]
  BY <1>2
<1>5. /\ jobs[k] \in Jobs /\ JobInv(jobs[k])
  BY <1>3 DEF IInv, JobsInv
<1>6. /\ j \in Jobs /\ j.state # "ended"
      /\ j.first = jobs[k].first /\ j.frame_count = jobs[k].frame_count
      /\ j.packets = jobs[k].packets
      /\ j.reconstructed = jobs[k].reconstructed
      /\ j.encoder = jobs[k].encoder
  BY <1>2, <1>5 DEF Jobs
<1> HIDE DEF j
<1>7. JobInv(j)
  BY <1>5, <1>6 DEF JobInv, JobOf
<1>8. at' \in [job : Nat \ {0}, packet : Nat \ {0}]
  BY <1>1, <1>3
<1> HIDE DEF k
<1>9. QED BY <1>1, <1>3, <1>4, <1>6, <1>7, <1>8, JobStep

LEMMA WorkerStepStep ==
  ASSUME IInv, NEW k \in 1..Len(jobs), WorkerStep(k)
  PROVE  IInv'
<1> DEFINE o == jobs[k]
           i == o.first + Len(o.packets)
           r == Encode(o.encoder, i)
           j == [o EXCEPT !.encoder = r.encoder,
                          !.packets = Append(o.packets, r.packet),
                          !.reconstructed = Append(o.reconstructed,
                                                   r.encoder.previous)]
<1>0. jobs' = [jobs EXCEPT ![k] =
                [o EXCEPT !.encoder = r.encoder,
                          !.packets = Append(@, r.packet),
                          !.reconstructed = Append(@, r.encoder.previous)]]
  BY DEF WorkerStep
<1>1. /\ o.state \in {"thread", "inline"}
      /\ Len(o.packets) < o.frame_count
      /\ UNCHANGED <<loop, pc, enc, rate, read, eof, at, search, out>>
  BY DEF WorkerStep
<1>2. /\ o \in Jobs /\ JobInv(o) /\ conf \in Configs
      /\ at \in [job : Nat \ {0}, packet : Nat \ {0}]
      /\ read \in 0..NFrames /\ NFrames \in Nat
  BY EncoderAssumption DEF IInv, JobsInv, TypeInv, TypeOK
<1>3. pc # "write"
  BY <1>1 DEF IInv, JobsInv, WriteInv
<1>15. jobs' = [jobs EXCEPT ![k] = j]
  <2>1. [o EXCEPT !.encoder = r.encoder, !.packets = Append(@, r.packet),
                  !.reconstructed = Append(@, r.encoder.previous)] = j
    <3> HIDE DEF o, r
    <3>1. QED BY <1>2 DEF Jobs
  <2> HIDE DEF j
  <2>2. QED BY <1>0, <2>1
<1> HIDE DEF o
<1>4. /\ o.encoder \in Encoders /\ o.packets \in Seq(Packets)
      /\ o.reconstructed \in Seq(Seq(Codes))
      /\ o.first \in Nat \ {0} /\ o.frame_count \in Nat
      /\ Len(o.packets) \in Nat
  BY <1>2 DEF Jobs
<1>5. i \in 1..NFrames
  <2>1. o.first + o.frame_count <= read + 1
    BY <1>2 DEF JobInv, JobOf
  <2>2. QED BY <2>1, <1>1, <1>2, <1>4
<1>6. Coded(o.encoder, i, r.packet, r.encoder)
  BY <1>2, <1>4, <1>5, EncodeStep, EncoderAssumption
<1>7. i = o.first + Len(o.packets)
  OBVIOUS
<1> HIDE DEF i, r
<1>8. /\ r.packet \in Packets /\ r.packet.frame = i
      /\ r.encoder \in Encoders /\ r.encoder.have
      /\ r.encoder.previous = Decoded(o.encoder.previous, r.packet)
      /\ r.encoder.previous \in Seq(Codes)
      /\ ~o.encoder.have => r.packet.type = "K"
  BY <1>6 DEF Coded, Encoders
<1>9. /\ j \in Jobs /\ j.first = o.first /\ j.frame_count = o.frame_count
      /\ j.state = o.state /\ j.encoder = r.encoder
      /\ j.packets = Append(o.packets, r.packet)
      /\ j.reconstructed = Append(o.reconstructed, r.encoder.previous)
  <2> DEFINE y == Append(o.packets, r.packet)
             z == Append(o.reconstructed, r.encoder.previous)
  <2>1. y \in Seq(Packets) /\ z \in Seq(Seq(Codes))
    BY <1>4, <1>8
  <2>2. j = [o EXCEPT !.encoder = r.encoder, !.packets = y,
                      !.reconstructed = z]
    BY <1>2 DEF Jobs
  <2> HIDE DEF y, z, j
  <2>3. j = [first |-> o.first, frame_count |-> o.frame_count,
             encoder |-> r.encoder, packets |-> y, reconstructed |-> z,
             state |-> o.state, result |-> o.result]
    BY <2>2, <1>2 DEF Jobs
  <2>4. o.state \in {"new", "thread", "inline", "ended"}
        /\ o.result \in {"OK", "ERR"}
    BY <1>2 DEF Jobs
  <2>5. QED BY <2>1, <2>3, <2>4, <1>4, <1>8 DEF Jobs, y, z
<1> HIDE DEF j
<1>10. /\ Len(j.packets) = Len(o.packets) + 1
       /\ Len(j.reconstructed) = Len(o.packets) + 1
       /\ j.packets[Len(o.packets) + 1] = r.packet
       /\ j.reconstructed[Len(o.packets) + 1] = r.encoder.previous
       /\ \A n \in 1..Len(o.packets) :
            /\ j.packets[n] = o.packets[n]
            /\ j.reconstructed[n] = o.reconstructed[n]
  <2>1. Len(o.reconstructed) = Len(o.packets)
    BY <1>2 DEF JobInv, JobOf
  <2>2. /\ Len(j.packets) = Len(o.packets) + 1
        /\ j.packets[Len(o.packets) + 1] = r.packet
        /\ \A n \in 1..Len(o.packets) : j.packets[n] = o.packets[n]
    BY <1>4, <1>8, <1>9
  <2>3. /\ Len(j.reconstructed) = Len(o.reconstructed) + 1
        /\ j.reconstructed[Len(o.reconstructed) + 1] = r.encoder.previous
        /\ \A n \in 1..Len(o.reconstructed) :
             j.reconstructed[n] = o.reconstructed[n]
    BY <1>4, <1>8, <1>9
  <2>4. QED BY <2>1, <2>2, <2>3
<1>11. JobInv(j)
  <2>1. Len(j.packets) <= j.frame_count
    BY <1>1, <1>4, <1>9, <1>10
  <2>2. j.packets[1].type = "K"
    <3>1. CASE Len(o.packets) = 0
      <4>1. ~o.encoder.have
        BY <3>1, <1>2 DEF JobInv, JobOf
      <4>2. QED BY <3>1, <4>1, <1>8, <1>10
    <3>2. CASE Len(o.packets) > 0
      <4>1. o.packets[1].type = "K"
        BY <3>2, <1>2 DEF JobInv, JobOf
      <4>2. 1 \in 1..Len(o.packets)
        BY <3>2, <1>4
      <4>3. QED BY <4>1, <4>2, <1>10
    <3>3. QED BY <3>1, <3>2, <1>4
  <2>3. \A n \in 1..Len(j.packets) :
          /\ j.packets[n].frame = j.first + n - 1
          /\ j.reconstructed[n] =
               Decoded(IF n = 1 THEN <<>> ELSE j.reconstructed[n - 1],
                       j.packets[n])
    <3>1. SUFFICES ASSUME NEW n \in 1..(Len(o.packets) + 1)
                   PROVE  /\ j.packets[n].frame = j.first + n - 1
                          /\ j.reconstructed[n] =
                               Decoded(IF n = 1 THEN <<>>
                                       ELSE j.reconstructed[n - 1],
                                       j.packets[n])
      BY <1>10
    <3>2. CASE n \in 1..Len(o.packets)
      <4>1. n = 1 \/ n - 1 \in 1..Len(o.packets)
        BY <3>2, <1>4
      <4>2. (IF n = 1 THEN <<>> ELSE j.reconstructed[n - 1])
              = (IF n = 1 THEN <<>> ELSE o.reconstructed[n - 1])
        BY <4>1, <1>10
      <4>3. j.packets[n] = o.packets[n]
            /\ j.reconstructed[n] = o.reconstructed[n]
        BY <3>2, <1>10
      <4>4. /\ o.packets[n].frame = o.first + n - 1
            /\ o.reconstructed[n] =
                 Decoded(IF n = 1 THEN <<>> ELSE o.reconstructed[n - 1],
                         o.packets[n])
        BY <3>2, <1>2 DEF JobInv, JobOf
      <4>5. QED BY <4>2, <4>3, <4>4, <1>9
    <3>3. CASE n = Len(o.packets) + 1
      <4>1. j.packets[n] = r.packet
            /\ j.reconstructed[n] = Decoded(o.encoder.previous, r.packet)
        BY <3>3, <1>8, <1>10
      <4>2. o.encoder.previous = IF n = 1 THEN <<>> ELSE j.reconstructed[n - 1]
        <5>1. CASE Len(o.packets) = 0
          <6>1. o.encoder.previous = <<>>
            BY <5>1, <1>2 DEF JobInv, JobOf
          <6>2. QED BY <5>1, <6>1, <3>3
        <5>2. CASE Len(o.packets) > 0
          <6>1. n # 1 /\ n - 1 = Len(o.packets)
                /\ n - 1 \in 1..Len(o.packets)
            BY <5>2, <3>3, <1>4
          <6>2. o.encoder.previous = o.reconstructed[Len(o.packets)]
            BY <5>2, <1>2 DEF JobInv, JobOf
          <6>3. QED BY <6>1, <6>2, <1>10
        <5>3. QED BY <5>1, <5>2, <1>4
      <4>3. r.packet.frame = j.first + n - 1
        BY <3>3, <1>4, <1>7, <1>8, <1>9
      <4>4. QED BY <4>1, <4>2, <4>3
    <3>4. QED BY <3>2, <3>3, <1>4
  <2>4. j.encoder.previous = j.reconstructed[Len(j.packets)]
        /\ Len(j.packets) > 0 /\ j.encoder.have
    BY <1>4, <1>8, <1>9, <1>10
  <2>5. j.state # "ended" /\ j.frame_count \in 1..conf.gop
        /\ j.first + j.frame_count <= read + 1
    BY <1>1, <1>2, <1>9 DEF JobInv, JobOf
  <2>6. /\ j.encoder.have <=> Len(j.packets) > 0
        /\ j.encoder.previous = IF Len(j.packets) = 0 THEN <<>>
                                ELSE j.reconstructed[Len(j.packets)]
        /\ Len(j.reconstructed) = Len(j.packets)
    BY <2>4, <1>4, <1>10
  <2>7. QED BY <2>1, <2>2, <2>3, <2>5, <2>6 DEF JobInv, JobOf
<1>12. at' \in [job : Nat \ {0}, packet : Nat \ {0}]
  BY <1>1, <1>2
<1>13. j.first = jobs[k].first /\ j.frame_count = jobs[k].frame_count
  BY <1>9 DEF o
<1>14. QED BY <1>1, <1>15, <1>3, <1>9, <1>11, <1>12, <1>13, JobStep

LEMMA WorkerErrorStep ==
  ASSUME IInv, NEW k \in 1..Len(jobs), WorkerError(k)
  PROVE  IInv'
<1> DEFINE o == jobs[k]
           j == [o EXCEPT !.result = "ERR", !.state = "ended"]
<1>1. /\ o.state \in {"thread", "inline"}
      /\ UNCHANGED <<loop, pc, enc, rate, read, eof, at, search, out>>
  BY DEF WorkerError
<1>2. jobs' = [jobs EXCEPT ![k] = j]
  BY DEF WorkerError
<1>3. /\ o \in Jobs /\ JobInv(o)
      /\ at \in [job : Nat \ {0}, packet : Nat \ {0}]
  BY DEF IInv, JobsInv, TypeInv
<1>4. pc # "write"
  BY <1>1 DEF IInv, JobsInv, WriteInv
<1>5. /\ j \in Jobs /\ j.first = o.first /\ j.frame_count = o.frame_count
      /\ j.encoder = o.encoder /\ j.packets = o.packets
      /\ j.reconstructed = o.reconstructed /\ j.result = "ERR"
  <2> HIDE DEF o
  <2>1. QED BY <1>3 DEF Jobs
<1> HIDE DEF j
<1>6. JobInv(j)
  <2> HIDE DEF o
  <2>1. QED BY <1>3, <1>5 DEF JobInv, JobOf
<1>7. at' \in [job : Nat \ {0}, packet : Nat \ {0}]
  BY <1>1, <1>3
<1>8. QED BY <1>1, <1>2, <1>4, <1>5, <1>6, <1>7, JobStep

LEMMA WorkerEndStep ==
  ASSUME IInv, NEW k \in 1..Len(jobs), WorkerEnd(k)
  PROVE  IInv'
<1> DEFINE o == jobs[k]
           j == [o EXCEPT !.state = "ended"]
<1>1. /\ o.state \in {"thread", "inline"} /\ Len(o.packets) = o.frame_count
      /\ UNCHANGED <<loop, pc, enc, rate, read, eof, at, search, out>>
  BY DEF WorkerEnd
<1>2. jobs' = [jobs EXCEPT ![k] = j]
  BY DEF WorkerEnd
<1>3. /\ o \in Jobs /\ JobInv(o)
      /\ at \in [job : Nat \ {0}, packet : Nat \ {0}]
  BY DEF IInv, JobsInv, TypeInv
<1>4. pc # "write"
  BY <1>1 DEF IInv, JobsInv, WriteInv
<1>5. /\ j \in Jobs /\ j.first = o.first /\ j.frame_count = o.frame_count
      /\ j.encoder = o.encoder /\ j.packets = o.packets
      /\ j.reconstructed = o.reconstructed
  <2> HIDE DEF o
  <2>1. QED BY <1>3 DEF Jobs
<1> HIDE DEF j
<1>6. JobInv(j)
  <2> HIDE DEF o
  <2>1. QED BY <1>1, <1>3, <1>5 DEF JobInv, JobOf
<1>7. at' \in [job : Nat \ {0}, packet : Nat \ {0}]
  BY <1>1, <1>3
<1>8. QED BY <1>1, <1>2, <1>4, <1>5, <1>6, <1>7, JobStep

LEMMA JoinWorkersStep == IInv /\ JoinWorkers => IInv'
<1> SUFFICES ASSUME IInv, JoinWorkers PROVE IInv'
  OBVIOUS
<1> USE DEF loop, out
<1>1. /\ pc = "start" /\ pc' = "write" /\ at' = [job |-> 1, packet |-> 1]
      /\ \A k \in 1..Len(jobs) : jobs[k].state = "ended"
      /\ UNCHANGED <<loop, enc, rate, read, eof, jobs, search, out>>
  BY DEF JoinWorkers
<1>2. TypeInv'
  BY <1>1 DEF IInv, TypeInv, TypeOK
<1>3. FileInv' /\ EncoderInv'
  BY <1>1, OutKept, EncoderKept DEF IInv
<1>4. ReadInv'
  BY <1>1 DEF IInv, ReadInv, Trying
<1>5. JobsInv'
  <2>1. /\ Start(1) = Len(file) + 1 /\ Len(file) \in Nat /\ Len(jobs) \in Nat
        /\ \A k \in 1..Len(jobs) : jobs[k].frame_count \in 1..conf.gop
    BY <1>1 DEF IInv, JobsInv, JobInv, JobOf, TypeInv, TypeOK
  <2>2. Start(1)' = Start(1)
    BY <1>1 DEF Start
  <2>3. /\ at'.job = 1 /\ at'.packet = 1 /\ Len(jobs') = Len(jobs)
        /\ Len(file') = Len(file)
    BY <1>1
  <2>4. Start(at.job)' = Start(1)
    BY <1>1, <2>2, <2>3 DEF Start
  <2>5. 1 <= Len(jobs) => 1 <= jobs[1].frame_count
    <3>1. 1 <= Len(jobs) => 1 \in 1..Len(jobs)
      BY <2>1
    <3>2. QED BY <2>1, <3>1
  <2>6. WriteInv'
    BY <1>1, <2>1, <2>3, <2>4, <2>5 DEF WriteInv
  <2>7. QED BY <1>1, <2>6 DEF IInv, JobsInv, JobInv, JobOf, Start
<1>6. SearchInv'
  BY <1>1, SearchIdle DEF Trying
<1>7. QED BY <1>2, <1>3, <1>4, <1>5, <1>6 DEF IInv

LEMMA RefuseJobStep == IInv /\ RefuseJob => IInv'
<1> SUFFICES ASSUME IInv, RefuseJob PROVE IInv'
  OBVIOUS
<1> USE DEF IInv, RefuseJob, loop, out
<1>1. TypeInv'
  BY DEF TypeInv, TypeOK
<1>2. FileInv' /\ EncoderInv'
  BY OutKept, EncoderKept
<1>3. ReadInv'
  BY DEF ReadInv, Trying
<1>4. JobsInv'
  BY JobsKept
<1>5. SearchInv'
  BY SearchIdle DEF Trying
<1>6. QED BY <1>1, <1>2, <1>3, <1>4, <1>5

LEMMA EndBatchStep == IInv /\ EndBatch => IInv'
<1> SUFFICES ASSUME IInv, EndBatch PROVE IInv'
  OBVIOUS
<1> USE DEF loop, out
<1>1. /\ pc = "write" /\ at.job > Len(jobs) /\ pc' = "frame" /\ jobs' = <<>>
      /\ UNCHANGED <<loop, enc, rate, read, eof, at, search, out>>
  BY DEF EndBatch
<1>2. TypeInv'
  BY <1>1 DEF IInv, TypeInv, TypeOK
<1>3. FileInv' /\ EncoderInv'
  BY <1>1, OutKept, EncoderKept DEF IInv
<1>4. ReadInv'
  BY <1>1 DEF IInv, ReadInv, Trying
<1>5. Len(file) = read
  <2>1. /\ WriteInv /\ read \in Nat /\ Len(file) \in Nat
        /\ Len(jobs) \in Nat
        /\ at \in [job : Nat \ {0}, packet : Nat \ {0}]
    BY <1>1 DEF IInv, JobsInv, TypeInv, TypeOK
  <2>2. Start(at.job) = read + 1 /\ at.packet = 1
    BY <1>1, <2>1 DEF WriteInv, Start
  <2>3. Start(at.job) + at.packet = Len(file) + 2
    BY <2>1 DEF WriteInv
  <2>4. QED BY <2>1, <2>2, <2>3
<1>6. JobsInv'
  <2>1. Len(jobs') = 0 /\ Start(1)' = Len(file') + 1
    BY <1>1, <1>5 DEF Start
  <2>2. QED BY <1>1, <2>1 DEF IInv, JobsInv
<1>7. SearchInv'
  BY <1>1, SearchIdle DEF Trying
<1>8. QED BY <1>2, <1>3, <1>4, <1>6, <1>7 DEF IInv

\* The next packet of a GOP: at its first a decoder starts afresh, at the
\* others it holds the reconstruction before.
LEMMA WritePacketStep == IInv /\ WritePacket => IInv'
<1> SUFFICES ASSUME IInv, WritePacket PROVE IInv'
  OBVIOUS
<1> DEFINE a == at.job
           k == at.packet
           j == jobs[a]
           p == j.packets[k]
           r == j.reconstructed[k]
<1>1. /\ pc = "write" /\ a <= Len(jobs) /\ j.result = "OK" /\ Write(p, r)
      /\ at' = IF k < j.frame_count
               THEN [at EXCEPT !.packet = k + 1]
               ELSE [job |-> a + 1, packet |-> 1]
      /\ UNCHANGED <<conf, video, pc, enc, rate, read, eof, jobs, search>>
  BY DEF WritePacket, loop
<1>2. /\ WriteInv /\ FileInv /\ EncoderInv /\ TypeInv /\ conf.mode = "gops"
      /\ jobs \in Seq(Jobs) /\ Len(jobs) \in Nat
      /\ at \in [job : Nat \ {0}, packet : Nat \ {0}]
      /\ a \in Nat \ {0} /\ k \in Nat \ {0}
      /\ Len(file) \in Nat /\ read \in Nat /\ file \in Seq(Packets)
  BY <1>1 DEF IInv, JobsInv, TypeInv, TypeOK
<1>3. /\ a \in 1..Len(jobs) /\ j \in Jobs /\ j.state = "ended"
      /\ JobOf(j, conf.gop, read)
      /\ Start(a + 1) = j.first + j.frame_count /\ Start(a) = j.first
      /\ j.first + k = Len(file) + 2 /\ k <= j.frame_count
      /\ k > 1 => /\ file[j.first].type = "K"
                  /\ dec = j.reconstructed[k - 1]
  <2>1. a \in 1..Len(jobs) /\ j \in Jobs /\ j.state = "ended"
    BY <1>1, <1>2 DEF WriteInv
  <2>2. JobOf(j, conf.gop, read) /\ Start(a + 1) = j.first + j.frame_count
    BY <2>1 DEF IInv, JobsInv, JobInv
  <2>3. Start(a) = j.first
    BY <1>1 DEF Start
  <2>4. QED BY <1>1, <1>2, <2>1, <2>2, <2>3 DEF WriteInv
<1>4. a + 1 <= Len(jobs) => 1 <= jobs[a + 1].frame_count
  <2>1. ASSUME a + 1 <= Len(jobs)
        PROVE  jobs[a + 1].frame_count \in 1..conf.gop
    <3>1. a + 1 \in 1..Len(jobs)
      BY <2>1, <1>2
    <3>2. QED BY <3>1 DEF IInv, JobsInv, JobInv, JobOf
  <2>2. conf.gop \in Nat
    BY <1>2 DEF TypeInv, Configs
  <2>3. QED BY <2>1, <2>2
<1>6. jobs'[a] = j /\ Len(jobs') = Len(jobs)
  BY <1>1
<1>7. at' = IF k < j.frame_count THEN [job |-> a, packet |-> k + 1]
            ELSE [job |-> a + 1, packet |-> 1]
  BY <1>1, <1>2
<1>a. conf.gop \in Nat
  BY <1>2 DEF TypeInv, Configs
<1> HIDE DEF a, k, j
<1>8. /\ j.first \in Nat \ {0} /\ j.frame_count \in Nat
      /\ j.packets \in Seq(Packets)
      /\ j.reconstructed \in Seq(Seq(Codes))
      /\ Len(j.packets) = j.frame_count
      /\ j.first + j.frame_count <= read + 1
      /\ j.frame_count <= conf.gop
  BY <1>1, <1>3, <1>a DEF Jobs, JobOf
<1>24. /\ j.first \in Nat \ {0} /\ j.frame_count \in Nat /\ k \in Nat \ {0}
       /\ Len(file) \in Nat /\ read \in Nat
       /\ j.first + k = Len(file) + 2 /\ k <= j.frame_count
       /\ j.first + j.frame_count <= read + 1
       /\ j.frame_count <= conf.gop /\ conf.gop \in Nat
  BY <1>2, <1>3, <1>8, <1>a
<1>9. k \in 1..Len(j.packets)
  BY <1>2, <1>3, <1>8
<1>10. /\ p \in Packets /\ p.frame = j.first + k - 1
       /\ r = Decoded(IF k = 1 THEN <<>> ELSE j.reconstructed[k - 1], p)
       /\ k = 1 => p.type = "K"
  <2>1. p \in Packets
    BY <1>8, <1>9
  <2>2. /\ p.frame = j.first + k - 1
        /\ r = Decoded(IF k = 1 THEN <<>> ELSE j.reconstructed[k - 1], p)
    BY <1>3, <1>9 DEF JobOf
  <2>3. k = 1 => p.type = "K"
    <3>1. j.packets[1].type = "K"
      BY <1>3, <1>8, <1>9 DEF JobOf
    <3>2. QED BY <3>1
  <2>4. QED BY <2>1, <2>2, <2>3
<1> HIDE DEF p
<1>11. p.frame = Len(file) + 1
  BY <1>24, <1>10
<1>12. r = Decoded(dec, p)
  BY <1>2, <1>3, <1>10 DEF Decoded
<1>13. Len(file) + 1 = j.first + (k - 1)
  BY <1>24
<1>14. \E m \in 1..(Len(file) + 1) :
         Append(file, p)[m].type = "K" /\ Len(file) + 1 - m < conf.gop
  <2>1. CASE k = 1
    <3>1. Append(file, p)[Len(file) + 1] = p
      BY <1>2, <1>10
    <3>2. Len(file) + 1 - (Len(file) + 1) < conf.gop
      BY <1>2, <1>3, <1>8, <1>a, <2>1
    <3>3. Len(file) + 1 \in 1..(Len(file) + 1)
      BY <1>2
    <3>4. QED BY <2>1, <1>10, <3>1, <3>2, <3>3
  <2>2. CASE k > 1
    <3>1. /\ j.first \in 1..Len(file)
          /\ Len(file) + 1 - j.first < conf.gop
      BY <2>2, <1>24
    <3>2. Append(file, p)[j.first] = file[j.first]
      BY <3>1, <1>2, <1>10
    <3>3. j.first \in 1..(Len(file) + 1)
      BY <3>1, <1>2
    <3>4. QED BY <2>2, <1>3, <3>1, <3>2, <3>3
  <2>3. QED BY <2>1, <2>2, <1>2
<1>15. /\ FileInv'
       /\ file' = Append(file, p) /\ Len(file') = Len(file) + 1
       /\ dec' = r
       /\ file' \in Seq(Packets) /\ recon' \in Seq(Seq(Codes))
       /\ dec' \in Seq(Codes)
       /\ phase' \in 0..(FpsNum - 1) /\ samples' \in Nat
  BY <1>1, <1>2, <1>10, <1>11, <1>12, <1>14, WriteStep
<1>16. at' \in [job : Nat \ {0}, packet : Nat \ {0}]
  BY <1>2, <1>7
<1>17. TypeInv'
  BY <1>1, <1>2, <1>15, <1>16 DEF TypeInv, TypeOK
<1>18. EncoderInv'
  BY <1>1, <1>2 DEF EncoderInv
<1>19. ReadInv'
  <2>1. Len(file') <= read
    BY <1>24, <1>15
  <2>2. QED BY <2>1, <1>1 DEF IInv, ReadInv, Trying
<1>20. WriteInv'
  <2>1. CASE k < j.frame_count
    <3>1. at'.job = a /\ at'.packet = k + 1
      BY <2>1, <1>7
    <3>2. Start(at.job)' = j.first
      <4>1. Start(at.job)' = IF at'.job <= Len(jobs') THEN jobs'[at'.job].first
                             ELSE read' + 1
        BY DEF Start
      <4>2. at'.job <= Len(jobs')
        BY <3>1, <1>3, <1>6, <1>2
      <4>3. QED BY <4>1, <4>2, <3>1, <1>6
    <3>3. file'[j.first].type = "K"
      <4>1. CASE k = 1
        <5>1. j.first = Len(file) + 1
          BY <4>1, <1>8, <1>13
        <5>2. file'[Len(file) + 1] = p
          BY <1>2, <1>10, <1>15
        <5>3. QED BY <4>1, <5>1, <5>2, <1>10
      <4>2. CASE k > 1
        <5>1. j.first \in 1..Len(file)
          BY <4>2, <1>2, <1>8, <1>13
        <5>2. file'[j.first] = file[j.first]
          BY <5>1, <1>2, <1>10, <1>15
        <5>3. QED BY <4>2, <5>2, <1>3
      <4>3. QED BY <4>1, <4>2, <1>2
    <3>4. dec' = j.reconstructed[at'.packet - 1]
      <4>1. at'.packet - 1 = k
        BY <3>1, <1>24
      <4>2. QED BY <4>1, <1>15
    <3>5. \A i \in 1..Len(jobs') : jobs'[i].state = "ended"
      BY <1>1, <1>2 DEF WriteInv
    <3>6. /\ Start(at.job)' + at'.packet = Len(file') + 2
          /\ at'.packet <= j.frame_count /\ at'.job <= Len(jobs')
      <4>1. Start(at.job)' + at'.packet = j.first + (k + 1)
        BY <3>1, <3>2
      <4>2. j.first + (k + 1) = Len(file') + 2 /\ k + 1 <= j.frame_count
        BY <2>1, <1>24, <1>15
      <4>3. at'.job <= Len(jobs')
        BY <3>1, <1>2, <1>3, <1>6
      <4>4. QED BY <4>1, <4>2, <4>3, <3>1
    <3>7. file'[Start(at.job)'].type = "K"
      BY <3>2, <3>3
    <3>8. jobs'[at'.job] = j
      BY <3>1, <1>6
    <3>10. Len(jobs') \in Nat /\ at'.job \in Nat
      BY <1>2, <1>6, <3>1
    <3>9. QED BY <3>4, <3>5, <3>6, <3>7, <3>8, <3>10 DEF WriteInv
  <2>2. CASE ~(k < j.frame_count)
    <3>1. at'.job = a + 1 /\ at'.packet = 1
      BY <2>2, <1>7
    <3>2. Start(at.job)' = j.first + j.frame_count
      <4>1. Start(at.job)' = IF at'.job <= Len(jobs') THEN jobs'[at'.job].first
                             ELSE read' + 1
        BY DEF Start
      <4>2. Start(a + 1) = IF a + 1 <= Len(jobs) THEN jobs[a + 1].first
                           ELSE read + 1
        BY DEF Start
      <4>3. QED BY <4>1, <4>2, <3>1, <1>1, <1>3
    <3>3. j.first + j.frame_count + 1 = Len(file') + 2
      BY <2>2, <1>24, <1>15
    <3>4. QED BY <3>1, <3>2, <3>3, <1>1, <1>2, <1>3, <1>4, <1>6
              DEF WriteInv
  <2>3. QED BY <2>1, <2>2
<1>21. JobsInv'
  <2>1. \A i \in 1..Len(jobs) :
          JobInv(jobs[i])' /\ Start(i + 1)' = jobs[i].first + jobs[i].frame_count
    BY <1>1 DEF IInv, JobsInv, JobInv, JobOf, Start
  <2>2. QED BY <2>1, <1>1, <1>2, <1>20 DEF JobsInv
<1>22. SearchInv'
  BY <1>1, SearchIdle DEF Trying
<1>23. QED BY <1>15, <1>17, <1>18, <1>19, <1>21, <1>22 DEF IInv

-----------------------------------------------------------------------------
(* The specification.                                                      *)

LEMMA Stutter == IInv /\ UNCHANGED vars => IInv'
<1> SUFFICES ASSUME IInv, UNCHANGED vars PROVE IInv'
  OBVIOUS
<1> USE DEF vars, out
<1>1. TypeInv'
  BY DEF IInv, TypeInv, TypeOK
<1>2. FileInv' /\ EncoderInv'
  BY OutKept, EncoderKept DEF IInv
<1>3. ReadInv'
  BY DEF IInv, ReadInv
<1>4. JobsInv'
  BY DEF IInv, JobsInv, WriteInv, JobInv, JobOf, Start
<1>5. SearchInv'
  BY DEF IInv, SearchInv, QualityInv, ProbeInv, TrialInv, Coded
<1>6. QED BY <1>1, <1>2, <1>3, <1>4, <1>5 DEF IInv

LEMMA NextStep == IInv /\ Next => IInv'
<1> SUFFICES ASSUME IInv, Next PROVE IInv'
  OBVIOUS
<1>1. CASE Finish            BY <1>1, FinishStep
<1>2. CASE CodeFrame         BY <1>2, CodeFrameStep
<1>3. CASE StartSearch       BY <1>3, StartSearchStep
<1>4. CASE TryQ              BY <1>4, TryQStep
<1>5. CASE EndTrials         BY <1>5, EndTrialsStep
<1>6. CASE TryLambda         BY <1>6, TryLambdaStep
<1>7. CASE EndLambda         BY <1>7, EndLambdaStep
<1>8. CASE TryFinest         BY <1>8, TryFinestStep
<1>9. CASE TakeChosen        BY <1>9, TakeChosenStep
<1>10. CASE SpoolWindow      BY <1>10, SpoolWindowStep
<1>11. CASE ProbeWindow      BY <1>11, ProbeWindowStep
<1>12. CASE EndProbe         BY <1>12, EndProbeStep
<1>13. CASE CodeWindowFrame  BY <1>13, CodeWindowFrameStep
<1>14. CASE EndWindow        BY <1>14, EndWindowStep
<1>15. CASE PrepareJob       BY <1>15, PrepareJobStep
<1>16. CASE StartJobs        BY <1>16, StartJobsStep
<1>17. CASE StartWorker      BY <1>17, StartWorkerStep
<1>18. CASE JoinWorkers      BY <1>18, JoinWorkersStep
<1>19. CASE \E k \in 1..Len(jobs) :
              WorkerStep(k) \/ WorkerError(k) \/ WorkerEnd(k)
  BY <1>19, WorkerStepStep, WorkerErrorStep, WorkerEndStep
<1>20. CASE WritePacket      BY <1>20, WritePacketStep
<1>21. CASE RefuseJob        BY <1>21, RefuseJobStep
<1>22. CASE EndBatch         BY <1>22, EndBatchStep
<1>23. CASE Fail             BY <1>23, FailStep
<1>24. QED
  BY <1>1, <1>2, <1>3, <1>4, <1>5, <1>6, <1>7, <1>8, <1>9, <1>10, <1>11,
     <1>12, <1>13, <1>14, <1>15, <1>16, <1>17, <1>18, <1>19, <1>20, <1>21,
     <1>22, <1>23 DEF Next, Step

\* The whole invariant of the encoder and its loops, for every input, every
\* number of threads and every outcome of the trials.
THEOREM EncoderInvariant == Spec => []IInv
<1>1. Init => IInv
  BY IInvInit
<1>2. IInv /\ [Next]_vars => IInv'
  BY NextStep, Stutter
<1>3. QED BY <1>1, <1>2, PTL DEF Spec

\* Every variable keeps its type.
THEOREM TypeCorrect == Spec => []TypeOK
<1>1. IInv => TypeOK
  BY DEF IInv, TypeInv
<1>2. QED BY <1>1, EncoderInvariant, PTL

\* The file is the pictures of the input in order, no more than --frames,
\* with the audio of exactly so many pictures, and complete at the end.
THEOREM StreamKept == Spec => []StreamExact
<1>1. IInv => StreamExact
  <2> SUFFICES ASSUME IInv PROVE StreamExact
    OBVIOUS
  <2>1. /\ Len(file) \in Nat /\ read \in Nat /\ samples \in Nat
        /\ phase \in 0..(FpsNum - 1)
        /\ conf.max \in Nat
        /\ AudioStep \in Nat /\ FpsNum \in Nat \ {0}
    BY EncoderAssumption DEF IInv, TypeInv, TypeOK, Configs
  <2>2. conf.max # 0 => Len(file) <= conf.max
    BY <2>1 DEF IInv, ReadInv
  <2>3. samples = (Len(file) * AudioStep) \div FpsNum
    <3> DEFINE n == Len(file) * AudioStep
    <3>1. n \in Nat
      BY <2>1, Z3
    <3>2. samples * FpsNum + phase = n
      BY DEF IInv, FileInv
    <3> HIDE DEF n
    <3>3. samples = n \div FpsNum
      BY <2>1, <3>1, <3>2, Quotients
    <3>4. QED BY <3>3 DEF n
  <2>4. QED BY <2>2, <2>3 DEF StreamExact, IInv, FileInv, ReadInv
<1>2. QED BY <1>1, EncoderInvariant, PTL

\* The reference of a decoder of the file is the reconstruction the encoder
\* wrote for its last packet, in every mode.
THEOREM DecoderKept == Spec => []DecoderFollows
<1>1. IInv => DecoderFollows
  BY DEF IInv, FileInv
<1>2. QED BY <1>1, EncoderInvariant, PTL

\* Every GOP length, fixed or adaptive, bounds the distance between key
\* frames.
THEOREM KeysInTime == Spec => []KeyInterval
<1>1. IInv => KeyInterval
  BY DEF IInv, FileInv
<1>2. QED BY <1>1, EncoderInvariant, PTL

\* Whatever the trials measure, the searches take what their rules name.
THEOREM ChoiceKept == Spec => []SearchChoice
<1>1. IInv => SearchChoice
  <2> SUFFICES ASSUME IInv PROVE SearchChoice
    OBVIOUS
  <2>1. ASSUME pc = "choose"
        PROVE  LET met == {t \in search.tested : t.psnr >= Target}
               IN  IF met # {}
                   THEN /\ Chosen.psnr >= Target
                        /\ \A t \in met : Chosen.size <= t.size
                   ELSE \A t \in search.tested : t.psnr <= Chosen.psnr
    <3>1. /\ Best(search.good, search.bad, search.tested)
          /\ search.good # NoTrial \/ search.bad # NoTrial
      BY <2>1 DEF IInv, SearchInv, QualityInv, Trying
    <3>2. /\ \A t \in search.tested : t.psnr \in Nat
          /\ search.good # NoTrial => search.good.psnr \in Nat
          /\ Target \in Nat
      BY <3>1, EncoderAssumption DEF Best, NoneOr, TrialsOf, Outcomes
    <3>3. CASE search.good = NoTrial
      <4>1. \A t \in search.tested : ~(t.psnr >= Target)
        BY <3>1, <3>2, <3>3 DEF Best
      <4>2. Chosen = search.bad /\ search.bad # NoTrial
        BY <3>1, <3>3 DEF Chosen
      <4>3. \A t \in search.tested : t.psnr <= Chosen.psnr
        BY <3>1, <3>2, <4>1, <4>2 DEF Best
      <4>4. QED BY <4>1, <4>3
    <3>4. CASE search.good # NoTrial
      <4>1. Chosen = search.good
        BY <3>4 DEF Chosen
      <4>2. /\ Chosen.psnr >= Target
            /\ \A t \in search.tested :
                 t.psnr >= Target => Chosen.size <= t.size
        BY <3>1, <3>4, <4>1 DEF Best
      <4>3. \A t \in search.tested :
              ~(t.psnr >= Target) => t.psnr <= Chosen.psnr
        BY <3>2, <3>4, <4>1, <4>2
      <4>4. QED BY <4>2, <4>3
    <3>5. QED BY <3>3, <3>4
  <2>2. pc = "window" =>
          \A t \in search.tested : search.best.error <= t.error
    BY DEF IInv, SearchInv, ProbeInv
  <2>3. QED BY <2>1, <2>2 DEF SearchChoice
<1>2. QED BY <1>1, EncoderInvariant, PTL

-----------------------------------------------------------------------------
(* The GOPs on threads and one encoder.                                    *)

FixedGops == conf.mode = "gops" /\ ~conf.adaptive

\* A job begins where a GOP of the one encoder begins, counts its pictures
\* from there, and has coded what the one encoder codes.
OneJob(j) ==
  /\ (j.first - 1) % conf.gop = 0
  /\ j.encoder.q = enc.q /\ j.encoder.lambda = 0
  /\ j.encoder.frame_index = Len(j.packets)
  /\ \A k \in 1..Len(j.packets) :
       /\ j.packets[k] = OneEncoder[j.first + k - 1].packet
       /\ j.reconstructed[k] = OneEncoder[j.first + k - 1].encoder.previous

\* Main never uses the template, and only the last job of the file can be
\* short of a GOP.
GopInv ==
  FixedGops =>
    /\ enc = NewEncoder(enc.q)
    /\ ~eof /\ Wanted(read) => read % conf.gop = 0
    /\ \A k \in 1..Len(jobs) : OneJob(jobs[k])
    /\ ByteIdentical

\* A set of natural numbers with 0 and every successor has all of them: if
\* not, the least missing one is the successor of one that is there.
LEMMA Induct ==
  ASSUME NEW T, 0 \in T, \A n \in Nat : n \in T => n + 1 \in T
  PROVE  Nat \subseteq T
<1> DEFINE R == {ss \in Nat \X Nat : ss[1] < ss[2]}
<1>1. IsWellFoundedOn(R, Nat)  BY NatLessThanWellFounded DEF OpToRel
<1> DEFINE M == Nat \ T
<1>2. SUFFICES ASSUME M # {} PROVE FALSE  OBVIOUS
<1>3. PICK x \in M : \A y \in M : ~ (<<y, x>> \in R)
  <2> HIDE DEF R
  <2>1. M \in SUBSET Nat  OBVIOUS
  <2> HIDE DEF M
  <2>2. QED  BY <1>1, <1>2, <2>1, WFMin
<1>4. x \in Nat /\ x # 0 /\ x \notin T /\ x - 1 \in Nat /\ x - 1 < x
  OBVIOUS
<1>5. <<x - 1, x>> \in R  BY <1>4
<1>6. x - 1 \in T  BY <1>3, <1>4, <1>5
<1>7. (x - 1) + 1 = x  BY <1>4
<1>8. QED  BY <1>4, <1>6, <1>7

\* One encoder on the first m pictures.
Chain(s, m) ==
  s = [n \in 0..m |-> IF n = 0 THEN [encoder |-> NewEncoder(enc.q)]
                      ELSE Encode(s[n - 1].encoder, n)]

LEMMA ChainExists ==
  ASSUME NEW m \in Nat
  PROVE  \E s : Chain(s, m)
<1> DEFINE T == {k \in Nat : \E s : Chain(s, k)}
           base == [encoder |-> NewEncoder(enc.q)]
<1>1. 0 \in T
  <2> DEFINE z == [n \in 0..0 |-> base]
  <2>1. Chain(z, 0)  BY DEF Chain
  <2>2. QED  BY <2>1
<1>2. ASSUME NEW k \in Nat, k \in T PROVE k + 1 \in T
  <2>1. PICK s : Chain(s, k)  BY <1>2
  <2> DEFINE t == [n \in 0..(k + 1) |->
                     IF n = k + 1 THEN Encode(s[k].encoder, k + 1) ELSE s[n]]
  <2>2. ASSUME NEW n \in 0..(k + 1)
        PROVE  t[n] = IF n = 0 THEN base ELSE Encode(t[n - 1].encoder, n)
    <3>1. CASE n = k + 1
      <4>1. t[n] = Encode(s[k].encoder, k + 1) /\ t[n - 1] = s[k]  BY <3>1
      <4>2. n # 0  BY <3>1
      <4> HIDE DEF t
      <4>3. QED  BY <3>1, <4>1, <4>2
    <3>2. CASE n \in 0..k
      <4>1. t[n] = s[n] /\ (n # 0 => t[n - 1] = s[n - 1])  BY <3>2
      <4>2. s[n] = IF n = 0 THEN base ELSE Encode(s[n - 1].encoder, n)
        BY <2>1, <3>2 DEF Chain
      <4> HIDE DEF t, base
      <4>3. CASE n = 0  BY <4>1, <4>2, <4>3
      <4>4. CASE n # 0  BY <4>1, <4>2, <4>4
      <4>5. QED  BY <4>3, <4>4
    <3>3. QED  BY <3>1, <3>2
  <2>3. t = [n \in 0..(k + 1) |-> t[n]]  OBVIOUS
  <2> HIDE DEF t, base
  <2>4. t = [n \in 0..(k + 1) |->
               IF n = 0 THEN base ELSE Encode(t[n - 1].encoder, n)]
    BY <2>2, <2>3
  <2>5. Chain(t, k + 1)  BY <2>4 DEF Chain, base
  <2>6. QED  BY <2>5
<1> HIDE DEF T
<1>3. Nat \subseteq T  BY <1>1, <1>2, Induct
<1>4. QED  BY <1>3 DEF T

\* The recursive definition has a value.
LEMMA OneStep ==
  ASSUME NEW n \in 1..NFrames, EncoderAssumption
  PROVE  OneEncoder[n] = Encode(OneEncoder[n - 1].encoder, n)
<1> DEFINE c == CHOOSE s : Chain(s, NFrames)
<1>1. NFrames \in Nat  BY DEF EncoderAssumption
<1>2. Chain(c, NFrames)  BY <1>1, ChainExists
<1>3. OneEncoder = c  BY DEF OneEncoder, Chain
<1> HIDE DEF c
<1>4. n \in 0..NFrames /\ n # 0  BY <1>1
<1>5. c[n] = Encode(c[n - 1].encoder, n)  BY <1>2, <1>4 DEF Chain
<1>6. QED  BY <1>3, <1>5

LEMMA OneFirst ==
  ASSUME EncoderAssumption
  PROVE  OneEncoder[0] = [encoder |-> NewEncoder(enc.q)]
<1> DEFINE c == CHOOSE s : Chain(s, NFrames)
<1>1. NFrames \in Nat /\ 0 \in 0..NFrames  BY DEF EncoderAssumption
<1>2. Chain(c, NFrames)  BY <1>1, ChainExists
<1>3. OneEncoder = c  BY DEF OneEncoder, Chain
<1> HIDE DEF c
<1>4. c[0] = [encoder |-> NewEncoder(enc.q)]  BY <1>1, <1>2 DEF Chain
<1>5. QED  BY <1>3, <1>4

LEMMA OneKept == UNCHANGED <<loop, enc>> => OneEncoder' = OneEncoder
BY DEF OneEncoder, NewEncoder, Encode, EncodeInternal, FrameType, KeyDue,
   Packet, After, Decoded, loop

\* What is left of an encoder, and of the choice of a type, in a fixed GOP.
LEMMA FixedStep ==
  ASSUME EncoderAssumption, conf \in Configs, ~conf.adaptive,
         NEW e \in Encoders, NEW i \in 1..NFrames
  PROVE  LET r == Encode(e, i)
             t == IF KeyDue(e, i) THEN "K"
                  ELSE IF conf.repeat /\ video[i].still THEN "R" ELSE "P"
         IN  /\ r.packet = [type |-> t, frame |-> i,
                            code |-> [frame |-> i, q |-> e.q,
                                      lambda |-> e.lambda]]
             /\ r.encoder.previous = Decoded(e.previous, r.packet)
             /\ r.encoder \in Encoders /\ r.encoder.have
             /\ r.encoder.q = e.q /\ r.encoder.lambda = e.lambda
             /\ r.encoder.frame_index = e.frame_index + 1
<1> DEFINE p == Packet(e, i, FrameType(e, i, "any"))
<1>1. Encode(e, i) = EncodeInternal(e, i, "any")  BY DEF Encode
<1>2. Encode(e, i).packet = p /\ Encode(e, i).encoder = After(e, p)
  BY <1>1 DEF EncodeInternal
<1>3. After(e, p).q = e.q /\ After(e, p).lambda = e.lambda
  <2> HIDE DEF p
  <2>1. QED  BY DEF After, Encoders
<1>4. /\ Encode(e, i).encoder \in Encoders /\ Encode(e, i).encoder.have
      /\ Encode(e, i).encoder.frame_index = e.frame_index + 1
      /\ Encode(e, i).encoder.previous
           = Decoded(e.previous, Encode(e, i).packet)
  BY EncodeStep DEF Coded
<1>5. p = [type |-> IF KeyDue(e, i) THEN "K"
                    ELSE IF conf.repeat /\ video[i].still THEN "R" ELSE "P",
           frame |-> i,
           code |-> [frame |-> i, q |-> e.q, lambda |-> e.lambda]]
  BY DEF Packet, FrameType
<1> HIDE DEF p
<1>6. QED  BY <1>2, <1>3, <1>4, <1>5

\* The one encoder after n pictures.
LEMMA OneFacts ==
  ASSUME EncoderAssumption, TypeInv, ~conf.adaptive, NEW n \in 0..NFrames
  PROVE  /\ OneEncoder[n].encoder \in Encoders
         /\ OneEncoder[n].encoder.frame_index = n
         /\ OneEncoder[n].encoder.q = enc.q
         /\ OneEncoder[n].encoder.lambda = 0
         /\ n > 0 => OneEncoder[n].encoder.have
<1> DEFINE Right(k) == /\ OneEncoder[k].encoder \in Encoders
                       /\ OneEncoder[k].encoder.frame_index = k
                       /\ OneEncoder[k].encoder.q = enc.q
                       /\ OneEncoder[k].encoder.lambda = 0
                       /\ k > 0 => OneEncoder[k].encoder.have
           T == {k \in Nat : k <= NFrames => Right(k)}
<1>1. NFrames \in Nat /\ enc \in Encoders /\ conf \in Configs
  BY DEF EncoderAssumption, TypeInv, TypeOK
<1>2. 0 \in T
  <2>1. OneEncoder[0].encoder = NewEncoder(enc.q)  BY OneFirst
  <2>2. NewEncoder(enc.q) \in Encoders
    BY <1>1 DEF NewEncoder, Encoders
  <2>3. Right(0)  BY <2>1, <2>2 DEF NewEncoder
  <2>4. QED  BY <2>3
<1>3. ASSUME NEW k \in Nat, k \in T PROVE k + 1 \in T
  <2>1. SUFFICES ASSUME k + 1 <= NFrames PROVE Right(k + 1)  OBVIOUS
  <2>2. Right(k) /\ k + 1 \in 1..NFrames /\ (k + 1) - 1 = k
    BY <1>1, <1>3, <2>1
  <2>3. OneEncoder[k + 1] = Encode(OneEncoder[k].encoder, k + 1)
    BY <2>2, OneStep
  <2> DEFINE e == OneEncoder[k].encoder
  <2>4. e \in Encoders /\ e.frame_index = k /\ e.q = enc.q /\ e.lambda = 0
    BY <2>2
  <2>5. OneEncoder[k + 1] = Encode(e, k + 1)  BY <2>3
  <2> HIDE DEF e
  <2>6. LET r == Encode(e, k + 1)
        IN  /\ r.encoder \in Encoders /\ r.encoder.have
            /\ r.encoder.q = e.q /\ r.encoder.lambda = e.lambda
            /\ r.encoder.frame_index = e.frame_index + 1
    BY <1>1, <2>2, <2>4, FixedStep
  <2>7. QED  BY <2>4, <2>5, <2>6
<1> HIDE DEF T
<1>4. n \in T  BY <1>1, <1>2, <1>3, Induct
<1>5. n <= NFrames  BY <1>1
<1>6. QED  BY <1>4, <1>5 DEF T

\* The remainder does not see whole GOPs.
LEMMA ModShift ==
  ASSUME NEW n \in Nat, NEW k \in Nat, NEW c \in Nat \ {0}, n % c = 0
  PROVE  (n + k) % c = k % c
<1> DEFINE a == n \div c
           b == k \div c
           r == k % c
<1>1. a \in Nat /\ n = a * c + 0  BY DivMod
<1>2. b \in Nat /\ r \in 0..(c - 1) /\ k = b * c + r  BY DivMod
<1> HIDE DEF a, b, r
<1>3. (a + b) * c = a * c + b * c /\ a * c \in Nat /\ b * c \in Nat
  BY <1>1, <1>2, Z3
<1>4. n + k = (a + b) * c + r  BY <1>1, <1>2, <1>3
<1>5. (n + k) % c = r
  <2>1. a + b \in Nat  BY <1>1, <1>2
  <2>2. ((a + b) * c + r) % c = r  BY <1>2, <2>1, Remainder
  <2>3. QED  BY <1>4, <2>2
<1>6. QED  BY <1>5 DEF r

\* The next picture of a job is the next one of the one encoder.
LEMMA JobIsOne ==
  ASSUME EncoderAssumption, TypeInv, FixedGops, NEW j \in Jobs, JobInv(j),
         OneJob(j), Len(j.packets) < j.frame_count
  PROVE  LET n == j.first + Len(j.packets)
             r == Encode(j.encoder, n)
         IN  /\ r.packet = OneEncoder[n].packet
             /\ r.encoder.previous = OneEncoder[n].encoder.previous
             /\ r.encoder.q = enc.q /\ r.encoder.lambda = 0
             /\ r.encoder.frame_index = Len(j.packets) + 1
<1> DEFINE m == Len(j.packets)
           n == j.first + m
           e == j.encoder
           o == OneEncoder[n - 1].encoder
           r == Encode(e, n)
           s == Encode(o, n)
<1>1. /\ m \in Nat /\ j.first \in Nat \ {0} /\ j.frame_count \in Nat
      /\ e \in Encoders /\ conf \in Configs /\ conf.gop \in Nat \ {0}
      /\ read \in 0..NFrames /\ NFrames \in Nat /\ ~conf.adaptive
  BY DEF Jobs, TypeInv, TypeOK, Configs, EncoderAssumption, FixedGops
<1>2. n \in 1..NFrames /\ n - 1 \in 0..NFrames
  BY <1>1 DEF JobInv, JobOf
<1>3. OneEncoder[n] = s  BY <1>2, OneStep
<1>4. /\ o \in Encoders /\ o.frame_index = n - 1 /\ o.q = enc.q
      /\ o.lambda = 0 /\ (n - 1 > 0 => o.have)
  BY <1>1, <1>2, OneFacts
<1>5. e.q = enc.q /\ e.lambda = 0 /\ e.frame_index = m /\ (e.have <=> m > 0)
  BY DEF OneJob, JobInv, JobOf
<1>6. o.frame_index % conf.gop = m % conf.gop
  <2>1. (j.first - 1) % conf.gop = 0  BY DEF OneJob
  <2> DEFINE f == j.first - 1
  <2>2. f \in Nat /\ f % conf.gop = 0  BY <1>1, <2>1
  <2>3. n - 1 = f + m  BY <1>1
  <2>5. m \in Nat /\ conf.gop \in Nat \ {0}  BY <1>1
  <2> DEFINE c == conf.gop
  <2>7. f % c = 0 /\ c \in Nat \ {0}  BY <2>2, <2>5
  <2> HIDE DEF f, m, c
  <2>8. (f + m) % c = m % c  BY <2>2, <2>5, <2>7, ModShift
  <2>4. (f + m) % conf.gop = m % conf.gop  BY <2>8 DEF c
  <2>6. QED  BY <1>4, <2>3, <2>4
<1>7. m = 0 => m % conf.gop = 0
  <2>1. 0 * conf.gop + 0 = 0 /\ 0 \in 0..(conf.gop - 1)  BY <1>1, Z3
  <2>2. (0 * conf.gop + 0) % conf.gop = 0  BY <1>1, <2>1, Remainder
  <2>3. QED  BY <2>1, <2>2
<1>8. KeyDue(e, n) <=> KeyDue(o, n)
  <2>1. CASE m = 0
    <3>1. KeyDue(e, n)  BY <1>5, <2>1 DEF KeyDue
    <3>2. KeyDue(o, n)  BY <1>6, <1>7, <2>1 DEF KeyDue
    <3>3. QED  BY <3>1, <3>2
  <2>2. CASE m > 0
    <3>1. n - 1 > 0  BY <1>1, <2>2
    <3>2. e.have /\ o.have  BY <1>4, <1>5, <2>2, <3>1
    <3>3. QED  BY <1>5, <1>6, <3>2 DEF KeyDue
  <2>3. QED  BY <1>1, <2>1, <2>2
<1>9. m > 0 => e.previous = o.previous
  <2> SUFFICES ASSUME m > 0 PROVE e.previous = o.previous  OBVIOUS
  <2>1. e.previous = j.reconstructed[m]  BY DEF JobInv, JobOf
  <2>2. m \in 1..m  BY <1>1
  <2>3. j.reconstructed[m] = OneEncoder[j.first + m - 1].encoder.previous
    BY <2>2 DEF OneJob
  <2>4. e = j.encoder /\ o = OneEncoder[j.first + m - 1].encoder
    <3>1. j.first + m - 1 = n - 1  BY <1>1
    <3> HIDE DEF m, n
    <3>2. QED  BY <3>1
  <2> HIDE DEF e, o
  <2>5. QED  BY <2>1, <2>3, <2>4
<1>10. m = 0 => KeyDue(e, n)  BY <1>5 DEF KeyDue
<1>k. j.encoder = e /\ Len(j.packets) = m /\ j.first + m = n  OBVIOUS
<1> HIDE DEF e, o, n, m
<1>11. /\ r.packet = [type |-> IF KeyDue(e, n) THEN "K"
                               ELSE IF conf.repeat /\ video[n].still THEN "R"
                               ELSE "P",
                      frame |-> n,
                      code |-> [frame |-> n, q |-> e.q, lambda |-> e.lambda]]
       /\ r.encoder.previous = Decoded(e.previous, r.packet)
       /\ r.encoder.q = e.q /\ r.encoder.lambda = e.lambda
       /\ r.encoder.frame_index = e.frame_index + 1
  BY <1>1, <1>2, FixedStep
<1>12. /\ s.packet = [type |-> IF KeyDue(o, n) THEN "K"
                               ELSE IF conf.repeat /\ video[n].still THEN "R"
                               ELSE "P",
                      frame |-> n,
                      code |-> [frame |-> n, q |-> o.q, lambda |-> o.lambda]]
       /\ s.encoder.previous = Decoded(o.previous, s.packet)
  BY <1>1, <1>2, <1>4, FixedStep
<1> HIDE DEF r, s
<1>13. r.packet = s.packet
  BY <1>4, <1>5, <1>8, <1>11, <1>12
<1>14. r.encoder.previous = s.encoder.previous
  <2>1. CASE m = 0
    <3>1. r.packet.type = "K"  BY <1>10, <1>11, <2>1
    <3>2. QED  BY <1>11, <1>12, <1>13, <3>1 DEF Decoded
  <2>2. CASE m > 0  BY <1>9, <1>11, <1>12, <1>13, <2>2
  <2>3. QED  BY <1>1, <2>1, <2>2
<1>15. QED  BY <1>3, <1>5, <1>11, <1>13, <1>14, <1>k DEF r

-----------------------------------------------------------------------------
LEMMA GopInit == Init => GopInv
<1> SUFFICES ASSUME Init, FixedGops
             PROVE  /\ enc = NewEncoder(enc.q)
                    /\ ~eof /\ Wanted(read) => read % conf.gop = 0
                    /\ \A k \in 1..Len(jobs) : OneJob(jobs[k])
                    /\ ByteIdentical
  BY DEF GopInv
<1>1. enc = NewEncoder(enc.q)  BY DEF Init, NewEncoder
<1>2. read % conf.gop = 0
  <2>1. conf.gop \in Nat \ {0}
    BY EncoderAssumption DEF Init, Configs
  <2>2. 0 * conf.gop + 0 = 0 /\ 0 \in 0..(conf.gop - 1)  BY <2>1, Z3
  <2>3. (0 * conf.gop + 0) % conf.gop = 0  BY <2>1, <2>2, Remainder
  <2>4. QED  BY <2>2, <2>3 DEF Init
<1>3. Len(jobs) = 0 /\ Len(file) = 0  BY DEF Init
<1>4. QED  BY <1>1, <1>2, <1>3 DEF ByteIdentical

\* Everything but the jobs and the file stays.
LEMMA GopKept ==
  ASSUME GopInv, UNCHANGED <<loop, enc, read, eof, file, recon>>,
         FixedGops =>
           \A k \in 1..Len(jobs') : jobs'[k] \in {jobs[i] : i \in 1..Len(jobs)}
                                    \/ OneJob(jobs'[k])
  PROVE  GopInv'
<1>1. OneEncoder' = OneEncoder /\ conf' = conf  BY OneKept DEF loop
<1>2. SUFFICES ASSUME FixedGops
               PROVE  /\ enc' = NewEncoder(enc'.q)
                      /\ ~eof' /\ Wanted(read)' => read' % conf'.gop = 0
                      /\ \A k \in 1..Len(jobs') : OneJob(jobs[k])'
                      /\ ByteIdentical'
  BY <1>1 DEF GopInv, FixedGops, NewEncoder
<1>3. enc' = NewEncoder(enc'.q)  BY <1>2 DEF GopInv
<1>4. ~eof' /\ Wanted(read)' => read' % conf'.gop = 0
  BY <1>1, <1>2 DEF GopInv, Wanted
<1>5. ByteIdentical'  BY <1>1, <1>2 DEF GopInv, ByteIdentical
<1>6. ASSUME NEW k \in 1..Len(jobs') PROVE OneJob(jobs[k])'
  <2>1. OneJob(jobs'[k])  BY <1>2 DEF GopInv
  <2>2. QED  BY <1>1, <2>1 DEF OneJob
<1>7. QED  BY <1>3, <1>4, <1>5, <1>6

LEMMA GopPrepareJob == IInv /\ GopInv /\ PrepareJob => GopInv'
<1> SUFFICES ASSUME IInv, GopInv, PrepareJob PROVE GopInv'  OBVIOUS
<1> DEFINE n == Available(JobSize)
           j == [first |-> read + 1, frame_count |-> n,
                 encoder |-> enc, packets |-> <<>>, reconstructed |-> <<>>,
                 state |-> "new", result |-> "OK"]
<1>1. /\ ~eof /\ Wanted(read)
      /\ eof' = (n < Requested(JobSize))
      /\ read' = read + n
      /\ jobs' = IF n = 0 THEN jobs ELSE Append(jobs, j)
      /\ UNCHANGED <<loop, enc, out>>
  BY DEF PrepareJob
<1>2. OneEncoder' = OneEncoder /\ conf' = conf /\ FixedGops' = FixedGops
  BY <1>1, OneKept DEF loop, FixedGops
<1>3. SUFFICES ASSUME FixedGops
               PROVE  /\ enc' = NewEncoder(enc'.q)
                      /\ ~eof' /\ Wanted(read)' => read' % conf'.gop = 0
                      /\ \A k \in 1..Len(jobs') : OneJob(jobs[k])'
                      /\ ByteIdentical'
  BY <1>2 DEF GopInv
<1>4. /\ conf.gop \in Nat \ {0} /\ read \in 0..NFrames /\ NFrames \in Nat
      /\ conf.max \in Nat /\ jobs \in Seq(Jobs)
      /\ conf.max # 0 => read <= conf.max
  BY EncoderAssumption DEF IInv, TypeInv, TypeOK, Configs, ReadInv
<1>5. enc = NewEncoder(enc.q) /\ read % conf.gop = 0
  BY <1>1, <1>3 DEF GopInv
<1>6. ~eof' /\ Wanted(read)' => read' % conf'.gop = 0
  <2> SUFFICES ASSUME ~eof', Wanted(read)' PROVE read' % conf.gop = 0
    BY <1>2
  <2>1. n = conf.gop
    <3>1. ~(n < Requested(conf.gop)) /\ n = Available(conf.gop)
      BY <1>1 DEF JobSize
    <3>2. conf.max = 0 \/ read + n < conf.max  BY <1>1, <1>2 DEF Wanted
    <3> HIDE DEF n
    <3>3. QED
      BY <1>4, <3>1, <3>2 DEF Available, Requested, Least
  <2>2. read' = read + conf.gop  BY <1>1, <2>1
  <2> HIDE DEF n
  <2>3. conf.gop % conf.gop = 0
    <3>1. 1 * conf.gop + 0 = conf.gop /\ 0 \in 0..(conf.gop - 1)  BY <1>4, Z3
    <3>2. (1 * conf.gop + 0) % conf.gop = 0  BY <1>4, <3>1, Remainder
    <3>3. QED  BY <3>1, <3>2
  <2>4. (read + conf.gop) % conf.gop = conf.gop % conf.gop
    <3>1. read \in Nat /\ conf.gop \in Nat /\ conf.gop \in Nat \ {0}
      BY <1>4
    <3> DEFINE c == conf.gop
    <3>2. read % c = 0 /\ c \in Nat /\ c \in Nat \ {0}  BY <1>5, <3>1
    <3> HIDE DEF c
    <3>3. (read + c) % c = c % c  BY <3>1, <3>2, ModShift
    <3>4. QED  BY <3>3 DEF c
  <2>5. QED  BY <2>2, <2>3, <2>4
<1>7. OneJob(j)
  <2> HIDE DEF n
  <2>1. j.first - 1 = read /\ j.encoder = enc /\ Len(j.packets) = 0
    BY <1>4
  <2>2. enc.lambda = 0 /\ enc.frame_index = 0  BY <1>5 DEF NewEncoder
  <2> HIDE DEF j
  <2>3. QED  BY <1>5, <2>1, <2>2 DEF OneJob
<1> HIDE DEF j, n
<1>8. ASSUME NEW k \in 1..Len(jobs') PROVE OneJob(jobs[k])'
  <2>1. jobs'[k] = j \/ (k \in 1..Len(jobs) /\ jobs'[k] = jobs[k])
    BY <1>1, <1>4
  <2>2. OneJob(jobs'[k])  BY <1>3, <1>7, <2>1 DEF GopInv
  <2>3. QED  BY <1>1, <1>2, <2>2 DEF OneJob
<1>9. ByteIdentical'
  BY <1>1, <1>2, <1>3 DEF GopInv, ByteIdentical, out
<1>10. QED  BY <1>1, <1>5, <1>6, <1>8, <1>9 DEF NewEncoder

LEMMA GopWorkerStep ==
  ASSUME IInv, GopInv, NEW k \in 1..Len(jobs), WorkerStep(k)
  PROVE  GopInv'
<1> DEFINE o == jobs[k]
           i == o.first + Len(o.packets)
           r == Encode(o.encoder, i)
           j == [o EXCEPT !.encoder = r.encoder,
                          !.packets = Append(@, r.packet),
                          !.reconstructed = Append(@, r.encoder.previous)]
<1>1. /\ jobs' = [jobs EXCEPT ![k] = j]
      /\ Len(o.packets) < o.frame_count
      /\ UNCHANGED <<loop, enc, read, eof, file, recon>>
  BY DEF WorkerStep, out
<1>2. /\ jobs \in Seq(Jobs) /\ o \in Jobs /\ JobInv(o) /\ TypeInv
  BY DEF IInv, JobsInv, TypeInv
<1>3. ASSUME FixedGops PROVE OneJob(j)
  <2>1. OneJob(o)  BY <1>3 DEF GopInv
  <2>2. /\ r.packet = OneEncoder[i].packet
        /\ r.encoder.previous = OneEncoder[i].encoder.previous
        /\ r.encoder.q = enc.q /\ r.encoder.lambda = 0
        /\ r.encoder.frame_index = Len(o.packets) + 1
    BY <1>1, <1>2, <1>3, <2>1, JobIsOne, EncoderAssumption
  <2>3. i = o.first + Len(o.packets)  OBVIOUS
  <2>4. /\ o.packets \in Seq(Packets) /\ o.reconstructed \in Seq(Seq(Codes))
        /\ Len(o.reconstructed) = Len(o.packets) /\ o.first \in Nat \ {0}
        /\ Len(o.packets) \in Nat
    BY <1>2 DEF Jobs, JobInv, JobOf
  <2> HIDE DEF r, i, o
  <2> DEFINE x == Append(o.packets, r.packet)
             y == Append(o.reconstructed, r.encoder.previous)
  <2>5. /\ j.first = o.first /\ j.encoder = r.encoder
        /\ j.packets = x /\ j.reconstructed = y
    BY <1>2 DEF Jobs
  <2>6. /\ Len(x) = Len(o.packets) + 1
        /\ x[Len(o.packets) + 1] = r.packet
        /\ y[Len(o.packets) + 1] = r.encoder.previous
        /\ \A m \in 1..Len(o.packets) :
             x[m] = o.packets[m] /\ y[m] = o.reconstructed[m]
    BY <2>4
  <2> HIDE DEF x, y, j
  <2>7. ASSUME NEW m \in 1..(Len(o.packets) + 1)
        PROVE  /\ x[m] = OneEncoder[j.first + m - 1].packet
               /\ y[m] = OneEncoder[j.first + m - 1].encoder.previous
    <3>1. CASE m = Len(o.packets) + 1
      <4>1. j.first + m - 1 = i  BY <2>3, <2>4, <2>5, <3>1
      <4>2. QED  BY <2>2, <2>6, <3>1, <4>1
    <3>2. CASE m \in 1..Len(o.packets)
      BY <2>1, <2>5, <2>6, <3>2 DEF OneJob
    <3>3. m = Len(o.packets) + 1 \/ m \in 1..Len(o.packets)
      BY <2>4
    <3>4. QED  BY <3>1, <3>2, <3>3
  <2>8. (j.first - 1) % conf.gop = 0  BY <2>1, <2>5 DEF OneJob
  <2>9. QED  BY <2>2, <2>5, <2>6, <2>7, <2>8 DEF OneJob
<1> HIDE DEF j, o
<1>4. \A m \in 1..Len(jobs') : jobs'[m] = j \/ (m \in 1..Len(jobs)
                                                /\ jobs'[m] = jobs[m])
  BY <1>1, <1>2
<1>5. QED  BY <1>1, <1>3, <1>4, GopKept

LEMMA GopWritePacket == IInv /\ GopInv /\ WritePacket => GopInv'
<1> SUFFICES ASSUME IInv, GopInv, WritePacket PROVE GopInv'  OBVIOUS
<1> DEFINE j == jobs[at.job]
           k == at.packet
           p == j.packets[k]
           r == j.reconstructed[k]
<1>1. /\ pc = "write" /\ at.job <= Len(jobs) /\ j.result = "OK"
      /\ file' = Append(file, p) /\ recon' = Append(recon, r)
      /\ UNCHANGED <<loop, enc, read, eof, jobs>>
  BY DEF WritePacket, Write
<1>2. OneEncoder' = OneEncoder /\ conf' = conf /\ FixedGops' = FixedGops
  BY <1>1, OneKept DEF loop, FixedGops
<1>3. SUFFICES ASSUME FixedGops
               PROVE  /\ enc' = NewEncoder(enc'.q)
                      /\ ~eof' /\ Wanted(read)' => read' % conf'.gop = 0
                      /\ \A m \in 1..Len(jobs') : OneJob(jobs[m])'
                      /\ ByteIdentical'
  BY <1>2 DEF GopInv
<1>4. /\ at.job \in 1..Len(jobs) /\ j \in Jobs /\ j.state = "ended"
      /\ JobOf(j, conf.gop, read) /\ Start(at.job) = j.first
      /\ Start(at.job) + k = Len(file) + 2 /\ k <= j.frame_count
      /\ k \in Nat \ {0}
      /\ file \in Seq(Packets) /\ recon \in Seq(Seq(Codes))
      /\ Len(recon) = Len(file)
  <2>1. /\ at.job \in Nat \ {0} /\ k \in Nat \ {0} /\ jobs \in Seq(Jobs)
        /\ file \in Seq(Packets) /\ recon \in Seq(Seq(Codes))
        /\ Len(recon) = Len(file) /\ WriteInv
    BY <1>1 DEF IInv, TypeInv, TypeOK, FileInv, JobsInv
  <2>2. at.job \in 1..Len(jobs)  BY <1>1, <2>1
  <2>3. j \in Jobs /\ JobOf(j, conf.gop, read)
    BY <2>1, <2>2 DEF IInv, JobsInv, JobInv
  <2>4. QED  BY <1>1, <2>1, <2>2, <2>3 DEF WriteInv, Start
<1>5. OneJob(j)  BY <1>3, <1>4 DEF GopInv
<1>6. p = OneEncoder[Len(file) + 1].packet
      /\ r = OneEncoder[Len(file) + 1].encoder.previous
  <2> HIDE DEF j, k
  <2>1. j.first \in Nat /\ Len(j.packets) = j.frame_count
    BY <1>1, <1>4 DEF JobOf, Jobs
  <2>2. k \in 1..Len(j.packets) /\ j.first + k - 1 = Len(file) + 1
    BY <1>4, <2>1
  <2>3. QED  BY <1>5, <2>2 DEF OneJob
<1> HIDE DEF p, r
<1>7. ByteIdentical'
  <2>1. /\ Len(file') = Len(file) + 1
        /\ file'[Len(file) + 1] = p /\ recon'[Len(file) + 1] = r
        /\ \A n \in 1..Len(file) : file'[n] = file[n] /\ recon'[n] = recon[n]
    BY <1>1, <1>4
  <2>2. ASSUME NEW n \in 1..(Len(file) + 1)
        PROVE  /\ file'[n] = OneEncoder[n].packet
               /\ recon'[n] = OneEncoder[n].encoder.previous
    <3>1. CASE n = Len(file) + 1  BY <1>6, <2>1, <3>1
    <3>2. CASE n \in 1..Len(file)
      BY <1>3, <2>1, <3>2 DEF GopInv, ByteIdentical, FixedGops
    <3>3. QED  BY <1>4, <3>1, <3>2
  <2>3. QED  BY <1>2, <2>1, <2>2 DEF ByteIdentical
<1>8. ~eof' /\ Wanted(read)' => read' % conf'.gop = 0
  BY <1>1, <1>2, <1>3 DEF GopInv, Wanted
<1>9. \A m \in 1..Len(jobs') : OneJob(jobs[m])'
  BY <1>1, <1>2, <1>3 DEF GopInv, OneJob
<1>10. QED  BY <1>1, <1>3, <1>7, <1>8, <1>9 DEF GopInv, NewEncoder

LEMMA GopStep == IInv /\ GopInv /\ [Next]_vars => GopInv'
<1> SUFFICES ASSUME IInv, GopInv, [Next]_vars PROVE GopInv'  OBVIOUS
<1>1. CASE conf.mode # "gops"
  <2>1. conf' = conf
    BY DEF Next, Step, Fail, Finish, CodeFrame, StartSearch, TryQ, EndTrials,
       TryLambda, EndLambda, TryFinest, TakeChosen, SpoolWindow, ProbeWindow,
       EndProbe, CodeWindowFrame, EndWindow, PrepareJob, StartJobs,
       StartWorker, WorkerStep, WorkerError, WorkerEnd, JoinWorkers,
       WritePacket, RefuseJob, EndBatch, vars, loop
  <2>2. QED  BY <1>1, <2>1 DEF GopInv, FixedGops
<1>2. CASE conf.mode = "gops" /\ Next
  <2>1. pc \notin Trying \cup {"probe", "window"}
    BY <1>2 DEF IInv, ReadInv
  <2>2. ~ (\/ CodeFrame \/ StartSearch \/ TryQ \/ EndTrials \/ TryLambda
           \/ EndLambda \/ TryFinest \/ TakeChosen \/ SpoolWindow
           \/ ProbeWindow \/ EndProbe \/ CodeWindowFrame \/ EndWindow)
    BY <1>2, <2>1 DEF Trying, CodeFrame, StartSearch, TryQ, EndTrials,
       TryLambda, EndLambda, TryFinest, TakeChosen, SpoolWindow, ProbeWindow,
       EndProbe, CodeWindowFrame, EndWindow
  <2>3. CASE PrepareJob  BY <2>3, GopPrepareJob
  <2>4. CASE WritePacket  BY <2>4, GopWritePacket
  <2>5. ASSUME NEW k \in 1..Len(jobs), WorkerStep(k) PROVE GopInv'
    BY <2>5, GopWorkerStep
  <2>6. ASSUME NEW k \in 1..Len(jobs), NEW j,
               jobs' = [jobs EXCEPT ![k] = j],
               j.first = jobs[k].first, j.encoder = jobs[k].encoder,
               j.packets = jobs[k].packets,
               j.reconstructed = jobs[k].reconstructed,
               UNCHANGED <<loop, enc, read, eof, out>>
        PROVE  GopInv'
    <3>1. jobs \in Seq(Jobs)  BY DEF IInv, TypeInv
    <3>2. \A m \in 1..Len(jobs') : m \in 1..Len(jobs)
            /\ (jobs'[m] = jobs[m] \/ (m = k /\ jobs'[m] = j))
      BY <2>6, <3>1
    <3>3. FixedGops => OneJob(j)
      <4> SUFFICES ASSUME FixedGops PROVE OneJob(j)  OBVIOUS
      <4>1. OneJob(jobs[k])  BY DEF GopInv
      <4>2. QED  BY <2>6, <4>1 DEF OneJob
    <3>4. UNCHANGED <<loop, enc, read, eof, file, recon>>  BY <2>6 DEF out
    <3>5. QED  BY <3>2, <3>3, <3>4, GopKept
  <2>7. ASSUME NEW k \in 1..Len(jobs), WorkerError(k) \/ WorkerEnd(k)
        PROVE  GopInv'
    <3>1. jobs[k] \in Jobs  BY DEF IInv, TypeInv
    <3> DEFINE o == jobs[k]
               a == [o EXCEPT !.result = "ERR", !.state = "ended"]
               b == [o EXCEPT !.state = "ended"]
    <3>2. /\ jobs' = [jobs EXCEPT ![k] = a] \/ jobs' = [jobs EXCEPT ![k] = b]
          /\ UNCHANGED <<loop, enc, read, eof, out>>
      BY <2>7 DEF WorkerError, WorkerEnd
    <3> HIDE DEF o
    <3>3. /\ a.first = o.first /\ a.encoder = o.encoder
          /\ a.packets = o.packets /\ a.reconstructed = o.reconstructed
          /\ b.first = o.first /\ b.encoder = o.encoder
          /\ b.packets = o.packets /\ b.reconstructed = o.reconstructed
      BY <3>1 DEF Jobs, o
    <3> HIDE DEF a, b
    <3>4. CASE jobs' = [jobs EXCEPT ![k] = a]
      BY <2>6, <3>2, <3>3, <3>4 DEF o
    <3>5. CASE jobs' = [jobs EXCEPT ![k] = b]
      BY <2>6, <3>2, <3>3, <3>5 DEF o
    <3>6. QED  BY <3>2, <3>4, <3>5
  <2>8. CASE StartWorker
    <3>1. at.job \in 1..Len(jobs) /\ jobs[at.job] \in Jobs
      BY <2>8 DEF StartWorker, IInv, TypeInv
    <3> DEFINE o == jobs[at.job]
               a == [o EXCEPT !.state = "thread"]
               b == [o EXCEPT !.state = "inline"]
    <3>2. /\ \/ jobs' = [jobs EXCEPT ![at.job] = a]
             \/ jobs' = [jobs EXCEPT ![at.job] = b]
          /\ UNCHANGED <<loop, enc, read, eof, out>>
      BY <2>8 DEF StartWorker
    <3> HIDE DEF o
    <3>3. /\ a.first = o.first /\ a.encoder = o.encoder
          /\ a.packets = o.packets /\ a.reconstructed = o.reconstructed
          /\ b.first = o.first /\ b.encoder = o.encoder
          /\ b.packets = o.packets /\ b.reconstructed = o.reconstructed
      BY <3>1 DEF Jobs, o
    <3> HIDE DEF a, b
    <3>4. CASE jobs' = [jobs EXCEPT ![at.job] = a]
      BY <2>6, <3>1, <3>2, <3>3, <3>4 DEF o
    <3>5. CASE jobs' = [jobs EXCEPT ![at.job] = b]
      BY <2>6, <3>1, <3>2, <3>3, <3>5 DEF o
    <3>6. QED  BY <3>2, <3>4, <3>5
  <2>9. CASE \/ Finish \/ StartJobs \/ JoinWorkers \/ RefuseJob \/ EndBatch
             \/ Fail
    <3>1. /\ UNCHANGED <<loop, enc, read, eof, file, recon>>
          /\ jobs' = jobs \/ jobs' = <<>>
      BY <2>9 DEF Finish, StartJobs, JoinWorkers, RefuseJob, EndBatch, Fail, out
    <3>2. FixedGops =>
            \A k \in 1..Len(jobs') :
              jobs'[k] \in {jobs[i] : i \in 1..Len(jobs)} \/ OneJob(jobs'[k])
      BY <3>1
    <3>3. QED  BY <3>1, <3>2, GopKept
  <2>10. QED
    BY <1>2, <2>2, <2>3, <2>4, <2>5, <2>7, <2>8, <2>9 DEF Next, Step
<1>3. CASE UNCHANGED vars
  <2>1. UNCHANGED <<loop, enc, read, eof, file, recon, jobs>>
    BY <1>3 DEF vars, out, loop
  <2>2. QED  BY <2>1, GopKept
<1>4. QED  BY <1>1, <1>2, <1>3

\* "--threads 1 and --threads 4 produce byte-identical output": with a fixed
\* GOP every packet and every reconstruction of the threaded loop is the one
\* of a single encoder, for every input, GOP length, --frames and number of
\* workers, however the workers interleave (hlvenc.c: parallel_gop_prepare,
\* parallel_gop_worker and the batch loop of main).
THEOREM GopsIdentical == Spec => []FixedGopIdentical
<1>1. Init => IInv /\ GopInv  BY IInvInit, GopInit
<1>2. IInv /\ GopInv /\ [Next]_vars => (IInv /\ GopInv)'
  BY NextStep, Stutter, GopStep
<1>3. IInv /\ GopInv => FixedGopIdentical
  BY DEF GopInv, FixedGops, FixedGopIdentical, ByteIdentical
<1>4. QED  BY <1>1, <1>2, <1>3, PTL DEF Spec
=============================================================================
