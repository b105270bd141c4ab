-------------------------- MODULE AudioOutputProof --------------------------
(***************************************************************************)
(* The audio clock loses and invents no sample, the stream buffer outlives *)
(* its users and every counter keeps its range, for every track, queue,    *)
(* chunk and descriptor size.                                              *)
(***************************************************************************)
EXTENDS AudioOutput, SequenceTheorems, WellFoundedInduction, TLAPS

\* What is counted is a number of samples.
CountersInv ==
  /\ left \in Nat /\ chunk \in Nat /\ stream \in Nat /\ stream <= Capacity
  /\ pending \in Int /\ played \in Nat /\ discarded \in Nat /\ frame \in Nat
  /\ dma \in Seq(Nat) /\ Len(dma) = Descriptors
  /\ {seeking, enabled, started, stop, alive, pdm} \subseteq BOOLEAN

\* Where the main loop is tells whether there is an output and who uses it.
StageInv ==
  /\ main \in {"closed", "ramp", "preroll", "frame", "discard", "wait",
               "check", "stopping", "draining"}
  /\ after \in {"frame", "closed"}
  /\ stop <=> main \in {"stopping", "draining"}
  /\ alive <=> pdm
  /\ ~alive => ~started /\ ~enabled /\ reader = "none"
                 /\ main \in {"closed", "frame", "stopping", "draining"}
  /\ main = "closed" => ~alive
  /\ alive /\ main \notin {"closed", "ramp"} /\ ~stop => enabled
  /\ main \in {"ramp", "preroll"} => ~started
  /\ main = "discard" => seeking /\ enabled
  /\ main \in {"wait", "check"} => ~seeking
  /\ stop => ~started
  /\ main = "draining" => reader = "none"
  /\ main \in {"closed", "ramp"} => reader = "none" /\ chunk = 0 /\ stream = 0
  /\ ~alive /\ ~stop => chunk = 0 /\ stream = 0
  /\ reader = "read" => chunk = 0

\* Nothing is in the descriptors before the output is started; it is not
\* started during a fast-forward, nor has the clock counted anything then.
SilentInv ==
  /\ ~started /\ ~stop => pending = 0 /\ \A d \in 1 .. Len(dma) : dma[d] = 0
  /\ ~alive /\ ~stop => played = 0
  /\ seeking /\ ~stop => ~started
  /\ main = "ramp" => left = Total /\ discarded = 0 /\ played = 0
  /\ main = "preroll" /\ ~seeking => played = 0

IInv == CountersInv /\ StageInv /\ SilentInv /\ ClockExact

-----------------------------------------------------------------------------
LEMMA Sizes ==
  /\ Total \in Nat \ {0} /\ Capacity \in Nat \ {0} /\ Chunk \in Nat \ {0}
  /\ Dma \in Nat \ {0} /\ Descriptors \in Nat \ {0}
  /\ FrameSamples \in Nat \ {0} /\ Seeks \subseteq Nat
BY AudioAssumption

\* The smaller of two numbers.
LEMMA MinOfTwo ==
  ASSUME NEW a \in Int, NEW b \in Int
  PROVE  Min({a, b}) \in {a, b} /\ Min({a, b}) <= a /\ Min({a, b}) <= b
<1>1. \E x \in {a, b} : \A y \in {a, b} : x <= y
  <2>1. CASE a <= b  BY <2>1
  <2>2. CASE b <= a  BY <2>2
  <2>3. QED  BY <2>1, <2>2
<1>2. /\ Min({a, b}) \in {a, b}
      /\ \A y \in {a, b} : Min({a, b}) <= y
  BY <1>1 DEF Min
<1>3. QED  BY <1>2

\* What the interrupt does to the descriptors.
LEMMA Descriptor ==
  ASSUME CountersInv, NEW t \in Nat
  PROVE  /\ Completed \in Nat
         /\ Append(Tail(dma), t) \in Seq(Nat)
         /\ Len(Append(Tail(dma), t)) = Descriptors
         /\ (\A d \in 1 .. Len(dma) : dma[d] = 0) =>
              /\ Completed = 0
              /\ t = 0 => \A d \in 1 .. Descriptors :
                            Append(Tail(dma), t)[d] = 0
<1>1. /\ dma \in Seq(Nat) /\ Len(dma) = Descriptors /\ dma # <<>>
      /\ Descriptors \in Nat \ {0}
  BY Sizes, EmptySeq DEF CountersInv
<1>2. /\ Head(dma) \in Nat /\ Head(dma) = dma[1] /\ Tail(dma) \in Seq(Nat)
      /\ Len(Tail(dma)) = Descriptors - 1
      /\ \A i \in 1 .. Len(Tail(dma)) : Tail(dma)[i] = dma[i + 1]
  BY <1>1, HeadTailProperties
<1>3. /\ Append(Tail(dma), t) \in Seq(Nat)
      /\ Len(Append(Tail(dma), t)) = Len(Tail(dma)) + 1
      /\ \A i \in 1 .. Len(Tail(dma)) : Append(Tail(dma), t)[i] = Tail(dma)[i]
      /\ Append(Tail(dma), t)[Len(Tail(dma)) + 1] = t
  BY <1>2, AppendProperties
<1>4. ASSUME \A d \in 1 .. Len(dma) : dma[d] = 0 PROVE Completed = 0
  <2>1. 1 \in 1 .. Len(dma)  BY <1>1
  <2>2. QED  BY <1>2, <1>4, <2>1 DEF Completed
<1>5. ASSUME \A d \in 1 .. Len(dma) : dma[d] = 0, t = 0,
             NEW d \in 1 .. Descriptors
      PROVE  Append(Tail(dma), t)[d] = 0
  <2>1. CASE d = Descriptors
    <3>1. d = Len(Tail(dma)) + 1  BY <1>1, <1>2, <2>1
    <3>2. QED  BY <1>3, <1>5, <3>1, Zenon
  <2>2. CASE d # Descriptors
    <3>1. d \in 1 .. Len(Tail(dma)) /\ d + 1 \in 1 .. Len(dma)
      BY <1>1, <1>2, <2>2
    <3>2. QED  BY <1>2, <1>3, <1>5, <3>1, Zenon
  <2>3. QED  BY <2>1, <2>2
<1>6. QED  BY <1>1, <1>2, <1>3, <1>4, <1>5 DEF Completed

LEMMA IInvInit == Init => IInv
<1> SUFFICES ASSUME Init PROVE IInv  OBVIOUS
<1>1. dma \in Seq(Nat) /\ Len(dma) = Descriptors
      /\ \A d \in 1 .. Len(dma) : dma[d] = 0
  <2>1. Silent \in [1 .. Descriptors -> Nat]  BY DEF Silent
  <2>2. Silent \in Seq(Nat)  BY <2>1, Sizes, SeqDef
  <2>3. QED  BY <2>2, Sizes, LenProperties DEF Init, Silent
<1>2. CountersInv
  <2>1. {seeking, enabled, started, stop, alive, pdm} \subseteq BOOLEAN
    BY Zenon DEF Init
  <2>2. Total \in Nat /\ 0 \in Nat /\ 0 \in Int /\ 0 <= Capacity  BY Sizes
  <2>3. QED  BY <1>1, <2>1, <2>2, Zenon DEF Init, CountersInv
<1>3. StageInv  BY DEF Init, StageInv
<1>4. SilentInv  BY <1>1 DEF Init, SilentInv
<1>5. ClockExact  BY DEF Init, ClockExact
<1>6. QED  BY <1>2, <1>3, <1>4, <1>5 DEF IInv

-----------------------------------------------------------------------------
(* The reader and the output.                                              *)

\* A step of the reader moves samples towards the stream, and keeps their sum
\* unless it is asked to stop.
LEMMA ReaderMoves ==
  ASSUME IInv, UNCHANGED <<mainVars, alive, outputVars>>,
         reader # "none", reader' \notin {"none"},
         left' \in Nat, chunk' \in Nat, stream' \in Nat, stream' <= Capacity,
         stop \/ left' + chunk' + stream' = left + chunk + stream,
         reader' = "read" => chunk' = 0
  PROVE  IInv'
<1> USE DEF mainVars, outputVars
<1>1. alive  BY DEF IInv, StageInv
<1>2. CountersInv'  BY DEF IInv, CountersInv
<1>3. StageInv'  BY <1>1 DEF IInv, StageInv
<1>4. SilentInv'
  <2>1. main # "ramp"  BY DEF IInv, StageInv
  <2>2. QED  BY <1>1, <2>1 DEF IInv, SilentInv
<1>5. ClockExact'
  BY Sizes DEF IInv, CountersInv, ClockExact, Counted
<1>6. QED  BY <1>2, <1>3, <1>4, <1>5 DEF IInv

LEMMA ReadChunkStep == IInv /\ ReadChunk => IInv'
<1> SUFFICES ASSUME IInv, ReadChunk PROVE IInv'  OBVIOUS
<1>1. /\ reader = "read" /\ reader' \in {"send", "publish"}
      /\ UNCHANGED <<mainVars, alive, stream, outputVars>>
  BY DEF ReadChunk, streamVars
<1>2. left \in Nat /\ chunk = 0 /\ stream \in Nat /\ stream <= Capacity
  BY <1>1 DEF IInv, CountersInv, StageInv
<1>3. CASE left > 0 /\ chunk' = Min({Chunk, left}) /\ left' = left - chunk'
  <2>1. chunk' \in {Chunk, left} /\ chunk' <= left
    <3>1. Chunk \in Int /\ left \in Int  BY <1>2, Sizes
    <3>2. Min({Chunk, left}) \in {Chunk, left} /\ Min({Chunk, left}) <= left
      BY <3>1, MinOfTwo, Zenon
    <3>3. QED  BY <1>3, <3>2
  <2>2. chunk' \in Nat /\ left' \in Nat  BY <1>2, <1>3, <2>1, Sizes
  <2>3. left' + chunk' + stream' = left + chunk + stream
    BY <1>1, <1>2, <1>3, <2>2
  <2>4. QED  BY <1>1, <1>2, <2>2, <2>3, ReaderMoves
<1>4. CASE UNCHANGED <<left, chunk>>
  BY <1>1, <1>2, <1>4, ReaderMoves
<1>5. QED  BY <1>3, <1>4 DEF ReadChunk

LEMMA SendChunkStep == IInv /\ SendChunk => IInv'
<1> SUFFICES ASSUME IInv, SendChunk PROVE IInv'  OBVIOUS
<1>1. /\ reader = "send" /\ reader' \in {"read", "level"}
      /\ UNCHANGED <<mainVars, alive, left, outputVars>>
  BY DEF SendChunk
<1>2. /\ left \in Nat /\ chunk \in Nat /\ stream \in Nat /\ stream <= Capacity
      /\ Capacity \in Nat
  BY Sizes DEF IInv, CountersInv
<1>3. CASE stop /\ chunk' = 0 /\ UNCHANGED stream
  BY <1>1, <1>2, <1>3, ReaderMoves
<1>4. CASE /\ stream' = stream + Accepted /\ chunk' = chunk - Accepted
           /\ reader' = "level"
  <2>1. Accepted \in Nat /\ Accepted <= chunk /\ Accepted <= Capacity - stream
    <3> DEFINE room == Capacity - stream
    <3>1. chunk \in Int /\ room \in Int /\ room >= 0  BY <1>2
    <3> HIDE DEF room
    <3>2. /\ Min({chunk, room}) \in {chunk, room}
          /\ Min({chunk, room}) <= chunk /\ Min({chunk, room}) <= room
      BY <3>1, MinOfTwo, Zenon
    <3>3. /\ Min({chunk, room}) \in Nat
          /\ Min({chunk, room}) <= chunk /\ Min({chunk, room}) <= room
      BY <1>2, <3>1, <3>2
    <3>4. QED  BY <3>3 DEF Accepted, room
  <2>2. /\ stream' \in Nat /\ stream' <= Capacity /\ chunk' \in Nat
        /\ left' + chunk' + stream' = left + chunk + stream
    BY <1>1, <1>2, <1>4, <2>1
  <2>3. QED  BY <1>1, <1>2, <1>4, <2>2, ReaderMoves
<1>5. QED  BY <1>3, <1>4 DEF SendChunk

LEMMA ReaderStep == IInv /\ Reader => IInv'
<1> SUFFICES ASSUME IInv, Reader PROVE IInv'  OBVIOUS
<1>1. CASE SendChunk  BY <1>1, SendChunkStep
<1>2. CASE CheckLevel \/ PublishResult \/ PublishEof
  <2>1. /\ reader # "none" /\ reader' # "none"
        /\ reader' = "read" => ~(chunk > 0)
        /\ UNCHANGED <<mainVars, alive, left, chunk, stream, outputVars>>
    BY <1>2 DEF CheckLevel, PublishResult, PublishEof, streamVars
  <2>2. left \in Nat /\ chunk \in Nat /\ stream \in Nat /\ stream <= Capacity
    BY DEF IInv, CountersInv
  <2>3. QED  BY <2>1, <2>2, ReaderMoves
<1>3. QED  BY <1>1, <1>2 DEF Reader

\* What the interrupt takes from the stream goes into a descriptor, and what
\* the clock counts comes out of one.
LEMMA PdmSentStep == IInv /\ onAudioPdmSent => IInv'
<1> SUFFICES ASSUME IInv, onAudioPdmSent PROVE IInv'  OBVIOUS
<1>1. /\ played' = played + Completed /\ dma' = Append(Tail(dma), Taken)
      /\ pending' = pending - Completed + Taken /\ stream' = stream - Taken
      /\ UNCHANGED <<mainVars, readerVars, alive, pdm>>
  BY DEF onAudioPdmSent
<1>2. alive /\ Capacity \in Nat /\ Dma \in Nat
  BY Sizes DEF onAudioPdmSent, IInv, StageInv
<1>3. /\ stream \in Nat /\ stream <= Capacity /\ pending \in Int
      /\ played \in Nat /\ discarded \in Nat /\ left \in Nat /\ chunk \in Nat
  BY DEF IInv, CountersInv
<1>4. Taken \in Nat /\ Taken <= stream /\ (~started => Taken = 0)
  <2>1. Min({Dma, stream}) \in Nat /\ Min({Dma, stream}) <= stream
    <3>1. Dma \in Int /\ stream \in Int  BY <1>2, <1>3
    <3>2. /\ Min({Dma, stream}) \in {Dma, stream}
          /\ Min({Dma, stream}) <= stream
      BY <3>1, MinOfTwo, Zenon
    <3>3. QED  BY <1>2, <1>3, <3>2
  <2>2. QED  BY <1>3, <2>1 DEF Taken, TakesSamples
<1>5. /\ Completed \in Nat /\ dma' \in Seq(Nat) /\ Len(dma') = Descriptors
      /\ (\A d \in 1 .. Len(dma) : dma[d] = 0) =>
           /\ Completed = 0
           /\ Taken = 0 => \A d \in 1 .. Descriptors : dma'[d] = 0
  BY <1>1, <1>4, Descriptor DEF IInv
<1> HIDE DEF Taken, Completed
<1>6. CountersInv'
  BY <1>1, <1>2, <1>3, <1>4, <1>5 DEF mainVars, readerVars, IInv, CountersInv
<1>7. StageInv'
  <2>1. main \in {"closed", "ramp"} => Taken = 0
    BY <1>2, <1>4 DEF IInv, StageInv
  <2>2. stream' = IF main \in {"closed", "ramp"} THEN stream ELSE stream'
    BY <1>1, <1>3, <2>1
  <2>3. QED
    BY <1>1, <1>2, <2>2 DEF mainVars, readerVars, IInv, StageInv
<1>8. ASSUME ~started, ~stop
      PROVE  /\ pending' = 0 /\ played' = played
             /\ \A d \in 1 .. Len(dma') : dma'[d] = 0
  <2>1. pending = 0 /\ \A d \in 1 .. Len(dma) : dma[d] = 0
    BY <1>8 DEF IInv, SilentInv
  <2>2. Completed = 0 /\ Taken = 0  BY <1>4, <1>5, <1>8, <2>1
  <2>3. QED  BY <1>1, <1>3, <1>5, <2>1, <2>2
<1>9. SilentInv'
  <2>1. main \in {"ramp", "preroll"} => ~started /\ ~stop
    BY DEF IInv, StageInv
  <2>2. QED
    BY <1>1, <1>2, <1>8, <2>1 DEF mainVars, readerVars, IInv, SilentInv
<1>10. ClockExact'
  <2>1. SUFFICES ASSUME ~stop
                 PROVE  left + chunk + stream' + pending'
                          + (IF seeking THEN discarded ELSE played') = Total
    BY <1>1 DEF mainVars, readerVars, ClockExact, Counted
  <2>2. left + chunk + stream + pending
          + (IF seeking THEN discarded ELSE played) = Total
    BY <1>2, <2>1 DEF IInv, ClockExact, Counted
  <2>3. CASE seeking
    <3>1. ~started  BY <2>1, <2>3 DEF IInv, SilentInv
    <3>2. pending = 0 /\ pending' = 0 /\ Taken = 0
      BY <1>4, <1>8, <2>1, <3>1 DEF IInv, SilentInv
    <3>3. QED  BY <1>1, <1>3, <2>2, <2>3, <3>2
  <2>4. CASE ~seeking
    BY <1>1, <1>3, <1>4, <1>5, <2>2, <2>4, Sizes
  <2>5. QED  BY <2>3, <2>4
<1>11. QED  BY <1>6, <1>7, <1>9, <1>10 DEF IInv

-----------------------------------------------------------------------------
(* The main loop.                                                          *)

LEMMA OpenVideoStep == IInv /\ OpenVideo => IInv'
<1> SUFFICES ASSUME IInv, OpenVideo PROVE IInv'  OBVIOUS
<1>1. /\ main = "closed" /\ frame' = 0 /\ discarded' = 0 /\ left' = Total
      /\ seeking' = (target' > 0) /\ target' \in Seeks \cup {0}
      /\ UNCHANGED <<after, enabled, started, stop, reader, chunk, stream,
                     dma, pending, played>>
  BY DEF OpenVideo
<1>2. \/ alive' = TRUE /\ pdm' = TRUE /\ main' = "ramp"
      \/ main' = "frame" /\ UNCHANGED <<alive, pdm>>
  BY DEF OpenVideo
<1>3. /\ ~alive /\ ~stop /\ ~started /\ ~enabled /\ reader = "none"
      /\ chunk = 0 /\ stream = 0 /\ pending = 0 /\ played = 0
  BY <1>1 DEF IInv, StageInv, SilentInv
<1>4. seeking' \in BOOLEAN  BY <1>1
<1>5. alive' \in BOOLEAN /\ pdm' \in BOOLEAN
  BY <1>2, Zenon DEF IInv, CountersInv
<1>6. CountersInv'
  <2>1. {seeking, enabled, started, stop, alive, pdm}' \subseteq BOOLEAN
    BY <1>1, <1>4, <1>5, Zenon DEF IInv, CountersInv
  <2>2. QED  BY <1>1, <2>1, Sizes DEF IInv, CountersInv
<1>7. StageInv'
  BY <1>1, <1>2, <1>3 DEF IInv, StageInv
<1>8. SilentInv'
  BY <1>1, <1>2, <1>3 DEF IInv, SilentInv
<1>9. ClockExact'
  BY <1>1, <1>3, Sizes DEF ClockExact, Counted
<1>10. QED  BY <1>6, <1>7, <1>8, <1>9 DEF IInv

LEMMA StartReaderStep == IInv /\ StartReader => IInv'
<1> SUFFICES ASSUME IInv, StartReader PROVE IInv'  OBVIOUS
<1>1. /\ main = "ramp" /\ enabled' = TRUE /\ reader' = "read"
      /\ main' = "preroll"
      /\ UNCHANGED <<after, frame, seeking, target, discarded, started, stop,
                     left, chunk, alive, stream, pdm, dma, pending, played>>
  BY DEF StartReader, streamVars, outputVars
<1>2. alive /\ ~stop /\ ~started /\ chunk = 0 /\ played = 0
  BY <1>1 DEF IInv, StageInv, SilentInv
<1>3. CountersInv'  BY <1>1 DEF IInv, CountersInv
<1>4. StageInv'  BY <1>1, <1>2 DEF IInv, StageInv
<1>5. SilentInv'  BY <1>1, <1>2 DEF IInv, SilentInv
<1>6. ClockExact'  BY <1>1 DEF IInv, ClockExact, Counted
<1>7. QED  BY <1>3, <1>4, <1>5, <1>6 DEF IInv

\* From wherever the audio is stopped, nothing is promised of the samples.
LEMMA StopStep ==
  ASSUME IInv, NEW next \in {"frame", "closed"}, StopAudio(next),
         alive \/ main = "frame", seeking' \in BOOLEAN,
         UNCHANGED <<frame, discarded, enabled, reader, left, chunk, alive,
                     stream, pdm, dma, pending, played>>
  PROVE  IInv'
<1>1. /\ main' = "stopping" /\ after' = next /\ started' = FALSE
      /\ stop' = TRUE
  BY DEF StopAudio
<1>2. CountersInv'
  <2>1. {seeking, enabled, started, stop, alive, pdm}' \subseteq BOOLEAN
    BY <1>1, Zenon DEF IInv, CountersInv
  <2>2. QED  BY <2>1 DEF IInv, CountersInv
<1>3. StageInv'  BY <1>1 DEF IInv, StageInv
<1>4. SilentInv'  BY <1>1 DEF SilentInv
<1>5. ClockExact'  BY <1>1 DEF ClockExact
<1>6. QED  BY <1>2, <1>3, <1>4, <1>5 DEF IInv

\* Steps between the pictures that move no sample.
LEMMA PaceStep ==
  ASSUME IInv, alive, ~stop, main' \in {"frame", "wait", "check"},
         main \in {"preroll", "frame", "wait", "check"},
         enabled, main' # "frame" => ~seeking,
         frame' \in Nat, started' \in BOOLEAN, started' => ~seeking,
         started => started',
         UNCHANGED <<after, seeking, target, discarded, enabled, stop, reader,
                     left, chunk, alive, stream, pdm, dma, pending, played>>
  PROVE  IInv'
<1>1. CountersInv'
  <2>1. {seeking, enabled, started, stop, alive, pdm}' \subseteq BOOLEAN
    BY Zenon DEF IInv, CountersInv
  <2>2. QED  BY <2>1 DEF IInv, CountersInv
<1>2. StageInv'  BY DEF IInv, StageInv
<1>3. SilentInv'  BY DEF IInv, SilentInv
<1>4. ClockExact'  BY DEF IInv, ClockExact, Counted
<1>5. QED  BY <1>1, <1>2, <1>3, <1>4 DEF IInv

LEMMA FinishPrerollStep == IInv /\ FinishPreroll => IInv'
<1> SUFFICES ASSUME IInv, FinishPreroll PROVE IInv'  OBVIOUS
<1>1. /\ main = "preroll"
      /\ UNCHANGED <<frame, seeking, target, discarded, enabled, reader, left,
                     chunk, alive, stream, pdm, dma, pending, played>>
  BY DEF FinishPreroll, readerVars, streamVars
<1>2. alive /\ ~stop /\ ~started /\ frame \in Nat /\ seeking \in BOOLEAN
  BY <1>1 DEF IInv, StageInv, CountersInv
<1>3. CASE StopAudio("frame")  BY <1>1, <1>2, <1>3, StopStep
<1>4. CASE main' = "frame" /\ UNCHANGED <<after, started, stop>>
  <2>1. CountersInv'  BY <1>1, <1>4 DEF IInv, CountersInv
  <2>2. StageInv'  BY <1>1, <1>2, <1>4 DEF IInv, StageInv
  <2>3. SilentInv'  BY <1>1, <1>2, <1>4 DEF IInv, SilentInv
  <2>4. ClockExact'  BY <1>1, <1>4 DEF IInv, ClockExact, Counted
  <2>5. QED  BY <2>1, <2>2, <2>3, <2>4 DEF IInv
<1>5. QED  BY <1>3, <1>4 DEF FinishPreroll

LEMMA BeginPresentationStep == IInv /\ BeginPresentation => IInv'
<1> SUFFICES ASSUME IInv, BeginPresentation PROVE IInv'  OBVIOUS
<1>1. /\ main = "frame"
      /\ UNCHANGED <<after, target, discarded, enabled, stop, reader, left,
                     chunk, alive, stream, pdm, dma, pending, played>>
  BY DEF BeginPresentation, readerVars, outputVars
<1>2. /\ ~stop /\ (alive <=> enabled) /\ frame \in Nat /\ started \in BOOLEAN
      /\ enabled \in BOOLEAN
  BY <1>1 DEF IInv, StageInv, CountersInv
<1>3. CASE /\ seeking /\ frame' = frame + 1
           /\ main' = IF enabled THEN "discard" ELSE "frame"
           /\ seeking' = (enabled \/ frame' < target)
           /\ UNCHANGED started
  <2>1. seeking' \in BOOLEAN /\ (enabled => seeking') /\ ~started
    BY <1>2, <1>3 DEF IInv, SilentInv
  <2>2. CountersInv'
    <3>1. {seeking, enabled, started, stop, alive, pdm}' \subseteq BOOLEAN
      BY <1>1, <1>3, <2>1, Zenon DEF IInv, CountersInv
    <3>2. QED  BY <1>1, <1>2, <1>3, <3>1 DEF IInv, CountersInv
  <2>3. StageInv'
    <3>1. CASE enabled
      <4>1. main' = "discard" /\ seeking' /\ enabled' /\ alive
        BY <1>1, <1>2, <1>3, <2>1, <3>1
      <4>2. QED  BY <1>1, <1>2, <1>3, <2>1, <4>1 DEF IInv, StageInv
    <3>2. CASE ~enabled
      <4>1. main' = main /\ ~alive  BY <1>1, <1>2, <1>3, <3>2
      <4>2. QED  BY <1>1, <1>2, <1>3, <2>1, <4>1 DEF IInv, StageInv
    <3>3. QED  BY <1>2, <3>1, <3>2
  <2>4. SilentInv'  BY <1>1, <1>2, <1>3, <2>1 DEF IInv, SilentInv
  <2>5. ClockExact'
    <3>1. ASSUME alive
          PROVE  left + chunk + stream + pending + discarded = Total /\ seeking'
      BY <1>2, <1>3, <2>1, <3>1 DEF IInv, ClockExact, Counted
    <3>2. QED  BY <1>1, <3>1 DEF ClockExact, Counted
  <2>6. QED  BY <2>2, <2>3, <2>4, <2>5 DEF IInv
<1>4. CASE /\ ~seeking /\ enabled /\ started' = TRUE /\ main' = "wait"
           /\ UNCHANGED <<frame, seeking>>
  BY <1>1, <1>2, <1>4, PaceStep
<1>5. CASE /\ ~seeking /\ ~enabled /\ frame' = frame + 1
           /\ UNCHANGED <<main, seeking, started>>
  <2>1. CountersInv'  BY <1>1, <1>2, <1>5 DEF IInv, CountersInv
  <2>2. StageInv'  BY <1>1, <1>5 DEF IInv, StageInv
  <2>3. SilentInv'  BY <1>1, <1>5 DEF IInv, SilentInv
  <2>4. ClockExact'  BY <1>1, <1>5 DEF IInv, ClockExact, Counted
  <2>5. QED  BY <2>1, <2>2, <2>3, <2>4 DEF IInv
<1>6. QED  BY <1>3, <1>4, <1>5 DEF BeginPresentation

LEMMA DiscardAudioStep == IInv /\ DiscardAudio => IInv'
<1> SUFFICES ASSUME IInv, DiscardAudio PROVE IInv'  OBVIOUS
<1>1. /\ main = "discard"
      /\ UNCHANGED <<frame, target, enabled, reader, left, chunk, alive, pdm,
                     dma, pending>>
  BY DEF DiscardAudio, readerVars
<1>2. /\ alive /\ ~stop /\ seeking /\ enabled /\ ~started
      /\ pending = 0 /\ \A d \in 1 .. Len(dma) : dma[d] = 0
  BY <1>1 DEF IInv, StageInv, SilentInv
<1>3. /\ left \in Nat /\ chunk \in Nat /\ stream \in Nat /\ stream <= Capacity
      /\ discarded \in Nat /\ played \in Nat /\ frame \in Nat
      /\ frame * FrameSamples \in Int
      /\ left + chunk + stream + pending + discarded = Total
  BY <1>2, Sizes DEF IInv, CountersInv, ClockExact, Counted
<1>4. CASE /\ main' = "frame" /\ seeking' = (frame < target)
           /\ played' = IF seeking' THEN played ELSE discarded
           /\ UNCHANGED <<after, started, stop, discarded, stream>>
  <2>1. seeking' \in BOOLEAN  BY <1>4
  <2>2. played' \in Nat  BY <1>3, <1>4
  <2>3. CountersInv'
    <3>1. {seeking, enabled, started, stop, alive, pdm}' \subseteq BOOLEAN
      BY <1>1, <1>4, <2>1, Zenon DEF IInv, CountersInv
    <3>2. QED  BY <1>1, <1>4, <2>2, <3>1 DEF IInv, CountersInv
  <2>4. StageInv'  BY <1>1, <1>2, <1>4 DEF IInv, StageInv
  <2>5. SilentInv'  BY <1>1, <1>2, <1>4 DEF IInv, SilentInv
  <2>6. Counted' = discarded
    <3>1. CASE seeking'  BY <1>4, <3>1, Zenon DEF Counted
    <3>2. CASE ~seeking'  BY <1>4, <3>2, Zenon DEF Counted
    <3>3. QED  BY <3>1, <3>2
  <2>7. ClockExact'
    <3>1. left' + chunk' + stream' + pending' + discarded = Total
      BY <1>1, <1>3, <1>4
    <3>2. QED  BY <2>6, <3>1, Zenon DEF ClockExact
  <2>8. QED  BY <2>3, <2>4, <2>5, <2>7 DEF IInv
<1>5. CASE /\ discarded < frame * FrameSamples
           /\ discarded' = Min({discarded + stream, frame * FrameSamples})
           /\ stream' = stream - (discarded' - discarded)
           /\ UNCHANGED <<main, after, started, stop, seeking, played>>
  <2> DEFINE a == discarded + stream
             b == frame * FrameSamples
  <2>1. a \in Int /\ b \in Int /\ discarded < b /\ discarded <= a
    BY <1>3, <1>5
  <2>2. discarded' = Min({a, b})  BY <1>5
  <2>3. a = discarded + stream  OBVIOUS
  <2> HIDE DEF a, b
  <2>4. Min({a, b}) \in {a, b} /\ Min({a, b}) <= a
    BY <2>1, MinOfTwo, Zenon
  <2>5. /\ discarded' \in Nat /\ stream' \in Nat /\ stream' <= Capacity
        /\ stream' + discarded' = stream + discarded
    BY <1>3, <1>5, <2>1, <2>2, <2>3, <2>4, Sizes
  <2>6. CountersInv'  BY <1>1, <1>5, <2>5 DEF IInv, CountersInv
  <2>7. StageInv'  BY <1>1, <1>2, <1>5 DEF IInv, StageInv
  <2>8. SilentInv'  BY <1>1, <1>2, <1>5 DEF IInv, SilentInv
  <2>9. Counted' = discarded'  BY <1>2, <1>5 DEF Counted
  <2>10. ClockExact'
    <3>1. left' = left /\ chunk' = chunk /\ pending' = 0 /\ pending = 0
      BY <1>1, <1>2
    <3>2. /\ left \in Nat /\ chunk \in Nat /\ stream \in Nat
          /\ discarded \in Nat /\ discarded' \in Nat /\ stream' \in Nat
      BY <1>3, <2>5
    <3>3. stream' + discarded' = stream + discarded  BY <2>5
    <3>4. left + chunk + stream + pending + discarded = Total  BY <1>3
    <3>5. left + chunk + stream' + 0 + discarded' = Total
      <4> DEFINE s1 == stream'
                 d1 == discarded'
      <4>1. s1 \in Nat /\ d1 \in Nat /\ s1 + d1 = stream + discarded
        BY <3>2, <3>3
      <4>2. left + chunk + stream + 0 + discarded = Total  BY <3>1, <3>4
      <4> HIDE DEF s1, d1
      <4>3. left + chunk + s1 + 0 + d1 = Total  BY <3>2, <4>1, <4>2
      <4>4. QED  BY <4>3 DEF s1, d1
    <3>6. left' + chunk' + stream' + pending' + discarded' = Total
      BY <3>1, <3>5
    <3>7. QED  BY <2>9, <3>6, Zenon DEF ClockExact
  <2>11. QED  BY <2>6, <2>7, <2>8, <2>10 DEF IInv
<1>6. CASE /\ StopAudio("frame") /\ seeking' = (frame < target)
           /\ UNCHANGED <<discarded, stream, played>>
  <2>1. seeking' \in BOOLEAN  BY <1>6
  <2>2. QED  BY <1>1, <1>2, <1>6, <2>1, StopStep
<1>7. QED  BY <1>4, <1>5, <1>6 DEF DiscardAudio

\* The turns of waitForAudioTarget, its deadline, and the end of a picture.
LEMMA WaitStep ==
  IInv /\ (ReadClock \/ CheckTrack \/ ClockTimeout \/ CloseVideo) => IInv'
<1> SUFFICES ASSUME IInv, ReadClock \/ CheckTrack \/ ClockTimeout \/ CloseVideo
             PROVE  IInv'
  OBVIOUS
<1>1. /\ main \in {"wait", "check", "frame"}
      /\ UNCHANGED <<seeking, target, discarded, enabled, reader, left, chunk,
                     alive, stream, pdm, dma, pending, played>>
  BY DEF ReadClock, CheckTrack, ClockTimeout, CloseVideo, readerVars,
         streamVars
<1>2. /\ main # "frame" => alive /\ ~stop /\ ~seeking
      /\ frame \in Nat /\ seeking \in BOOLEAN /\ started \in BOOLEAN
  BY <1>1 DEF IInv, StageInv, CountersInv
<1>3. CASE /\ StopAudio("frame") \/ StopAudio("closed")
           /\ UNCHANGED frame
  <2>1. alive \/ main = "frame"  BY <1>1, <1>2
  <2>2. CASE StopAudio("frame")  BY <1>1, <1>2, <1>3, <2>1, <2>2, StopStep
  <2>3. CASE StopAudio("closed")  BY <1>1, <1>2, <1>3, <2>1, <2>3, StopStep
  <2>4. QED  BY <1>3, <2>2, <2>3
<1>4. CASE /\ main \in {"wait", "check"}
           /\ main' \in {"frame", "wait", "check"}
           /\ frame' \in {frame, frame + 1}
           /\ UNCHANGED <<after, started, stop>>
  <2>1. frame' \in Nat /\ alive /\ ~stop /\ ~seeking
    BY <1>1, <1>2, <1>4
  <2>2. CountersInv'  BY <1>1, <1>4, <2>1 DEF IInv, CountersInv
  <2>3. CASE enabled
    BY <1>1, <1>2, <1>4, <2>1, <2>3, PaceStep
  <2>4. CASE ~enabled
    <3>1. enabled  BY <1>4, <2>1 DEF IInv, StageInv
    <3>2. QED  BY <2>4, <3>1
  <2>5. QED  BY <2>3, <2>4
<1>5. QED
  BY <1>1, <1>3, <1>4 DEF ReadClock, CheckTrack, ClockTimeout, CloseVideo

LEMMA DeleteReaderStep == IInv /\ DeleteReader => IInv'
<1> SUFFICES ASSUME IInv, DeleteReader PROVE IInv'  OBVIOUS
<1>1. /\ main = "stopping" /\ main' = "draining" /\ reader' = "none"
      /\ UNCHANGED <<after, frame, seeking, target, discarded, enabled, started,
                     stop, left, chunk, alive, stream, pdm, dma, pending,
                     played>>
  BY DEF DeleteReader, streamVars, outputVars
<1>2. stop  BY <1>1 DEF IInv, StageInv
<1>3. CountersInv'  BY <1>1 DEF IInv, CountersInv
<1>4. StageInv'  BY <1>1, <1>2 DEF IInv, StageInv
<1>5. SilentInv'  BY <1>1, <1>2 DEF SilentInv
<1>6. ClockExact'  BY <1>1, <1>2 DEF ClockExact
<1>7. QED  BY <1>3, <1>4, <1>5, <1>6 DEF IInv

LEMMA DisableOutputStep == IInv /\ DisableOutput => IInv'
<1> SUFFICES ASSUME IInv, DisableOutput PROVE IInv'  OBVIOUS
<1>1. /\ main = "draining" /\ main' = after
      /\ enabled' = FALSE /\ stop' = FALSE /\ chunk' = 0 /\ alive' = FALSE
      /\ stream' = 0 /\ pdm' = FALSE /\ dma' = Silent /\ pending' = 0
      /\ played' = 0
      /\ UNCHANGED <<after, frame, seeking, target, discarded, started, reader,
                     left>>
  BY DEF DisableOutput
<1>2. reader = "none" /\ ~started /\ after \in {"frame", "closed"}
  BY <1>1 DEF IInv, StageInv
<1>3. dma' \in Seq(Nat) /\ Len(dma') = Descriptors
      /\ \A d \in 1 .. Len(dma') : dma'[d] = 0
  <2>1. Silent \in [1 .. Descriptors -> Nat]  BY DEF Silent
  <2>2. Silent \in Seq(Nat)  BY <2>1, Sizes, SeqDef
  <2>3. QED  BY <1>1, <2>2, Sizes, LenProperties DEF Silent
<1>4. CountersInv'
  <2>1. {seeking, enabled, started, stop, alive, pdm}' \subseteq BOOLEAN
    BY <1>1, Zenon DEF IInv, CountersInv
  <2>2. QED  BY <1>1, <1>3, <2>1, Sizes DEF IInv, CountersInv
<1>5. StageInv'  BY <1>1, <1>2 DEF StageInv
<1>6. SilentInv'  BY <1>1, <1>2, <1>3 DEF SilentInv
<1>7. ClockExact'  BY <1>1 DEF ClockExact
<1>8. QED  BY <1>4, <1>5, <1>6, <1>7 DEF IInv

-----------------------------------------------------------------------------
LEMMA IInvStep == IInv /\ [Next]_vars => IInv'
<1> SUFFICES ASSUME IInv, [Next]_vars PROVE IInv'  OBVIOUS
<1>1. CASE OpenVideo  BY <1>1, OpenVideoStep
<1>2. CASE StartReader  BY <1>2, StartReaderStep
<1>3. CASE FinishPreroll  BY <1>3, FinishPrerollStep
<1>4. CASE BeginPresentation  BY <1>4, BeginPresentationStep
<1>5. CASE DiscardAudio  BY <1>5, DiscardAudioStep
<1>6. CASE ReadClock \/ CheckTrack \/ ClockTimeout \/ CloseVideo
  BY <1>6, WaitStep
<1>7. CASE DeleteReader  BY <1>7, DeleteReaderStep
<1>8. CASE DisableOutput  BY <1>8, DisableOutputStep
<1>9. CASE ReadChunk  BY <1>9, ReadChunkStep
<1>10. CASE Reader  BY <1>10, ReaderStep
<1>11. CASE onAudioPdmSent  BY <1>11, PdmSentStep
<1>12. CASE UNCHANGED vars
  <2> USE <1>12 DEF vars, mainVars, readerVars, streamVars, outputVars
  <2>1. CountersInv'  BY DEF IInv, CountersInv
  <2>2. StageInv'  BY DEF IInv, StageInv
  <2>3. SilentInv'  BY DEF IInv, SilentInv
  <2>4. ClockExact'  BY DEF IInv, ClockExact, Counted
  <2>5. QED  BY <2>1, <2>2, <2>3, <2>4 DEF IInv
<1>13. QED
  BY <1>1, <1>2, <1>3, <1>4, <1>5, <1>6, <1>7, <1>8, <1>9, <1>10, <1>11, <1>12
  DEF Next, MainLoop

\* Reader, output and main loop agree on who uses the stream, and on where
\* the samples are.
THEOREM Inductive == Spec => []IInv
<1>1. Init => IInv  BY IInvInit
<1>2. IInv /\ [Next]_vars => IInv'  BY IInvStep
<1>3. QED  BY <1>1, <1>2, PTL DEF Spec

\* Neither the reader task nor the DMA callback uses a stream buffer that
\* stopAudio has deleted.
THEOREM StreamSafe == Spec => []StreamOutlivesUsers
<1>1. IInv => StreamOutlivesUsers
  BY DEF IInv, StageInv, StreamOutlivesUsers
<1>2. QED  BY <1>1, Inductive, PTL

-----------------------------------------------------------------------------
(* The samples in the descriptors.                                         *)

\* A set of natural numbers with 0 and every successor has all of them: if
\* not, the least missing one is the successor of one that is there.
LEMMA Induct ==
  ASSUME NEW T, 0 \in T, \A n \in Nat : n \in T => n + 1 \in T
  PROVE  Nat \subseteq T
<1> DEFINE R == {ss \in Nat \X Nat : ss[1] < ss[2]}
<1>1. IsWellFoundedOn(R, Nat)  BY NatLessThanWellFounded DEF OpToRel
<1> DEFINE M == Nat \ T
<1>2. SUFFICES ASSUME M # {} PROVE FALSE  OBVIOUS
<1>3. PICK x \in M : \A y \in M : ~ (<<y, x>> \in R)
  <2> HIDE DEF R
  <2>1. M \in SUBSET Nat  OBVIOUS
  <2> HIDE DEF M
  <2>2. QED  BY <1>1, <1>2, <2>1, WFMin
<1>4. x \in Nat /\ x # 0 /\ x \notin T /\ x - 1 \in Nat /\ x - 1 < x
  OBVIOUS
<1>5. <<x - 1, x>> \in R  BY <1>4
<1>6. x - 1 \in T  BY <1>3, <1>4, <1>5
<1>7. (x - 1) + 1 = x  BY <1>4
<1>8. QED  BY <1>4, <1>6, <1>7

\* s has the sums of the first n numbers of q, for n up to m.
Sums(s, q, m) ==
  s = [n \in 0 .. m |-> IF n = 0 THEN 0 ELSE s[n - 1] + q[n]]

LEMMA SumsExist ==
  ASSUME NEW q, NEW m \in Nat
  PROVE  \E s : Sums(s, q, m)
<1> DEFINE T == {k \in Nat : \E s : Sums(s, q, k)}
<1>1. 0 \in T
  <2> DEFINE z == [n \in 0 .. 0 |-> 0]
  <2>1. Sums(z, q, 0)  BY DEF Sums
  <2>2. QED  BY <2>1
<1>2. ASSUME NEW k \in Nat, k \in T PROVE k + 1 \in T
  <2>1. PICK s : Sums(s, q, k)  BY <1>2
  <2> DEFINE t == [n \in 0 .. k + 1 |->
                     IF n = k + 1 THEN s[k] + q[k + 1] ELSE s[n]]
  <2>2. ASSUME NEW n \in 0 .. k + 1
        PROVE  t[n] = IF n = 0 THEN 0 ELSE t[n - 1] + q[n]
    <3>1. CASE n = k + 1
      <4>1. t[n] = s[k] + q[k + 1] /\ t[n - 1] = s[k]  BY <3>1
      <4>2. QED  BY <3>1, <4>1
    <3>2. CASE n \in 0 .. k
      <4>1. t[n] = s[n] /\ (n # 0 => t[n - 1] = s[n - 1])  BY <3>2
      <4>2. s[n] = IF n = 0 THEN 0 ELSE s[n - 1] + q[n]
        BY <2>1, <3>2 DEF Sums
      <4>3. QED  BY <4>1, <4>2
    <3>3. QED  BY <3>1, <3>2
  <2>3. t = [n \in 0 .. k + 1 |-> t[n]]  OBVIOUS
  <2> HIDE DEF t
  <2>4. t = [n \in 0 .. k + 1 |-> IF n = 0 THEN 0 ELSE t[n - 1] + q[n]]
    BY <2>2, <2>3
  <2>5. Sums(t, q, k + 1)  BY <2>4 DEF Sums
  <2>6. QED  BY <2>5
<1> HIDE DEF T
<1>3. Nat \subseteq T  BY <1>1, <1>2, Induct
<1>4. QED  BY <1>3 DEF T

\* The recursive definition of Queued has a value.
LEMMA QueuedSums ==
  ASSUME NEW q, Len(q) \in Nat
  PROVE  \E s : Sums(s, q, Len(q)) /\ Queued(q) = s[Len(q)]
<1> DEFINE c == CHOOSE s : Sums(s, q, Len(q))
<1>1. Sums(c, q, Len(q))  BY SumsExist
<1>2. Queued(q) = c[Len(q)]  BY DEF Queued, Sums
<1>3. QED  BY <1>1, <1>2

\* The sum of at most as many numbers as there are descriptors is bounded.
LEMMA QueuedBound ==
  ASSUME NEW b \in Nat, NEW q \in Seq(0 .. b)
  PROVE  Queued(q) \in 0 .. Len(q) * b
<1>1. Len(q) \in Nat /\ \A i \in 1 .. Len(q) : q[i] \in 0 .. b
  BY ElementOfSeq
<1>2. PICK s : Sums(s, q, Len(q)) /\ Queued(q) = s[Len(q)]
  BY <1>1, QueuedSums
<1> DEFINE T == {n \in Nat : n <= Len(q) => s[n] \in 0 .. n * b}
<1>3. 0 \in T
  <2>1. s[0] = 0  BY <1>1, <1>2 DEF Sums
  <2>2. QED  BY <2>1
<1>4. ASSUME NEW n \in Nat, n \in T PROVE n + 1 \in T
  <2>1. SUFFICES ASSUME n + 1 <= Len(q) PROVE s[n + 1] \in 0 .. (n + 1) * b
    OBVIOUS
  <2>2. s[n + 1] = s[n] + q[n + 1]
    <3>1. n + 1 \in 0 .. Len(q) /\ n + 1 # 0 /\ (n + 1) - 1 = n  BY <1>1, <2>1
    <3>2. QED  BY <1>2, <3>1 DEF Sums
  <2>3. s[n] \in 0 .. n * b /\ q[n + 1] \in 0 .. b  BY <1>1, <1>4, <2>1
  <2>4. (n + 1) * b = n * b + b /\ n * b \in Nat  BY SMT
  <2>5. QED  BY <2>2, <2>3, <2>4
<1> HIDE DEF T
<1>5. Nat \subseteq T  BY <1>3, <1>4, Induct
<1>6. QED  BY <1>1, <1>2, <1>5 DEF T

\* What the interrupt does to the sum: the first descriptor leaves, a new one
\* enters.
LEMMA QueuedShift ==
  ASSUME NEW q \in Seq(Nat), Len(q) > 0, NEW t \in Nat
  PROVE  Queued(Append(Tail(q), t)) = Queued(q) - Head(q) + t
<1> DEFINE r == Append(Tail(q), t)
           m == Len(q)
<1>1. /\ m \in Nat /\ m > 0 /\ Len(r) = m /\ r[m] = t /\ Head(q) = q[1]
      /\ \A i \in 1 .. m : q[i] \in Nat
      /\ \A i \in 1 .. m - 1 : r[i] = q[i + 1]
  <2>1. q # <<>>  BY EmptySeq
  <2>2. /\ Tail(q) \in Seq(Nat) /\ Len(Tail(q)) = m - 1 /\ Head(q) = q[1]
        /\ \A i \in 1 .. Len(Tail(q)) : Tail(q)[i] = q[i + 1]
    BY <2>1, HeadTailProperties
  <2>3. /\ Len(r) = Len(Tail(q)) + 1
        /\ \A i \in 1 .. Len(Tail(q)) : r[i] = Tail(q)[i]
        /\ r[Len(Tail(q)) + 1] = t
    BY <2>2, AppendProperties
  <2>4. m \in Nat /\ (m - 1) + 1 = m  OBVIOUS
  <2> HIDE DEF r
  <2>5. \A i \in 1 .. m - 1 : r[i] = q[i + 1]  BY <2>2, <2>3
  <2>6. QED  BY <2>2, <2>3, <2>4, <2>5, ElementOfSeq
<1> HIDE DEF r
<1>2. PICK s : Sums(s, q, m) /\ Queued(q) = s[m]  BY <1>1, QueuedSums
<1>3. PICK u : Sums(u, r, m) /\ Queued(r) = u[m]  BY <1>1, QueuedSums
<1> HIDE DEF m
<1>4. /\ s[0] = 0 /\ u[0] = 0
      /\ \A n \in 1 .. m : s[n] = s[n - 1] + q[n] /\ u[n] = u[n - 1] + r[n]
  BY <1>1, <1>2, <1>3 DEF Sums
<1> DEFINE T == {n \in Nat : n <= m - 1 =>
                   /\ s[n] \in Nat /\ s[n + 1] \in Nat
                   /\ u[n] = s[n + 1] - q[1]}
<1>5. 0 \in T
  <2>1. 1 \in 1 .. m /\ 1 - 1 = 0  BY <1>1
  <2>2. s[1] = q[1] /\ q[1] \in Nat  BY <1>1, <1>4, <2>1
  <2>3. QED  BY <1>4, <2>2
<1>6. ASSUME NEW n \in Nat, n \in T PROVE n + 1 \in T
  <2>1. SUFFICES ASSUME n + 1 <= m - 1
                 PROVE  /\ s[n + 1] \in Nat /\ s[n + 2] \in Nat
                        /\ u[n + 1] = s[n + 2] - q[1]
    BY SMT
  <2>2. /\ n + 1 \in 1 .. m - 1 /\ n + 1 \in 1 .. m /\ n + 2 \in 1 .. m
        /\ (n + 2) - 1 = n + 1 /\ (n + 1) - 1 = n /\ (n + 1) + 1 = n + 2
    BY <1>1, <2>1
  <2>3. s[n + 2] = s[n + 1] + q[n + 2] /\ u[n + 1] = u[n] + r[n + 1]
    BY <1>4, <2>2
  <2>4. r[n + 1] = q[n + 2] /\ q[n + 2] \in Nat /\ q[1] \in Nat
    BY <1>1, <2>2
  <2>5. s[n + 1] \in Nat /\ u[n] = s[n + 1] - q[1]  BY <1>6, <2>1, <1>1
  <2> DEFINE a == s[n + 1]
             b == q[n + 2]
             c == q[1]
  <2>6. a \in Nat /\ b \in Nat /\ c \in Nat  BY <2>4, <2>5
  <2>7. s[n + 2] = a + b /\ u[n + 1] = (a - c) + b  BY <2>3, <2>4, <2>5
  <2>8. u[n + 1] = s[n + 2] - c /\ s[n + 2] \in Nat
    <3> HIDE DEF a, b, c
    <3>1. QED  BY <2>6, <2>7
  <2>9. QED  BY <2>5, <2>8
<1> HIDE DEF T
<1>7. m - 1 \in T
  <2>1. m - 1 \in Nat  BY <1>1
  <2>2. QED  BY <2>1, <1>1, <1>5, <1>6, Induct
<1>8. s[m] \in Nat /\ u[m - 1] = s[m] - q[1]
  BY <1>1, <1>7 DEF T
<1>9. u[m] = u[m - 1] + t  BY <1>1, <1>4
<1>10. q[1] \in Nat  BY <1>1
<1>11. QED  BY <1>1, <1>2, <1>3, <1>8, <1>9, <1>10 DEF r

-----------------------------------------------------------------------------
(* Types, and the samples in the descriptors.                              *)

\* Modes and results.
ControlInv ==
  /\ {eof, rebuf, failed} \subseteq BOOLEAN
  /\ target \in Seeks \cup {0}
  /\ reader \in {"none", "read", "send", "level", "publish", "eof", "finished"}
  /\ {ending, result} \subseteq {"ok", "eof", "err"}
  /\ bias \in {"low", "up", "centre", "down"}

\* A picture that waits for the clock is one of the video.
FrameInv ==
  /\ frame <= Frames
  /\ main \in {"wait", "check"} => frame < Frames

\* Nothing the clock counts, or is about to count, exceeds the track; during a
\* fast-forward it has counted nothing.
LevelInv ==
  /\ left <= Total /\ chunk <= Chunk /\ discarded <= Total
  /\ played + pending <= Total
  /\ seeking /\ ~stop => played = 0

\* The descriptors have what is pending.
DmaInv == dma \in Seq(0 .. Dma) /\ PendingExact

RangeInv == ControlInv /\ FrameInv /\ LevelInv /\ DmaInv

\* What the silent descriptors have.
LEMMA QueuedSilent == Silent \in Seq(0 .. Dma) /\ Queued(Silent) = 0
<1>1. Silent \in Seq(0 .. 0)
  <2>1. Silent \in [1 .. Descriptors -> 0 .. 0]  BY DEF Silent
  <2>2. QED  BY <2>1, Sizes, SeqDef
<1>2. Silent \in Seq(0 .. Dma)
  <2>1. Silent \in [1 .. Descriptors -> 0 .. Dma]  BY Sizes DEF Silent
  <2>2. QED  BY <2>1, Sizes, SeqDef
<1>3. Queued(Silent) \in 0 .. Len(Silent) * 0  BY <1>1, QueuedBound
<1>4. Len(Silent) \in Nat  BY <1>1
<1>5. QED  BY <1>2, <1>3, <1>4

LEMMA PendingBound ==
  ASSUME CountersInv, DmaInv
  PROVE  pending \in 0 .. Descriptors * Dma
<1>1. Dma \in Nat /\ Descriptors \in Nat /\ Len(dma) = Descriptors
  BY Sizes DEF CountersInv
<1>2. Queued(dma) \in 0 .. Len(dma) * Dma  BY <1>1, QueuedBound DEF DmaInv
<1>3. QED  BY <1>1, <1>2 DEF DmaInv, PendingExact

LEMMA RangeInit == Init => RangeInv
<1> SUFFICES ASSUME Init PROVE RangeInv  OBVIOUS
<1>1. ControlInv  BY Zenon DEF Init, ControlInv
<1>2. FrameInv
  <2>1. Frames \in Nat  BY AudioAssumption
  <2>2. QED  BY <2>1 DEF Init, FrameInv
<1>3. LevelInv  BY Sizes DEF Init, LevelInv
<1>4. DmaInv  BY QueuedSilent DEF Init, DmaInv, PendingExact
<1>5. QED  BY <1>1, <1>2, <1>3, <1>4 DEF RangeInv

LEMMA ControlStep == ControlInv /\ [Next]_vars => ControlInv'
<1> SUFFICES ASSUME ControlInv, [Next]_vars PROVE ControlInv'  OBVIOUS
<1> USE DEF ControlInv, mainVars, readerVars, streamVars, outputVars
<1>1. {eof, rebuf, failed}' \subseteq BOOLEAN
  <2>1. eof \in BOOLEAN /\ rebuf \in BOOLEAN /\ failed \in BOOLEAN
    BY Zenon
  <2>2. eof' \in BOOLEAN
    <3>1. \/ UNCHANGED eof \/ eof' = (ending = "eof") \/ eof' = FALSE
      BY Zenon DEF Next, MainLoop, Reader, OpenVideo, StartReader,
         FinishPreroll, BeginPresentation, DiscardAudio, ReadClock, CheckTrack,
         ClockTimeout, CloseVideo, DeleteReader, DisableOutput, ReadChunk,
         SendChunk, CheckLevel, PublishResult, PublishEof, onAudioPdmSent, vars
    <3>2. QED  BY <2>1, <3>1, Zenon
  <2>3. rebuf' \in BOOLEAN
    <3>1. \/ UNCHANGED rebuf
          \/ rebuf' = (rebuf /\ stream < Capacity)
          \/ rebuf' = (rebuf \/ (TakesSamples /\ Taken = 0 /\ ~eof
                                  /\ result # "err"))
          \/ rebuf' = (started /\ rebuf)
          \/ rebuf' = FALSE
      BY Zenon DEF Next, MainLoop, Reader, OpenVideo, StartReader,
         FinishPreroll, BeginPresentation, DiscardAudio, ReadClock, CheckTrack,
         ClockTimeout, CloseVideo, DeleteReader, DisableOutput, ReadChunk,
         SendChunk, CheckLevel, PublishResult, PublishEof, onAudioPdmSent, vars
    <3>2. QED  BY <2>1, <3>1, Zenon
  <2>4. failed' \in BOOLEAN
    <3>1. \/ UNCHANGED failed \/ failed' \in {failed, TRUE} \/ failed' = FALSE
      BY Zenon DEF Next, MainLoop, Reader, OpenVideo, StartReader,
         FinishPreroll, BeginPresentation, DiscardAudio, ReadClock, CheckTrack,
         ClockTimeout, CloseVideo, DeleteReader, DisableOutput, ReadChunk,
         SendChunk, CheckLevel, PublishResult, PublishEof, onAudioPdmSent, vars
    <3>2. QED  BY <2>1, <3>1, Zenon
  <2>5. QED  BY <2>2, <2>3, <2>4, Zenon
<1>2. target' \in Seeks \cup {0}
  BY Zenon DEF Next, MainLoop, Reader, OpenVideo, StartReader,
     FinishPreroll, BeginPresentation, DiscardAudio, ReadClock, CheckTrack,
     ClockTimeout, CloseVideo, DeleteReader, DisableOutput, ReadChunk,
     SendChunk, CheckLevel, PublishResult, PublishEof, onAudioPdmSent, vars
<1>3. reader' \in {"none", "read", "send", "level", "publish", "eof",
                   "finished"}
  BY DEF Next, MainLoop, Reader, OpenVideo, StartReader,
     FinishPreroll, BeginPresentation, DiscardAudio, ReadClock, CheckTrack,
     ClockTimeout, CloseVideo, DeleteReader, DisableOutput, ReadChunk,
     SendChunk, CheckLevel, PublishResult, PublishEof, onAudioPdmSent, vars
<1>4. {ending, result}' \subseteq {"ok", "eof", "err"}
  <2>1. \/ UNCHANGED <<ending, result>>
        \/ ending' = "ok" /\ UNCHANGED result
        \/ UNCHANGED result
             /\ ending' \in {"err"} \cup (IF left = 0 THEN {"eof"} ELSE {})
        \/ result' = ending /\ UNCHANGED ending
        \/ ending' = "ok" /\ result' = "ok"
    BY Zenon DEF Next, MainLoop, Reader, OpenVideo, StartReader,
       FinishPreroll, BeginPresentation, DiscardAudio, ReadClock, CheckTrack,
       ClockTimeout, CloseVideo, DeleteReader, DisableOutput, ReadChunk,
       SendChunk, CheckLevel, PublishResult, PublishEof, onAudioPdmSent, vars
  <2>2. QED  BY <2>1
<1>5. bias' \in {"low", "up", "centre", "down"}
  <2>1. \/ UNCHANGED bias \/ bias' \in {"low", "up", "down", "centre"}
        \/ \E next \in {"frame", "closed"} : StopAudio(next)
        \/ bias' = CASE bias = "up" -> "centre" [] bias = "down" -> "low"
                     [] OTHER -> bias
    BY Zenon DEF Next, MainLoop, Reader, OpenVideo, StartReader,
       FinishPreroll, BeginPresentation, DiscardAudio, ReadClock, CheckTrack,
       ClockTimeout, CloseVideo, DeleteReader, DisableOutput, ReadChunk,
       SendChunk, CheckLevel, PublishResult, PublishEof, onAudioPdmSent, vars
  <2>2. QED  BY <2>1 DEF StopAudio
<1>6. QED  BY <1>1, <1>2, <1>3, <1>4, <1>5

LEMMA FrameStep == IInv /\ FrameInv /\ [Next]_vars => FrameInv'
<1> SUFFICES ASSUME IInv, FrameInv, [Next]_vars PROVE FrameInv'  OBVIOUS
<1>1. frame \in Nat /\ Frames \in Nat
  BY AudioAssumption DEF IInv, CountersInv
<1>2. CASE OpenVideo
  BY <1>1, <1>2 DEF OpenVideo, FrameInv
<1>3. CASE BeginPresentation
  BY <1>1, <1>3 DEF BeginPresentation, FrameInv
<1>4. CASE ReadClock
  <2>1. main = "wait" /\ frame < Frames  BY <1>4 DEF ReadClock, FrameInv
  <2>2. \/ frame' = frame /\ main' \in {"stopping", "check"}
        \/ frame' = frame + 1 /\ main' = "frame"
    BY <1>4 DEF ReadClock, StopAudio
  <2>3. QED  BY <1>1, <2>1, <2>2 DEF FrameInv
<1>5. CASE CheckTrack
  BY <1>1, <1>5 DEF CheckTrack, StopAudio, FrameInv
<1>6. CASE DisableOutput
  <2>1. main' = after /\ UNCHANGED frame  BY <1>6 DEF DisableOutput
  <2>2. QED  BY <2>1 DEF IInv, StageInv, FrameInv
<1>7. CASE FinishPreroll \/ DiscardAudio \/ ClockTimeout \/ CloseVideo
  BY <1>7 DEF FinishPreroll, DiscardAudio, ClockTimeout, CloseVideo, StopAudio,
     FrameInv
<1>8. CASE StartReader \/ DeleteReader
  BY <1>8 DEF StartReader, DeleteReader, FrameInv
<1>9. CASE ReadChunk \/ Reader \/ onAudioPdmSent \/ UNCHANGED vars
  <2>1. UNCHANGED <<main, frame>>
    BY <1>9 DEF ReadChunk, Reader, SendChunk, CheckLevel, PublishResult,
       PublishEof, onAudioPdmSent, vars, mainVars
  <2>2. QED  BY <2>1 DEF FrameInv
<1>10. QED
  BY <1>2, <1>3, <1>4, <1>5, <1>6, <1>7, <1>8, <1>9 DEF Next, MainLoop

LEMMA DmaStep == IInv /\ DmaInv /\ [Next]_vars => DmaInv'
<1> SUFFICES ASSUME IInv, DmaInv, [Next]_vars PROVE DmaInv'  OBVIOUS
<1>1. CASE onAudioPdmSent
  <2>1. /\ dma' = Append(Tail(dma), Taken)
        /\ pending' = pending - Completed + Taken
    BY <1>1 DEF onAudioPdmSent
  <2>2. Taken \in 0 .. Dma
    <3>1. Dma \in Int /\ stream \in Int /\ Dma \in Nat /\ stream \in Nat
      BY Sizes DEF IInv, CountersInv
    <3>2. /\ Min({Dma, stream}) \in {Dma, stream}
          /\ Min({Dma, stream}) <= Dma
      BY <3>1, MinOfTwo, Zenon
    <3>3. QED  BY <3>1, <3>2 DEF Taken
  <2>3. /\ dma \in Seq(0 .. Dma) /\ dma \in Seq(Nat) /\ Len(dma) > 0
        /\ dma # <<>>
    BY Sizes, EmptySeq DEF IInv, CountersInv, DmaInv
  <2> HIDE DEF Taken
  <2>4. dma' \in Seq(0 .. Dma)
    <3>1. Tail(dma) \in Seq(0 .. Dma)  BY <2>3, HeadTailProperties
    <3>2. QED  BY <2>1, <2>2, <3>1, AppendProperties
  <2>5. Queued(Append(Tail(dma), Taken)) = Queued(dma) - Head(dma) + Taken
    BY <2>2, <2>3, QueuedShift
  <2>6. PendingExact'
    BY <2>1, <2>5 DEF DmaInv, PendingExact, Completed
  <2>7. QED  BY <2>4, <2>6 DEF DmaInv
<1>2. CASE DisableOutput
  BY <1>2, QueuedSilent DEF DisableOutput, DmaInv, PendingExact
<1>3. CASE UNCHANGED <<dma, pending>>  BY <1>3 DEF DmaInv, PendingExact
<1>4. QED
  BY <1>1, <1>2, <1>3, Zenon
  DEF Next, MainLoop, Reader, OpenVideo, StartReader, FinishPreroll,
      BeginPresentation, DiscardAudio, ReadClock, CheckTrack, ClockTimeout,
      CloseVideo, DeleteReader, ReadChunk, SendChunk, CheckLevel,
      PublishResult, PublishEof, vars, outputVars

LEMMA LevelStep ==
  IInv /\ DmaInv /\ LevelInv /\ [Next]_vars => LevelInv'
<1> SUFFICES ASSUME IInv, DmaInv, LevelInv, [Next]_vars PROVE LevelInv'
  OBVIOUS
<1>1. /\ left \in Nat /\ chunk \in Nat /\ stream \in Nat /\ pending \in Nat
      /\ played \in Nat /\ discarded \in Nat /\ frame \in Nat
      /\ Total \in Nat /\ Chunk \in Nat /\ Dma \in Nat /\ Capacity \in Nat
  BY Sizes, PendingBound DEF IInv, CountersInv
<1>2. CASE ReadChunk
  <2>1. UNCHANGED <<discarded, played, pending, seeking, stop>>
    BY <1>2 DEF ReadChunk, mainVars, outputVars
  <2>2. /\ Min({Chunk, left}) \in {Chunk, left}
        /\ Min({Chunk, left}) <= Chunk
    <3>1. Chunk \in Int /\ left \in Int  BY <1>1
    <3>2. QED  BY <3>1, MinOfTwo, Zenon
  <2>3. left' <= Total /\ chunk' <= Chunk
    <3>1. \/ chunk' = Min({Chunk, left}) /\ left' = left - chunk'
          \/ UNCHANGED <<left, chunk>>
      BY <1>2 DEF ReadChunk
    <3>2. QED  BY <1>1, <2>2, <3>1 DEF LevelInv
  <2>4. QED  BY <2>1, <2>3 DEF LevelInv
<1>3. CASE Reader
  <2>1. UNCHANGED <<left, discarded, played, pending, seeking, stop>>
    BY <1>3 DEF Reader, SendChunk, CheckLevel, PublishResult, PublishEof,
       mainVars, outputVars
  <2>2. chunk' <= Chunk
    <3>1. Accepted >= 0 /\ Accepted \in Int
      <4> DEFINE room == Capacity - stream
      <4>1. chunk \in Int /\ room \in Int /\ room >= 0
        BY <1>1 DEF IInv, CountersInv
      <4> HIDE DEF room
      <4>2. Min({chunk, room}) \in {chunk, room}  BY <4>1, MinOfTwo, Zenon
      <4>3. Min({chunk, room}) >= 0 /\ Min({chunk, room}) \in Int
        BY <1>1, <4>1, <4>2
      <4>4. QED  BY <4>3 DEF Accepted, room
    <3> HIDE DEF Accepted
    <3>2. chunk' = 0 \/ chunk' = chunk - Accepted \/ chunk' = chunk
      BY <1>3, Zenon DEF Reader, SendChunk, CheckLevel, PublishResult, PublishEof
    <3>3. QED  BY <1>1, <3>1, <3>2 DEF LevelInv
  <2>3. QED  BY <2>1, <2>2 DEF LevelInv
<1>4. CASE onAudioPdmSent
  <2>1. /\ played' = played + Completed
        /\ pending' = pending - Completed + Taken
        /\ UNCHANGED <<left, chunk, discarded, seeking, stop>>
        /\ alive
    BY <1>4 DEF onAudioPdmSent, mainVars, readerVars, IInv, StageInv
  <2>2. /\ Taken \in Nat /\ Taken <= stream /\ (~started => Taken = 0)
    <3>1. Dma \in Int /\ stream \in Int  BY <1>1
    <3>2. /\ Min({Dma, stream}) \in {Dma, stream}
          /\ Min({Dma, stream}) <= stream
      BY <3>1, MinOfTwo, Zenon
    <3>3. QED  BY <1>1, <3>2 DEF Taken, TakesSamples
  <2>3. /\ Completed \in Nat
        /\ (\A d \in 1 .. Len(dma) : dma[d] = 0) => Completed = 0
    BY <2>2, Descriptor DEF IInv
  <2> HIDE DEF Taken, Completed
  <2>4. played + pending + Taken <= Total
    <3>1. CASE ~started  BY <1>1, <2>2, <3>1 DEF LevelInv
    <3>2. CASE started
      <4>1. ~stop /\ ~seeking  BY <3>2 DEF IInv, StageInv, SilentInv
      <4>2. left + chunk + stream + pending + played = Total
        BY <2>1, <4>1 DEF IInv, ClockExact, Counted
      <4>3. QED  BY <1>1, <2>2, <4>2
    <3>3. QED  BY <3>1, <3>2
  <2>5. played' + pending' = played + pending + Taken
    BY <1>1, <2>1, <2>2, <2>3
  <2>6. ASSUME seeking', ~stop' PROVE played' = 0
    <3>1. seeking /\ ~stop /\ ~started
      BY <2>1, <2>6 DEF IInv, SilentInv
    <3>2. Completed = 0 /\ played = 0
      BY <2>3, <3>1 DEF IInv, SilentInv, LevelInv
    <3>3. QED  BY <2>1, <3>2
  <2>7. QED  BY <2>1, <2>4, <2>5, <2>6 DEF LevelInv
<1>5. CASE OpenVideo
  <2>1. /\ left' = Total /\ discarded' = 0
        /\ UNCHANGED <<chunk, played, pending, stop>>
        /\ main = "closed"
    BY <1>5 DEF OpenVideo
  <2>2. played = 0  BY <2>1 DEF IInv, StageInv, SilentInv
  <2>3. QED  BY <1>1, <2>1, <2>2 DEF LevelInv
<1>6. CASE DiscardAudio
  <2>1. /\ main = "discard" /\ UNCHANGED <<left, chunk, pending>>
    BY <1>6 DEF DiscardAudio, readerVars
  <2>2. alive /\ ~stop /\ seeking /\ pending = 0 /\ played = 0
    BY <2>1 DEF IInv, StageInv, SilentInv, LevelInv
  <2>3. left + chunk + stream + pending + discarded = Total
    BY <2>2 DEF IInv, ClockExact, Counted
  <2>4. CASE /\ played' = IF seeking' THEN played ELSE discarded
             /\ UNCHANGED discarded
    <3>1. played' = 0 \/ played' = discarded  BY <2>2, <2>4
    <3>2. seeking' => played' = 0  BY <2>2, <2>4
    <3>3. QED  BY <1>1, <2>1, <2>2, <2>4, <3>1, <3>2 DEF LevelInv
  <2>5. CASE /\ discarded' = Min({discarded + stream, frame * FrameSamples})
             /\ UNCHANGED played
    <3> DEFINE a == discarded + stream
               b == frame * FrameSamples
    <3>1. a \in Int /\ b \in Int /\ a <= Total
      BY <1>1, <2>3, Sizes
    <3>2. discarded' = Min({a, b})  BY <2>5
    <3> HIDE DEF a, b
    <3>3. discarded' \in {a, b} /\ discarded' <= a
      BY <3>1, <3>2, MinOfTwo, Zenon
    <3>4. discarded' <= Total  BY <1>1, <3>1, <3>3
    <3>5. QED  BY <2>1, <2>2, <2>5, <3>4 DEF LevelInv
  <2>6. CASE UNCHANGED <<discarded, played>>
    BY <2>1, <2>2, <2>6 DEF LevelInv
  <2>7. QED  BY <1>6, <2>4, <2>5, <2>6, Zenon DEF DiscardAudio
<1>7. CASE DisableOutput
  <2>1. /\ chunk' = 0 /\ pending' = 0 /\ played' = 0
        /\ UNCHANGED <<left, discarded>>
    BY <1>7 DEF DisableOutput
  <2>2. QED  BY <1>1, <2>1 DEF LevelInv
<1>8. CASE BeginPresentation
  <2>1. /\ UNCHANGED <<left, chunk, discarded, pending, played, stop>>
        /\ seeking' => seeking
    BY <1>8 DEF BeginPresentation, readerVars, outputVars
  <2>2. QED  BY <2>1 DEF LevelInv
<1>9. CASE \/ StartReader \/ FinishPreroll \/ ReadClock \/ CheckTrack
           \/ ClockTimeout \/ CloseVideo \/ DeleteReader \/ UNCHANGED vars
  <2>1. /\ UNCHANGED <<left, chunk, discarded, pending, played, seeking>>
        /\ stop' = stop \/ stop' = TRUE
    BY <1>9, Zenon DEF StartReader, FinishPreroll, ReadClock, CheckTrack,
       ClockTimeout, CloseVideo, DeleteReader, StopAudio, readerVars,
       outputVars, vars, mainVars
  <2>2. QED  BY <2>1 DEF LevelInv
<1>10. QED
  BY <1>2, <1>3, <1>4, <1>5, <1>6, <1>7, <1>8, <1>9 DEF Next, MainLoop

LEMMA RangeStep == IInv /\ RangeInv /\ [Next]_vars => RangeInv'
BY ControlStep, FrameStep, DmaStep, LevelStep DEF RangeInv

LEMMA Ranges == Spec => [](IInv /\ RangeInv)
<1>1. Init => IInv /\ RangeInv  BY IInvInit, RangeInit
<1>2. IInv /\ RangeInv /\ [Next]_vars => (IInv /\ RangeInv)'
  BY IInvStep, RangeStep
<1>3. QED  BY <1>1, <1>2, PTL DEF Spec

\* Every sample of the track is in the file, with the reader, in the queue, in
\* a DMA descriptor or counted by the clock, and what is pending is exactly
\* what the descriptors have (audioReaderTask, onAudioPdmSent,
\* finishPresentationDetailed and stopAudio in hlv_player.c).
THEOREM EverySampleAccounted == Spec => []SamplesAccounted
<1>1. IInv /\ RangeInv => SamplesAccounted
  BY DEF IInv, RangeInv, DmaInv, SamplesAccounted
<1>2. QED  BY <1>1, Ranges, PTL

\* No counter of the audio path leaves its range: the queue never holds more
\* than audio_preroll_bytes, no descriptor more than kAudioDmaSamples, and the
\* clock never passes the end of the track.
THEOREM TypeCorrect == Spec => []TypeOK
<1>1. ASSUME IInv, RangeInv PROVE TypeOK
  <2>1. /\ left \in Nat /\ chunk \in Nat /\ stream \in Nat
        /\ stream <= Capacity /\ pending \in Nat
        /\ pending \in 0 .. Descriptors * Dma
        /\ played \in Nat /\ discarded \in Nat /\ frame \in Nat
        /\ Total \in Nat /\ Chunk \in Nat /\ Capacity \in Nat
        /\ Frames \in Nat
    BY <1>1, Sizes, PendingBound, AudioAssumption
    DEF IInv, CountersInv, RangeInv
  <2>2. /\ left <= Total /\ chunk <= Chunk /\ discarded <= Total
        /\ played + pending <= Total /\ frame <= Frames
    BY <1>1 DEF RangeInv, LevelInv, FrameInv
  <2>3. /\ left \in 0 .. Total /\ chunk \in 0 .. Chunk
        /\ discarded \in 0 .. Total /\ stream \in 0 .. Capacity
        /\ played \in 0 .. Total /\ frame \in 0 .. Frames
    BY <2>1, <2>2
  <2>4. dma \in [1 .. Descriptors -> 0 .. Dma]
    <3>1. dma \in Seq(0 .. Dma) /\ Len(dma) = Descriptors
      BY <1>1 DEF RangeInv, DmaInv, IInv, CountersInv
    <3>2. QED  BY <3>1, LenProperties
  <2>5. {seeking, enabled, started, stop, eof, alive, rebuf, pdm, failed}
          \subseteq BOOLEAN
    BY <1>1, Zenon DEF IInv, CountersInv, RangeInv, ControlInv
  <2>6. QED
    BY <1>1, <2>1, <2>3, <2>4, <2>5, Zenon
    DEF TypeOK, IInv, StageInv, RangeInv, ControlInv
<1>2. QED  BY <1>1, Ranges, PTL
=============================================================================
