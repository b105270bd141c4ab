-------------------------- MODULE MjpegInputProof --------------------------
(***************************************************************************)
(* Every piece that the decoder gets is the next one of its packet, and    *)
(* the packets follow each other as in the file, for every file, ring and  *)
(* amount of speculation.                                                  *)
(***************************************************************************)
EXTENDS MjpegInput, SequenceTheorems, TLAPS

Live     == main \in {"next", "decide", "read", "check"}
Decoding == main \in {"read", "check"}
Halted   == reader \in {"finish", "suspended"}

\* Pieces of the packet being decoded that are in the ring although the reader
\* has gone on to the next packet, and pieces of the reader's packet that the
\* decoder has taken.
Old  == IF Decoding /\ at # packet THEN Sizes[packet] - got ELSE 0
Gone == IF at = packet THEN got ELSE 0

\* What the ring holds: the rest of the packet being decoded, then what was
\* sent of the reader's.
RingInv ==
  /\ Len(ring) = Old + sent - Gone
  /\ \A i \in 1 .. Len(ring) :
       ring[i] = IF i <= Old THEN <<packet, got + i>>
                 ELSE <<at, Gone + i - Old>>

\* How far the reader is ahead of the loop: at the same packet, whose fate is
\* or will be decided, at the next one, or behind an error.
OrderInv ==
  /\ \/ /\ at = packet /\ at \in 1 .. Last /\ queue = Empty
        /\ Halted \/ reader \in {"speculate", "command", "rest", "align"}
     \/ /\ at = packet + 1 /\ at \in 1 .. Eof /\ notice = "none"
        /\ \/ reader \in {"demux", "offer", "end"} /\ queue = Empty /\ sent = 0
           \/ reader \in {"speculate", "command"} /\ queue = at /\ at <= Last
           \/ Halted /\ queue \in {Empty, at}
     \/ /\ at = Error /\ notice = "none" /\ sent = 0
        /\ \/ reader = "end" /\ queue = Empty
           \/ Halted /\ queue \in {Empty, Error}
  /\ reader = "offer" => at <= Last
  /\ at <= Last => sent \in 0 .. Sizes[at]
  /\ at > Last => sent = 0
  /\ reader = "speculate" => sent <= Speculative
  /\ held => \/ reader = "speculate" /\ sent < Smaller(Sizes[at], Speculative)
             \/ reader = "rest" /\ sent < Sizes[at]

\* The decision is made once for every packet, and taken before the reader
\* leaves it.
DecisionInv ==
  /\ main = "decide" => /\ at = packet /\ notice = "none" /\ got = 0
                        /\ Halted \/ reader \in {"speculate", "command"}
  /\ Decoding => packet \in 1 .. Last /\ got < Sizes[packet]
  /\ notice = "skip" => main = "next" /\ got = 0
  /\ notice # "stop"
  /\ notice # "none" => Halted \/ reader \in {"speculate", "command"}
  /\ main = "next" /\ at = packet /\ notice # "skip" => sent = got
  /\ main # "decide" /\ at = packet /\ notice = "none" =>
       Halted \/ reader \in {"rest", "align"}
  /\ ( /\ main = "next" /\ at = packet /\ notice # "skip"
       /\ reader \in {"speculate", "command", "rest"} ) => got = Sizes[packet]
  /\ reader = "align" /\ Decoding => sent = Sizes[at]

\* Also while the video is being closed the reader works on a packet.
ReaderInv ==
  reader \in {"offer", "speculate", "command", "rest", "align"} => at \in 1 .. Last

IInv == TypeOK /\ ReaderInv
          /\ (Live => ~stop /\ RingInv /\ OrderInv /\ DecisionInv)

-----------------------------------------------------------------------------
LEMMA FileFacts ==
  /\ Last \in Nat \ {0} /\ Ring \in Nat \ {0} /\ Speculative \in Nat
  /\ \A n \in 1 .. Last : Sizes[n] \in Nat \ {0}
BY MjpegInputAssumption, LenProperties DEF Last

LEMMA IInvInit == Init => IInv
<1> SUFFICES ASSUME Init PROVE IInv  OBVIOUS
<1>1. <<>> \in Contents /\ Len(<<>>) = 0  BY EmptySeq DEF Contents
<1>2. TypeOK
  <2>1. /\ at \in 1 .. Error /\ sent \in Nat /\ queue \in Empty .. Error
        /\ Len(ring) <= Ring /\ packet \in 0 .. Last /\ got \in Nat
    BY <1>1, FileFacts DEF Init, Empty, Eof, Error
  <2>2. reader \in ReaderStates /\ main \in MainStates /\ notice \in Notices
    BY DEF Init, ReaderStates, MainStates, Notices
  <2>3. QED  BY <1>1, <2>1, <2>2 DEF Init, TypeOK
<1>3. ReaderInv /\ ~Live  BY DEF Init, ReaderInv, Live
<1>4. QED  BY <1>2, <1>3 DEF IInv

\* Steps that leave the ring, the packets and the place in them alone.
LEMMA RingKept ==
  ASSUME RingInv, Decoding' = Decoding, UNCHANGED <<at, sent, ring, packet, got>>
  PROVE  RingInv'
BY DEF RingInv, Old, Gone

LEMMA QuitStep == IInv /\ Quit => IInv'
<1> SUFFICES ASSUME IInv, Quit PROVE IInv'  OBVIOUS
<1> USE DEF Quit, mainVars
<1>1. reader' \in ReaderStates  BY DEF ReaderStates
<1>2. TypeOK'  BY <1>1 DEF IInv, TypeOK
<1>3. ReaderInv' /\ ~Live'  BY DEF ReaderInv, IInv, Live
<1>4. QED  BY <1>2, <1>3 DEF IInv

LEMMA DemuxStep == IInv /\ Demux => IInv'
<1> SUFFICES ASSUME IInv, Demux PROVE IInv'  OBVIOUS
<1> USE FileFacts DEF Demux, mainVars, Empty, Eof, Error
<1>1. TypeOK' /\ ReaderInv'
  <2>1. reader' \in ReaderStates  BY DEF ReaderStates
  <2>2. at' \in 1 .. Error  BY DEF IInv, TypeOK
  <2>3. failed' \in BOOLEAN  BY DEF IInv, TypeOK
  <2>4. TypeOK'  BY <2>1, <2>2, <2>3 DEF IInv, TypeOK
  <2>5. ReaderInv'  BY DEF ReaderInv, IInv, TypeOK
  <2>6. QED  BY <2>4, <2>5
<1>2. ASSUME Live'
      PROVE  ~stop' /\ RingInv' /\ OrderInv' /\ DecisionInv'
  <2>1. Live /\ ~stop /\ RingInv /\ OrderInv /\ DecisionInv
    BY <1>2 DEF IInv, Live
  <2>2. at = packet + 1 /\ queue = Empty /\ sent = 0 /\ notice = "none"
    BY <2>1 DEF OrderInv, Halted, IInv, TypeOK
  <2>3. RingInv'
    <3>1. at # packet /\ at' # packet  BY <2>2 DEF IInv, TypeOK
    <3>2. Old' = Old /\ Gone = 0 /\ Gone' = 0
      BY <3>1 DEF Old, Gone, Decoding
    <3>3. Len(ring) = Old /\ Old \in Int
      BY <2>1, <2>2, <3>2 DEF RingInv, Old, Decoding, DecisionInv, IInv, TypeOK
    <3>4. QED  BY <2>1, <2>2, <3>2, <3>3 DEF RingInv
  <2>4. OrderInv'  BY <2>1, <2>2 DEF OrderInv, Halted, IInv, TypeOK
  <2>5. DecisionInv'  BY <2>1, <2>2 DEF DecisionInv, Decoding, Halted, IInv, TypeOK
  <2>6. QED  BY <2>1, <2>3, <2>4, <2>5
<1>3. QED  BY <1>1, <1>2 DEF IInv

LEMMA OfferStep == IInv /\ Offer => IInv'
<1> SUFFICES ASSUME IInv, Offer PROVE IInv'  OBVIOUS
<1> USE FileFacts DEF Offer, mainVars, Empty, Eof, Error
<1>1. TypeOK' /\ ReaderInv'
  <2>1. reader' \in ReaderStates  BY DEF ReaderStates
  <2>2. queue' \in Empty .. Error  BY DEF IInv, TypeOK
  <2>3. TypeOK'  BY <2>1, <2>2 DEF IInv, TypeOK
  <2>4. ReaderInv'  BY DEF ReaderInv, IInv
  <2>5. QED  BY <2>3, <2>4
<1>2. ASSUME Live'
      PROVE  ~stop' /\ RingInv' /\ OrderInv' /\ DecisionInv'
  <2>1. Live /\ ~stop /\ RingInv /\ OrderInv /\ DecisionInv
    BY <1>2 DEF IInv, Live
  <2>2. RingInv'  BY <2>1, RingKept DEF Decoding
  <2>3. OrderInv'  BY <2>1 DEF OrderInv, Halted, IInv, TypeOK
  <2>4. DecisionInv'
    BY <2>1 DEF DecisionInv, OrderInv, Decoding, Halted, IInv, TypeOK
  <2>5. QED  BY <2>1, <2>2, <2>3, <2>4
<1>3. QED  BY <1>1, <1>2 DEF IInv

\* A piece goes into the ring behind everything that is there.
LEMMA SendRing ==
  ASSUME IInv, Live, Live', at \in 1 .. Last,
         ring' = Append(ring, <<at, sent + 1>>), sent' = sent + 1,
         UNCHANGED <<at, mainVars>>
  PROVE  RingInv'
<1> USE DEF mainVars
<1>1. RingInv /\ ring \in Seq((1 .. Last) \X Nat) /\ sent \in Nat /\ got \in Nat
  BY DEF IInv, TypeOK, Contents
<1>2. <<at, sent + 1>> \in (1 .. Last) \X Nat  BY <1>1
<1>3. /\ Len(ring') = Len(ring) + 1 /\ Len(ring) \in Nat
      /\ \A i \in 1 .. Len(ring) : ring'[i] = ring[i]
      /\ ring'[Len(ring) + 1] = <<at, sent + 1>>
  BY <1>1, <1>2, AppendProperties, LenProperties
<1>4. Old' = Old /\ Gone' = Gone  BY DEF Old, Gone, Decoding
<1>5. Old \in Int /\ Gone \in Int /\ Len(ring) = Old + sent - Gone
      /\ Len(ring) >= Old
  <2>1. Decoding => Sizes[packet] \in Nat  BY FileFacts DEF IInv, DecisionInv
  <2>2. Gone \in Int  BY <1>1 DEF Gone
  <2>3. Old \in Int  BY <1>1, <2>1 DEF Old
  <2>4. Len(ring) = Old + sent - Gone  BY <1>1 DEF RingInv
  <2>5. CASE at = packet
    <3>1. Old = 0  BY <2>5 DEF Old
    <3>2. QED  BY <2>2, <2>4, <3>1, <1>3
  <2>6. CASE at # packet
    <3>1. Gone = 0  BY <2>6 DEF Gone
    <3>2. QED  BY <2>3, <2>4, <3>1, <1>1
  <2>7. QED  BY <2>5, <2>6
<1>6. Len(ring') = Old + sent' - Gone  BY <1>1, <1>3, <1>5
<1>7. ASSUME NEW i \in 1 .. Len(ring')
      PROVE  ring'[i] = IF i <= Old THEN <<packet, got + i>>
                        ELSE <<at, Gone + i - Old>>
  <2>1. CASE i \in 1 .. Len(ring)  BY <2>1, <1>1, <1>3 DEF RingInv
  <2>2. CASE i = Len(ring) + 1
    <3>1. ~(i <= Old) /\ Gone + i - Old = sent + 1  BY <2>2, <1>1, <1>3, <1>5
    <3>2. QED  BY <2>2, <3>1, <1>3
  <2>3. QED  BY <2>1, <2>2, <1>3
<1>8. QED  BY <1>4, <1>6, <1>7 DEF RingInv

\* fread and sendMjpegInputBytes, in either loop of the reader.
LEMMA FetchStep ==
  ASSUME IInv, NEW limit \in Nat, NEW next \in {"command", "align"},
         reader \in {"speculate", "rest"}, Fetch(limit, next),
         reader = "speculate" => next = "command"
                                 /\ limit = Smaller(Sizes[at], Speculative),
         reader = "rest" => next = "align" /\ limit = Sizes[at],
         UNCHANGED <<at, queue, notice, stop, finished, mainVars>>
  PROVE  IInv'
<1> USE DEF mainVars
<1>1. at \in 1 .. Last /\ Sizes[at] \in Nat \ {0} /\ Speculative \in Nat
      /\ limit <= Sizes[at] /\ (reader = "speculate" => limit <= Speculative)
  BY FileFacts DEF IInv, ReaderInv, Smaller
<1>2. TypeOK' /\ ReaderInv'
  <2>1. reader' \in ReaderStates  BY DEF Fetch, ReaderStates, IInv, TypeOK
  <2>2. sent \in Nat /\ held \in BOOLEAN /\ failed \in BOOLEAN
    BY DEF IInv, TypeOK
  <2>3. sent' \in Nat /\ held' \in BOOLEAN /\ failed' \in BOOLEAN
    <3>1. sent' \in Nat  BY <2>2 DEF Fetch
    <3>2. held' \in BOOLEAN  BY <2>2, Zenon DEF Fetch
    <3>3. failed' \in BOOLEAN  BY <2>2, Zenon DEF Fetch
    <3>4. QED  BY <3>1, <3>2, <3>3
  <2>4. ring' \in Contents /\ Len(ring') <= Ring
    <3>1. CASE ring' = Append(ring, <<at, sent + 1>>) /\ Len(ring) < Ring
      <4>1. ring \in Seq((1 .. Last) \X Nat)  BY DEF IInv, TypeOK, Contents
      <4>2. <<at, sent + 1>> \in (1 .. Last) \X Nat  BY <1>1, <2>2
      <4>3. ring' \in Seq((1 .. Last) \X Nat) /\ Len(ring') = Len(ring) + 1
        BY <3>1, <4>1, <4>2, AppendProperties
      <4>4. Len(ring) \in Nat  BY <4>1, LenProperties
      <4>5. QED  BY <3>1, <4>3, <4>4, FileFacts DEF Contents
    <3>2. CASE ring' = ring  BY <3>2 DEF IInv, TypeOK
    <3>3. QED  BY <3>1, <3>2 DEF Fetch
  <2>5. TypeOK'  BY <2>1, <2>3, <2>4 DEF IInv, TypeOK
  <2>6. QED  BY <2>5, <1>1 DEF ReaderInv
<1>3. ASSUME Live'
      PROVE  ~stop' /\ RingInv' /\ OrderInv' /\ DecisionInv'
  <2>1. Live /\ ~stop /\ RingInv /\ OrderInv /\ DecisionInv
    BY <1>3 DEF IInv, Live
  <2>2. RingInv'
    <3>1. CASE ring' = Append(ring, <<at, sent + 1>>) /\ sent' = sent + 1
      BY <3>1, <1>1, <1>3, <2>1, SendRing
    <3>2. CASE UNCHANGED <<ring, sent>>  BY <3>2, <2>1, RingKept DEF Decoding
    <3>3. QED  BY <3>1, <3>2 DEF Fetch
  <2>3. sent \in Nat /\ held \in BOOLEAN /\ packet \in 0 .. Last /\ got \in Nat
        /\ Last \in Nat /\ at # Error
    BY <1>1, FileFacts DEF IInv, TypeOK, Error
  <2>4. sent <= limit /\ (held => sent < limit)
    <3>1. sent <= Sizes[at] /\ (reader = "speculate" => sent <= Speculative)
      BY <2>1, <2>3, <1>1 DEF OrderInv
    <3>2. sent <= limit  BY <3>1, <2>3, <1>1 DEF Smaller
    <3>3. held => sent < limit  BY <2>1 DEF OrderInv
    <3>4. QED  BY <3>2, <3>3
  <2>5. /\ sent' \in Nat /\ sent' <= limit /\ (held' => sent' < limit)
        /\ \/ reader' = reader
           \/ reader' = next /\ sent' = limit /\ ~held'
           \/ reader' = "finish" /\ ~held'
    BY <2>3, <2>4, <1>1 DEF Fetch
  <2>6. OrderInv'
    <3>1. \/ /\ at = packet /\ queue = Empty
          \/ /\ at = packet + 1 /\ notice = "none" /\ queue = at
             /\ reader = "speculate"
      BY <2>1, <2>3 DEF OrderInv, Halted
    <3>2. /\ Halted' \/ reader' \in {"speculate", "rest", "command", "align"}
          /\ reader = "speculate" => Halted' \/ reader' \in {"speculate", "command"}
      BY <2>5 DEF Halted
    <3>3. \/ /\ at = packet /\ at \in 1 .. Last /\ queue = Empty
             /\ Halted' \/ reader' \in {"speculate", "command", "rest", "align"}
          \/ /\ at = packet + 1 /\ at \in 1 .. Eof /\ notice = "none"
             /\ \/ reader' \in {"speculate", "command"} /\ queue = at /\ at <= Last
                \/ Halted' /\ queue \in {Empty, at}
      BY <3>1, <3>2, <1>1, <2>3 DEF Eof
    <3>4. sent' \in 0 .. Sizes[at] /\ reader' # "offer"
          /\ (reader' = "speculate" => sent' <= Speculative)
      BY <2>5, <1>1, <2>3
    <3>5. held' => \/ reader' = "speculate" /\ sent' < Smaller(Sizes[at], Speculative)
                   \/ reader' = "rest" /\ sent' < Sizes[at]
      BY <2>5, <1>1
    <3>6. QED  BY <3>3, <3>4, <3>5, <1>1, <2>3 DEF OrderInv
  <2>7. DecisionInv'
    <3>1. main = "decide" => /\ at = packet /\ notice = "none" /\ got = 0
                             /\ Halted' \/ reader' \in {"speculate", "command"}
      BY <2>1, <2>5 DEF DecisionInv, Halted
    <3>2. /\ Decoding => packet \in 1 .. Last /\ got < Sizes[packet]
          /\ notice = "skip" => main = "next" /\ got = 0
          /\ notice # "stop"
      BY <2>1 DEF DecisionInv
    <3>3. notice # "none" => Halted' \/ reader' \in {"speculate", "command"}
      BY <2>1, <2>5 DEF DecisionInv, Halted
    <3>4. ASSUME main = "next", at = packet, notice # "skip"
          PROVE  /\ sent' = got
                 /\ reader' \in {"speculate", "command", "rest"} => got = Sizes[packet]
                 /\ notice = "none" => Halted' \/ reader' \in {"rest", "align"}
      <4>1. sent = got /\ got = Sizes[packet]
            /\ (notice = "none" => reader = "rest")
        BY <2>1, <3>4 DEF DecisionInv, Halted
      <4>2. sent = limit /\ ~held  BY <4>1, <3>4, <1>1, <2>3, <2>4
      <4>3. sent' = sent /\ reader' = next  BY <4>2 DEF Fetch
      <4>4. QED  BY <4>1, <4>3
    <3>5. reader' = "align" => sent' = Sizes[at]  BY <2>5
    <3>6. main # "decide" /\ at = packet /\ notice = "none" =>
            Halted' \/ reader' \in {"rest", "align"}
      BY <2>1, <2>5 DEF DecisionInv, Halted
    <3>7. QED
      BY <3>1, <3>2, <3>3, <3>4, <3>5, <3>6 DEF DecisionInv, Decoding, Halted
  <2>8. QED  BY <2>1, <2>2, <2>6, <2>7
<1>4. QED  BY <1>2, <1>3 DEF IInv

LEMMA SpeculateStep == IInv /\ Speculate => IInv'
<1> SUFFICES ASSUME IInv, Speculate PROVE IInv'  OBVIOUS
<1>1. at \in 1 .. Last  BY DEF Speculate, IInv, ReaderInv
<1>2. Smaller(Sizes[at], Speculative) \in Nat  BY <1>1, FileFacts DEF Smaller
<1>3. /\ Fetch(Smaller(Sizes[at], Speculative), "command")
      /\ reader = "speculate"
      /\ UNCHANGED <<at, queue, notice, stop, finished, mainVars>>
  BY DEF Speculate
<1>4. QED  BY <1>2, <1>3, FetchStep

LEMMA RestStep == IInv /\ Rest => IInv'
<1> SUFFICES ASSUME IInv, Rest PROVE IInv'  OBVIOUS
<1>1. at \in 1 .. Last  BY DEF Rest, IInv, ReaderInv
<1>2. Sizes[at] \in Nat  BY <1>1, FileFacts
<1>3. /\ Fetch(Sizes[at], "align") /\ reader = "rest"
      /\ UNCHANGED <<at, queue, notice, stop, finished, mainVars>>
  BY DEF Rest
<1>4. QED  BY <1>2, <1>3, FetchStep

LEMMA CommandStep == IInv /\ Command => IInv'
<1> SUFFICES ASSUME IInv, Command PROVE IInv'  OBVIOUS
<1> USE DEF Command, mainVars
<1>1. TypeOK' /\ ReaderInv'
  <2>1. reader' \in ReaderStates /\ notice' \in Notices
    BY DEF ReaderStates, Notices
  <2>2. sent' \in Nat  BY DEF IInv, TypeOK
  <2>3. <<>> \in Contents /\ Len(<<>>) = 0  BY EmptySeq DEF Contents
  <2>4. ring' \in Contents /\ Len(ring') <= Ring
    BY <2>3, FileFacts DEF IInv, TypeOK
  <2>5. TypeOK'  BY <2>1, <2>2, <2>4 DEF IInv, TypeOK
  <2>6. ReaderInv'  BY DEF IInv, ReaderInv
  <2>7. QED  BY <2>5, <2>6
<1>2. ASSUME Live'
      PROVE  ~stop' /\ RingInv' /\ OrderInv' /\ DecisionInv'
  <2>1. Live /\ ~stop /\ RingInv /\ OrderInv /\ DecisionInv
    BY <1>2 DEF IInv, Live
  <2>2. at = packet /\ at \in 1 .. Last /\ queue = Empty /\ ~held
        /\ sent \in 0 .. Sizes[at] /\ got \in Nat /\ Sizes[at] \in Nat \ {0}
    BY <2>1, FileFacts DEF OrderInv, Halted, IInv, TypeOK, Error, Eof
  <2>3. notice \in {"decode", "skip"}
    BY <2>1 DEF DecisionInv, IInv, TypeOK, Notices
  <2>4. CASE notice = "decode"
    <3>1. reader' = "rest" /\ UNCHANGED <<sent, ring, at, packet, got, main>>
      BY <2>4
    <3>2. RingInv'  BY <3>1, <2>1, RingKept DEF Decoding
    <3>3. OrderInv'  BY <3>1, <2>1, <2>2 DEF OrderInv, Halted
    <3>4. main # "decide" /\ (main = "next" => sent = got /\ got = Sizes[packet])
      BY <2>1, <2>2, <2>4 DEF DecisionInv
    <3>5. DecisionInv'
      BY <3>1, <3>4, <2>1, <2>2 DEF DecisionInv, Decoding, Halted
    <3>6. QED  BY <2>1, <3>2, <3>3, <3>5
  <2>5. CASE notice = "skip"
    <3>1. /\ reader' = "align" /\ ring' = <<>> /\ sent' = 0
          /\ UNCHANGED <<at, packet, got, main>>
      BY <2>5
    <3>2. main = "next" /\ got = 0  BY <2>1, <2>5 DEF DecisionInv
    <3>3. RingInv'
      <4>1. Old' = 0 /\ Gone' = 0
        BY <3>1, <3>2, <2>2 DEF Old, Gone, Decoding
      <4>2. Len(ring') = 0  BY <3>1, EmptySeq
      <4>3. QED  BY <4>1, <4>2, <3>1 DEF RingInv
    <3>4. OrderInv'  BY <3>1, <2>1, <2>2 DEF OrderInv, Halted
    <3>5. DecisionInv'
      BY <3>1, <3>2, <2>1, <2>2 DEF DecisionInv, Decoding, Halted
    <3>6. QED  BY <2>1, <3>3, <3>4, <3>5
  <2>6. QED  BY <2>3, <2>4, <2>5
<1>3. QED  BY <1>1, <1>2 DEF IInv

LEMMA AlignStep == IInv /\ Align => IInv'
<1> SUFFICES ASSUME IInv, Align PROVE IInv'  OBVIOUS
<1> USE DEF Align, mainVars
<1>1. at \in 1 .. Last /\ Last \in Nat /\ sent \in Nat /\ got \in Nat
      /\ packet \in 0 .. Last /\ Sizes[at] \in Nat \ {0}
  BY FileFacts DEF IInv, ReaderInv, TypeOK
<1>2. TypeOK' /\ ReaderInv'
  <2>1. reader' \in ReaderStates  BY DEF ReaderStates
  <2>2. sent' \in Nat /\ at' \in 1 .. Error  BY <1>1 DEF Error
  <2>3. failed' \in BOOLEAN  BY DEF IInv, TypeOK
  <2>4. TypeOK'  BY <2>1, <2>2, <2>3 DEF IInv, TypeOK
  <2>5. QED  BY <2>4 DEF ReaderInv
<1>3. ASSUME Live'
      PROVE  ~stop' /\ RingInv' /\ OrderInv' /\ DecisionInv'
  <2>1. Live /\ ~stop /\ RingInv /\ OrderInv /\ DecisionInv
    BY <1>3 DEF IInv, Live
  <2>2. at = packet /\ queue = Empty /\ ~held /\ sent \in 0 .. Sizes[at]
    BY <2>1, <1>1 DEF OrderInv, Halted, Error
  <2>3. CASE at' = at + 1
    <3>1. reader' = "demux" /\ sent' = 0 /\ at' = packet + 1 /\ at' # packet
          /\ UNCHANGED <<ring, packet, got, main, notice, queue, held>>
      BY <2>2, <2>3, <1>1
    <3>2. notice = "none" /\ main # "decide"
      BY <2>1 DEF DecisionInv, Halted, IInv, TypeOK, Notices
    <3>3. (Decoding => sent = Sizes[at]) /\ (~Decoding => sent = got)
      BY <2>1, <2>2, <3>2 DEF DecisionInv, Decoding, Live
    <3>4. RingInv'
      <4>1. Old = 0 /\ Gone = got  BY <2>2 DEF Old, Gone
      <4>2. Gone' = 0 /\ Old' = IF Decoding THEN Sizes[packet] - got ELSE 0
        BY <3>1 DEF Old, Gone, Decoding
      <4>3. Old' = sent - got  BY <4>2, <3>3, <2>2, <1>1
      <4>4. Len(ring) = sent - got
            /\ \A i \in 1 .. Len(ring) : ring[i] = <<at, got + i>>
        <5>1. Len(ring) = sent - got  BY <4>1, <2>1, <1>1 DEF RingInv
        <5>2. ASSUME NEW i \in 1 .. Len(ring) PROVE ring[i] = <<at, got + i>>
          <6>1. ~(i <= Old) /\ Gone + i - Old = got + i
            BY <4>1, <5>1, <1>1
          <6>2. QED  BY <6>1, <2>1 DEF RingInv
        <5>3. QED  BY <5>1, <5>2
      <4>5. Len(ring') = Old' + sent' - Gone'
        BY <4>2, <4>3, <4>4, <3>1, <1>1
      <4>6. ASSUME NEW i \in 1 .. Len(ring')
            PROVE  ring'[i] = IF i <= Old' THEN <<packet', got' + i>>
                              ELSE <<at', Gone' + i - Old'>>
        <5>1. i <= Old'  BY <4>2, <4>3, <4>4, <3>1, <1>1
        <5>2. ring'[i] = <<packet', got' + i>>  BY <4>4, <3>1, <2>2
        <5>3. QED  BY <5>1, <5>2
      <4>7. QED  BY <4>5, <4>6 DEF RingInv
    <3>5. OrderInv'
      <4>1. at' \in 1 .. Eof  BY <3>1, <2>2, <1>1 DEF Eof
      <4>2. at' <= Last => sent' \in 0 .. Sizes[at']
        BY <3>1, <4>1, <1>1, FileFacts
      <4>3. reader' = "demux" /\ notice' = "none" /\ queue' = Empty /\ ~held'
        BY <3>1, <3>2, <2>2
      <4>4. at' = packet' + 1 /\ sent' = 0  BY <3>1
      <4>5. QED  BY <4>1, <4>2, <4>3, <4>4 DEF OrderInv
    <3>6. DecisionInv'
      BY <3>1, <3>2, <2>1, <2>2 DEF DecisionInv, Decoding, Halted
    <3>7. QED  BY <2>1, <3>4, <3>5, <3>6
  <2>4. CASE reader' = "finish" /\ UNCHANGED <<at, sent>>
    <3>1. RingInv'  BY <2>4, <2>1, RingKept DEF Decoding
    <3>2. OrderInv'  BY <2>4, <2>1, <2>2, <1>1 DEF OrderInv, Halted
    <3>3. DecisionInv'  BY <2>4, <2>1 DEF DecisionInv, Decoding, Halted
    <3>4. QED  BY <2>1, <3>1, <3>2, <3>3
  <2>5. QED  BY <2>3, <2>4
<1>4. QED  BY <1>2, <1>3 DEF IInv

LEMMA FinishStep == IInv /\ Finish => IInv'
<1> SUFFICES ASSUME IInv, Finish PROVE IInv'  OBVIOUS
<1> USE DEF Finish, mainVars
<1>1. TypeOK' /\ ReaderInv'
  <2>1. reader' \in ReaderStates  BY DEF ReaderStates
  <2>2. TypeOK'  BY <2>1 DEF IInv, TypeOK
  <2>3. QED  BY <2>2 DEF ReaderInv
<1>2. ASSUME Live'
      PROVE  ~stop' /\ RingInv' /\ OrderInv' /\ DecisionInv'
  <2>1. Live /\ ~stop /\ RingInv /\ OrderInv /\ DecisionInv
    BY <1>2 DEF IInv, Live
  <2>2. RingInv'  BY <2>1, RingKept DEF Decoding
  <2>3. Halted /\ Halted'  BY DEF Halted
  <2>4. OrderInv'  BY <2>1, <2>3 DEF OrderInv
  <2>5. DecisionInv'  BY <2>1, <2>3 DEF DecisionInv, Decoding
  <2>6. QED  BY <2>1, <2>2, <2>4, <2>5
<1>3. QED  BY <1>1, <1>2 DEF IInv

LEMMA StartStep == IInv /\ Start => IInv'
<1> SUFFICES ASSUME IInv, Start PROVE IInv'  OBVIOUS
<1> USE DEF Start
<1>1. <<>> \in Contents /\ Len(<<>>) = 0  BY EmptySeq DEF Contents
<1>2. TypeOK' /\ ReaderInv'
  <2>1. reader' \in ReaderStates /\ main' \in MainStates /\ notice' \in Notices
    BY DEF ReaderStates, MainStates, Notices
  <2>2. /\ at' \in 1 .. Error /\ sent' \in Nat /\ queue' \in Empty .. Error
        /\ packet' \in 0 .. Last /\ got' \in Nat
    BY FileFacts DEF Empty, Error
  <2>3. ring' \in Contents /\ Len(ring') <= Ring  BY <1>1, FileFacts
  <2>4. TypeOK'  BY <2>1, <2>2, <2>3 DEF TypeOK
  <2>5. QED  BY <2>4 DEF ReaderInv
<1>3. RingInv'  BY <1>1 DEF RingInv, Old, Gone, Decoding
<1>4. OrderInv'  BY FileFacts DEF OrderInv, Halted, Eof, Error
<1>5. DecisionInv'  BY DEF DecisionInv, Decoding, Halted
<1>6. QED  BY <1>2, <1>3, <1>4, <1>5 DEF IInv

\* Steps of the loop that leave the video.
LEMMA LeaveStep ==
  ASSUME IInv, stop' = TRUE, notice' = "stop", main' = "stopping",
         queue' \in {queue, Empty}, got' \in {got, 0},
         UNCHANGED <<readerVars, ring, finished, failed, packet>>
  PROVE  IInv'
<1>1. notice' \in Notices /\ main' \in MainStates  BY DEF Notices, MainStates
<1>2. queue' \in Empty .. Error /\ got' \in Nat
  BY FileFacts DEF IInv, TypeOK, Empty, Error
<1>3. TypeOK'  BY <1>1, <1>2 DEF IInv, TypeOK, readerVars
<1>4. ReaderInv' /\ ~Live'  BY DEF IInv, ReaderInv, Live, readerVars
<1>5. QED  BY <1>3, <1>4 DEF IInv

LEMMA NextPacketStep == IInv /\ NextPacket => IInv'
<1> SUFFICES ASSUME IInv, NextPacket PROVE IInv'  OBVIOUS
<1> USE DEF NextPacket, readerVars
<1>1. CASE queue \notin 1 .. Last
  BY <1>1, LeaveStep DEF RequestStop
<1>2. CASE queue \in 1 .. Last
  <2>1. /\ queue' = Empty /\ got' = 0 /\ packet' = queue /\ main' = "decide"
        /\ UNCHANGED <<reader, at, sent, held, ring, finished, failed, stop, notice>>
    BY <1>2
  <2>2. TypeOK' /\ ReaderInv'
    <3>1. main' \in MainStates /\ queue' \in Empty .. Error
          /\ packet' \in 0 .. Last /\ got' \in Nat
      BY <2>1, <1>2, FileFacts DEF MainStates, Empty, Error
    <3>2. TypeOK'  BY <2>1, <3>1 DEF IInv, TypeOK
    <3>3. QED  BY <2>1, <3>2 DEF IInv, ReaderInv
  <2>3. main = "next" /\ ~stop /\ RingInv /\ OrderInv /\ DecisionInv
    BY DEF IInv, Live
  <2>4. at \in 1 .. Error /\ sent \in Nat /\ packet \in 0 .. Last /\ Last \in Nat
    BY FileFacts DEF IInv, TypeOK
  <2>5. /\ at = packet + 1 /\ queue = at /\ at <= Last /\ notice = "none"
        /\ Halted \/ reader \in {"speculate", "command"}
    BY <2>3, <2>4, <1>2 DEF OrderInv, Halted, Empty, Eof, Error
  <2>6. RingInv'
    <3>1. Old = 0 /\ Gone = 0 /\ Old' = 0 /\ Gone' = 0
      BY <2>1, <2>3, <2>4, <2>5 DEF Old, Gone, Decoding
    <3>2. QED  BY <2>1, <2>3, <3>1 DEF RingInv
  <2>7. OrderInv'  BY <2>1, <2>3, <2>4, <2>5 DEF OrderInv, Halted
  <2>8. DecisionInv'  BY <2>1, <2>4, <2>5 DEF DecisionInv, Decoding, Halted
  <2>9. QED  BY <2>1, <2>2, <2>3, <2>6, <2>7, <2>8 DEF IInv
<1>3. QED  BY <1>1, <1>2

LEMMA DecideStep == IInv /\ Decide => IInv'
<1> SUFFICES ASSUME IInv, Decide PROVE IInv'  OBVIOUS
<1> USE DEF Decide, readerVars
<1>1. TypeOK' /\ ReaderInv'
  <2>1. main' \in MainStates /\ notice' \in Notices  BY DEF MainStates, Notices
  <2>2. TypeOK'  BY <2>1 DEF IInv, TypeOK
  <2>3. QED  BY <2>2 DEF IInv, ReaderInv
<1>2. ~stop /\ RingInv /\ OrderInv /\ DecisionInv  BY DEF IInv, Live
<1>3. at = packet /\ got = 0 /\ (Halted \/ reader \in {"speculate", "command"})
  BY <1>2 DEF DecisionInv
<1>4. at \in 1 .. Last /\ queue = Empty /\ Sizes[at] \in Nat \ {0}
  BY <1>2, <1>3, FileFacts DEF OrderInv, IInv, TypeOK, Error
<1>5. RingInv'
  <2>1. Old = 0 /\ Gone = 0 /\ Old' = 0 /\ Gone' = 0
    BY <1>3 DEF Old, Gone, Decoding
  <2>2. QED  BY <1>2, <2>1 DEF RingInv
<1>6. OrderInv'
  <2>1. Halted \/ reader \in {"speculate", "command", "rest", "align"}
    BY <1>3
  <2>2. QED  BY <1>2, <1>3, <1>4, <2>1 DEF OrderInv, Halted
<1>7. DecisionInv'  BY <1>3, <1>4 DEF DecisionInv, Decoding, Halted
<1>8. QED  BY <1>1, <1>2, <1>5, <1>6, <1>7 DEF IInv

LEMMA ReceiveStep == IInv /\ Receive => IInv'
<1> SUFFICES ASSUME IInv, Receive PROVE IInv'  OBVIOUS
<1> USE DEF Receive, readerVars
<1>1. ring \in Seq((1 .. Last) \X Nat) /\ ring # <<>> /\ Len(ring) <= Ring
  BY DEF IInv, TypeOK, Contents
<1>2. /\ ring' \in Seq((1 .. Last) \X Nat) /\ Len(ring) \in Nat \ {0}
      /\ Len(ring') = Len(ring) - 1
      /\ \A i \in 1 .. Len(ring') : ring'[i] = ring[i + 1]
  <2>1. ring' = Tail(ring)  OBVIOUS
  <2>2. QED  BY <1>1, <2>1, HeadTailProperties, LenProperties, EmptySeq
<1>3. TypeOK' /\ ReaderInv'
  <2>1. main' \in MainStates  BY DEF MainStates
  <2>2. got' \in Nat  BY DEF IInv, TypeOK
  <2>3. ring' \in Contents /\ Len(ring') <= Ring
    BY <1>1, <1>2, FileFacts DEF Contents
  <2>4. TypeOK'  BY <2>1, <2>2, <2>3 DEF IInv, TypeOK
  <2>5. QED  BY <2>4 DEF IInv, ReaderInv
<1>4. ~stop /\ RingInv /\ OrderInv /\ DecisionInv /\ Decoding
  BY DEF IInv, Live, Decoding
<1>5. packet \in 1 .. Last /\ got \in Nat /\ got < Sizes[packet]
      /\ Sizes[packet] \in Nat \ {0} /\ at \in 1 .. Error /\ sent \in Nat
      /\ Last \in Nat
  BY <1>4, FileFacts DEF DecisionInv, IInv, TypeOK
<1>6. got' = got + 1 /\ packet' = packet /\ at' = at /\ sent' = sent
  OBVIOUS
<1>7. Old \in Int /\ Gone \in Int
      /\ (at # packet => Old = Sizes[packet] - got /\ Gone = 0
                         /\ Old' = Old - 1 /\ Gone' = 0)
      /\ (at = packet => Old = 0 /\ Gone = got /\ Old' = 0 /\ Gone' = got + 1)
  <2>1. at # packet => Old = Sizes[packet] - got /\ Gone = 0
    BY <1>4 DEF Old, Gone
  <2>2. at = packet => Old = 0 /\ Gone = got /\ Old' = 0 /\ Gone' = got + 1
    BY <1>6 DEF Old, Gone
  <2>3. at # packet => Gone' = 0  BY <1>6 DEF Gone
  <2>4. ASSUME at # packet PROVE Old' = Sizes[packet] - (got + 1)
    <3>1. CASE got + 1 = Sizes[packet]
      <4>1. main' = "next"  BY <3>1, <1>6
      <4>2. Old' = 0  BY <4>1 DEF Old, Decoding
      <4>3. QED  BY <4>2, <3>1, <1>5
    <3>2. CASE got + 1 # Sizes[packet]
      <4>1. main' = "read"  BY <3>2, <1>6
      <4>2. QED  BY <4>1, <2>4, <1>6 DEF Old, Decoding
    <3>3. QED  BY <3>1, <3>2
  <2>5. QED  BY <2>1, <2>2, <2>3, <2>4, <1>5
<1>8. RingInv'
  <2>1. Len(ring') = Old' + sent' - Gone'
    BY <1>2, <1>4, <1>5, <1>6, <1>7 DEF RingInv
  <2>2. ASSUME NEW i \in 1 .. Len(ring')
        PROVE  ring'[i] = IF i <= Old' THEN <<packet', got' + i>>
                          ELSE <<at', Gone' + i - Old'>>
    <3>1. ring'[i] = ring[i + 1] /\ i + 1 \in 1 .. Len(ring)  BY <1>2
    <3>2. ring[i + 1] = IF i + 1 <= Old THEN <<packet, got + (i + 1)>>
                        ELSE <<at, Gone + (i + 1) - Old>>
      BY <3>1, <1>4 DEF RingInv
    <3>3. got' + i = got + (i + 1)  BY <1>5, <1>6
    <3>4. (i <= Old' <=> i + 1 <= Old)
          /\ (~(i <= Old') => Gone' + i - Old' = Gone + (i + 1) - Old)
      <4>1. CASE at # packet  BY <4>1, <1>5, <1>7
      <4>2. CASE at = packet  BY <4>2, <1>5, <1>7
      <4>3. QED  BY <4>1, <4>2
    <3>5. QED  BY <3>1, <3>2, <3>3, <3>4, <1>6
  <2>3. QED  BY <2>1, <2>2 DEF RingInv
<1>9. OrderInv'  BY <1>4 DEF OrderInv, Halted
<1>10. DecisionInv'
  <2>1. notice # "skip" /\ notice # "stop" /\ main' # "decide"
        /\ (notice # "none" => Halted \/ reader \in {"speculate", "command"})
        /\ (reader = "align" => sent = Sizes[at])
    BY <1>4 DEF DecisionInv
  <2>2. Decoding' => packet' \in 1 .. Last /\ got' < Sizes[packet']
    BY <1>5, <1>6 DEF Decoding
  <2>3. ASSUME main' = "next", at = packet
        PROVE  sent = got + 1 /\ got + 1 = Sizes[packet]
    <3>1. got + 1 = Sizes[packet]  BY <2>3, <1>6
    <3>2. sent <= Sizes[packet]  BY <1>4, <1>5, <2>3 DEF OrderInv
    <3>3. sent >= got + 1
      BY <1>2, <1>4, <1>5, <1>7, <2>3 DEF RingInv
    <3>4. QED  BY <3>1, <3>2, <3>3, <1>5
  <2>4. at = packet /\ notice = "none" => Halted \/ reader \in {"rest", "align"}
    BY <1>4 DEF DecisionInv, Decoding
  <2>5. QED  BY <2>1, <2>2, <2>3, <2>4, <1>6 DEF DecisionInv, Halted, Decoding
<1>11. QED  BY <1>3, <1>4, <1>8, <1>9, <1>10 DEF IInv
LEMMA ReceiveTimeoutStep == IInv /\ ReceiveTimeout => IInv'
<1> SUFFICES ASSUME IInv, ReceiveTimeout PROVE IInv'  OBVIOUS
<1> USE DEF ReceiveTimeout, readerVars
<1>1. main' \in MainStates  BY DEF MainStates
<1>2. TypeOK' /\ ReaderInv'  BY <1>1 DEF IInv, TypeOK, ReaderInv
<1>3. ~stop /\ RingInv /\ OrderInv /\ DecisionInv  BY DEF IInv, Live
<1>4. RingInv'  BY <1>3, RingKept DEF Decoding
<1>5. OrderInv'  BY <1>3 DEF OrderInv, Halted
<1>6. DecisionInv'  BY <1>3 DEF DecisionInv, Halted, Decoding
<1>7. QED  BY <1>2, <1>3, <1>4, <1>5, <1>6 DEF IInv

LEMMA CheckFinishedStep == IInv /\ CheckFinished => IInv'
<1> SUFFICES ASSUME IInv, CheckFinished PROVE IInv'  OBVIOUS
<1> USE DEF CheckFinished
<1>1. CASE finished  BY <1>1, LeaveStep DEF RequestStop
<1>2. CASE ~finished
  <2> USE DEF readerVars
  <2>1. main' = "read" /\ UNCHANGED <<stop, notice>>  BY <1>2
  <2>2. main' \in MainStates  BY <2>1 DEF MainStates
  <2>3. TypeOK' /\ ReaderInv'  BY <2>1, <2>2 DEF IInv, TypeOK, ReaderInv
  <2>4. ~stop /\ RingInv /\ OrderInv /\ DecisionInv  BY DEF IInv, Live
  <2>5. RingInv'  BY <2>1, <2>4, RingKept DEF Decoding
  <2>6. OrderInv'  BY <2>1, <2>4 DEF OrderInv, Halted
  <2>7. DecisionInv'  BY <2>1, <2>4 DEF DecisionInv, Halted, Decoding
  <2>8. QED  BY <2>1, <2>3, <2>4, <2>5, <2>6, <2>7 DEF IInv
<1>3. QED  BY <1>1, <1>2

LEMMA ReleaseStep == IInv /\ Release => IInv'
<1> SUFFICES ASSUME IInv, Release PROVE IInv'  OBVIOUS
<1> USE DEF Release
<1>1. <<>> \in Contents /\ Len(<<>>) = 0  BY EmptySeq DEF Contents
<1>2. reader' \in ReaderStates /\ main' \in MainStates
  BY DEF ReaderStates, MainStates
<1>3. queue' \in Empty .. Error /\ ring' \in Contents /\ Len(ring') <= Ring
  BY <1>1, FileFacts DEF Empty, Error
<1>4. TypeOK'  BY <1>2, <1>3 DEF IInv, TypeOK
<1>5. ReaderInv' /\ ~Live'  BY DEF ReaderInv, Live
<1>6. QED  BY <1>4, <1>5 DEF IInv

LEMMA IInvStep == IInv /\ [Next]_vars => IInv'
<1> SUFFICES ASSUME IInv, [Next]_vars PROVE IInv'  OBVIOUS
<1>1. CASE Reader
  BY <1>1, QuitStep, DemuxStep, OfferStep, SpeculateStep, CommandStep, RestStep,
     AlignStep, FinishStep DEF Reader
<1>2. CASE Main
  BY <1>2, NextPacketStep, DecideStep, ReceiveStep, ReceiveTimeoutStep,
     CheckFinishedStep, ReleaseStep DEF Main
<1>3. CASE Start  BY <1>3, StartStep
<1>4. CASE NextTimeout  BY <1>4, LeaveStep DEF NextTimeout, RequestStop
<1>5. CASE Close  BY <1>5, LeaveStep DEF Close, RequestStop
<1>6. CASE UNCHANGED vars
  BY <1>6 DEF IInv, vars, readerVars, mainVars, TypeOK, ReaderInv, Live, RingInv,
     OrderInv, DecisionInv, Old, Gone, Decoding, Halted
<1>7. QED  BY <1>1, <1>2, <1>3, <1>4, <1>5, <1>6 DEF Next

\* The reader and the loop agree on what the queue and the ring hold, at every
\* moment the video is open (sendMjpegInputPacket, readMjpegInput).
THEOREM Inductive == Spec => []IInv
BY IInvInit, IInvStep, PTL DEF Spec

\* Every variable keeps its type, and the ring never holds more than
\* kMjpegInputRingBytes.
THEOREM TypeCorrect == Spec => []TypeOK
<1>1. IInv => TypeOK  BY DEF IInv
<1>2. QED  BY <1>1, Inductive, PTL

LEMMA InputStep ==
  ASSUME IInv, [Next]_vars
  PROVE  [/\ main = "read" /\ got' # got => Head(ring) = <<packet, got'>>
          /\ packet' \in {packet, packet + 1, 0}]_vars
<1>1. ASSUME main = "read", got' # got PROVE Head(ring) = <<packet, got'>>
  <2>1. Receive
    BY <1>1 DEF Next, Reader, Main, Start, NextTimeout, Close, NextPacket, Decide,
       ReceiveTimeout, CheckFinished, Release, Quit, Demux, Offer, Speculate, Command,
       Rest, Align, Finish, vars, mainVars
  <2>2. RingInv /\ OrderInv /\ DecisionInv /\ Decoding
    BY <1>1 DEF IInv, Live, Decoding
  <2>3. ring \in Seq((1 .. Last) \X Nat) /\ ring # <<>> /\ got \in Nat
        /\ packet \in 1 .. Last /\ got < Sizes[packet] /\ Sizes[packet] \in Nat
        /\ got' = got + 1
    BY <2>1, <2>2, FileFacts DEF Receive, DecisionInv, IInv, TypeOK, Contents
  <2>4. 1 \in 1 .. Len(ring) /\ Head(ring) = ring[1]
    BY <2>3, LenProperties, EmptySeq
  <2>5. ring[1] = IF 1 <= Old THEN <<packet, got + 1>> ELSE <<at, Gone + 1 - Old>>
    BY <2>2, <2>4 DEF RingInv
  <2>6. CASE at = packet
    <3>1. Old = 0 /\ Gone = got  BY <2>6 DEF Old, Gone
    <3>2. QED  BY <3>1, <2>3, <2>4, <2>5, <2>6
  <2>7. CASE at # packet
    <3>1. Old = Sizes[packet] - got  BY <2>2, <2>7 DEF Old
    <3>2. QED  BY <3>1, <2>3, <2>4, <2>5
  <2>8. QED  BY <2>6, <2>7
<1>2. packet' \in {packet, packet + 1, 0}
  <2>1. CASE NextPacket /\ queue \in 1 .. Last
    <3>1. main = "next" /\ OrderInv /\ packet' = queue
      BY <2>1 DEF IInv, Live, NextPacket
    <3>2. queue = packet + 1
      BY <2>1, <3>1, FileFacts DEF OrderInv, Halted, IInv, TypeOK, Empty, Error
    <3>3. QED  BY <3>1, <3>2
  <2>2. CASE NextPacket /\ queue \notin 1 .. Last  BY <2>2 DEF NextPacket
  <2>3. CASE Start  BY <2>3 DEF Start
  <2>4. CASE ~NextPacket /\ ~Start
    BY <2>4 DEF Next, Reader, Main, NextTimeout, Close, Decide, Receive,
       ReceiveTimeout, CheckFinished, Release, Quit, Demux, Offer, Speculate, Command,
       Rest, Align, Finish, vars, mainVars
  <2>5. QED  BY <2>1, <2>2, <2>3, <2>4
<1>3. QED  BY <1>1, <1>2

\* The decoder gets the pieces of its packet one after the other and nothing
\* of a skipped one, and the packets follow each other as in the file
\* (nextMjpegInputPacket, signalMjpegInputPacket and readMjpegInput against
\* mjpegInputReaderTask).
THEOREM InputInOrder == Spec => InputExact
BY Inductive, InputStep, PTL DEF Spec, InputExact
-----------------------------------------------------------------------------
\* Why the reader of an open video has ended.
EndInv ==
  /\ at = Error => failed
  /\ Live => /\ finished => Halted
             /\ Halted => failed \/ at = Eof
             /\ reader = "end" => at \in {Eof, Error}

LEMMA EndInvStep == IInv /\ EndInv /\ [Next]_vars => EndInv'
<1> SUFFICES ASSUME IInv, EndInv, [Next]_vars PROVE EndInv'  OBVIOUS
<1> USE DEF EndInv
<1>1. CASE Reader
  <2>1. Live' = Live /\ (Live => ~stop /\ notice # "stop")
    BY <1>1 DEF Reader, Quit, Demux, Offer, Speculate, Command, Rest, Align, Finish,
       Live, mainVars, IInv, DecisionInv
  <2>2. CASE Quit  BY <2>1, <2>2 DEF Quit, mainVars
  <2>3. CASE Demux
    <3>1. reader' \in {"offer", "end"} /\ (reader' = "end" => at' \in {Eof, Error})
          /\ (at' = Error => failed') /\ finished' = finished
          /\ ~Halted /\ ~Halted'
      BY <2>3 DEF Demux, Halted, mainVars
    <3>2. QED  BY <2>1, <3>1
  <2>4. CASE Offer
    <3>1. reader' \in {"speculate", "finish"} /\ ~Halted
          /\ (reader' = "finish" => reader = "end")
          /\ UNCHANGED <<at, failed, finished>>
      BY <2>4 DEF Offer, Halted, mainVars
    <3>2. QED  BY <2>1, <3>1 DEF Halted
  <2>5. CASE Speculate \/ Rest
    <3>1. ~Halted /\ UNCHANGED <<at, finished>> /\ reader' # "end"
          /\ (Halted' => failed') /\ (failed => failed')
      BY <2>5 DEF Speculate, Rest, Fetch, Halted, mainVars
    <3>2. QED  BY <2>1, <3>1
  <2>6. CASE Command
    <3>1. ~Halted /\ UNCHANGED <<at, finished, failed>> /\ reader' # "end"
          /\ (notice # "stop" => ~Halted')
      BY <2>6 DEF Command, Halted, mainVars
    <3>2. QED  BY <2>1, <3>1
  <2>7. CASE Align
    <3>1. ~Halted /\ UNCHANGED finished /\ reader' # "end"
          /\ (Halted' => failed') /\ (failed => failed')
      BY <2>7 DEF Align, Halted, mainVars
    <3>2. at' = Error => failed'
      BY <2>7, FileFacts DEF Align, IInv, ReaderInv, Error, mainVars
    <3>3. QED  BY <2>1, <3>1, <3>2
  <2>8. CASE Finish
    <3>1. Halted /\ Halted' /\ reader' # "end" /\ UNCHANGED <<at, failed>>
      BY <2>8 DEF Finish, Halted, mainVars
    <3>2. QED  BY <2>1, <3>1
  <2>9. QED
    BY <1>1, <2>2, <2>3, <2>4, <2>5, <2>6, <2>7, <2>8 DEF Reader
<1>2. CASE Start
  BY <1>2, FileFacts DEF Start, Halted, Error
<1>3. CASE Release
  BY <1>3 DEF Release, Live
<1>4. CASE NextPacket \/ Decide \/ Receive \/ ReceiveTimeout \/ CheckFinished
             \/ NextTimeout \/ Close
  <2>1. UNCHANGED <<reader, at, failed, finished>> /\ Live
    BY <1>4 DEF NextPacket, Decide, Receive, ReceiveTimeout, CheckFinished,
       NextTimeout, Close, readerVars, Live
  <2>2. QED  BY <2>1 DEF Halted
<1>5. CASE UNCHANGED vars
  BY <1>5 DEF vars, readerVars, mainVars, Live, Halted
<1>6. QED  BY <1>1, <1>2, <1>3, <1>4, <1>5 DEF Next, Main

\* A picture is cut short only after a failure of the card or behind the last
\* packet, for every file and ring (readMjpegInput, mjpegInputReaderTask).
THEOREM ShortInputHasReason == Spec => ShortInputExplained
<1>1. Init => EndInv
  BY FileFacts DEF Init, EndInv, Live, Error
<1>2. EndInv /\ [Next]_vars
        => [main = "check" /\ main' = "stopping" => failed \/ at = Eof]_vars
  <2> SUFFICES ASSUME EndInv, [Next]_vars, main = "check", main' = "stopping"
               PROVE  failed \/ at = Eof
    OBVIOUS
  <2>1. CheckFinished
    BY DEF Next, Reader, Main, Start, NextTimeout, Close, NextPacket, Decide,
       Receive, ReceiveTimeout, Release, Quit, Demux, Offer, Speculate, Command,
       Rest, Align, Finish, vars, mainVars
  <2>2. finished /\ Live  BY <2>1 DEF CheckFinished, Live
  <2>3. QED  BY <2>2 DEF EndInv
<1>3. QED
  BY <1>1, <1>2, EndInvStep, Inductive, PTL DEF Spec, ShortInputExplained

=============================================================================
