---------------------------- MODULE MCHlvEncoder ----------------------------
EXTENDS HlvEncoder

\* A picture is calm, still, calm but better as a key frame, a cut or a hard
\* cut.  The first is a key frame whatever it shows.
Shown(diff, still, keyWins) ==
  [diff |-> diff, still |-> still, keyWins |-> keyWins]
Calm == Shown("calm", FALSE, FALSE)
Contents == {Calm, Shown("calm", TRUE, FALSE), Shown("calm", FALSE, TRUE),
             Shown("cut", FALSE, TRUE), Shown("hard", FALSE, TRUE)}
VideosOf(n) ==
  {v \in [1..NFrames -> Contents] :
     v[1] = Calm /\ \A i \in (n + 1)..NFrames : v[i] = Calm}

Config(mode, adaptive, q, gop, max) ==
  [mode |-> mode, adaptive |-> adaptive, repeat |-> TRUE, q |-> q,
   gop |-> gop, minKey |-> 1, max |-> max]
MCInputs ==
  {Config("plain", a, 2, 3, 4) : a \in BOOLEAN} \X VideosOf(4)
  \cup {Config("bitrate", FALSE, 2, 3, 3)} \X VideosOf(3)
  \cup {Config("quality", a, q, 2, 2) : a \in BOOLEAN, q \in {2}} \X VideosOf(2)
  \cup {Config("window", a, 2, 3, 3) : a \in BOOLEAN} \X VideosOf(3)
  \cup {Config("window", TRUE, 3, 2, 0)} \X VideosOf(2)
  \cup {Config("gops", FALSE, 2, 2, m) : m \in {0, 3}} \X VideosOf(4)
  \cup {Config("gops", TRUE, 2, 3, m) : m \in {0}} \X VideosOf(4)
MCPsnrs == 0..2
MCSizes == 0..1
=============================================================================
