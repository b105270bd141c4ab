------------------------ MODULE HlvRowPipelineProof ------------------------
(***************************************************************************)
(* The row guard keeps displayed pictures whole and the rolling ring keeps *)
(* motion compensation on the previous picture, for every picture size,    *)
(* ring size, search radius and display geometry.                          *)
(***************************************************************************)
EXTENDS HlvRowPipeline, TLAPS

Coding == worker \in {"row", "guard", "copy", "mb"}

\* Who may hold the request and the result.
QueueInv ==
  /\ request => inflight /\ worker = "receive" /\ result.status = "none"
  /\ worker = "parse" \/ Coding
       => inflight /\ ~request /\ result.status = "none"
  /\ result.status # "none" => inflight /\ worker = "receive" /\ ~request
  /\ main \in {"idle", "submit", "closing", "closed"} => ~inflight
  /\ main \in {"idle", "submit"} => worker = "receive"
  /\ worker = "none" <=> main = "closed"
  /\ main \in {"closing", "closed"} => pending = 0

\* Rows the decoder has committed so far, at the head of macroblock row `row`.
Committed == IF row <= Ring THEN 0 ELSE row - Ring
CommitEnd == IF row = Padded THEN Padded ELSE row + MB - Ring

\* Where the decoder is, and what the reference and the ring hold there.
DecoderInv ==
  Coding =>
    /\ content < Frames
    /\ copied <= row
    /\ worker = "row" => copied = Committed
    /\ worker \in {"guard", "copy"} =>
         /\ row >= Ring /\ target = CommitEnd
         /\ Committed <= copied /\ copied < target
    /\ worker = "mb" =>
         /\ row < Padded
         /\ copied = IF row + MB <= Ring THEN 0 ELSE row + MB - Ring
    /\ \A r \in Rows : r < copied => ref[r] = content + 1
    /\ content # 0 => \A r \in Rows : (r >= copied => ref[r] = content)
    /\ (kind = "P") => (content # 0)
    /\ \A r \in Rows : copied <= r /\ r < row =>
         ring[r % Ring] = Decoded(content + 1, r)

\* The reference is one whole picture whenever a decode may start from it.
ReferenceInv ==
  (\/ request \/ worker = "parse" \/ main \in {"idle", "submit"}
   \/ result.status \in {"ok", "skipped"})
  => (content # 0 => \A r \in Rows : ref[r] = content)

\* The picture handed over is the one the decoder completed last.
HandoverInv ==
  /\ result.status = "ok" => content # 0 /\ result.frame = content
  /\ main \in {"idle", "submit"} /\ pending # 0 => pending = content

\* renderFrame runs over the display lines of a pending picture.
LineInv ==
  /\ main \in {"render", "draw"} => draw
  /\ main = "submit" => line = 0
  /\ main = "render" => line < Lines
  /\ main = "draw" => line > 0

\* While a picture is rendered the guard is up, counts no row that is still to
\* be read, and every visible row it does not count is untouched.
GuardInv ==
  Rendering =>
    /\ active /\ pending # 0
    /\ rendered <= IF line = 0 THEN 0 ELSE RowMap[line - 1] + 1
    /\ \A r \in 0 .. Height - 1 : r >= rendered => ref[r] = pending
    /\ worker = "copy" => copied >= GuardedEnd \/ rendered >= GuardedEnd

IInv == /\ TypeOK /\ QueueInv /\ DecoderInv
        /\ ReferenceInv /\ HandoverInv /\ LineInv /\ GuardInv

-----------------------------------------------------------------------------
(* Arithmetic of rows and ring slots.                                      *)

\* A macroblock row that starts inside the padded picture ends inside it.
LEMMA RowStep ==
  /\ 0 \in RowStarts /\ Padded \in RowStarts
  /\ \A y \in RowStarts : y \in 0 .. Padded
  /\ \A y \in RowStarts : y < Padded => y + MB \in RowStarts /\ y + MB <= Padded
  /\ \A y \in RowStarts : y < Ring => y + MB <= Ring
<1>1. MB \in Nat \ {0} /\ MbRows \in Nat \ {0}  BY SizeAssumption
<1>2. ASSUME NEW m \in 0 .. MbRows
      PROVE  /\ m * MB \in 0 .. MbRows * MB
             /\ m * MB < MbRows * MB =>
                  /\ m + 1 \in 0 .. MbRows /\ (m + 1) * MB = m * MB + MB
                  /\ m * MB + MB <= MbRows * MB
  <2>1. m * MB \in Nat /\ m * MB <= MbRows * MB  BY <1>1
  <2>2. ASSUME m * MB < MbRows * MB
        PROVE  /\ m + 1 \in 0 .. MbRows /\ (m + 1) * MB = m * MB + MB
               /\ m * MB + MB <= MbRows * MB
    <3>1. m < MbRows  BY <1>1, <2>2
    <3>2. (m + 1) * MB <= MbRows * MB  BY <1>1, <3>1
    <3>3. (m + 1) * MB = m * MB + MB  BY <1>1
    <3>4. QED  BY <3>1, <3>2, <3>3, <1>1
  <2>3. QED  BY <2>1, <2>2, <1>1
<1>3. 0 \in RowStarts /\ Padded \in RowStarts
  <2>1. 0 \in 0 .. MbRows /\ MbRows \in 0 .. MbRows /\ 0 * MB = 0  BY <1>1
  <2>2. QED  BY <2>1 DEF Padded, RowStarts
<1>4. \A y \in RowStarts : y \in 0 .. Padded  BY <1>2 DEF Padded, RowStarts
<1>5. ASSUME NEW y \in RowStarts, y < Padded
      PROVE  y + MB \in RowStarts /\ y + MB <= Padded
  <2>1. PICK m \in 0 .. MbRows : y = m * MB  BY DEF RowStarts
  <2>2. m + 1 \in 0 .. MbRows /\ (m + 1) * MB = y + MB /\ y + MB <= Padded
    BY <1>2, <1>5, <2>1 DEF Padded
  <2>3. QED  BY <2>2 DEF RowStarts
<1>6. ASSUME NEW y \in RowStarts, y < Ring
      PROVE  y + MB <= Ring
  <2>1. PICK m \in 0 .. MbRows : y = m * MB  BY DEF RowStarts
  <2>2. CASE RingMbs > MbRows  BY <1>5, <1>6, <2>2 DEF Ring
  <2>3. CASE ~ (RingMbs > MbRows)
    <3>1. RingMbs \in Nat /\ m \in Nat /\ m * MB < RingMbs * MB
      BY SizeAssumption, <1>6, <2>1, <2>3 DEF Ring
    <3>2. m < RingMbs  BY <1>1, <3>1
    <3>3. (m + 1) * MB <= RingMbs * MB  BY <1>1, <3>1, <3>2
    <3>4. (m + 1) * MB = m * MB + MB  BY <1>1, <3>1
    <3>5. QED  BY <2>1, <2>3, <3>3, <3>4 DEF Ring
  <2>4. QED  BY <2>2, <2>3
<1>7. QED  BY <1>3, <1>4, <1>5, <1>6

\* The ring covers the picture, or holds a macroblock row and the search
\* radius above it.
LEMMA RingSize ==
  /\ Padded \in Nat \ {0} /\ Ring \in Nat \ {0} /\ Ring <= Padded
  /\ Ring = Padded \/ Ring - MB >= Radius
  /\ Ring = Padded \/ Ring >= 2 * MB
  /\ Height \in 1 .. Padded
  /\ MB \in Nat \ {0} /\ Radius \in Nat /\ Frames \in Nat
  /\ Lines \in Nat \ {0} /\ Transfer \in Nat \ {0}
<1>1. /\ MB \in Nat \ {0} /\ MbRows \in Nat \ {0} /\ RingMbs \in Nat
      /\ RingMbs >= 2 /\ Radius \in Nat /\ Radius <= (RingMbs - 1) * MB
      /\ Height \in 1 .. MbRows * MB /\ Frames \in Nat
      /\ Lines \in Nat \ {0} /\ Transfer \in Nat \ {0}
  BY SizeAssumption
<1>2. MbRows * MB \in Nat \ {0}  BY <1>1
<1>3. CASE RingMbs > MbRows  BY <1>1, <1>2, <1>3 DEF Ring, Padded
<1>4. CASE ~ (RingMbs > MbRows)
  <2>1. RingMbs * MB <= MbRows * MB  BY <1>1, <1>4
  <2>2. 2 * MB <= RingMbs * MB  BY <1>1
  <2>3. (RingMbs - 1) * MB = RingMbs * MB - MB  BY <1>1
  <2>4. RingMbs * MB \in Nat \ {0}  BY <1>1
  <2>5. QED  BY <1>1, <1>2, <1>4, <2>1, <2>2, <2>3, <2>4 DEF Ring, Padded
<1>5. QED  BY <1>3, <1>4

\* Rows less than a ring apart have different slots.
LEMMA SlotsDiffer ==
  ASSUME NEW n \in Nat \ {0}, NEW a \in Nat, NEW b \in Nat, a < b, b - a < n
  PROVE  a % n # b % n
<1>1. SUFFICES ASSUME a % n = b % n PROVE FALSE  OBVIOUS
<1>2. a = n * (a \div n) + (a % n) /\ a \div n \in Int  OBVIOUS
<1>3. b = n * (b \div n) + (b % n) /\ b \div n \in Int  OBVIOUS
<1>4. DEFINE k == (b \div n) - (a \div n)
<1>5. b - a = n * k
  <2>1. n * (b \div n) - n * (a \div n) = n * ((b \div n) - (a \div n))
    BY <1>2, <1>3
  <2>2. QED  BY <1>1, <1>2, <1>3, <2>1
<1>6. k \in Int  BY <1>2, <1>3
<1>7. CASE k <= 0
  <2>1. n * k <= 0  BY <1>6, <1>7
  <2>2. QED  BY <1>5, <2>1
<1>8. CASE k >= 1
  <2>1. n * k >= n  BY <1>6, <1>8
  <2>2. QED  BY <1>5, <2>1, <1>6
<1>9. QED  BY <1>6, <1>7, <1>8

LEMMA SlotRange ==
  ASSUME NEW n \in Nat \ {0}, NEW a \in Nat
  PROVE  a % n \in 0 .. n - 1
OBVIOUS

\* What the decode task may answer.
LEMMA ResultType ==
  /\ NoResult \in Results /\ NoResult.status = "none"
  /\ \A s \in {"ok", "skipped", "eof", "error"}, f \in 0 .. Frames :
       /\ [status |-> s, frame |-> f] \in Results
       /\ [status |-> s, frame |-> f].status = s
       /\ [status |-> s, frame |-> f].frame = f
  /\ \A r \in Results : /\ r.frame \in 0 .. Frames
                        /\ r.status \in {"none", "ok", "skipped", "eof", "error"}
BY RingSize DEF Results, NoResult

\* The source row of a display line, and where the next line's can be.
LEMMA RowMapRange ==
  /\ \A l \in 0 .. Lines - 1 : RowMap[l] \in 0 .. Height - 1
  /\ \A k, l \in 0 .. Lines - 1 : k <= l => RowMap[k] <= RowMap[l]
BY RowMapAssumption

-----------------------------------------------------------------------------
(* The inductive invariant.                                                *)

LEMMA IInvInit == Init => IInv
<1> SUFFICES ASSUME Init PROVE IInv  OBVIOUS
<1> USE RingSize, RowStep DEF Init, NoResult
<1>1. TypeOK
  <2>1. PlayerType
    <3>1. 0 \in 0 .. Frames /\ 0 \in 0 .. Lines  OBVIOUS
    <3>2. QED  BY <3>1 DEF PlayerType
  <2>2. SharedType
    <3>1. IntMax \in 0 .. IntMax  BY DEF IntMax
    <3>2. NoResult \in Results  BY ResultType
    <3>3. QED  BY <3>1, <3>2 DEF SharedType
  <2>3. WorkerType  BY DEF WorkerType, Rows, Torn, Slots, Decoded
  <2>4. QED  BY <2>1, <2>2, <2>3 DEF TypeOK
<1>2. QueueInv  BY DEF QueueInv, Coding
<1>3. DecoderInv  BY DEF DecoderInv, Coding
<1>4. ReferenceInv  BY DEF ReferenceInv
<1>5. HandoverInv  BY DEF HandoverInv
<1>6. LineInv  BY DEF LineInv
<1>7. GuardInv  BY DEF GuardInv, Rendering
<1>8. QED  BY <1>1, <1>2, <1>3, <1>4, <1>5, <1>6, <1>7 DEF IInv

LEMMA OpenVideoStep ==
  ASSUME IInv, OpenVideo
  PROVE  IInv'
<1> USE RingSize DEF NoResult, mainVars, guardVars, queueVars, workerVars
<1>0. /\ PlayerType /\ SharedType /\ WorkerType
      /\ QueueInv /\ DecoderInv /\ ReferenceInv /\ HandoverInv
      /\ LineInv /\ GuardInv
  BY DEF IInv, TypeOK
<1>1. PlayerType'
  BY <1>0 DEF OpenVideo, PlayerType
<1>2. SharedType'
  BY <1>0 DEF OpenVideo, SharedType
<1>3. WorkerType'
  BY <1>0 DEF OpenVideo, WorkerType, Rows, Torn, Decoded
<1>4. QueueInv'
  BY <1>0 DEF OpenVideo, QueueInv, Coding
<1>5. DecoderInv'
  BY <1>0 DEF OpenVideo, DecoderInv, Coding
<1>6. ReferenceInv'
  BY <1>0 DEF OpenVideo, ReferenceInv
<1>7. HandoverInv'
  BY <1>0 DEF OpenVideo, QueueInv, HandoverInv
<1>8. LineInv'
  BY <1>0 DEF OpenVideo, LineInv
<1>9. GuardInv'
  BY <1>0 DEF OpenVideo, GuardInv, Rendering
<1>10. QED
  BY <1>1, <1>2, <1>3, <1>4, <1>5, <1>6, <1>7, <1>8, <1>9
     DEF IInv, TypeOK

LEMMA BeginIterationStep ==
  ASSUME NEW seek \in BOOLEAN, IInv, BeginIteration(seek)
  PROVE  IInv'
<1> USE RingSize DEF NoResult, mainVars, guardVars, queueVars, workerVars
<1>0. /\ PlayerType /\ SharedType /\ WorkerType
      /\ QueueInv /\ DecoderInv /\ ReferenceInv /\ HandoverInv
      /\ LineInv /\ GuardInv
  BY DEF IInv, TypeOK
<1>1. PlayerType'
  BY <1>0 DEF BeginIteration, PlayerType
<1>2. SharedType'
  <2>0. 0 \in 0 .. IntMax /\ IntMax \in 0 .. IntMax  BY DEF IntMax
  <2>1. active' \in BOOLEAN
    BY <1>0 DEF BeginIteration, beginHlvRowPipeline, SharedType
  <2>1a. rendered' \in 0 .. IntMax
    BY <1>0, <2>0 DEF BeginIteration, beginHlvRowPipeline, SharedType
  <2>2. inflight' \in BOOLEAN /\ request' \in BOOLEAN
    BY <1>0 DEF BeginIteration, beginHlvRowPipeline, SharedType
  <2>3. result' \in Results
    BY <1>0, ResultType
       DEF BeginIteration, beginHlvRowPipeline, SharedType, PlayerType, WorkerType
  <2>4. QED  BY <2>1, <2>1a, <2>2, <2>3 DEF SharedType
<1>3. WorkerType'
  BY <1>0 DEF BeginIteration, WorkerType
<1>4. QueueInv'
  BY <1>0 DEF BeginIteration, QueueInv, Coding
<1>5. DecoderInv'
  BY <1>0 DEF BeginIteration, DecoderInv, Coding, Committed, CommitEnd
<1>6. ReferenceInv'
  BY <1>0 DEF BeginIteration, ReferenceInv
<1>7. HandoverInv'
  BY <1>0 DEF BeginIteration, HandoverInv
<1>8. LineInv'
  BY <1>0 DEF BeginIteration, LineInv
<1>9. GuardInv'
  <2>1. Rendering' => main = "idle" /\ pending # 0 /\ worker = "receive"
                    /\ active' /\ rendered' = 0 /\ line' = 0
    BY <1>0 DEF BeginIteration, beginHlvRowPipeline, QueueInv, Rendering
  <2>2. Rendering' => \A r \in Rows : ref[r] = pending
    BY <2>1, <1>0 DEF ReferenceInv, HandoverInv
  <2>3. \A r \in 0 .. Height - 1 : r \in Rows  BY DEF Rows
  <2>4. QED
    BY <2>1, <2>2, <2>3 DEF BeginIteration, GuardInv
<1>10. QED
  BY <1>1, <1>2, <1>3, <1>4, <1>5, <1>6, <1>7, <1>8, <1>9
     DEF IInv, TypeOK

LEMMA SubmitDecodeStep ==
  ASSUME IInv, SubmitDecode
  PROVE  IInv'
<1> USE RingSize DEF NoResult, mainVars, guardVars, queueVars, workerVars
<1>0. /\ PlayerType /\ SharedType /\ WorkerType
      /\ QueueInv /\ DecoderInv /\ ReferenceInv /\ HandoverInv
      /\ LineInv /\ GuardInv
  BY DEF IInv, TypeOK
<1>1. PlayerType'
  BY <1>0 DEF SubmitDecode, PlayerType
<1>2. SharedType'
  BY <1>0 DEF SubmitDecode, SharedType
<1>3. WorkerType'
  BY <1>0 DEF SubmitDecode, WorkerType
<1>4. QueueInv'
  BY <1>0 DEF SubmitDecode, QueueInv, Coding
<1>5. DecoderInv'
  BY <1>0 DEF SubmitDecode, DecoderInv, Coding, Committed, CommitEnd
<1>6. ReferenceInv'
  BY <1>0 DEF SubmitDecode, ReferenceInv
<1>7. HandoverInv'
  BY <1>0 DEF SubmitDecode, HandoverInv
<1>8. LineInv'
  BY <1>0 DEF SubmitDecode, LineInv
<1>9. GuardInv'
  BY <1>0 DEF SubmitDecode, GuardInv, Rendering, GuardedEnd
<1>10. QED
  BY <1>1, <1>2, <1>3, <1>4, <1>5, <1>6, <1>7, <1>8, <1>9
     DEF IInv, TypeOK

LEMMA ConvertLineStep ==
  ASSUME IInv, ConvertLine
  PROVE  IInv'
<1> USE RingSize DEF NoResult, mainVars, guardVars, queueVars, workerVars
<1>0. /\ PlayerType /\ SharedType /\ WorkerType
      /\ QueueInv /\ DecoderInv /\ ReferenceInv /\ HandoverInv
      /\ LineInv /\ GuardInv
  BY DEF IInv, TypeOK
<1>1. PlayerType'
  BY <1>0 DEF ConvertLine, PlayerType, LineInv
<1>2. SharedType'
  BY <1>0 DEF ConvertLine, SharedType
<1>3. WorkerType'
  BY <1>0 DEF ConvertLine, WorkerType
<1>4. QueueInv'
  BY <1>0 DEF ConvertLine, QueueInv, Coding
<1>5. DecoderInv'
  BY <1>0 DEF ConvertLine, DecoderInv, Coding, Committed, CommitEnd
<1>6. ReferenceInv'
  BY <1>0 DEF ConvertLine, ReferenceInv
<1>7. HandoverInv'
  BY <1>0 DEF ConvertLine, HandoverInv
<1>8. LineInv'
  BY <1>0 DEF ConvertLine, PlayerType, LineInv
<1>9. GuardInv'
  <2>1. main = "render" /\ line \in 0 .. Lines - 1 /\ line' = line + 1 /\ draw
    BY <1>0 DEF ConvertLine, PlayerType, LineInv
  <2>2. Rendering /\ UNCHANGED <<draw, pending, active, rendered, ref, worker,
                               copied, target>>
    BY <1>0, <2>1 DEF ConvertLine, Rendering
  <2>3. rendered <= RowMap[line] + 1
    <3>1. CASE line = 0
      BY <1>0, <2>1, <2>2, <3>1, RowMapRange DEF GuardInv, SharedType
    <3>2. CASE line > 0
      <4>1. line - 1 \in 0 .. Lines - 1 /\ line - 1 <= line  BY <2>1, <3>2
      <4>2. RowMap[line - 1] <= RowMap[line]  BY <2>1, <4>1, RowMapRange
      <4>3. rendered <= RowMap[line - 1] + 1
        BY <1>0, <2>2, <3>2 DEF GuardInv
      <4>4. QED  BY <1>0, <2>1, <4>1, <4>2, <4>3, RowMapRange DEF SharedType
    <3>3. QED  BY <2>1, <3>1, <3>2
  <2>4. line' # 0 /\ line' - 1 = line  BY <2>1
  <2>5. QED  BY <1>0, <2>2, <2>3, <2>4 DEF GuardInv, GuardedEnd, Rendering
<1>10. QED
  BY <1>1, <1>2, <1>3, <1>4, <1>5, <1>6, <1>7, <1>8, <1>9
     DEF IInv, TypeOK

LEMMA DrawStripStep ==
  ASSUME IInv, DrawStrip
  PROVE  IInv'
<1> USE RingSize DEF NoResult, mainVars, guardVars, queueVars, workerVars
<1>0. /\ PlayerType /\ SharedType /\ WorkerType
      /\ QueueInv /\ DecoderInv /\ ReferenceInv /\ HandoverInv
      /\ LineInv /\ GuardInv
  BY DEF IInv, TypeOK
<1>1. PlayerType'
  BY <1>0 DEF DrawStrip, PlayerType
<1>2. SharedType'
  <2>0. main = "draw" => line - 1 \in 0 .. Lines - 1
    BY <1>0 DEF PlayerType, LineInv
  <2>1. main = "draw" => RowMap[line - 1] + 1 \in 0 .. IntMax
    BY <2>0, RowMapRange DEF IntMax
  <2>2. active' \in BOOLEAN
    BY <1>0 DEF DrawStrip, publishHlvRenderedRows, SharedType
  <2>3. rendered' \in 0 .. IntMax
    BY <1>0, <2>1 DEF DrawStrip, publishHlvRenderedRows, SharedType
  <2>4. QED
    BY <1>0, <2>2, <2>3 DEF DrawStrip, SharedType
<1>3. WorkerType'
  BY <1>0 DEF DrawStrip, WorkerType
<1>4. QueueInv'
  BY <1>0 DEF DrawStrip, QueueInv, Coding
<1>5. DecoderInv'
  BY <1>0 DEF DrawStrip, DecoderInv, Coding, Committed, CommitEnd
<1>6. ReferenceInv'
  BY <1>0 DEF DrawStrip, ReferenceInv
<1>7. HandoverInv'
  BY <1>0 DEF DrawStrip, HandoverInv
<1>8. LineInv'
  BY <1>0 DEF DrawStrip, PlayerType, LineInv
<1>9. GuardInv'
  <2>1. main = "draw" /\ line \in 1 .. Lines /\ Rendering
    BY <1>0 DEF DrawStrip, PlayerType, LineInv, Rendering
  <2>2. RowMap[line - 1] \in 0 .. Height - 1  BY <2>1, RowMapRange
  <2>3. SUFFICES ASSUME Rendering' PROVE GuardInv'  BY DEF GuardInv
  <2>4. rendered' = RowMap[line - 1] + 1 /\ UNCHANGED active
    BY <1>0, <2>1, <2>3
       DEF DrawStrip, publishHlvRenderedRows, GuardInv, Rendering
  <2>5. rendered <= rendered' /\ rendered \in Int /\ rendered' \in Int
    BY <1>0, <2>1, <2>2, <2>4 DEF GuardInv, SharedType
  <2>6. UNCHANGED <<draw, pending, line, ref, worker, copied, target>>
    BY <1>0 DEF DrawStrip
  <2>7. \A r \in 0 .. Height - 1 : r >= rendered' => ref[r] = pending
    BY <1>0, <2>1, <2>5 DEF GuardInv
  <2>8. worker = "copy" => copied >= GuardedEnd \/ rendered' >= GuardedEnd
    BY <1>0, <2>1, <2>5 DEF GuardInv, GuardedEnd, WorkerType
  <2>9. QED
    BY <1>0, <2>1, <2>2, <2>4, <2>6, <2>7, <2>8 DEF GuardInv, GuardedEnd
<1>10. QED
  BY <1>1, <1>2, <1>3, <1>4, <1>5, <1>6, <1>7, <1>8, <1>9
     DEF IInv, TypeOK

LEMMA FinishPresentStep ==
  ASSUME IInv, FinishPresent
  PROVE  IInv'
<1> USE RingSize DEF NoResult, mainVars, guardVars, queueVars, workerVars
<1>0. /\ PlayerType /\ SharedType /\ WorkerType
      /\ QueueInv /\ DecoderInv /\ ReferenceInv /\ HandoverInv
      /\ LineInv /\ GuardInv
  BY DEF IInv, TypeOK
<1>1. PlayerType'
  <2>1. 0 \in 0 .. Frames  OBVIOUS
  <2>2. QED  BY <1>0, <2>1 DEF FinishPresent, PlayerType
<1>2. SharedType'
  <2>0. 0 \in 0 .. IntMax /\ IntMax \in 0 .. IntMax  BY DEF IntMax
  <2>1. active' \in BOOLEAN
    BY <1>0 DEF FinishPresent, endHlvRowPipeline, SharedType
  <2>1a. rendered' \in 0 .. IntMax
    BY <1>0, <2>0 DEF FinishPresent, endHlvRowPipeline, SharedType
  <2>2. inflight' \in BOOLEAN /\ request' \in BOOLEAN
    BY <1>0 DEF FinishPresent, endHlvRowPipeline, SharedType
  <2>3. result' \in Results
    BY <1>0, ResultType
       DEF FinishPresent, endHlvRowPipeline, SharedType, PlayerType, WorkerType
  <2>4. QED  BY <2>1, <2>1a, <2>2, <2>3 DEF SharedType
<1>3. WorkerType'
  BY <1>0 DEF FinishPresent, WorkerType
<1>4. QueueInv'
  BY <1>0 DEF FinishPresent, QueueInv, Coding
<1>5. DecoderInv'
  BY <1>0 DEF FinishPresent, DecoderInv, Coding, Committed, CommitEnd
<1>6. ReferenceInv'
  BY <1>0 DEF FinishPresent, ReferenceInv
<1>7. HandoverInv'
  BY <1>0 DEF FinishPresent, HandoverInv
<1>8. LineInv'
  BY <1>0 DEF FinishPresent, LineInv
<1>9. GuardInv'
  BY <1>0 DEF FinishPresent, GuardInv, Rendering
<1>10. QED
  BY <1>1, <1>2, <1>3, <1>4, <1>5, <1>6, <1>7, <1>8, <1>9
     DEF IInv, TypeOK

LEMMA WaitDecodeStep ==
  ASSUME IInv, WaitDecode
  PROVE  IInv'
<1> USE RingSize DEF NoResult, mainVars, guardVars, queueVars, workerVars
<1>0. /\ PlayerType /\ SharedType /\ WorkerType
      /\ QueueInv /\ DecoderInv /\ ReferenceInv /\ HandoverInv
      /\ LineInv /\ GuardInv
  BY DEF IInv, TypeOK
<1>1. PlayerType'
  <2>1. pending' \in 0 .. Frames
    BY <1>0, ResultType DEF WaitDecode, SharedType
  <2>2. QED  BY <1>0, <2>1 DEF WaitDecode, PlayerType
<1>2. SharedType'
  <2>0. 0 \in 0 .. IntMax /\ IntMax \in 0 .. IntMax  BY DEF IntMax
  <2>1. active' \in BOOLEAN
    BY <1>0 DEF WaitDecode, SharedType
  <2>1a. rendered' \in 0 .. IntMax
    BY <1>0, <2>0 DEF WaitDecode, SharedType
  <2>2. inflight' \in BOOLEAN /\ request' \in BOOLEAN
    BY <1>0 DEF WaitDecode, SharedType
  <2>3. result' \in Results
    BY <1>0, ResultType
       DEF WaitDecode, SharedType, PlayerType, WorkerType
  <2>4. QED  BY <2>1, <2>1a, <2>2, <2>3 DEF SharedType
<1>3. WorkerType'
  BY <1>0 DEF WaitDecode, WorkerType
<1>4. QueueInv'
  BY <1>0 DEF WaitDecode, QueueInv, Coding
<1>5. DecoderInv'
  BY <1>0 DEF WaitDecode, DecoderInv, Coding, Committed, CommitEnd
<1>6. ReferenceInv'
  BY <1>0 DEF WaitDecode, ReferenceInv
<1>7. HandoverInv'
  BY <1>0 DEF WaitDecode, HandoverInv
<1>8. LineInv'
  BY <1>0 DEF WaitDecode, LineInv
<1>9. GuardInv'
  BY <1>0 DEF WaitDecode, GuardInv, Rendering
<1>10. QED
  BY <1>1, <1>2, <1>3, <1>4, <1>5, <1>6, <1>7, <1>8, <1>9
     DEF IInv, TypeOK

LEMMA CloseVideoStep ==
  ASSUME IInv, CloseVideo
  PROVE  IInv'
<1> USE RingSize DEF NoResult, mainVars, guardVars, queueVars, workerVars
<1>0. /\ PlayerType /\ SharedType /\ WorkerType
      /\ QueueInv /\ DecoderInv /\ ReferenceInv /\ HandoverInv
      /\ LineInv /\ GuardInv
  BY DEF IInv, TypeOK
<1>1. PlayerType'
  BY <1>0 DEF CloseVideo, PlayerType
<1>2. SharedType'
  <2>0. 0 \in 0 .. IntMax /\ IntMax \in 0 .. IntMax  BY DEF IntMax
  <2>1. active' \in BOOLEAN
    BY <1>0 DEF CloseVideo, endHlvRowPipeline, SharedType
  <2>1a. rendered' \in 0 .. IntMax
    BY <1>0, <2>0 DEF CloseVideo, endHlvRowPipeline, SharedType
  <2>2. inflight' \in BOOLEAN /\ request' \in BOOLEAN
    BY <1>0 DEF CloseVideo, endHlvRowPipeline, SharedType
  <2>3. result' \in Results
    BY <1>0, ResultType
       DEF CloseVideo, endHlvRowPipeline, SharedType, PlayerType, WorkerType
  <2>4. QED  BY <2>1, <2>1a, <2>2, <2>3 DEF SharedType
<1>3. WorkerType'
  BY <1>0 DEF CloseVideo, WorkerType
<1>4. QueueInv'
  BY <1>0 DEF CloseVideo, QueueInv, Coding
<1>5. DecoderInv'
  BY <1>0 DEF CloseVideo, DecoderInv, Coding
<1>6. ReferenceInv'
  BY <1>0 DEF CloseVideo, ReferenceInv
<1>7. HandoverInv'
  BY <1>0 DEF CloseVideo, HandoverInv
<1>8. LineInv'
  BY <1>0 DEF CloseVideo, LineInv
<1>9. GuardInv'
  BY <1>0 DEF CloseVideo, GuardInv, Rendering
<1>10. QED
  BY <1>1, <1>2, <1>3, <1>4, <1>5, <1>6, <1>7, <1>8, <1>9
     DEF IInv, TypeOK

LEMMA TakeRequestStep ==
  ASSUME IInv, TakeRequest
  PROVE  IInv'
<1> USE RingSize DEF NoResult, mainVars, guardVars, queueVars, workerVars
<1>0. /\ PlayerType /\ SharedType /\ WorkerType
      /\ QueueInv /\ DecoderInv /\ ReferenceInv /\ HandoverInv
      /\ LineInv /\ GuardInv
  BY DEF IInv, TypeOK
<1>1. PlayerType'
  BY <1>0 DEF TakeRequest, PlayerType
<1>2. SharedType'
  BY <1>0 DEF TakeRequest, SharedType
<1>3. WorkerType'
  BY <1>0 DEF TakeRequest, WorkerType
<1>4. QueueInv'
  BY <1>0 DEF TakeRequest, QueueInv
<1>5. DecoderInv'
  BY <1>0 DEF TakeRequest, DecoderInv, Coding
<1>6. ReferenceInv'
  BY <1>0 DEF TakeRequest, ReferenceInv
<1>7. HandoverInv'
  BY <1>0 DEF TakeRequest, HandoverInv
<1>8. LineInv'
  BY <1>0 DEF TakeRequest, LineInv
<1>9. GuardInv'
  BY <1>0 DEF TakeRequest, GuardInv, Rendering
<1>10. QED
  BY <1>1, <1>2, <1>3, <1>4, <1>5, <1>6, <1>7, <1>8, <1>9
     DEF IInv, TypeOK

LEMMA ParsePacketStep ==
  ASSUME IInv, ParsePacket
  PROVE  IInv'
<1> USE RingSize DEF NoResult, mainVars, guardVars, queueVars, workerVars
<1>0. /\ PlayerType /\ SharedType /\ WorkerType
      /\ QueueInv /\ DecoderInv /\ ReferenceInv /\ HandoverInv
      /\ LineInv /\ GuardInv
  BY DEF IInv, TypeOK
<1>1. PlayerType'
  BY <1>0 DEF ParsePacket, PlayerType
<1>2. SharedType'
  <2>0. 0 \in 0 .. IntMax /\ IntMax \in 0 .. IntMax  BY DEF IntMax
  <2>1. active' \in BOOLEAN
    BY <1>0 DEF ParsePacket, Reply, SharedType
  <2>1a. rendered' \in 0 .. IntMax
    BY <1>0, <2>0 DEF ParsePacket, Reply, SharedType
  <2>2. inflight' \in BOOLEAN /\ request' \in BOOLEAN
    BY <1>0 DEF ParsePacket, Reply, SharedType
  <2>3. result' \in Results
    BY <1>0, ResultType
       DEF ParsePacket, Reply, SharedType, PlayerType, WorkerType
  <2>4. QED  BY <2>1, <2>1a, <2>2, <2>3 DEF SharedType
<1>3. WorkerType'
  <2>1. 0 \in 0 .. Padded /\ 0 \in RowStarts  BY RowStep
  <2>2. worker' \in {"receive", "row"} /\ kind' \in {"key", "P"}
    BY <1>0 DEF ParsePacket, Reply, WorkerType
  <2>3. row' \in RowStarts /\ copied' \in 0 .. Padded
    BY <1>0, <2>1 DEF ParsePacket, Reply, WorkerType
  <2>4. QED  BY <1>0, <2>2, <2>3 DEF ParsePacket, WorkerType
<1>4. QueueInv'
  BY <1>0 DEF ParsePacket, Reply, QueueInv, Coding
<1>5. DecoderInv'
  <2>1. SUFFICES ASSUME Coding' PROVE DecoderInv'  BY DEF DecoderInv
  <2>2. /\ content < Frames /\ row' = 0 /\ copied' = 0 /\ worker' = "row"
        /\ kind' = "P" => content # 0
        /\ UNCHANGED <<content, ref, ring>>
    BY <1>0, <2>1 DEF ParsePacket, Reply, Coding
  <2>3. content # 0 => \A r \in Rows : ref[r] = content
    BY <1>0 DEF ParsePacket, ReferenceInv
  <2>4. Committed' = 0  BY <2>2 DEF Committed
  <2>5. \A r \in Rows : r >= 0 /\ ~(r < 0)  BY DEF Rows
  <2>6. QED  BY <2>2, <2>3, <2>4, <2>5 DEF DecoderInv
<1>6. ReferenceInv'
  BY <1>0 DEF ParsePacket, ReferenceInv
<1>7. HandoverInv'
  BY <1>0 DEF ParsePacket, Reply, HandoverInv
<1>8. LineInv'
  BY <1>0 DEF ParsePacket, LineInv
<1>9. GuardInv'
  BY <1>0 DEF ParsePacket, Reply, GuardInv, Rendering
<1>10. QED
  BY <1>1, <1>2, <1>3, <1>4, <1>5, <1>6, <1>7, <1>8, <1>9
     DEF IInv, TypeOK

LEMMA EnterRowStep ==
  ASSUME IInv, EnterRow
  PROVE  IInv'
<1> USE RingSize DEF NoResult, mainVars, guardVars, queueVars, workerVars
<1>0. /\ PlayerType /\ SharedType /\ WorkerType
      /\ QueueInv /\ DecoderInv /\ ReferenceInv /\ HandoverInv
      /\ LineInv /\ GuardInv
  BY DEF IInv, TypeOK
<1>1. PlayerType'
  BY <1>0 DEF EnterRow, PlayerType
<1>2. SharedType'
  BY <1>0 DEF EnterRow, SharedType
<1>3. WorkerType'
  <2>1. row \in 0 .. Padded  BY <1>0, RowStep DEF WorkerType
  <2>2. row < Padded => row + MB <= Padded  BY <1>0, RowStep DEF WorkerType
  <2>3. target' \in 0 .. Padded
    BY <1>0, <2>1, <2>2 DEF EnterRow, WorkerType
  <2>4. worker' \in {"guard", "mb"}  BY <1>0 DEF EnterRow
  <2>5. QED  BY <1>0, <2>3, <2>4 DEF EnterRow, WorkerType
<1>4. QueueInv'
  BY <1>0 DEF EnterRow, QueueInv, Coding
<1>5. DecoderInv'
  <2>1. worker = "row" /\ Coding  BY <1>0 DEF EnterRow, Coding
  <2>2. /\ row \in 0 .. Padded /\ copied \in 0 .. Padded
        /\ row < Padded => row + MB <= Padded
        /\ copied = Committed
    BY <1>0, <2>1, RowStep DEF WorkerType, DecoderInv
  <2>2a. row < Ring => row + MB <= Ring  BY <1>0, RowStep DEF WorkerType
  <2>3. UNCHANGED <<content, ref, ring, row, copied, kind>>
    BY <1>0 DEF EnterRow
  <2>4. CASE row = Padded
    BY <1>0, <2>1, <2>2, <2>3, <2>4
       DEF EnterRow, DecoderInv, Coding, Committed, CommitEnd
  <2>5. CASE row < Padded /\ row >= Ring
    BY <1>0, <2>1, <2>2, <2>3, <2>5
       DEF EnterRow, DecoderInv, Coding, Committed, CommitEnd
  <2>6. CASE row < Padded /\ row < Ring
    BY <1>0, <2>1, <2>2, <2>3, <2>6, <2>2a
       DEF EnterRow, DecoderInv, Coding, Committed, CommitEnd
  <2>7. QED  BY <2>2, <2>4, <2>5, <2>6
<1>6. ReferenceInv'
  BY <1>0 DEF EnterRow, ReferenceInv
<1>7. HandoverInv'
  BY <1>0 DEF EnterRow, HandoverInv
<1>8. LineInv'
  BY <1>0 DEF EnterRow, LineInv
<1>9. GuardInv'
  BY <1>0 DEF EnterRow, GuardInv, Rendering
<1>10. QED
  BY <1>1, <1>2, <1>3, <1>4, <1>5, <1>6, <1>7, <1>8, <1>9
     DEF IInv, TypeOK

LEMMA PassRowGuardStep ==
  ASSUME IInv, PassRowGuard
  PROVE  IInv'
<1> USE RingSize DEF NoResult, mainVars, guardVars, queueVars, workerVars
<1>0. /\ PlayerType /\ SharedType /\ WorkerType
      /\ QueueInv /\ DecoderInv /\ ReferenceInv /\ HandoverInv
      /\ LineInv /\ GuardInv
  BY DEF IInv, TypeOK
<1>1. PlayerType'
  BY <1>0 DEF PassRowGuard, PlayerType
<1>2. SharedType'
  BY <1>0 DEF PassRowGuard, SharedType
<1>3. WorkerType'
  BY <1>0 DEF PassRowGuard, WorkerType
<1>4. QueueInv'
  BY <1>0 DEF PassRowGuard, QueueInv, Coding
<1>5. DecoderInv'
  BY <1>0 DEF PassRowGuard, DecoderInv, Coding, Committed, CommitEnd
<1>6. ReferenceInv'
  BY <1>0 DEF PassRowGuard, ReferenceInv
<1>7. HandoverInv'
  BY <1>0 DEF PassRowGuard, HandoverInv
<1>8. LineInv'
  BY <1>0 DEF PassRowGuard, LineInv
<1>9. GuardInv'
  BY <1>0 DEF PassRowGuard, GuardInv, Rendering, GuardedEnd
<1>10. QED
  BY <1>1, <1>2, <1>3, <1>4, <1>5, <1>6, <1>7, <1>8, <1>9
     DEF IInv, TypeOK

LEMMA CopyRowStep ==
  ASSUME IInv, CopyRow
  PROVE  IInv'
<1> USE RingSize DEF NoResult, mainVars, guardVars, queueVars, workerVars
<1>0. /\ PlayerType /\ SharedType /\ WorkerType
      /\ QueueInv /\ DecoderInv /\ ReferenceInv /\ HandoverInv
      /\ LineInv /\ GuardInv
  BY DEF IInv, TypeOK
<1>a. /\ worker = "copy" /\ row \in 0 .. Padded /\ copied \in Rows
      /\ copied < target /\ target <= row /\ target = CommitEnd /\ row >= Ring
      /\ row < Padded => row + MB <= Padded
      /\ content \in 0 .. Frames /\ content < Frames
      /\ Committed <= copied /\ target \in 0 .. Padded
  <2>1. worker = "copy"  BY DEF CopyRow
  <2>2. row \in 0 .. Padded /\ (row < Padded => row + MB <= Padded)
    BY <1>0, RowStep DEF WorkerType
  <2>3. /\ row >= Ring /\ target = CommitEnd /\ copied < target
        /\ content < Frames /\ Committed <= copied
    BY <1>0, <2>1 DEF DecoderInv, Coding
  <2>4. copied \in 0 .. Padded /\ target \in 0 .. Padded /\ content \in 0 .. Frames
    BY <1>0 DEF WorkerType
  <2>5. target <= row  BY <2>2, <2>3 DEF CommitEnd
  <2>6. QED  BY <2>1, <2>2, <2>3, <2>4, <2>5 DEF Rows
<1>b. /\ \A r \in Rows : ref'[r] = IF r = copied THEN content + 1 ELSE ref[r]
      /\ ref' \in [Rows -> Torn .. Frames]
  <2>1. ring[copied % Ring] = Decoded(content + 1, copied)
    <3>1. copied < row /\ copied <= copied  BY <1>a DEF Rows
    <3>2. QED  BY <1>0, <1>a, <3>1 DEF DecoderInv, Coding
  <2>2. ref' = [ref EXCEPT ![copied] = content + 1]
    BY <2>1 DEF CopyRow, Decoded
  <2>3. ref \in [Rows -> Torn .. Frames] /\ content + 1 \in Torn .. Frames
    BY <1>0, <1>a DEF WorkerType, Torn
  <2>4. QED  BY <1>a, <2>2, <2>3
<1>1. PlayerType'
  BY <1>0 DEF CopyRow, PlayerType
<1>2. SharedType'
  <2>c. worker = "copy" => content + 1 \in 0 .. Frames
    BY <1>0 DEF WorkerType, DecoderInv, Coding
  <2>0. 0 \in 0 .. IntMax /\ IntMax \in 0 .. IntMax  BY DEF IntMax
  <2>1. active' \in BOOLEAN
    BY <1>0 DEF CopyRow, Reply, SharedType
  <2>1a. rendered' \in 0 .. IntMax
    BY <1>0, <2>0 DEF CopyRow, Reply, SharedType
  <2>2. inflight' \in BOOLEAN /\ request' \in BOOLEAN
    BY <1>0 DEF CopyRow, Reply, SharedType
  <2>3. result' \in Results
    BY <1>0, ResultType, <2>c
       DEF CopyRow, Reply, SharedType, PlayerType, WorkerType
  <2>4. QED  BY <2>1, <2>1a, <2>2, <2>3 DEF SharedType
<1>3. WorkerType'
  <2>1. content' \in 0 .. Frames /\ copied' \in 0 .. Padded
    BY <1>0, <1>a DEF CopyRow, WorkerType, Rows
  <2>2. worker' \in {"copy", "mb", "receive"}  BY DEF CopyRow, Reply
  <2>3. UNCHANGED <<kind, row, target, ring>>  BY DEF CopyRow
  <2>4. QED  BY <1>0, <1>b, <2>1, <2>2, <2>3 DEF WorkerType
<1>4. QueueInv'
  BY <1>0 DEF CopyRow, Reply, QueueInv, Coding
<1>5. DecoderInv'
  <2>1. SUFFICES ASSUME Coding' PROVE DecoderInv'  BY DEF DecoderInv
  <2>2. /\ copied' = copied + 1 /\ UNCHANGED <<kind, row, target, ring, content>>
        /\ \/ copied' < target /\ worker' = "copy"
           \/ ~(copied' < target) /\ row < Padded /\ worker' = "mb"
    BY <1>a, <2>1 DEF CopyRow, Reply, Coding
  <2>3. /\ \A r \in Rows : r < copied => ref[r] = content + 1
        /\ content # 0 => \A r \in Rows : (r >= copied => ref[r] = content)
        /\ kind = "P" => content # 0
        /\ \A r \in Rows : copied <= r /\ r < row =>
             ring[r % Ring] = Decoded(content + 1, r)
    BY <1>0, <1>a DEF DecoderInv, Coding
  <2>4. copied \in Int /\ \A r \in Rows : r \in Int  BY <1>a DEF Rows
  <2>5. /\ \A r \in Rows : r < copied' => ref'[r] = content + 1
        /\ content # 0 => \A r \in Rows : (r >= copied' => ref'[r] = content)
        /\ \A r \in Rows : copied' <= r /\ r < row =>
             ring[r % Ring] = Decoded(content + 1, r)
    BY <1>b, <2>2, <2>3, <2>4
  <2>6. copied' <= row /\ (worker' = "copy" => copied' < target)
    BY <1>a, <2>2, <2>4 DEF Rows
  <2>7. worker' = "mb" =>
          row < Padded /\ copied' = row + MB - Ring /\ row + MB > Ring
    BY <1>a, <2>2, <2>4 DEF CommitEnd
  <2>8. worker' = "copy" =>
          row >= Ring /\ target = CommitEnd /\ Committed <= copied'
    BY <1>a, <2>2, <2>4 DEF Committed
  <2>9. QED
    BY <1>a, <2>2, <2>3, <2>5, <2>6, <2>7, <2>8
       DEF DecoderInv, Decoded, Committed, CommitEnd
<1>6. ReferenceInv'
  <2>1. /\ ~request' /\ worker' # "parse" /\ main' \notin {"idle", "submit"}
        /\ result'.status # "none" => copied' = Padded /\ content' = content + 1
    BY <1>0, <1>a DEF CopyRow, Reply, QueueInv, Coding, CommitEnd, Rows
  <2>2. CASE copied' = Padded /\ content' = content + 1
    <3>1. copied' = copied + 1  BY DEF CopyRow
    <3>2. \A r \in Rows : r = copied \/ r < copied  BY <1>a, <2>2, <3>1 DEF Rows
    <3>3. \A r \in Rows : r < copied => ref[r] = content + 1
      BY <1>0, <1>a DEF DecoderInv, Coding
    <3>4. QED  BY <1>b, <2>2, <3>2, <3>3 DEF ReferenceInv
  <2>3. CASE result'.status = "none"
    BY <2>1, <2>3 DEF ReferenceInv
  <2>4. QED  BY <2>1, <2>2, <2>3
<1>7. HandoverInv'
  BY <1>0 DEF CopyRow, Reply, WorkerType, QueueInv, HandoverInv
<1>8. LineInv'
  BY <1>0 DEF CopyRow, LineInv
<1>9. GuardInv'
  <2>1. SUFFICES ASSUME Rendering' PROVE GuardInv'  BY DEF GuardInv
  <2>2. /\ UNCHANGED <<main, draw, active, pending, line, rendered, target>>
        /\ copied' = copied + 1
    BY DEF CopyRow, mainVars, guardVars
  <2>3. Rendering  BY <2>1, <2>2 DEF Rendering
  <2>4. copied >= GuardedEnd \/ rendered >= GuardedEnd
    BY <1>0, <1>a, <2>3 DEF GuardInv
  <2>5. copied \in Int /\ target \in Int /\ rendered \in Int
    BY <1>0 DEF WorkerType, SharedType
  <2>6. copied < Height => rendered > copied
    BY <1>a, <2>4, <2>5 DEF GuardedEnd
  <2>7. \A r \in 0 .. Height - 1 : r >= rendered => r \in Rows /\ r # copied
    BY <2>5, <2>6 DEF Rows
  <2>8. \A r \in 0 .. Height - 1 : r >= rendered => ref'[r] = pending
    BY <1>0, <1>b, <2>3, <2>7 DEF GuardInv
  <2>9. copied' >= GuardedEnd \/ rendered >= GuardedEnd
    BY <2>2, <2>4, <2>5 DEF GuardedEnd
  <2>10. QED  BY <1>0, <2>2, <2>3, <2>8, <2>9 DEF GuardInv, GuardedEnd
<1>10. QED
  BY <1>1, <1>2, <1>3, <1>4, <1>5, <1>6, <1>7, <1>8, <1>9
     DEF IInv, TypeOK

LEMMA DecodeMbRowStep ==
  ASSUME IInv, DecodeMbRow
  PROVE  IInv'
<1> USE RingSize DEF NoResult, mainVars, guardVars, queueVars, workerVars
<1>0. /\ PlayerType /\ SharedType /\ WorkerType
      /\ QueueInv /\ DecoderInv /\ ReferenceInv /\ HandoverInv
      /\ LineInv /\ GuardInv
  BY DEF IInv, TypeOK
<1>a. /\ worker = "mb" /\ row \in Rows /\ row + MB \in RowStarts
      /\ row + MB <= Padded /\ content \in 0 .. Frames /\ content < Frames
      /\ copied = (IF row + MB <= Ring THEN 0 ELSE row + MB - Ring)
      /\ copied \in 0 .. row
  <2>1. worker = "mb"  BY DEF DecodeMbRow
  <2>2. row < Padded /\ copied = (IF row + MB <= Ring THEN 0 ELSE row + MB - Ring)
        /\ content < Frames /\ copied <= row
    BY <1>0, <2>1 DEF DecoderInv, Coding
  <2>3. row \in 0 .. Padded /\ row + MB \in RowStarts /\ row + MB <= Padded
    BY <1>0, <2>2, RowStep DEF WorkerType
  <2>4. content \in 0 .. Frames /\ copied \in 0 .. Padded  BY <1>0 DEF WorkerType
  <2>5. QED  BY <2>1, <2>2, <2>3, <2>4 DEF Rows
<1>b. Predicted = content + 1
  <2>1. \A r \in Reach : r \in Rows /\ r >= copied  BY <1>a DEF Reach, Rows
  <2>2. kind = "P" => \A r \in Reach : ref[r] = content
    BY <1>0, <1>a, <2>1 DEF DecoderInv, Coding
  <2>3. row > 0 => row - 1 \in Rows /\ copied <= row - 1 /\ row - 1 < row
    BY <1>a DEF Rows
  <2>4. row > 0 => ring[(row - 1) % Ring] = Decoded(content + 1, row - 1)
    BY <1>0, <1>a, <2>3 DEF DecoderInv, Coding
  <2>5. QED  BY <2>2, <2>4 DEF Predicted
<1>c. ASSUME UNCHANGED ring, UNCHANGED row
      PROVE  ring' \in [Slots -> [picture : Torn .. Frames, row : Rows]]
  BY <1>0, <1>c DEF WorkerType
<1>d. ASSUME ring' # ring \/ row' # row
      PROVE  /\ row' = row + MB /\ worker' = "row"
             /\ ring' \in [Slots -> [picture : Torn .. Frames, row : Rows]]
             /\ \A r \in Rows : copied <= r /\ r < row + MB =>
                  ring'[r % Ring] = Decoded(content + 1, r)
  <2> DEFINE New(s) == {r \in row .. row + MB - 1 : r % Ring = s}
  <2>1. /\ row' = row + MB /\ worker' = "row"
        /\ ring' = [s \in Slots |-> IF New(s) = {} THEN ring[s]
                        ELSE Decoded(Predicted, CHOOSE r \in New(s) : TRUE)]
    BY <1>d DEF DecodeMbRow
  <2>2. \A s \in Slots : New(s) # {} =>
          (CHOOSE r \in New(s) : TRUE) \in New(s)
    OBVIOUS
  <2>3. \A s \in Slots : New(s) # {} => (CHOOSE r \in New(s) : TRUE) \in Rows
    BY <1>a, <2>2 DEF Rows
  <2> HIDE DEF New
  <2>4. ring' \in [Slots -> [picture : Torn .. Frames, row : Rows]]
    <3>1. content + 1 \in Torn .. Frames  BY <1>a DEF Torn
    <3>2. ring \in [Slots -> [picture : Torn .. Frames, row : Rows]]
      BY <1>0 DEF WorkerType
    <3>3. ASSUME NEW r \in Rows
          PROVE  Decoded(content + 1, r)
                   \in [picture : Torn .. Frames, row : Rows]
      BY <3>1 DEF Decoded
    <3>4. QED  BY <1>b, <2>1, <2>3, <3>2, <3>3
  <2>5. ASSUME NEW r \in Rows, copied <= r, r < row + MB
        PROVE  ring'[r % Ring] = Decoded(content + 1, r)
    <3>1. r \in Nat /\ row \in Nat /\ r % Ring \in Slots
      BY <1>a, SlotRange DEF Rows, Slots
    <3>2. ASSUME NEW q \in New(r % Ring), q # r
          PROVE  FALSE
      <4>1. q \in row .. row + MB - 1 /\ q % Ring = r % Ring  BY <3>2 DEF New
      <4>2. q \in Nat /\ q - r < Ring /\ r - q < Ring
        BY <1>a, <2>5, <3>1, <4>1
      <4>3. CASE q < r  BY <3>1, <4>1, <4>2, <4>3, SlotsDiffer
      <4>4. CASE r < q  BY <3>1, <4>1, <4>2, <4>4, SlotsDiffer
      <4>5. QED  BY <3>1, <3>2, <4>2, <4>3, <4>4
    <3>3. CASE r >= row
      <4>1. r \in New(r % Ring)  BY <2>5, <3>1, <3>3, <1>a DEF New
      <4>2. (CHOOSE x \in New(r % Ring) : TRUE) = r  BY <3>2, <4>1
      <4>3. QED  BY <1>b, <2>1, <3>1, <4>1, <4>2
    <3>4. CASE r < row
      <4>1. r \notin New(r % Ring)  BY <3>1, <3>4 DEF New
      <4>2. New(r % Ring) = {}  BY <3>2, <4>1
      <4>3. ring[r % Ring] = Decoded(content + 1, r)
        BY <1>0, <1>a, <2>5, <3>4 DEF DecoderInv, Coding
      <4>4. QED  BY <2>1, <3>1, <4>2, <4>3
    <3>5. QED  BY <3>1, <3>3, <3>4, <1>a
  <2>6. QED  BY <2>1, <2>4, <2>5
<1>1. PlayerType'
  BY <1>0 DEF DecodeMbRow, PlayerType
<1>2. SharedType'
  BY <1>0 DEF DecodeMbRow, Reply, SharedType, Results
<1>3. WorkerType'
  <2>1. worker' \in {"row", "receive"} /\ UNCHANGED <<kind, copied, target, content, ref>>
    BY DEF DecodeMbRow, Reply
  <2>2. row' \in RowStarts  BY <1>0, <1>a, <1>d DEF WorkerType
  <2>3. QED  BY <1>0, <1>c, <1>d, <2>1, <2>2 DEF WorkerType
<1>4. QueueInv'
  BY <1>0 DEF DecodeMbRow, Reply, QueueInv, Coding
<1>5. DecoderInv'
  <2>1. SUFFICES ASSUME Coding' PROVE DecoderInv'  BY DEF DecoderInv
  <2>2. /\ worker' = "row" /\ row' = row + MB
        /\ UNCHANGED <<kind, copied, target, content, ref>>
    BY <2>1 DEF DecodeMbRow, Reply, Coding
  <2>3. row' # row  BY <1>a, <2>2 DEF Rows
  <2>4. \A r \in Rows : copied <= r /\ r < row' =>
          ring'[r % Ring] = Decoded(content + 1, r)
    BY <1>d, <2>2, <2>3
  <2>5. copied = Committed' /\ copied <= row'
    BY <1>a, <2>2 DEF Committed, Rows
  <2>6. /\ \A r \in Rows : r < copied => ref[r] = content + 1
        /\ content # 0 => \A r \in Rows : (r >= copied => ref[r] = content)
        /\ kind = "P" => content # 0
    BY <1>0, <1>a DEF DecoderInv, Coding
  <2>7. QED  BY <1>a, <2>2, <2>4, <2>5, <2>6 DEF DecoderInv, Decoded
<1>6. ReferenceInv'
  BY <1>0 DEF DecodeMbRow, Reply, ReferenceInv
<1>7. HandoverInv'
  BY <1>0 DEF DecodeMbRow, Reply, HandoverInv
<1>8. LineInv'
  BY <1>0 DEF DecodeMbRow, LineInv
<1>9. GuardInv'
  BY <1>0 DEF DecodeMbRow, Reply, GuardInv, Rendering
<1>10. QED
  BY <1>1, <1>2, <1>3, <1>4, <1>5, <1>6, <1>7, <1>8, <1>9
     DEF IInv, TypeOK

LEMMA IInvStep == IInv /\ [Next]_vars => IInv'
<1> SUFFICES ASSUME IInv, [Next]_vars PROVE IInv'  OBVIOUS
<1>1. CASE OpenVideo  BY <1>1, OpenVideoStep
<1>2. ASSUME NEW seek \in BOOLEAN, BeginIteration(seek) PROVE IInv'
  BY <1>2, BeginIterationStep
<1>3. CASE SubmitDecode  BY <1>3, SubmitDecodeStep
<1>4. CASE ConvertLine  BY <1>4, ConvertLineStep
<1>5. CASE DrawStrip  BY <1>5, DrawStripStep
<1>6. CASE FinishPresent  BY <1>6, FinishPresentStep
<1>7. CASE WaitDecode  BY <1>7, WaitDecodeStep
<1>8. CASE CloseVideo  BY <1>8, CloseVideoStep
<1>9. CASE TakeRequest  BY <1>9, TakeRequestStep
<1>10. CASE ParsePacket  BY <1>10, ParsePacketStep
<1>11. CASE EnterRow  BY <1>11, EnterRowStep
<1>12. CASE PassRowGuard  BY <1>12, PassRowGuardStep
<1>13. CASE CopyRow  BY <1>13, CopyRowStep
<1>14. CASE DecodeMbRow  BY <1>14, DecodeMbRowStep
<1>15. CASE UNCHANGED vars
  BY <1>15 DEF vars, mainVars, guardVars, queueVars, workerVars, IInv, TypeOK,
     PlayerType, SharedType, WorkerType, QueueInv, DecoderInv, ReferenceInv,
     HandoverInv, LineInv, GuardInv, Coding, Committed, CommitEnd, Rendering, GuardedEnd
<1>16. QED
  BY <1>1, <1>2, <1>3, <1>4, <1>5, <1>6, <1>7, <1>8, <1>9, <1>10, <1>11, <1>12,
     <1>13, <1>14, <1>15 DEF Next, Player, Worker

-----------------------------------------------------------------------------
(* The theorems.                                                           *)

\* Every reachable state satisfies the inductive invariant.
LEMMA Inductive == Spec => []IInv
<1>1. Init => IInv  BY IInvInit
<1>2. IInv /\ [Next]_vars => IInv'  BY IInvStep
<1>3. QED  BY <1>1, <1>2, PTL DEF Spec

\* Row counters stay inside the padded picture (the ring is never indexed past
\* its end, nor the reference) and both queues hold at most one entry.
THEOREM TypeCorrect == Spec => []TypeOK
<1>1. IInv => TypeOK  BY DEF IInv
<1>2. QED  BY <1>1, Inductive, PTL

\* CPU1 never replaces a source row that CPU0 has still to convert.
THEOREM PendingIntact == Spec => []PendingRowsIntact
<1>1. IInv => PendingRowsIntact
  <2>1. SUFFICES ASSUME IInv, Rendering, NEW r \in UnreadRows
                 PROVE  ref[r] = pending
    BY DEF PendingRowsIntact
  <2>2. PICK k \in line .. Lines - 1 :
               r = RowMap[k] /\ (line = 0 \/ RowMap[k] # RowMap[line - 1])
    BY <2>1 DEF UnreadRows
  <2>3. line \in 0 .. Lines /\ k \in 0 .. Lines - 1 /\ line <= k
    BY <2>1, <2>2, RingSize DEF IInv, TypeOK, PlayerType
  <2>4. r \in 0 .. Height - 1  BY <2>2, <2>3, RowMapRange
  <2>5. rendered \in Int  BY <2>1, RingSize DEF IInv, TypeOK, SharedType, IntMax
  <2>6. r >= rendered
    <3>1. CASE line = 0
      BY <2>1, <2>4, <2>5, <3>1, RingSize DEF IInv, GuardInv
    <3>2. CASE line > 0
      <4>1. line - 1 \in 0 .. Lines - 1 /\ line - 1 <= k
        BY <2>3, <3>2, RingSize
      <4>2. RowMap[line - 1] <= r /\ RowMap[line - 1] # r
        BY <2>2, <2>3, <3>2, <4>1, RowMapRange
      <4>3. RowMap[line - 1] \in 0 .. Height - 1  BY <4>1, RowMapRange
      <4>4. rendered <= RowMap[line - 1] + 1
        BY <2>1, <3>2 DEF IInv, GuardInv
      <4>5. QED  BY <2>4, <2>5, <4>2, <4>3, <4>4, RingSize
    <3>3. QED  BY <2>3, <3>1, <3>2
  <2>7. QED  BY <2>1, <2>4, <2>6 DEF IInv, GuardInv
<1>2. QED  BY <1>1, Inductive, PTL

\* A picture handed to the player is one whole picture, predicted from its
\* predecessor only.
THEOREM DecodedWhole == Spec => []DecodedPictureWhole
<1>1. IInv => DecodedPictureWhole
  BY DEF IInv, DecodedPictureWhole, ReferenceInv, HandoverInv
<1>2. QED  BY <1>1, Inductive, PTL

\* The decode task is deleted only while it waits for a request.
THEOREM DeletedIdle == Spec => WorkerDeletedIdle
<1>1. IInv /\ [Next]_vars
        => [worker # "none" /\ worker' = "none"
              => worker = "receive" /\ ~request]_vars
  <2>1. SUFFICES ASSUME IInv, Next, worker # "none", worker' = "none"
                 PROVE  worker = "receive" /\ ~request
    OBVIOUS
  <2>2. CloseVideo
    BY <2>1 DEF Next, Player, Worker, OpenVideo, BeginIteration, SubmitDecode,
       ConvertLine, DrawStrip, FinishPresent, WaitDecode, TakeRequest,
       ParsePacket, EnterRow, PassRowGuard, CopyRow, DecodeMbRow, Reply,
       workerVars
  <2>3. QED
    BY <2>1, <2>2 DEF CloseVideo, IInv, TypeOK, WorkerType, QueueInv, Coding
<1>2. QED  BY <1>1, Inductive, PTL DEF Spec, WorkerDeletedIdle
=============================================================================
