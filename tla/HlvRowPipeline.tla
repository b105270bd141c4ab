--------------------------- MODULE HlvRowPipeline ---------------------------
(***************************************************************************)
(* The two-core HLV picture pipeline of the ESP32 player.                  *)
(*                                                                         *)
(* CPU1 (decodeTask) decodes picture N in place: it keeps one complete     *)
(* reference picture and a ring of the newest decoded luma rows, and it    *)
(* moves rows from the ring over the old reference rows as it goes down    *)
(* the picture.  CPU0 (playOneFramePipelined) meanwhile converts picture   *)
(* N-1 for the display, reading the very rows that CPU1 replaces.  The     *)
(* reference row guard (waitForHlvReferenceRows) keeps them apart.         *)
(*                                                                         *)
(* A picture is a number (its place among the coded pictures of the file); *)
(* a reference row holds the number of the picture it belongs to, Torn if  *)
(* it is another row or was predicted from one, 0 after allocation; a ring *)
(* slot also says which row it holds.  Chroma rows follow the luma rows    *)
(* 16 at a time and are not modelled apart.                                *)
(***************************************************************************)
EXTENDS Integers

CONSTANTS
  Frames,    \* coded pictures in the file
  MB,        \* luma rows of a macroblock row (16)
  MbRows,    \* macroblock rows of the padded picture
  RingMbs,   \* macroblock rows held by the ring (32 luma rows: 2)
  Radius,    \* header.search_radius (at most 8)
  Height,    \* visible rows, header.height
  Lines,     \* display lines: Height (native) or kScreenHeight (scaled)
  RowMap,    \* source row of each line: the identity or scaled_y_map
  Transfer   \* display rows per DMA transfer

ASSUME SizeAssumption ==
  /\ Frames \in Nat
  /\ MB \in Nat \ {0} /\ MbRows \in Nat \ {0}
  /\ RingMbs \in Nat /\ RingMbs >= 2
  /\ Radius \in Nat /\ Radius <= (RingMbs - 1) * MB
  /\ Height \in 1 .. MbRows * MB
  /\ Lines \in Nat \ {0} /\ Transfer \in Nat \ {0}

\* scaled_y_map is filled with non-decreasing source rows.
ASSUME RowMapAssumption ==
  /\ RowMap \in [0 .. Lines - 1 -> 0 .. Height - 1]
  /\ \A k, l \in 0 .. Lines - 1 : k <= l => RowMap[k] <= RowMap[l]

Padded == MbRows * MB
Rows   == 0 .. Padded - 1
RowStarts == {m * MB : m \in 0 .. MbRows}   \* macroblock rows, and the end
\* compact_ring_luma_rows: 32 rows, or the whole picture if that is smaller.
Ring   == IF RingMbs > MbRows THEN Padded ELSE RingMbs * MB
IntMax == Padded   \* any value no row number reaches
Torn   == -1
Slots  == 0 .. Ring - 1
Decoded(picture, r) == [picture |-> picture, row |-> r]

VARIABLES
  \* CPU0: playOneFramePipelined, presentFrame, renderFrame
  main,      \* where the player loop is
  pending,   \* picture in pending_frame, 0 when pending_frame_valid is false
  draw,      \* this iteration renders the pending picture
  line,      \* next display line to convert
  drew,      \* local `rendered`: no display DMA failure so far
  \* shared between the cores
  active,    \* hlv_row_pipeline_active
  rendered,  \* hlv_rendered_source_rows
  inflight,  \* decode_in_flight
  request,   \* decode_request_queue holds a request
  result,    \* decode_result_queue: NoResult or one result
  \* CPU1: decodeTask and the HLV decoder
  worker,    \* where the decode task is
  kind,      \* frame type of the packet being decoded
  row,       \* y, first luma row of the macroblock row being decoded
  copied,    \* reference rows replaced so far
  target,    \* end_luma_y of the commit under way
  content,   \* picture last completed by the decoder (0: have_previous = 0)
  ref,       \* previous: the reference picture
  ring       \* compact_current: the rolling rows

mainVars   == <<main, pending, draw, line, drew>>
guardVars  == <<active, rendered>>
queueVars  == <<inflight, request, result>>
workerVars == <<worker, kind, row, copied, target, content, ref, ring>>
vars == <<mainVars, guardVars, queueVars, workerVars>>

NoResult == [status |-> "none", frame |-> 0]
Results  == [status : {"none", "ok", "skipped", "eof", "error"},
             frame  : 0 .. Frames]

PlayerType ==
  /\ main \in {"idle", "submit", "render", "draw", "present", "wait",
               "closing", "closed"}
  /\ pending \in 0 .. Frames /\ draw \in BOOLEAN
  /\ line \in 0 .. Lines /\ drew \in BOOLEAN
SharedType ==
  /\ active \in BOOLEAN /\ rendered \in 0 .. IntMax
  /\ inflight \in BOOLEAN /\ request \in BOOLEAN /\ result \in Results
WorkerType ==
  /\ worker \in {"none", "receive", "parse", "row", "guard", "copy", "mb"}
  /\ kind \in {"key", "P"}
  /\ row \in RowStarts /\ copied \in 0 .. Padded /\ target \in 0 .. Padded
  /\ content \in 0 .. Frames
  /\ ref  \in [Rows -> Torn .. Frames]
  /\ ring \in [Slots -> [picture : Torn .. Frames, row : Rows]]
TypeOK == PlayerType /\ SharedType /\ WorkerType

Init ==
  /\ main = "closed" /\ pending = 0 /\ draw = FALSE /\ line = 0 /\ drew = TRUE
  /\ active = FALSE /\ rendered = IntMax
  /\ inflight = FALSE /\ request = FALSE /\ result = NoResult
  /\ worker = "none" /\ kind = "key" /\ row = 0 /\ copied = 0 /\ target = 0
  /\ content = 0
  /\ ref = [r \in Rows |-> 0] /\ ring = [s \in Slots |-> Decoded(0, 0)]

-----------------------------------------------------------------------------
(* The row guard, called by CPU0.                                          *)

beginHlvRowPipeline == rendered' = 0 /\ active' = TRUE
endHlvRowPipeline   == rendered' = IntMax /\ active' = FALSE

\* Fault: the progress is added up instead of stored.
Bug_publishHlvRenderedRows(rows) ==
  rendered' = (IF active THEN rendered + rows ELSE rendered) /\ UNCHANGED active

publishHlvRenderedRows(rows) ==
  rendered' = (IF active THEN rows ELSE rendered) /\ UNCHANGED active

(***************************************************************************)
(* CPU0.                                                                   *)
(***************************************************************************)

\* openVideo: a new decoder with cleared planes and a new decode task.
OpenVideo ==
  /\ main = "closed"
  /\ main' = "idle" /\ worker' = "receive" /\ content' = 0
  /\ ref' = [r \in Rows |-> 0] /\ ring' = [s \in Slots |-> Decoded(0, 0)]
  /\ UNCHANGED <<pending, draw, line, drew, guardVars, queueVars,
                 kind, row, copied, target>>

\* The top of playOneFramePipelined.  A seek (seek_fast_forward) presents the
\* pending picture without rendering it, so it needs no guard.
BeginIteration(seek) ==
  /\ main = "idle"
  /\ draw' = (pending # 0 /\ ~seek) /\ drew' = TRUE /\ line' = 0
  /\ IF draw' THEN beginHlvRowPipeline ELSE UNCHANGED guardVars
  /\ main' = "submit"
  /\ UNCHANGED <<pending, queueVars, workerVars>>

SubmitDecode ==
  /\ main = "submit" /\ ~inflight /\ ~request
  /\ request' = TRUE /\ inflight' = TRUE
  /\ main' = IF draw THEN "render" ELSE "present"
  /\ UNCHANGED <<pending, draw, line, drew, guardVars, result, workerVars>>

\* renderFrame converts one display line.  A line with the source row of the
\* line above it reuses scaled_rgb_row instead of reading the picture.
ConvertLine ==
  /\ main = "render"
  /\ line' = line + 1
  /\ main' = IF line' = Lines \/ line' % Transfer = 0 THEN "draw" ELSE "render"
  /\ UNCHANGED <<pending, draw, drew, guardVars, queueVars, workerVars>>

\* cyd_display_draw_bitmap accepts the strip, or fails and ends renderFrame.
DrawStrip ==
  /\ main = "draw"
  /\ \/ /\ publishHlvRenderedRows(RowMap[line - 1] + 1)
        /\ main' = IF line = Lines THEN "present" ELSE "render"
        /\ UNCHANGED drew
     \/ /\ main' = "present" /\ drew' = FALSE
        /\ UNCHANGED guardVars
  /\ UNCHANGED <<pending, draw, line, queueVars, workerVars>>

\* Fault: the guard is lowered only for a picture that was drawn to its end.
Bug_FinishPresent ==
  /\ main = "present"
  /\ IF pending # 0 /\ drew THEN endHlvRowPipeline ELSE UNCHANGED guardVars
  /\ pending' = 0 /\ draw' = FALSE /\ main' = "wait"
  /\ UNCHANGED <<line, drew, queueVars, workerVars>>

\* The end of presentFrame, whether or not the picture was rendered.
FinishPresent ==
  /\ main = "present"
  /\ IF pending # 0 THEN endHlvRowPipeline ELSE UNCHANGED guardVars
  /\ pending' = 0 /\ draw' = FALSE /\ main' = "wait"
  /\ UNCHANGED <<line, drew, queueVars, workerVars>>

\* waitDecode, and what playOneFramePipelined makes of the result.
WaitDecode ==
  /\ main = "wait" /\ result.status # "none"
  /\ inflight' = FALSE /\ result' = NoResult
  /\ LET keep == drew /\ result.status = "ok"
     IN  /\ pending' = IF keep THEN result.frame ELSE 0
         /\ main' = IF keep \/ (drew /\ result.status = "skipped")
                    THEN "idle" ELSE "closing"
  /\ UNCHANGED <<draw, line, drew, guardVars, request, workerVars>>

\* Fault: a decode that takes long is given up and its worker deleted.
Bug_CloseVideo ==
  /\ main \in {"idle", "wait", "closing"}
  /\ endHlvRowPipeline
  /\ worker' = "none" /\ request' = FALSE /\ result' = NoResult
  /\ inflight' = FALSE /\ pending' = 0 /\ main' = "closed"
  /\ UNCHANGED <<draw, line, drew, kind, row, copied, target, content,
                 ref, ring>>

\* closeVideo: from failPlayback, failSdCardRead and finishVideoLoop, or from
\* a UART command or button press handled between two iterations.  The worker
\* is deleted once no decode is in flight.
CloseVideo ==
  /\ main \in {"idle", "closing"}
  /\ inflight => result.status # "none"
  /\ endHlvRowPipeline
  /\ worker' = "none" /\ request' = FALSE /\ result' = NoResult
  /\ inflight' = FALSE /\ pending' = 0 /\ main' = "closed"
  /\ UNCHANGED <<draw, line, drew, kind, row, copied, target, content,
                 ref, ring>>

(***************************************************************************)
(* CPU1.                                                                   *)
(***************************************************************************)

Reply(status, frame) ==
  result' = [status |-> status, frame |-> frame] /\ worker' = "receive"

TakeRequest ==
  /\ worker = "receive" /\ request
  /\ request' = FALSE /\ worker' = "parse"
  /\ UNCHANGED <<mainVars, guardVars, inflight, result,
                 kind, row, copied, target, content, ref, ring>>

\* The frame header: end of file, a skipped predictive packet, a repeat frame
\* (answered with the reference as it is), an unreadable packet, or a picture.
ParsePacket ==
  /\ worker = "parse"
  /\ \/ /\ \/ content = Frames /\ Reply("eof", 0)
           \/ Reply("skipped", 0)
           \/ content # 0 /\ Reply("ok", content)
           \/ Reply("error", 0)
        /\ UNCHANGED <<kind, row, copied>>
     \/ /\ content < Frames
        /\ \/ kind' = "key"
           \/ content # 0 /\ kind' = "P"
        /\ row' = 0 /\ copied' = 0 /\ worker' = "row"
        /\ UNCHANGED result
  /\ UNCHANGED <<mainVars, guardVars, inflight, request, target, content,
                 ref, ring>>

\* Fault: the commit runs one macroblock row further ahead.
Bug_EnterRow ==
  /\ worker = "row"
  /\ IF row = Padded THEN worker' = "guard" /\ target' = Padded
     ELSE IF row >= Ring THEN worker' = "guard" /\ target' = row + 2 * MB - Ring
     ELSE worker' = "mb" /\ UNCHANGED target
  /\ UNCHANGED <<mainVars, guardVars, queueVars, kind, row, copied, content,
                 ref, ring>>

\* The head of the macroblock row loop of decoder_decode_packet: once the ring
\* is full its oldest macroblock row is committed to the reference first, and
\* after the last row everything that is left.
EnterRow ==
  /\ worker = "row"
  /\ IF row = Padded THEN worker' = "guard" /\ target' = Padded
     ELSE IF row >= Ring THEN worker' = "guard" /\ target' = row + MB - Ring
     ELSE worker' = "mb" /\ UNCHANGED target
  /\ UNCHANGED <<mainVars, guardVars, queueVars, kind, row, copied, content,
                 ref, ring>>

\* Fault: the guard waits for the number of rows, not for the last of them.
Bug_GuardedEnd == target - copied

\* waitForHlvReferenceRows(first_y = copied, rows = target - copied).  Both
\* cells only move towards letting the decoder pass while a decode is in
\* flight, so reading them one after the other is reading them at once.
GuardedEnd == IF target > Height THEN Height ELSE target
PassRowGuard ==
  /\ worker = "guard"
  /\ ~active \/ copied >= GuardedEnd \/ rendered >= GuardedEnd
  /\ worker' = "copy"
  /\ UNCHANGED <<mainVars, guardVars, queueVars, kind, row, copied, target,
                 content, ref, ring>>

\* compact_single_reference_commit replaces one reference row; after the last
\* row of the picture the decode is complete.
CopyRow ==
  /\ worker = "copy"
  /\ LET slot == ring[copied % Ring]
     IN  ref' = [ref EXCEPT ![copied] =
                   IF slot.row = copied THEN slot.picture ELSE Torn]
  /\ copied' = copied + 1
  /\ IF copied' < target THEN UNCHANGED <<worker, result, content>>
     ELSE IF row < Padded
          THEN worker' = "mb" /\ UNCHANGED <<result, content>>
          ELSE content' = content + 1 /\ Reply("ok", content + 1)
  /\ UNCHANGED <<mainVars, guardVars, inflight, request, kind, row, target,
                 ring>>

\* The reference rows a predicted macroblock row may read: motion vectors stay
\* within the declared radius and inside the padded picture.
Reach == {r \in Rows : row - Radius <= r /\ r < row + MB + Radius}
Predicted ==
  IF kind = "P" /\ \E r \in Reach : ref[r] # content THEN Torn
  ELSE IF row > 0 /\ ring[(row - 1) % Ring] # Decoded(content + 1, row - 1)
       THEN Torn
  ELSE content + 1

DecodeMbRow ==
  /\ worker = "mb"
  /\ \/ /\ ring' = [s \in Slots |->
             LET new == {r \in row .. row + MB - 1 : r % Ring = s}
             IN  IF new = {} THEN ring[s]
                 ELSE Decoded(Predicted, CHOOSE r \in new : TRUE)]
        /\ row' = row + MB /\ worker' = "row"
        /\ UNCHANGED result
     \/ Reply("error", 0) /\ UNCHANGED <<ring, row>>
  /\ UNCHANGED <<mainVars, guardVars, inflight, request, kind, copied, target,
                 content, ref>>

-----------------------------------------------------------------------------
Worker == TakeRequest \/ ParsePacket \/ EnterRow \/ PassRowGuard \/ CopyRow
            \/ DecodeMbRow
Player == \/ \E seek \in BOOLEAN : BeginIteration(seek)
          \/ SubmitDecode \/ ConvertLine \/ DrawStrip \/ FinishPresent
          \/ WaitDecode \/ CloseVideo \/ OpenVideo

Next == Player \/ Worker

Spec == Init /\ [][Next]_vars

\* Each core is scheduled: the render loop does not stop between submitting a
\* decode and collecting it, and the worker does not stop inside a decode.
FairSpec ==
  Spec /\ WF_vars(Worker)
       /\ WF_vars(SubmitDecode \/ ConvertLine \/ DrawStrip \/ FinishPresent
                    \/ WaitDecode)

-----------------------------------------------------------------------------
(* Properties                                                              *)

Rendering == main \in {"submit", "render", "draw"} /\ draw

\* Source rows of the pending picture that renderFrame has still to read; the
\* row of the last converted line is in scaled_rgb_row.
UnreadRows ==
  {RowMap[l] : l \in {k \in line .. Lines - 1 :
                        line = 0 \/ RowMap[k] # RowMap[line - 1]}}

\* What CPU0 has still to convert of a picture is never replaced by CPU1: each
\* displayed picture is whole, neither torn nor mixed with the next one.
PendingRowsIntact ==
  Rendering => \A r \in UnreadRows : ref[r] = pending

\* A picture handed to the player is complete in the reference buffer and was
\* predicted only from its predecessor's rows: the commits that run ahead of
\* the decoder never take a row that motion compensation still needs.
DecodedPictureWhole ==
  /\ result.status = "ok" => \A r \in Rows : ref[r] = result.frame
  /\ main = "idle" /\ pending # 0 => \A r \in Rows : ref[r] = pending

\* The decode task is only ever deleted while it waits for a request: a task
\* killed inside the decoder would leave the shared file half read.
WorkerDeletedIdle ==
  [][worker # "none" /\ worker' = "none"
       => worker = "receive" /\ ~request]_vars

\* The row guard never wedges the pipeline: CPU0 waiting for the result and
\* CPU1 waiting for rows cannot wait for each other, even when the display
\* failed half way down the picture.
DecodeAnswered == inflight ~> ~inflight
=============================================================================
