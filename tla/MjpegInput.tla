----------------------------- MODULE MjpegInput -----------------------------
(***************************************************************************)
(* The input of the MJPEG player: a reader task on CPU1 walks the AVI file *)
(* and feeds the decoder on CPU0 through a one-slot queue of descriptors   *)
(* and a ring of bytes.  Before it knows whether a packet will be decoded  *)
(* or skipped the reader may already have put its first bytes into the     *)
(* ring.                                                                   *)
(*                                                                         *)
(* The file is packets 1 .. Len(Sizes).  Sizes and the ring are counted in *)
(* pieces; <<n, k>> is piece k of packet n.                                *)
(***************************************************************************)
EXTENDS Integers, Sequences

CONSTANTS
  Sizes,      \* pieces of every packet
  Ring,       \* kMjpegInputRingBytes
  Speculative \* kMjpegInputSpeculativeBytes: the ring without one chunk

ASSUME MjpegInputAssumption ==
  /\ Ring \in Nat \ {0} /\ Speculative \in 0 .. Ring
  /\ Sizes \in Seq(Nat \ {0}) /\ Sizes # <<>>

VARIABLES
  reader,   \* where mjpegInputReaderTask is
  at,       \* packet of the file the reader works on
  sent,     \* pieces of it that went into the ring, 0 once they are dropped
  held,     \* another piece is read and waits for room
  queue,    \* mjpeg_input_packet_queue: a packet number, or one of the below
  ring,     \* mjpeg_input_stream
  notice,   \* the reader's task notification, "none" when it was taken
  stop,     \* mjpeg_input_stop_requested
  finished, \* mjpeg_input_reader_finished
  failed,   \* the card or the structure of the file failed the reader (history)
  main,     \* where the playback loop is
  packet,   \* the packet it works on
  got       \* pieces of it that reached the decoder

readerVars == <<reader, at, sent, held>>
mainVars   == <<main, packet, got>>
vars == <<readerVars, queue, ring, notice, stop, finished, failed, mainVars>>

Last  == Len(Sizes)
Empty == 0        \* no descriptor waits
Eof   == Last + 1 \* MJPEG_AVI_EOF
Error == Last + 2 \* any other result

Contents == Seq((1 .. Last) \X Nat)
Notices  == {"none", "decode", "skip", "stop"}
ReaderStates == {"none", "demux", "offer", "speculate", "command", "rest", "align",
                 "end", "finish", "suspended"}
MainStates == {"closed", "next", "decide", "read", "check", "stopping"}

TypeOK ==
  /\ reader \in ReaderStates
  /\ at \in 1 .. Error /\ sent \in Nat /\ held \in BOOLEAN
  /\ queue \in Empty .. Error
  /\ ring \in Contents /\ Len(ring) <= Ring
  /\ notice \in Notices
  /\ stop \in BOOLEAN /\ finished \in BOOLEAN /\ failed \in BOOLEAN
  /\ main \in MainStates
  /\ packet \in 0 .. Last /\ got \in Nat

Init ==
  /\ reader = "none" /\ at = 1 /\ sent = 0 /\ held = FALSE
  /\ queue = Empty /\ ring = <<>> /\ notice = "none"
  /\ stop = FALSE /\ finished = FALSE /\ failed = FALSE
  /\ main = "closed" /\ packet = 0 /\ got = 0

-----------------------------------------------------------------------------
(* The reader task.                                                        *)

\* Between its calls, and every 20 ms inside those that wait, the reader looks
\* at the stop flag.
Quit ==
  /\ stop /\ reader \in {"demux", "offer", "end", "speculate", "command", "rest"}
  /\ reader = "rest" => sent # Sizes[at]
  /\ reader' = "finish" /\ held' = FALSE
  /\ UNCHANGED <<at, sent, queue, ring, notice, stop, finished, failed, mainVars>>

\* avi_demux_next_packet.  The result is offered whatever it is; after the end
\* of the file or an error the reader is done.
Demux ==
  /\ reader = "demux"
  /\ \/ at <= Last /\ reader' = "offer" /\ UNCHANGED <<at, failed>>
     \/ at = Eof /\ reader' = "end" /\ UNCHANGED <<at, failed>>
     \/ at' = Error /\ failed' = TRUE /\ reader' = "end"
  /\ UNCHANGED <<sent, held, queue, ring, notice, stop, finished, mainVars>>

\* sendMjpegInputPacket
Offer ==
  /\ reader \in {"offer", "end"} /\ queue = Empty
  /\ queue' = at
  /\ reader' = IF reader = "end" THEN "finish" ELSE "speculate"
  /\ UNCHANGED <<at, sent, held, ring, notice, stop, finished, failed, mainVars>>

\* Fault: a piece is sent whether or not the ring has room.
Bug_Fetch(limit, next) ==
  \/ /\ sent = limit /\ reader' = next
     /\ UNCHANGED <<sent, held, ring, failed>>
  \/ /\ sent # limit /\ ~held /\ held' = TRUE
     /\ UNCHANGED <<reader, sent, ring, failed>>
  \/ /\ held
     /\ ring' = Append(ring, <<at, sent + 1>>) /\ sent' = sent + 1
     /\ held' = FALSE /\ UNCHANGED <<reader, failed>>

\* fread of a piece, whose failure ends the reader, and sendMjpegInputBytes.
Fetch(limit, next) ==
  \/ /\ sent = limit /\ reader' = next
     /\ UNCHANGED <<sent, held, ring, failed>>
  \/ /\ sent # limit /\ ~held /\ held' = TRUE
     /\ UNCHANGED <<reader, sent, ring, failed>>
  \/ /\ sent # limit /\ ~held /\ failed' = TRUE /\ reader' = "finish"
     /\ UNCHANGED <<sent, held, ring>>
  \/ /\ held /\ Len(ring) < Ring
     /\ ring' = Append(ring, <<at, sent + 1>>) /\ sent' = sent + 1
     /\ held' = FALSE /\ UNCHANGED <<reader, failed>>

Smaller(a, b) == IF a < b THEN a ELSE b

\* Fault: the whole packet is fetched before the decision.
Bug_Speculate ==
  /\ reader = "speculate"
  /\ Fetch(Sizes[at], "command")
  /\ UNCHANGED <<at, queue, notice, stop, finished, mainVars>>

\* The first pieces, before it is known whether they are wanted.
Speculate ==
  /\ reader = "speculate"
  /\ Fetch(Smaller(Sizes[at], Speculative), "command")
  /\ UNCHANGED <<at, queue, notice, stop, finished, mainVars>>

\* Fault: the pieces of the skipped packet stay in the ring.
Bug_Command ==
  /\ reader = "command" /\ ~stop /\ notice # "none"
  /\ notice' = "none"
  /\ reader' = IF notice = "decode" THEN "rest"
               ELSE IF notice = "skip" THEN "align" ELSE "finish"
  /\ UNCHANGED <<at, sent, held, queue, ring, stop, finished, failed, mainVars>>

\* xTaskNotifyWait: the decision.  A skipped packet leaves nothing behind.
Command ==
  /\ reader = "command" /\ ~stop /\ notice # "none"
  /\ notice' = "none"
  /\ \/ notice = "decode" /\ reader' = "rest" /\ UNCHANGED <<sent, ring>>
     \/ notice = "skip" /\ reader' = "align" /\ ring' = <<>> /\ sent' = 0
     \/ notice = "stop" /\ reader' = "finish" /\ UNCHANGED <<sent, ring>>
  /\ UNCHANGED <<at, held, queue, stop, finished, failed, mainVars>>

Rest ==
  /\ reader = "rest"
  /\ Fetch(Sizes[at], "align")
  /\ UNCHANGED <<at, queue, notice, stop, finished, mainVars>>

\* avi_demux_finish_packet: on to the aligned end of the packet.
Align ==
  /\ reader = "align"
  /\ \/ at' = at + 1 /\ sent' = 0 /\ reader' = "demux" /\ UNCHANGED failed
     \/ failed' = TRUE /\ reader' = "finish" /\ UNCHANGED <<at, sent>>
  /\ UNCHANGED <<held, queue, ring, notice, stop, finished, mainVars>>

\* Fault: the task ends without raising its flag.
Bug_Finish ==
  /\ reader = "finish" /\ reader' = "suspended"
  /\ UNCHANGED <<at, sent, held, queue, ring, notice, stop, finished, failed, mainVars>>

\* The flag is raised last; the task then waits to be deleted.
Finish ==
  /\ reader = "finish"
  /\ finished' = TRUE /\ reader' = "suspended"
  /\ UNCHANGED <<at, sent, held, queue, ring, notice, stop, failed, mainVars>>

Reader == Quit \/ Demux \/ Offer \/ Speculate \/ Command \/ Rest \/ Align
            \/ Finish

-----------------------------------------------------------------------------
(* The playback loop.                                                      *)

\* openVideo with startMjpegInputPrefetch, which finds nothing running.
Start ==
  /\ main = "closed"
  /\ main' = "next" /\ packet' = 0 /\ got' = 0
  /\ reader' = "demux" /\ at' = 1 /\ sent' = 0 /\ held' = FALSE
  /\ queue' = Empty /\ ring' = <<>> /\ notice' = "none"
  /\ stop' = FALSE /\ finished' = FALSE /\ failed' = FALSE

\* The first half of stopMjpegInputPrefetch, from closeVideo.
RequestStop == stop' = TRUE /\ notice' = "stop" /\ main' = "stopping"

\* nextMjpegInputPacket: a descriptor.  The end of the file restarts it, an
\* error closes it.
NextPacket ==
  /\ main = "next" /\ queue # Empty
  /\ queue' = Empty /\ got' = 0
  /\ IF queue \in 1 .. Last
     THEN packet' = queue /\ main' = "decide" /\ UNCHANGED <<stop, notice>>
     ELSE RequestStop /\ UNCHANGED packet
  /\ UNCHANGED <<readerVars, ring, finished, failed>>

\* Nothing came for kMjpegInputWaitTimeoutMs: a failure of the card.
NextTimeout ==
  /\ main = "next" /\ queue = Empty
  /\ RequestStop
  /\ UNCHANGED <<readerVars, queue, ring, finished, failed, packet, got>>

\* signalMjpegInputPacket, after the presentation clock was looked at.
Decide ==
  /\ main = "decide"
  /\ \/ notice' = "decode" /\ main' = "read"
     \/ notice' = "skip" /\ main' = "next"
  /\ UNCHANGED <<readerVars, queue, ring, stop, finished, failed, packet, got>>

\* readMjpegInput for refill_stream_buffer or the drain at the end of
\* decode_impl: the decoder takes every piece of a packet.
Receive ==
  /\ main = "read" /\ ring # <<>>
  /\ ring' = Tail(ring) /\ got' = got + 1
  /\ main' = IF got' = Sizes[packet] THEN "next" ELSE "read"
  /\ UNCHANGED <<readerVars, queue, notice, stop, finished, failed, packet>>

\* xStreamBufferReceive returns nothing after 20 ms ...
ReceiveTimeout ==
  /\ main = "read" /\ ring = <<>>
  /\ main' = "check"
  /\ UNCHANGED <<readerVars, queue, ring, notice, stop, finished, failed,
                 packet, got>>

\* Fault: the end of the reader is taken for granted.
Bug_CheckFinished ==
  /\ main = "check" /\ RequestStop
  /\ UNCHANGED <<readerVars, queue, ring, finished, failed, packet, got>>

\* ... and only then is the reader's flag looked at.  No input: decode error.
CheckFinished ==
  /\ main = "check"
  /\ IF finished THEN RequestStop
     ELSE main' = "read" /\ UNCHANGED <<stop, notice>>
  /\ UNCHANGED <<readerVars, queue, ring, finished, failed, packet, got>>

\* A picture that cannot be decoded or shown, or a command between two
\* pictures, closes the video.
Close ==
  /\ main \in {"next", "read"}
  /\ RequestStop
  /\ UNCHANGED <<readerVars, queue, ring, finished, failed, packet, got>>

\* The other half: the reader has finished, or kMjpegInputStopTimeoutMs are
\* over; it is deleted, and then the ring and the queue.
Release ==
  /\ main = "stopping" /\ main' = "closed"
  /\ reader' = "none" /\ ring' = <<>> /\ queue' = Empty /\ finished' = TRUE
  /\ UNCHANGED <<at, sent, held, notice, stop, failed, packet, got>>

Main == NextPacket \/ Decide \/ Receive \/ ReceiveTimeout \/ CheckFinished
          \/ Release

Next == Reader \/ Main \/ Start \/ NextTimeout \/ Close

Spec == Init /\ [][Next]_vars

\* Both tasks run on a core of their own, the card answers in the end and the
\* loop keeps playing.
FairSpec == Spec /\ WF_vars(Reader) /\ WF_vars(Main)

-----------------------------------------------------------------------------
(* Properties                                                              *)

\* Every piece the decoder gets is the next one of the packet it decodes, and
\* the packets of the file are decoded or skipped in their order, none twice
\* and none left out: nothing of a skipped packet reaches the decoder.
InputExact ==
  [][/\ main = "read" /\ got' # got => Head(ring) = <<packet, got'>>
     /\ packet' \in {packet, packet + 1, 0}]_vars

\* A picture is cut short only when the card failed or the reader is already
\* behind the last packet.  (In the second case the bytes may all be there:
\* the flag is looked at after the ring was, and the ring is not looked at
\* again, as readBpvPrefetchedInput does.)
ShortInputExplained ==
  [][main = "check" /\ main' = "stopping" => failed \/ at = Eof]_vars

\* "reserving one 512-byte producer chunk so a late skip cannot deadlock on a
\* full ring": a skip is taken, whatever the size of the packet, unless the card
\* fails.
SkipTaken == notice = "skip" /\ ~failed ~> notice # "skip" \/ failed

\* A packet that is being decoded comes to its end, or the video is closed.
DecodeEnds == main \in {"read", "check"} ~> main \notin {"read", "check"}
=============================================================================
