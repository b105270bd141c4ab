----------------------------- MODULE UartUpload -----------------------------
(***************************************************************************)
(* Uploading a file over the serial line: the client's sliding window      *)
(* (upload() in uart_upload.py), the device's receiver on CPU0             *)
(* (uart_file_upload_receive) with two block buffers, and the SD writer    *)
(* task on CPU1 (upload_writer_task).                                      *)
(*                                                                         *)
(* A block is its sequence number and whether its payload still matches    *)
(* its CRC.  The line keeps order; it loses, corrupts or misframes at most *)
(* MaxFaults messages.  Timeouts fire whenever what they wait for is late. *)
(***************************************************************************)
EXTENDS Integers, Sequences, FiniteSets

CONSTANTS
  Blocks,      \* blocks of the file
  Buffers,     \* UART_UPLOAD_BUFFER_COUNT, also the client's window (2)
  MaxAttempts, \* MAX_BLOCK_ATTEMPTS
  DoneCopies,  \* READ_BLOCK_ATTEMPTS: how often the completion is repeated
  MaxFaults    \* bound on line faults

ASSUME UploadAssumption ==
  /\ Blocks \in Nat \ {0} /\ Buffers \in Nat \ {0}
  /\ MaxAttempts \in Nat \ {0} /\ DoneCopies \in Nat \ {0} /\ MaxFaults \in Nat

VARIABLES
  \* the client
  client,    \* "sending", "completing" (wait_for_completion), "done", "failed"
  next,      \* next_sequence
  flight,    \* sequence -> attempts, for the blocks in in_flight
  acked,     \* acknowledged, in blocks
  \* the line
  toDevice,  \* blocks on their way
  toClient,  \* responses on their way
  faults,    \* faults so far
  \* the receiver
  device,    \* "top", "read", "drain", "finish", "done", "failed"
  sequence,  \* next block expected
  pending,   \* pending_writes
  lastAck,   \* last_acked_sequence, -1 for UINT32_MAX
  nak,       \* nak_outstanding
  buffer,    \* contents of the block buffers
  video,     \* what the target name stands for: "old" or "new"
  \* the SD writer
  ready,     \* queue of blocks to write: their sequence numbers
  completed, \* queue of blocks written
  written,   \* what the .part file holds
  broken     \* writer.failed

clientVars == <<client, next, flight, acked>>
lineVars   == <<toDevice, toClient, faults>>
deviceVars == <<device, sequence, pending, lastAck, nak, buffer, video>>
writerVars == <<ready, completed, written, broken>>
vars == <<clientVars, lineVars, deviceVars, writerVars>>

Sequences_ == 0 .. Blocks - 1
Block(s, intact) == [seq |-> s, intact |-> intact]
Reply(kind, s)   == [kind |-> kind, seq |-> s]

\* Fault: one buffer fewer in turn.
Bug_Slot(s) == s % (Buffers - 1)
Slot(s)     == s % Buffers

TypeOK ==
  /\ client \in {"sending", "completing", "done", "failed"}
  /\ next \in 0 .. Blocks /\ acked \in 0 .. Blocks
  /\ DOMAIN flight \subseteq Sequences_ /\ Cardinality(DOMAIN flight) <= Buffers
  /\ \A s \in DOMAIN flight : flight[s] \in 1 .. MaxAttempts
  /\ device \in {"top", "read", "drain", "finish", "done", "failed"}
  /\ sequence \in 0 .. Blocks /\ pending \in 0 .. Buffers
  /\ lastAck \in -1 .. Blocks - 1 /\ nak \in BOOLEAN
  /\ DOMAIN buffer = 0 .. Buffers - 1 /\ video \in {"old", "new"}
  /\ Len(ready) + Len(completed) <= Buffers
  /\ faults \in 0 .. MaxFaults /\ broken \in BOOLEAN

Init ==
  /\ client = "sending" /\ next = 0 /\ flight = [s \in {} |-> 0] /\ acked = 0
  /\ toDevice = <<>> /\ toClient = <<>> /\ faults = 0
  /\ device = "top" /\ sequence = 0 /\ pending = 0 /\ lastAck = -1
  /\ nak = FALSE /\ video = "old"
  /\ buffer = [b \in 0 .. Buffers - 1 |-> Block(-1, FALSE)]
  /\ ready = <<>> /\ completed = <<>> /\ written = <<>> /\ broken = FALSE

-----------------------------------------------------------------------------
(* The client.                                                             *)

\* Fault: one block too many in flight.
Bug_WindowOpen == next < Blocks /\ Cardinality(DOMAIN flight) <= Buffers

\* The window is filled before a response is awaited.
WindowOpen == next < Blocks /\ Cardinality(DOMAIN flight) < Buffers

SendBlock ==
  /\ client = "sending" /\ WindowOpen
  /\ toDevice' = Append(toDevice, Block(next, TRUE))
  /\ flight' = [s \in DOMAIN flight \cup {next} |->
                  IF s = next THEN 1 ELSE flight[s]]
  /\ next' = next + 1
  /\ UNCHANGED <<client, acked, toClient, faults, deviceVars, writerVars>>

Ascending(S) ==
  CHOOSE q \in [1 .. Cardinality(S) -> S] :
    \A i, j \in 1 .. Cardinality(S) : i < j => q[i] < q[j]

\* retransmit_from: the blocks in flight from s on go out again, in order, up
\* to one that was sent MaxAttempts times: that ends the upload, and so does a
\* request for a block that is not in flight.
RetransmitFrom(s) ==
  LET again == {f \in DOMAIN flight : f >= s}
      sent  == {f \in again : \A g \in again : g <= f => flight[g] < MaxAttempts}
  IN  /\ toDevice' = toDevice \o [i \in 1 .. Cardinality(sent) |->
                                    Block(Ascending(sent)[i], TRUE)]
      /\ flight' = [f \in DOMAIN flight |->
                      IF f \in sent THEN flight[f] + 1 ELSE flight[f]]
      /\ client' = IF again = {} \/ sent # again THEN "failed" ELSE client

Awaiting == client = "sending" /\ ~WindowOpen /\ flight # [s \in {} |-> 0]

\* A cumulative ACK.  One for blocks that are acknowledged already is ignored,
\* any other that is not in flight ends the upload.
Acknowledged(s) ==
  /\ IF s \in DOMAIN flight
     THEN /\ flight' = [f \in {g \in DOMAIN flight : g > s} |-> flight[f]]
          /\ acked' = s + 1 /\ UNCHANGED client
     ELSE /\ client' = IF s + 1 <= acked THEN client ELSE "failed"
          /\ UNCHANGED <<flight, acked>>
  /\ UNCHANGED toDevice

HandleResponse ==
  /\ Awaiting /\ toClient # <<>>
  /\ toClient' = Tail(toClient)
  /\ LET response == Head(toClient)
     IN  CASE response.kind = "ACK" -> Acknowledged(response.seq)
           [] response.kind = "NAK" -> RetransmitFrom(response.seq)
                                         /\ UNCHANGED acked
           [] response.kind = "ERR" -> client' = "failed"
                                         /\ UNCHANGED <<flight, acked, toDevice>>
           [] response.kind = "WAIT" -> \* no progress for too long, or go on
                                         /\ client' \in {client, "failed"}
                                         /\ UNCHANGED <<flight, acked, toDevice>>
           [] OTHER -> UNCHANGED <<client, flight, acked, toDevice>>
  /\ UNCHANGED <<next, faults, deviceVars, writerVars>>

\* WINDOW_ACK_TIMEOUT_SECONDS without a response.
AckTimeout ==
  /\ Awaiting /\ toClient = <<>>
  /\ RetransmitFrom(CHOOSE s \in DOMAIN flight :
                      \A f \in DOMAIN flight : s <= f)
  /\ UNCHANGED <<next, acked, toClient, faults, deviceVars, writerVars>>

\* WINDOW_PROGRESS_TIMEOUT_SECONDS without a new acknowledgement, or no
\* completion in time.
ClientGivesUp ==
  /\ Awaiting \/ client = "completing"
  /\ toClient = <<>>
  /\ client' = "failed"
  /\ UNCHANGED <<next, flight, acked, lineVars, deviceVars, writerVars>>

\* Fault: success is reported when every block is acknowledged.
Bug_AllAcknowledged ==
  /\ client = "sending" /\ next = Blocks /\ flight = [s \in {} |-> 0]
  /\ client' = "done"
  /\ UNCHANGED <<next, flight, acked, lineVars, deviceVars, writerVars>>

AllAcknowledged ==
  /\ client = "sending" /\ next = Blocks /\ flight = [s \in {} |-> 0]
  /\ client' = "completing"
  /\ UNCHANGED <<next, flight, acked, lineVars, deviceVars, writerVars>>

\* wait_for_completion
HandleCompletion ==
  /\ client = "completing" /\ toClient # <<>>
  /\ toClient' = Tail(toClient)
  /\ client' = CASE Head(toClient).kind = "DONE" -> "done"
                 [] Head(toClient).kind = "ERR"  -> "failed"
                 [] OTHER -> client
  /\ UNCHANGED <<next, flight, acked, toDevice, faults, deviceVars,
                 writerVars>>

-----------------------------------------------------------------------------
(* The receiver.                                                           *)

Say(kind, s) == toClient' = Append(toClient, Reply(kind, s))

\* acknowledge_write: one finished block gives back its buffer and is
\* acknowledged; a failed write ends the transfer.
AcknowledgeWrite ==
  /\ device \in {"top", "drain"} /\ completed # <<>>
  /\ completed' = Tail(completed) /\ pending' = pending - 1
  /\ IF broken
     THEN /\ device' = "failed" /\ Say("ERR", 0) /\ UNCHANGED lastAck
     ELSE /\ lastAck' = Head(completed) /\ Say("ACK", Head(completed))
          /\ UNCHANGED device
  /\ UNCHANGED <<sequence, nak, buffer, video, clientVars, toDevice, faults,
                 ready, written, broken>>

\* With no finished block: go on to the next block, or when both buffers are
\* in use tell the client that the device is alive (HLVWAIT).  A heartbeat
\* only matters to a client that has nothing else to read.
AwaitBlock ==
  /\ device = "top" /\ completed = <<>> /\ pending < Buffers
  /\ device' = "read"
  /\ UNCHANGED <<sequence, pending, lastAck, nak, buffer, video, clientVars,
                 lineVars, writerVars>>

Heartbeat ==
  /\ completed = <<>> /\ toClient = <<>>
  /\ (device = "top" /\ pending = Buffers) \/ (device = "drain" /\ pending > 0)
  /\ Say("WAIT", sequence)
  /\ UNCHANGED <<clientVars, toDevice, faults, deviceVars, writerVars>>

\* Faults: the repeated ACK is for the last block received; the NAK asks for the
\* block after the one that is missing.
Bug_AcknowledgeAgain == Say("ACK", sequence - 1)
Bug_AskAgain         == Say("NAK", sequence + 1)

\* What the receiver answers to a block it has and to one it does not expect.
AcknowledgeAgain == Say("ACK", lastAck)
AskAgain         == Say("NAK", sequence)

\* A whole block is read into the buffer of the block that is expected, and
\* then looked at.
ReadBlock ==
  /\ device = "read" /\ toDevice # <<>>
  /\ toDevice' = Tail(toDevice)
  /\ LET block == Head(toDevice)
     IN  /\ buffer' = [buffer EXCEPT ![Slot(sequence)] = block]
         /\ \/ /\ block.seq < sequence /\ lastAck # -1
               /\ AcknowledgeAgain /\ device' = "top"
               /\ UNCHANGED <<sequence, pending, nak, ready>>
            \/ /\ block.seq # sequence
               /\ ~(block.seq < sequence /\ lastAck # -1)
               /\ IF nak THEN UNCHANGED toClient ELSE AskAgain
               /\ nak' = TRUE /\ device' = "top"
               /\ UNCHANGED <<sequence, pending, ready>>
            \/ /\ block.seq = sequence /\ ~block.intact
               /\ AskAgain
               /\ nak' = TRUE /\ device' = "top"
               /\ UNCHANGED <<sequence, pending, ready>>
            \/ /\ block.seq = sequence /\ block.intact
               /\ nak' = FALSE /\ ready' = Append(ready, sequence)
               /\ pending' = pending + 1 /\ sequence' = sequence + 1
               /\ device' = IF sequence + 1 = Blocks THEN "drain" ELSE "top"
               /\ UNCHANGED toClient
  /\ UNCHANGED <<lastAck, video, clientVars, faults, completed, written,
                 broken>>

\* CHUNK_TIMEOUT_MS without a block.
ReadTimeout ==
  /\ device = "read" /\ toDevice = <<>>
  /\ device' = "failed" /\ Say("ERR", 0)
  /\ UNCHANGED <<sequence, pending, lastAck, nak, buffer, video, clientVars,
                 toDevice, faults, writerVars>>

Drained ==
  /\ device = "drain" /\ pending = 0
  /\ IF broken \/ Len(written) # sequence
     THEN device' = "failed" /\ Say("ERR", 0)
     ELSE device' = "finish" /\ UNCHANGED toClient
  /\ UNCHANGED <<sequence, pending, lastAck, nak, buffer, video, clientVars,
                 toDevice, faults, writerVars>>

\* fsync, the CRC of what was written, the CRC of what is read back, and the
\* two renames.  Any of them may fail for reasons of the card.
SourceWritten == written = [i \in 1 .. Blocks |-> Block(i - 1, TRUE)]
Finish ==
  /\ device = "finish"
  /\ \/ /\ SourceWritten
        /\ device' = "done" /\ video' = "new"
        /\ toClient' = toClient \o [i \in 1 .. DoneCopies |-> Reply("DONE", 0)]
     \/ /\ device' = "failed" /\ Say("ERR", 0) /\ UNCHANGED video
  /\ UNCHANGED <<sequence, pending, lastAck, nak, buffer, clientVars,
                 toDevice, faults, writerVars>>

\* After the transfer the main loop reads the line for commands.
DiscardBlock ==
  /\ device \in {"done", "failed"} /\ toDevice # <<>>
  /\ toDevice' = Tail(toDevice)
  /\ UNCHANGED <<clientVars, toClient, faults, deviceVars, writerVars>>

-----------------------------------------------------------------------------
(* The SD writer: it writes what the buffer holds when it gets there, and   *)
(* reports the block whether or not it could be written.                   *)

\* Fault: a block that could not be written is never reported.
Bug_WriteBlock ==
  /\ ready # <<>> /\ ready' = Tail(ready)
  /\ \/ /\ ~broken /\ written' = Append(written, buffer[Slot(Head(ready))])
        /\ completed' = Append(completed, Head(ready)) /\ UNCHANGED broken
     \/ broken' = TRUE /\ UNCHANGED <<written, completed>>
  /\ UNCHANGED <<clientVars, lineVars, deviceVars>>

WriteBlock ==
  /\ ready # <<>>
  /\ ready' = Tail(ready) /\ completed' = Append(completed, Head(ready))
  /\ \/ /\ ~broken /\ written' = Append(written, buffer[Slot(Head(ready))])
        /\ UNCHANGED broken
     \/ broken' = TRUE /\ UNCHANGED written
  /\ UNCHANGED <<clientVars, lineVars, deviceVars>>

-----------------------------------------------------------------------------
(* The serial line.                                                        *)

LineFault ==
  /\ faults < MaxFaults /\ faults' = faults + 1
  /\ \/ \* a block is lost
        /\ toDevice # <<>> /\ toDevice' = Tail(toDevice)
        /\ UNCHANGED <<toClient, device>>
     \/ \* its payload is damaged
        /\ toDevice # <<>> /\ toDevice' = <<Block(Head(toDevice).seq, FALSE)>>
                                             \o Tail(toDevice)
        /\ UNCHANGED <<toClient, device>>
     \/ \* bytes are lost inside it: BAD_BLOCK
        /\ device = "read" /\ toDevice # <<>> /\ toDevice' = Tail(toDevice)
        /\ device' = "failed" /\ Say("ERR", 0)
     \/ \* a response is lost
        /\ toClient # <<>> /\ toClient' = Tail(toClient)
        /\ UNCHANGED <<toDevice, device>>
  /\ UNCHANGED <<clientVars, sequence, pending, lastAck, nak, buffer, video,
                 writerVars>>

-----------------------------------------------------------------------------
Client == SendBlock \/ HandleResponse \/ AckTimeout \/ ClientGivesUp
            \/ AllAcknowledged \/ HandleCompletion
Device == AcknowledgeWrite \/ AwaitBlock \/ ReadBlock \/ ReadTimeout
            \/ Drained \/ Finish
Next == Client \/ Device \/ WriteBlock \/ Heartbeat \/ DiscardBlock
          \/ LineFault

Spec == Init /\ [][Next]_vars

\* The client, the receiver and the writer keep running; nothing says that
\* the line ever fails.
FairSpec == Spec /\ WF_vars(Client) /\ WF_vars(Device) /\ WF_vars(WriteBlock)

-----------------------------------------------------------------------------
(* Properties                                                              *)

\* The .part file holds the blocks of the source in order, each once and
\* undamaged, whatever was lost, repeated or damaged on the line, although the
\* receiver reads every block into a buffer before it looks at it.
StoredInOrder ==
  \A i \in 1 .. Len(written) : written[i] = Block(i - 1, TRUE)

\* "An ACK means that a block passed its RAM CRC and completed its SD write."
AckMeansStored ==
  /\ acked <= Len(written)
  /\ \A i \in 1 .. Len(toClient) :
       toClient[i].kind = "ACK" => toClient[i].seq < Len(written)

\* The client can act on every response: no ACK runs ahead of its window and
\* no NAK asks for a block that it no longer holds.
ResponsesUnderstood ==
  Awaiting /\ toClient # <<>> =>
    LET response == Head(toClient)
    IN  /\ response.kind = "NAK" => \E f \in DOMAIN flight : f >= response.seq
        /\ response.kind = "ACK" =>
             response.seq \in DOMAIN flight \/ response.seq < acked

\* Every upload ends on both sides.
UploadEnds == <>(client \in {"done", "failed"} /\ device \in {"done", "failed"})

\* The protocol delivers the file.
Delivery == INSTANCE UploadDelivery
              WITH stored <- Len(written),
                   client <- IF client \in {"done", "failed"} THEN client
                             ELSE "busy"
Delivers == Delivery!DSpec
=============================================================================
