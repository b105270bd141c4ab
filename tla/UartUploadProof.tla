-------------------------- MODULE UartUploadProof --------------------------
(***************************************************************************)
(* An upload stores the blocks of its file in order and acknowledges only  *)
(* what is stored, the client can act on every response, and the protocol  *)
(* implements UploadDelivery, for every file, window, number of attempts   *)
(* and number of line faults.                                              *)
(***************************************************************************)
EXTENDS UartUpload, FiniteSetTheorems, SequenceTheorems,
        WellFoundedInduction, TLAPS

\* A message on the line is a block.
Whole(b) == b = Block(b.seq, b.intact) /\ b.intact \in BOOLEAN
DeviceLine == \E S : toDevice \in Seq(S) /\ \A b \in S : Whole(b)

\* What the device may say in a state: it acknowledges what is written, and
\* announces the end of an upload after the video was replaced.
Promise ==
  {r \in [kind : {"ACK", "NAK", "ERR", "WAIT", "DONE"}, seq : Int] :
     /\ r.kind = "ACK"  => r.seq < Len(written)
     /\ r.kind = "DONE" => video = "new"}
ClientLine == toClient \in Seq(Promise)

\* The blocks in flight are those between the acknowledged and the next one.
ClientInv ==
  /\ client \in {"sending", "completing", "done", "failed"}
  /\ next \in 0 .. Blocks /\ acked \in 0 .. next
  /\ DOMAIN flight = acked .. next - 1 /\ next - acked <= Buffers
  /\ \A s \in DOMAIN flight : flight[s] \in 1 .. MaxAttempts
  /\ client \in {"completing", "done"} => acked = Blocks

\* The receiver never has more blocks with the writer than there are buffers,
\* and while it reads a block it has one fewer.
ReceiverInv ==
  /\ device \in {"top", "read", "drain", "finish", "done", "failed"}
  /\ sequence \in 0 .. Blocks /\ nak \in BOOLEAN /\ video \in {"old", "new"}
  /\ device \in {"top", "read"} => sequence < Blocks
  /\ pending = Len(ready) + Len(completed) /\ pending <= Buffers
  /\ device = "read" => pending < Buffers
  /\ DOMAIN buffer = 0 .. Buffers - 1
  /\ lastAck \in -1 .. Blocks - 1 /\ lastAck < Len(written)
  /\ video = "new" => Len(written) = Blocks

\* The queue holds the blocks after those that are written, in order, and
\* their buffers hold their contents.
QueueInv ==
  /\ ready \in Seq(Nat) /\ completed \in Seq(Nat) /\ broken \in BOOLEAN
  /\ written \in Seq([seq : Nat, intact : BOOLEAN])
  /\ Len(written) + Len(ready) <= sequence
  /\ ~broken => Len(written) + Len(ready) = sequence
  /\ \A i \in 1 .. Len(ready) :
       /\ ready[i] = sequence - Len(ready) + i - 1
       /\ buffer[Slot(ready[i])] = Block(ready[i], TRUE)
  /\ ~broken => \A i \in 1 .. Len(completed) : completed[i] < Len(written)

IInv == /\ DeviceLine /\ ClientLine /\ faults \in 0 .. MaxFaults
        /\ ClientInv /\ ReceiverInv /\ QueueInv
        /\ StoredInOrder /\ acked <= Len(written)

-----------------------------------------------------------------------------
(* Facts about sequences, slots and messages.                              *)

\* The types of the constants, and of the lengths of the queues.
LEMMA Sizes ==
  /\ Blocks \in Nat \ {0} /\ Buffers \in Nat \ {0} /\ MaxAttempts \in Nat \ {0}
  /\ DoneCopies \in Nat \ {0} /\ MaxFaults \in Nat
BY UploadAssumption

LEMMA Lengths ==
  ASSUME QueueInv
  PROVE  Len(ready) \in Nat /\ Len(completed) \in Nat /\ Len(written) \in Nat
BY LenProperties DEF QueueInv

\* Blocks less than the number of buffers apart use different buffers.
LEMMA SlotsDiffer ==
  ASSUME NEW a \in Nat, NEW b \in Nat, a < b, b - a < Buffers
  PROVE  Slot(a) # Slot(b)
<1>1. SUFFICES ASSUME Slot(a) = Slot(b) PROVE FALSE  OBVIOUS
<1> DEFINE n == Buffers
<1>2. n \in Nat \ {0}  BY Sizes
<1> HIDE DEF n
<1>3. a % n = b % n  BY <1>1 DEF Slot, n
<1>4. a = n * (a \div n) + (a % n) /\ a \div n \in Int  BY <1>2
<1>5. b = n * (b \div n) + (b % n) /\ b \div n \in Int  BY <1>2
<1> DEFINE k == (b \div n) - (a \div n)
<1>6. b - a = n * k
  <2>1. n * (b \div n) - n * (a \div n) = n * k  BY <1>2, <1>4, <1>5
  <2>2. QED  BY <1>2, <1>3, <1>4, <1>5, <2>1
<1>7. k \in Int  BY <1>4, <1>5
<1> HIDE DEF k
<1>8. b - a < n  BY DEF n
<1>9. CASE k <= 0
  <2>1. n * k <= 0  BY <1>2, <1>7, <1>9
  <2>2. QED  BY <1>6, <2>1
<1>10. CASE k >= 1
  <2>1. n * k >= n  BY <1>2, <1>7, <1>10
  <2>2. QED  BY <1>2, <1>6, <1>8, <2>1
<1>11. QED  BY <1>7, <1>9, <1>10

LEMMA SlotRange ==
  ASSUME NEW a \in Nat PROVE Slot(a) \in 0 .. Buffers - 1
BY Sizes DEF Slot

\* A block put on the line, and one taken from it.
LEMMA LineTail ==
  ASSUME DeviceLine, toDevice # <<>>
  PROVE  /\ Whole(Head(toDevice))
         /\ \E S : Tail(toDevice) \in Seq(S) /\ \A b \in S : Whole(b)
<1>1. PICK S : toDevice \in Seq(S) /\ \A b \in S : Whole(b)  BY DEF DeviceLine
<1>2. Head(toDevice) \in S /\ Tail(toDevice) \in Seq(S)
  BY <1>1, HeadTailProperties
<1>3. QED  BY <1>1, <1>2

LEMMA LineConcat ==
  ASSUME DeviceLine, NEW more, NEW T, more \in Seq(T), \A b \in T : Whole(b),
         toDevice' = toDevice \o more
  PROVE  DeviceLine'
<1>1. PICK S : toDevice \in Seq(S) /\ \A b \in S : Whole(b)  BY DEF DeviceLine
<1>2. toDevice \in Seq(S \cup T) /\ more \in Seq(S \cup T)
  BY <1>1, SeqMonotonic
<1>3. toDevice' \in Seq(S \cup T)  BY <1>2, ConcatProperties
<1>4. QED  BY <1>1, <1>3 DEF DeviceLine

\* Block and Reply make what they should.
LEMMA Messages ==
  /\ \A s : Whole(Block(s, TRUE)) /\ Whole(Block(s, FALSE))
  /\ \A s, t : Block(s, t).seq = s /\ Block(s, t).intact = t
  /\ \A k, s : Reply(k, s).kind = k /\ Reply(k, s).seq = s
  /\ \A k \in {"ACK", "NAK", "ERR", "WAIT", "DONE"}, s \in Int :
       Reply(k, s) \in [kind : {"ACK", "NAK", "ERR", "WAIT", "DONE"}, seq : Int]
BY DEF Whole, Block, Reply

\* What was promised stays true: nothing that is written is taken back.
LEMMA PromiseGrows ==
  ASSUME Len(written) \in Nat, Len(written)' \in Nat,
         Len(written) <= Len(written)', video = "new" => video' = "new"
  PROVE  Promise \subseteq Promise'
BY DEF Promise

LEMMA ClientLineSays ==
  ASSUME NEW k \in {"ACK", "NAK", "ERR", "WAIT", "DONE"}, NEW s \in Int,
         ClientLine, Promise \subseteq Promise', Say(k, s),
         k = "ACK" => s < Len(written)', k = "DONE" => video' = "new"
  PROVE  ClientLine'
<1>1. toClient \in Seq(Promise')  BY SeqMonotonic DEF ClientLine
<1>2. Reply(k, s) \in Promise'
  <2>1. Reply(k, s).kind = k /\ Reply(k, s).seq = s  BY Messages
  <2>2. QED  BY <2>1, Messages DEF Promise
<1>3. Append(toClient, Reply(k, s)) \in Seq(Promise')
  BY <1>1, <1>2, AppendProperties
<1>4. QED  BY <1>3 DEF Say, ClientLine

LEMMA ClientLineKept ==
  ASSUME ClientLine, Promise \subseteq Promise', toClient' = toClient
  PROVE  ClientLine'
BY SeqMonotonic DEF ClientLine

\* Taking a response off the line.
LEMMA ClientLineTail ==
  ASSUME ClientLine, toClient # <<>>
  PROVE  Head(toClient) \in Promise /\ Tail(toClient) \in Seq(Promise)
BY HeadTailProperties DEF ClientLine

\* Steps that leave a part of the state alone keep its invariant.
LEMMA ClientFrame ==
  ASSUME ClientInv, UNCHANGED clientVars PROVE ClientInv'
BY DEF ClientInv, clientVars

LEMMA DeviceFrame ==
  ASSUME IInv, UNCHANGED <<deviceVars, writerVars>>
  PROVE  ReceiverInv' /\ QueueInv' /\ StoredInOrder' /\ Promise' = Promise
<1> USE DEF IInv, deviceVars, writerVars
<1>1. ReceiverInv'  BY DEF ReceiverInv
<1>2. QueueInv'  BY DEF QueueInv, Slot, Block
<1>3. StoredInOrder'  BY DEF StoredInOrder, Block
<1>4. Promise' = Promise  BY DEF Promise
<1>5. QED  BY <1>1, <1>2, <1>3, <1>4

-----------------------------------------------------------------------------
(* The client.                                                             *)

\* A client step that says nothing new keeps everything but what it changes.
LEMMA ClientOnly ==
  ASSUME IInv, UNCHANGED <<faults, deviceVars, writerVars>>,
         DeviceLine', ClientLine', ClientInv', acked' <= Len(written)
  PROVE  IInv'
<1>1. ReceiverInv' /\ QueueInv' /\ StoredInOrder'  BY DeviceFrame
<1>2. written' = written  BY DEF writerVars
<1>3. QED  BY <1>1, <1>2 DEF IInv

\* The blocks that are sent again go on the line whole.
LEMMA RetransmitStep ==
  ASSUME IInv, NEW s, RetransmitFrom(s), UNCHANGED <<next, acked>>,
         client = "sending"
  PROVE  DeviceLine' /\ ClientInv'
<1> DEFINE again == {f \in DOMAIN flight : f >= s}
           sent  == {f \in again :
                       \A g \in again : g <= f => flight[g] < MaxAttempts}
           n     == Cardinality(sent)
           b(i)  == Block(Ascending(sent)[i], TRUE)
           T     == {b(i) : i \in 1 .. n}
<1>1. /\ toDevice' = toDevice \o [i \in 1 .. n |-> b(i)]
      /\ flight' = [f \in DOMAIN flight |->
                      IF f \in sent THEN flight[f] + 1 ELSE flight[f]]
      /\ client' \in {client, "failed"}
  BY DEF RetransmitFrom
<1>2. DOMAIN flight = acked .. next - 1 /\ acked \in Int /\ next \in Int
  BY Sizes DEF IInv, ClientInv
<1>3. n \in Nat
  <2>1. IsFiniteSet(acked .. next - 1)  BY <1>2, FS_Interval
  <2>2. sent \in SUBSET (acked .. next - 1)  BY <1>2
  <2>3. IsFiniteSet(sent)  BY <2>1, <2>2, FS_Subset
  <2>4. QED  BY <2>3, FS_CardinalityType
<1>4. DeviceLine'
  <2>1. [i \in 1 .. n |-> b(i)] \in [1 .. n -> T]  OBVIOUS
  <2>2. [i \in 1 .. n |-> b(i)] \in Seq(T)  BY <1>3, <2>1, SeqDef
  <2>3. \A x \in T : Whole(x)
    <3>1. ASSUME NEW i \in 1 .. n PROVE Whole(b(i))  BY Messages
    <3>2. QED  BY <3>1
  <2>4. DeviceLine  BY DEF IInv
  <2>5. QED  BY <1>1, <2>2, <2>3, <2>4, LineConcat
<1>5. \A f \in DOMAIN flight' : flight'[f] \in 1 .. MaxAttempts
  <2>1. SUFFICES ASSUME NEW f \in DOMAIN flight
                 PROVE  flight'[f] \in 1 .. MaxAttempts
    BY <1>1
  <2>2. flight[f] \in 1 .. MaxAttempts /\ f \in Int
    BY <1>2 DEF IInv, ClientInv
  <2>3. CASE f \in sent
    <3>1. flight[f] < MaxAttempts  BY <2>2, <2>3
    <3>2. flight'[f] = flight[f] + 1  BY <1>1, <2>3
    <3>3. QED  BY <2>2, <3>1, <3>2, Sizes
  <2>4. CASE f \notin sent
    <3>1. flight'[f] = flight[f]  BY <1>1, <2>4
    <3>2. QED  BY <2>2, <3>1
  <2>5. QED  BY <2>3, <2>4
<1>6. ClientInv'
  <2>1. client' \in {"sending", "failed"}  BY <1>1
  <2>2. DOMAIN flight' = acked' .. next' - 1  BY <1>1, <1>2
  <2>3. QED  BY <1>5, <2>1, <2>2 DEF IInv, ClientInv
<1>7. QED  BY <1>4, <1>6

LEMMA SendBlockStep == IInv /\ SendBlock => IInv'
<1> SUFFICES ASSUME IInv, SendBlock PROVE IInv'  OBVIOUS
<1>1. /\ client = "sending" /\ next < Blocks
      /\ Cardinality(DOMAIN flight) < Buffers
      /\ toDevice' = Append(toDevice, Block(next, TRUE))
      /\ flight' = [s \in DOMAIN flight \cup {next} |->
                      IF s = next THEN 1 ELSE flight[s]]
      /\ next' = next + 1
      /\ UNCHANGED <<client, acked, toClient, faults, deviceVars, writerVars>>
  BY DEF SendBlock, WindowOpen
<1>2. /\ next \in 0 .. Blocks /\ acked \in 0 .. next
      /\ DOMAIN flight = acked .. next - 1
      /\ \A s \in DOMAIN flight : flight[s] \in 1 .. MaxAttempts
  BY DEF IInv, ClientInv
<1>3. next - acked < Buffers
  <2>1. Cardinality(acked .. next - 1)
          = IF acked > next - 1 THEN 0 ELSE (next - 1) - acked + 1
    BY <1>2, FS_Interval
  <2>2. QED  BY <1>1, <1>2, <2>1, Sizes
<1>4. ClientInv'
  <2>1. DOMAIN flight' = acked' .. next' - 1  BY <1>1, <1>2
  <2>2. \A s \in DOMAIN flight' : flight'[s] \in 1 .. MaxAttempts
    BY <1>1, <1>2, Sizes
  <2>3. /\ next' \in 0 .. Blocks /\ acked' \in 0 .. next'
        /\ next' - acked' <= Buffers
    BY <1>1, <1>2, <1>3, Sizes
  <2>4. QED  BY <1>1, <2>1, <2>2, <2>3 DEF ClientInv
<1>5. DeviceLine'
  <2>1. PICK S : toDevice \in Seq(S) /\ \A b \in S : Whole(b)
    BY DEF IInv, DeviceLine
  <2>2. toDevice \in Seq(S \cup {Block(next, TRUE)})  BY <2>1, SeqMonotonic
  <2>3. toDevice' \in Seq(S \cup {Block(next, TRUE)})
    BY <1>1, <2>2, AppendProperties
  <2>4. Whole(Block(next, TRUE))  BY Messages
  <2>5. QED  BY <2>1, <2>3, <2>4, Zenon DEF DeviceLine
<1>6. ClientLine'
  <2>1. Promise' = Promise  BY <1>1, DeviceFrame
  <2>2. QED  BY <1>1, <2>1 DEF IInv, ClientLine
<1>7. acked' <= Len(written)  BY <1>1 DEF IInv
<1>8. QED  BY <1>1, <1>4, <1>5, <1>6, <1>7, ClientOnly

\* An acknowledgement of a block in flight moves the window behind it.
LEMMA AcknowledgedStep ==
  ASSUME IInv, client = "sending", NEW s \in Int, s < Len(written),
         Acknowledged(s), UNCHANGED next
  PROVE  /\ ClientInv' /\ acked' <= Len(written) /\ UNCHANGED toDevice
<1>1. /\ next \in 0 .. Blocks /\ acked \in 0 .. next
      /\ DOMAIN flight = acked .. next - 1 /\ next - acked <= Buffers
      /\ \A f \in DOMAIN flight : flight[f] \in 1 .. MaxAttempts
      /\ acked <= Len(written) /\ Len(written) \in Nat
  BY Lengths DEF IInv, ClientInv
<1>2. CASE s \in DOMAIN flight
  <2>1. /\ flight' = [f \in {g \in DOMAIN flight : g > s} |-> flight[f]]
        /\ acked' = s + 1 /\ UNCHANGED <<client, next, toDevice>>
    BY <1>2 DEF Acknowledged
  <2>2. DOMAIN flight' = acked' .. next' - 1  BY <1>1, <1>2, <2>1
  <2>3. \A f \in DOMAIN flight' : flight'[f] \in 1 .. MaxAttempts
    BY <1>1, <2>1
  <2>4. acked' \in 0 .. next' /\ next' - acked' <= Buffers
    BY <1>1, <1>2, <2>1, Sizes
  <2>5. ClientInv'  BY <1>1, <2>1, <2>2, <2>3, <2>4 DEF ClientInv
  <2>6. QED  BY <1>1, <2>1, <2>5
<1>3. CASE s \notin DOMAIN flight
  <2>1. /\ client' \in {client, "failed"}
        /\ UNCHANGED <<flight, acked, next, toDevice>>
    BY <1>3 DEF Acknowledged
  <2>2. ClientInv'  BY <1>1, <2>1 DEF ClientInv
  <2>3. QED  BY <1>1, <2>1, <2>2
<1>4. QED  BY <1>2, <1>3

LEMMA HandleResponseStep == IInv /\ HandleResponse => IInv'
<1> SUFFICES ASSUME IInv, HandleResponse PROVE IInv'  OBVIOUS
<1> DEFINE response == Head(toClient)
<1>1. /\ client = "sending" /\ toClient # <<>> /\ toClient' = Tail(toClient)
      /\ UNCHANGED <<next, faults, deviceVars, writerVars>>
  BY DEF HandleResponse, Awaiting
<1>2. response \in Promise /\ Tail(toClient) \in Seq(Promise)
  BY <1>1, ClientLineTail DEF IInv
<1>3. ClientLine'
  <2>1. Promise' = Promise  BY <1>1, DeviceFrame
  <2>2. QED  BY <1>1, <1>2, <2>1 DEF ClientLine
<1>4. /\ response.kind \in {"ACK", "NAK", "ERR", "WAIT", "DONE"}
      /\ response.seq \in Int
      /\ response.kind = "ACK" => response.seq < Len(written)
  BY <1>2 DEF Promise
<1> HIDE DEF response
<1>5. CASE response.kind = "ACK"
  <2>1. Acknowledged(response.seq)
    BY <1>5 DEF HandleResponse, response
  <2>2. ClientInv' /\ acked' <= Len(written) /\ UNCHANGED toDevice
    BY <1>1, <1>4, <1>5, <2>1, AcknowledgedStep
  <2>3. DeviceLine'  BY <2>2 DEF IInv, DeviceLine
  <2>4. QED  BY <1>1, <1>3, <2>2, <2>3, ClientOnly
<1>6. CASE response.kind = "NAK"
  <2>1. RetransmitFrom(response.seq) /\ UNCHANGED acked
    BY <1>6 DEF HandleResponse, response
  <2>2. DeviceLine' /\ ClientInv'  BY <1>1, <2>1, RetransmitStep
  <2>3. acked' <= Len(written)  BY <2>1 DEF IInv
  <2>4. QED  BY <1>1, <1>3, <2>2, <2>3, ClientOnly
<1>7. CASE response.kind \in {"ERR", "WAIT", "DONE"}
  <2>1. client' \in {client, "failed"} /\ UNCHANGED <<flight, acked, toDevice>>
    BY <1>7 DEF HandleResponse, response
  <2>2. ClientInv'  BY <1>1, <2>1 DEF IInv, ClientInv
  <2>3. DeviceLine'  BY <2>1 DEF IInv, DeviceLine
  <2>4. acked' <= Len(written)  BY <2>1 DEF IInv
  <2>5. QED  BY <1>1, <1>3, <2>2, <2>3, <2>4, ClientOnly
<1>8. QED  BY <1>4, <1>5, <1>6, <1>7

\* Steps in which the client changes nothing but its mind.
LEMMA VerdictStep ==
  ASSUME IInv, UNCHANGED <<next, flight, acked, toDevice, faults, deviceVars,
                           writerVars>>,
         \/ toClient' = toClient
         \/ toClient # <<>> /\ toClient' = Tail(toClient),
         client' \in {"sending", "completing", "done", "failed"},
         client' \in {"completing", "done"} => acked = Blocks
  PROVE  IInv'
<1>1. ClientInv'  BY DEF IInv, ClientInv
<1>2. DeviceLine'  BY DEF IInv, DeviceLine
<1>3. ClientLine'
  <2>1. Promise' = Promise  BY DeviceFrame
  <2>2. QED  BY <2>1, ClientLineTail DEF IInv, ClientLine
<1>4. acked' <= Len(written)  BY DEF IInv
<1>5. QED  BY <1>1, <1>2, <1>3, <1>4, ClientOnly

LEMMA ClientStep == IInv /\ Client => IInv'
<1> SUFFICES ASSUME IInv, Client PROVE IInv'  OBVIOUS
<1>1. CASE SendBlock  BY <1>1, SendBlockStep
<1>2. CASE HandleResponse  BY <1>2, HandleResponseStep
<1>3. CASE AckTimeout
  <2>1. PICK s : RetransmitFrom(s)  BY <1>3 DEF AckTimeout
  <2>2. /\ client = "sending"
        /\ UNCHANGED <<next, acked, toClient, faults, deviceVars, writerVars>>
    BY <1>3 DEF AckTimeout, Awaiting
  <2>3. DeviceLine' /\ ClientInv'  BY <2>1, <2>2, RetransmitStep
  <2>4. ClientLine'
    <3>1. Promise' = Promise  BY <2>2, DeviceFrame
    <3>2. QED  BY <2>2, <3>1 DEF IInv, ClientLine
  <2>5. acked' <= Len(written)  BY <2>2 DEF IInv
  <2>6. QED  BY <2>2, <2>3, <2>4, <2>5, ClientOnly
<1>4. CASE ClientGivesUp
  BY <1>4, VerdictStep DEF ClientGivesUp, lineVars
<1>5. CASE AllAcknowledged
  <2>1. acked = Blocks
    <3>1. DOMAIN flight = {}  BY <1>5 DEF AllAcknowledged
    <3>2. acked .. next - 1 = {} /\ next = Blocks /\ acked \in 0 .. next
      BY <1>5, <3>1 DEF AllAcknowledged, IInv, ClientInv
    <3>3. QED  BY <3>2, Sizes
  <2>2. QED  BY <1>5, <2>1, VerdictStep DEF AllAcknowledged, lineVars
<1>6. CASE HandleCompletion
  <2>1. client = "completing" /\ acked = Blocks
    BY <1>6 DEF HandleCompletion, IInv, ClientInv
  <2>2. client' \in {"done", "failed", "completing"}
    BY <1>6, <2>1 DEF HandleCompletion
  <2>3. QED  BY <1>6, <2>1, <2>2, VerdictStep DEF HandleCompletion
<1>7. QED  BY <1>1, <1>2, <1>3, <1>4, <1>5, <1>6 DEF Client

-----------------------------------------------------------------------------
(* The receiver.                                                           *)

\* A step of the device or of the line that writes nothing.
LEMMA NothingWritten ==
  ASSUME IInv, UNCHANGED <<clientVars, written>>, faults' \in 0 .. MaxFaults,
         DeviceLine', ClientLine', ReceiverInv', QueueInv'
  PROVE  IInv'
<1>1. ClientInv'  BY ClientFrame DEF IInv
<1>2. StoredInOrder'  BY DEF IInv, StoredInOrder, Block
<1>3. acked' <= Len(written')  BY DEF IInv, clientVars
<1>4. QED  BY <1>1, <1>2, <1>3 DEF IInv

LEMMA NothingPromised ==
  ASSUME IInv, UNCHANGED written, video = "new" => video' = "new"
  PROVE  Promise \subseteq Promise'
BY Lengths, PromiseGrows DEF IInv

LEMMA AcknowledgeWriteStep == IInv /\ AcknowledgeWrite => IInv'
<1> SUFFICES ASSUME IInv, AcknowledgeWrite PROVE IInv'  OBVIOUS
<1>1. /\ device \in {"top", "drain"} /\ completed # <<>>
      /\ completed' = Tail(completed) /\ pending' = pending - 1
      /\ UNCHANGED <<sequence, nak, buffer, video, clientVars, toDevice, faults,
                     ready, written, broken>>
  BY DEF AcknowledgeWrite
<1>2. /\ Head(completed) \in Nat /\ Tail(completed) \in Seq(Nat)
      /\ Len(Tail(completed)) = Len(completed) - 1
      /\ \A i \in 1 .. Len(Tail(completed)) :
           Tail(completed)[i] = completed[i + 1]
      /\ Len(completed) \in Nat /\ Len(completed) > 0
      /\ Head(completed) = completed[1]
  <2>1. completed \in Seq(Nat)  BY DEF IInv, QueueInv
  <2>2. QED  BY <1>1, <2>1, HeadTailProperties, EmptySeq, LenProperties
<1>3. QueueInv'
  <2>1. ASSUME ~broken, NEW i \in 1 .. Len(completed')
        PROVE  completed'[i] < Len(written)
    BY <1>1, <1>2, <2>1 DEF IInv, QueueInv
  <2>2. QED  BY <1>1, <1>2, <2>1 DEF IInv, QueueInv, Slot, Block
<1>4. /\ Len(ready) \in Nat /\ Len(written) \in Nat
      /\ pending = Len(ready) + Len(completed) /\ pending <= Buffers
      /\ Len(written) <= Blocks
  BY Lengths, Sizes DEF IInv, ReceiverInv, QueueInv
<1>5. CASE broken
  <2>1. device' = "failed" /\ Say("ERR", 0) /\ UNCHANGED lastAck
    BY <1>5 DEF AcknowledgeWrite
  <2>2. ReceiverInv'
    BY <1>1, <1>2, <1>4, <2>1, Sizes DEF IInv, ReceiverInv
  <2>3. ClientLine'
    BY <1>1, <2>1, NothingPromised, ClientLineSays DEF IInv
  <2>4. DeviceLine'  BY <1>1 DEF IInv, DeviceLine
  <2>5. QED  BY <1>1, <1>3, <2>2, <2>3, <2>4, NothingWritten DEF IInv
<1>6. CASE ~broken
  <2>1. /\ lastAck' = Head(completed) /\ Say("ACK", Head(completed))
        /\ UNCHANGED device
    BY <1>6 DEF AcknowledgeWrite
  <2>2. Head(completed) < Len(written)
    BY <1>2, <1>6 DEF IInv, QueueInv
  <2>3. ReceiverInv'
    BY <1>1, <1>2, <1>4, <2>1, <2>2, Sizes DEF IInv, ReceiverInv
  <2>4. ClientLine'
    BY <1>1, <1>2, <2>1, <2>2, NothingPromised, ClientLineSays DEF IInv
  <2>5. DeviceLine'  BY <1>1 DEF IInv, DeviceLine
  <2>6. QED  BY <1>1, <1>3, <2>3, <2>4, <2>5, NothingWritten DEF IInv
<1>7. QED  BY <1>5, <1>6 DEF IInv, QueueInv

\* Steps of the receiver that touch neither the buffers nor the queues.
LEMMA DeviceOnly ==
  ASSUME IInv, UNCHANGED <<clientVars, writerVars, toDevice, faults, buffer,
                           sequence, pending, lastAck, nak>>,
         ClientLine',
         device' \in {"top", "read", "drain", "finish", "done", "failed"},
         device' \in {"top", "read"} => sequence < Blocks,
         device' = "read" => pending < Buffers,
         video' \in {"old", "new"}, video' = "new" => Len(written) = Blocks
  PROVE  IInv'
<1> USE DEF writerVars
<1>1. ReceiverInv'  BY DEF IInv, ReceiverInv
<1>2. QueueInv'  BY DEF IInv, QueueInv, Slot, Block
<1>3. DeviceLine'  BY DEF IInv, DeviceLine
<1>4. QED  BY <1>1, <1>2, <1>3, NothingWritten DEF IInv

\* A transfer that fails says so.
LEMMA FailStep ==
  ASSUME IInv, UNCHANGED <<clientVars, writerVars, toDevice, faults, buffer,
                           sequence, pending, lastAck, nak, video>>,
         device' = "failed", Say("ERR", 0)
  PROVE  IInv'
<1>1. ClientLine'
  BY NothingPromised, ClientLineSays DEF IInv, writerVars
<1>2. QED  BY <1>1, DeviceOnly DEF IInv, ReceiverInv

LEMMA HeartbeatStep == IInv /\ Heartbeat => IInv'
<1> SUFFICES ASSUME IInv, Heartbeat PROVE IInv'  OBVIOUS
<1>1. /\ Say("WAIT", sequence)
      /\ UNCHANGED <<clientVars, toDevice, faults, deviceVars, writerVars>>
  BY DEF Heartbeat
<1>2. sequence \in Int  BY Sizes DEF IInv, ReceiverInv
<1>3. ClientLine'
  BY <1>1, <1>2, NothingPromised, ClientLineSays
  DEF IInv, writerVars, deviceVars
<1>4. QED  BY <1>1, <1>3, DeviceOnly DEF IInv, ReceiverInv, deviceVars

\* Every block in use by the writer is in another buffer than the one that a
\* block is read into.
LEMMA ReadKeepsQueue ==
  ASSUME IInv, device = "read", NEW block, NEW i \in 1 .. Len(ready)
  PROVE  [buffer EXCEPT ![Slot(sequence)] = block][Slot(ready[i])]
           = Block(ready[i], TRUE)
<1>1. /\ Len(ready) \in Nat /\ Len(completed) \in Nat
      /\ Len(ready) < Buffers /\ sequence \in Nat
      /\ ready[i] = sequence - Len(ready) + i - 1 /\ ready[i] \in Nat
      /\ buffer[Slot(ready[i])] = Block(ready[i], TRUE)
  <2>1. Len(ready) \in Nat /\ Len(completed) \in Nat  BY Lengths DEF IInv
  <2>2. ready[i] \in Nat  BY ElementOfSeq DEF IInv, QueueInv
  <2>3. Len(ready) < Buffers /\ sequence \in Nat
    BY <2>1, Sizes DEF IInv, ReceiverInv
  <2>4. /\ ready[i] = sequence - Len(ready) + i - 1
        /\ buffer[Slot(ready[i])] = Block(ready[i], TRUE)
    BY Zenon DEF IInv, QueueInv
  <2>5. QED  BY <2>1, <2>2, <2>3, <2>4
<1>2. ready[i] < sequence /\ sequence - ready[i] < Buffers  BY <1>1, Sizes
<1>3. Slot(ready[i]) # Slot(sequence)  BY <1>1, <1>2, SlotsDiffer
<1>4. Slot(ready[i]) \in DOMAIN buffer  BY <1>1, SlotRange DEF IInv, ReceiverInv
<1>5. QED  BY <1>1, <1>3, <1>4

\* A block that is refused changes nothing but a buffer that nobody uses.
LEMMA RefuseStep ==
  ASSUME IInv, device = "read", NEW block,
         buffer' = [buffer EXCEPT ![Slot(sequence)] = block],
         toDevice # <<>>, toDevice' = Tail(toDevice),
         device' = "top", nak' \in BOOLEAN, ClientLine',
         UNCHANGED <<clientVars, faults, sequence, pending, lastAck, video,
                     writerVars>>
  PROVE  IInv'
<1> USE DEF writerVars
<1>1. DeviceLine'  BY LineTail DEF IInv, DeviceLine
<1>2. DOMAIN buffer' = 0 .. Buffers - 1  BY DEF IInv, ReceiverInv
<1>3. ReceiverInv'  BY <1>2 DEF IInv, ReceiverInv
<1>4. \A i \in 1 .. Len(ready) :
        buffer'[Slot(ready[i])] = Block(ready[i], TRUE)
  BY ReadKeepsQueue
<1>5. QueueInv'  BY <1>4 DEF IInv, QueueInv, Slot, Block
<1>6. QED  BY <1>1, <1>3, <1>5, NothingWritten DEF IInv

\* The block that is expected goes to the writer from the buffer that it was
\* read into.
LEMMA AcceptStep ==
  ASSUME IInv, device = "read", NEW block, Whole(block),
         block.seq = sequence, block.intact,
         buffer' = [buffer EXCEPT ![Slot(sequence)] = block],
         toDevice # <<>>, toDevice' = Tail(toDevice),
         nak' = FALSE, ready' = Append(ready, sequence),
         pending' = pending + 1, sequence' = sequence + 1,
         device' = IF sequence + 1 = Blocks THEN "drain" ELSE "top",
         UNCHANGED <<clientVars, faults, toClient, lastAck, video, completed,
                     written, broken>>
  PROVE  IInv'
<1>1. DeviceLine'  BY LineTail DEF IInv, DeviceLine
<1>2. ClientLine'  BY NothingPromised, ClientLineKept DEF IInv
<1>3. /\ Len(ready) \in Nat /\ Len(completed) \in Nat /\ Len(written) \in Nat
      /\ sequence \in Nat /\ sequence < Blocks /\ ready \in Seq(Nat)
  BY Lengths, Sizes DEF IInv, ReceiverInv, QueueInv
<1>4. /\ ready' \in Seq(Nat) /\ Len(ready') = Len(ready) + 1
      /\ \A i \in 1 .. Len(ready) : ready'[i] = ready[i]
      /\ ready'[Len(ready) + 1] = sequence
  BY <1>3, AppendProperties
<1>5. block = Block(sequence, TRUE)
  BY Zenon DEF Whole
<1>6. buffer'[Slot(sequence)] = Block(sequence, TRUE)
  BY <1>3, <1>5, SlotRange DEF IInv, ReceiverInv
<1>7. ASSUME NEW i \in 1 .. Len(ready')
      PROVE  /\ ready'[i] = sequence' - Len(ready') + i - 1
             /\ buffer'[Slot(ready'[i])] = Block(ready'[i], TRUE)
  <2>1. CASE i = Len(ready) + 1
    <3>1. ready'[i] = sequence  BY <1>4, <2>1, Zenon
    <3>2. sequence = sequence' - Len(ready') + i - 1  BY <1>3, <1>4, <2>1
    <3>3. QED  BY <1>6, <3>1, <3>2, Zenon
  <2>2. CASE i # Len(ready) + 1
    <3>1. i \in 1 .. Len(ready)  BY <1>3, <1>4, <2>2
    <3>2. ready'[i] = ready[i]  BY <1>4, <3>1
    <3>3. ready[i] = sequence - Len(ready) + i - 1
      BY <3>1 DEF IInv, QueueInv
    <3>4. buffer'[Slot(ready[i])] = Block(ready[i], TRUE)
      BY <3>1, ReadKeepsQueue
    <3>5. ready[i] = sequence' - Len(ready') + i - 1
      BY <1>3, <1>4, <3>1, <3>3
    <3>6. QED  BY <3>2, <3>4, <3>5, Zenon
  <2>3. QED  BY <2>1, <2>2
<1>8. QueueInv'
  <2>1. ready' \in Seq(Nat) /\ completed' \in Seq(Nat) /\ broken' \in BOOLEAN
    BY <1>4 DEF IInv, QueueInv
  <2>2. /\ Len(written') + Len(ready') <= sequence'
        /\ ~broken' => Len(written') + Len(ready') = sequence'
    BY <1>3, <1>4 DEF IInv, QueueInv
  <2>3. ~broken' => \A i \in 1 .. Len(completed') :
                      completed'[i] < Len(written')
    BY DEF IInv, QueueInv
  <2>4. written' \in Seq([seq : Nat, intact : BOOLEAN])  BY DEF IInv, QueueInv
  <2>5. QED  BY <1>7, <2>1, <2>2, <2>3, <2>4 DEF QueueInv, Slot, Block
<1>9. ReceiverInv'
  <2>1. DOMAIN buffer' = 0 .. Buffers - 1  BY DEF IInv, ReceiverInv
  <2>2. pending' = Len(ready') + Len(completed') /\ pending' <= Buffers
    BY <1>3, <1>4, Sizes DEF IInv, ReceiverInv
  <2>3. /\ sequence' \in 0 .. Blocks
        /\ device' \in {"top", "read"} => sequence' < Blocks
    BY <1>3, Sizes
  <2>4. QED  BY <2>1, <2>2, <2>3 DEF IInv, ReceiverInv
<1>10. QED  BY <1>1, <1>2, <1>8, <1>9, NothingWritten DEF IInv

LEMMA ReadBlockStep == IInv /\ ReadBlock => IInv'
<1> SUFFICES ASSUME IInv, ReadBlock PROVE IInv'  OBVIOUS
<1> DEFINE block == Head(toDevice)
<1>1. /\ device = "read" /\ toDevice # <<>> /\ toDevice' = Tail(toDevice)
      /\ buffer' = [buffer EXCEPT ![Slot(sequence)] = block]
      /\ UNCHANGED <<lastAck, video, clientVars, faults, completed, written,
                     broken>>
  BY DEF ReadBlock
<1>2. Whole(block)  BY <1>1, LineTail DEF IInv
<1>3. sequence \in Int /\ lastAck \in Int /\ lastAck < Len(written)
  BY Sizes DEF IInv, ReceiverInv
<1>4. CASE /\ AcknowledgeAgain /\ device' = "top"
           /\ UNCHANGED <<sequence, pending, nak, ready>>
  <2>1. ClientLine'
    BY <1>1, <1>3, <1>4, NothingPromised, ClientLineSays
    DEF IInv, AcknowledgeAgain
  <2>2. nak' \in BOOLEAN  BY <1>4 DEF IInv, ReceiverInv
  <2>3. QED  BY <1>1, <1>4, <2>1, <2>2, RefuseStep DEF writerVars
<1>5. CASE /\ AskAgain \/ UNCHANGED toClient
           /\ nak' = TRUE /\ device' = "top"
           /\ UNCHANGED <<sequence, pending, ready>>
  <2>1. CASE AskAgain
    <3>1. ClientLine'
      BY <1>1, <1>3, <2>1, NothingPromised, ClientLineSays DEF IInv, AskAgain
    <3>2. QED  BY <1>1, <1>5, <3>1, RefuseStep DEF writerVars
  <2>2. CASE UNCHANGED toClient
    <3>1. ClientLine'  BY <1>1, <2>2, NothingPromised, ClientLineKept DEF IInv
    <3>2. QED  BY <1>1, <1>5, <3>1, RefuseStep DEF writerVars
  <2>3. QED  BY <1>5, <2>1, <2>2
<1>6. CASE /\ block.seq = sequence /\ block.intact
           /\ nak' = FALSE /\ ready' = Append(ready, sequence)
           /\ pending' = pending + 1 /\ sequence' = sequence + 1
           /\ device' = IF sequence + 1 = Blocks THEN "drain" ELSE "top"
           /\ UNCHANGED toClient
  BY <1>1, <1>2, <1>6, AcceptStep
<1>7. QED  BY <1>4, <1>5, <1>6, Zenon DEF ReadBlock

LEMMA FinishStep == IInv /\ Finish => IInv'
<1> SUFFICES ASSUME IInv, Finish PROVE IInv'  OBVIOUS
<1>1. UNCHANGED <<sequence, pending, lastAck, nak, buffer, clientVars,
                  toDevice, faults, writerVars>>
  BY DEF Finish
<1>2. CASE /\ SourceWritten
           /\ device' = "done" /\ video' = "new"
           /\ toClient' = toClient \o
                            [i \in 1 .. DoneCopies |-> Reply("DONE", 0)]
  <2>1. Len(written) = Blocks
    BY <1>2, Sizes DEF SourceWritten
  <2>2. Promise \subseteq Promise'
    BY <1>1, <1>2, NothingPromised DEF writerVars
  <2>3. Reply("DONE", 0) \in Promise'
    <3>1. Reply("DONE", 0).kind = "DONE"  BY Messages
    <3>2. QED  BY <1>2, <3>1, Messages DEF Promise
  <2>4. [i \in 1 .. DoneCopies |-> Reply("DONE", 0)] \in Seq(Promise')
    <3>1. [i \in 1 .. DoneCopies |-> Reply("DONE", 0)]
            \in [1 .. DoneCopies -> Promise']
      BY <2>3
    <3>2. QED  BY <3>1, Sizes, SeqDef
  <2>5. ClientLine'
    <3>1. toClient \in Seq(Promise')
      BY <2>2, SeqMonotonic DEF IInv, ClientLine
    <3>2. QED  BY <1>2, <2>4, <3>1, ConcatProperties DEF ClientLine
  <2>6. QED  BY <1>1, <1>2, <2>1, <2>5, DeviceOnly
<1>3. CASE device' = "failed" /\ Say("ERR", 0) /\ UNCHANGED video
  BY <1>1, <1>3, FailStep
<1>4. QED  BY <1>2, <1>3 DEF Finish

LEMMA DeviceStep == IInv /\ Device => IInv'
<1> SUFFICES ASSUME IInv, Device PROVE IInv'  OBVIOUS
<1>1. CASE AcknowledgeWrite  BY <1>1, AcknowledgeWriteStep
<1>2. CASE AwaitBlock
  <2>1. /\ device = "top" /\ pending < Buffers /\ device' = "read"
        /\ UNCHANGED <<sequence, pending, lastAck, nak, buffer, video,
                       clientVars, toDevice, toClient, faults, writerVars>>
    BY <1>2 DEF AwaitBlock, lineVars
  <2>2. ClientLine'
    BY <2>1, NothingPromised, ClientLineKept DEF IInv, writerVars
  <2>3. QED  BY <2>1, <2>2, DeviceOnly DEF IInv, ReceiverInv
<1>3. CASE ReadBlock  BY <1>3, ReadBlockStep
<1>4. CASE ReadTimeout  BY <1>4, FailStep DEF ReadTimeout
<1>5. CASE Drained
  <2>1. CASE broken \/ Len(written) # sequence
    BY <1>5, <2>1, FailStep DEF Drained
  <2>2. CASE ~(broken \/ Len(written) # sequence)
    <3>1. /\ device' = "finish" /\ UNCHANGED toClient
          /\ UNCHANGED <<sequence, pending, lastAck, nak, buffer, video,
                         clientVars, toDevice, faults, writerVars>>
      BY <1>5, <2>2 DEF Drained
    <3>2. ClientLine'
      BY <3>1, NothingPromised, ClientLineKept DEF IInv, writerVars
    <3>3. QED  BY <3>1, <3>2, DeviceOnly DEF IInv, ReceiverInv
  <2>3. QED  BY <2>1, <2>2
<1>6. CASE Finish  BY <1>6, FinishStep
<1>7. QED  BY <1>1, <1>2, <1>3, <1>4, <1>5, <1>6 DEF Device

-----------------------------------------------------------------------------
(* The writer and the line.                                                *)

\* What WriteBlock does to the two queues.
LEMMA QueueShift ==
  ASSUME IInv, ready # <<>>, ready' = Tail(ready),
         completed' = Append(completed, Head(ready)),
         UNCHANGED <<sequence, buffer>>
  PROVE  /\ ready' \in Seq(Nat) /\ completed' \in Seq(Nat)
         /\ Len(ready) \in Nat /\ Len(ready) > 0 /\ Len(ready') = Len(ready) - 1
         /\ Len(completed) \in Nat /\ Len(completed') = Len(completed) + 1
         /\ ready[1] = sequence - Len(ready)
         /\ buffer[Slot(Head(ready))] = Block(sequence - Len(ready), TRUE)
         /\ \A i \in 1 .. Len(completed') :
              completed'[i] = IF i = Len(completed') THEN sequence - Len(ready)
                              ELSE completed[i]
         /\ \A i \in 1 .. Len(ready') :
              /\ ready'[i] = sequence - Len(ready') + i - 1
              /\ buffer[Slot(ready'[i])] = Block(ready'[i], TRUE)
<1>1. ready \in Seq(Nat) /\ completed \in Seq(Nat) /\ sequence \in Nat
  BY Sizes DEF IInv, QueueInv, ReceiverInv
<1>2. /\ Head(ready) \in Nat /\ Tail(ready) \in Seq(Nat)
      /\ Len(Tail(ready)) = Len(ready) - 1
      /\ \A i \in 1 .. Len(Tail(ready)) : Tail(ready)[i] = ready[i + 1]
      /\ Len(ready) \in Nat /\ Len(ready) > 0 /\ Head(ready) = ready[1]
  BY <1>1, HeadTailProperties, EmptySeq
<1>3. /\ completed' \in Seq(Nat) /\ Len(completed') = Len(completed) + 1
      /\ \A i \in 1 .. Len(completed) : completed'[i] = completed[i]
      /\ completed'[Len(completed) + 1] = Head(ready)
      /\ Len(completed) \in Nat
  BY <1>1, <1>2, AppendProperties, LenProperties
<1>4. \A i \in 1 .. Len(ready) :
        /\ ready[i] = sequence - Len(ready) + i - 1
        /\ buffer[Slot(ready[i])] = Block(ready[i], TRUE)
  BY DEF IInv, QueueInv
<1>5. ready[1] = sequence - Len(ready)
  <2>1. 1 \in 1 .. Len(ready)  BY <1>2
  <2>2. ready[1] = sequence - Len(ready) + 1 - 1  BY <1>4, <2>1
  <2>3. QED  BY <1>1, <1>2, <2>2
<1>6. buffer[Slot(Head(ready))] = Block(sequence - Len(ready), TRUE)
  <2>1. 1 \in 1 .. Len(ready)  BY <1>2
  <2>2. QED  BY <1>2, <1>4, <1>5, <2>1, Zenon
<1>7. ASSUME NEW i \in 1 .. Len(completed')
      PROVE  completed'[i] = IF i = Len(completed') THEN sequence - Len(ready)
                             ELSE completed[i]
  <2>1. CASE i = Len(completed')
    BY <1>2, <1>3, <1>5, <2>1, Zenon
  <2>2. CASE i # Len(completed')
    <3>1. i \in 1 .. Len(completed)  BY <1>3, <2>2
    <3>2. QED  BY <1>3, <2>2, <3>1, Zenon
  <2>3. QED  BY <2>1, <2>2
<1>8. ASSUME NEW i \in 1 .. Len(ready')
      PROVE  /\ ready'[i] = sequence - Len(ready') + i - 1
             /\ buffer[Slot(ready'[i])] = Block(ready'[i], TRUE)
  <2>1. i + 1 \in 1 .. Len(ready) /\ i \in 1 .. Len(Tail(ready))  BY <1>2
  <2>2. ready'[i] = ready[i + 1]  BY <1>2, <2>1
  <2>3. /\ ready[i + 1] = sequence - Len(ready) + (i + 1) - 1
        /\ buffer[Slot(ready[i + 1])] = Block(ready[i + 1], TRUE)
    BY <1>4, <2>1, Zenon
  <2>4. sequence - Len(ready) + (i + 1) - 1 = sequence - Len(ready') + i - 1
    BY <1>1, <1>2, <2>1
  <2>5. QED  BY <2>2, <2>3, <2>4, Zenon
<1>9. QED  BY <1>2, <1>3, <1>5, <1>6, <1>7, <1>8

LEMMA WriteBlockStep == IInv /\ WriteBlock => IInv'
<1> SUFFICES ASSUME IInv, WriteBlock PROVE IInv'  OBVIOUS
<1>1. /\ ready # <<>> /\ ready' = Tail(ready)
      /\ completed' = Append(completed, Head(ready))
      /\ UNCHANGED <<sequence, buffer>>
      /\ UNCHANGED <<clientVars, lineVars, deviceVars>>
  BY DEF WriteBlock, deviceVars
<1>2. /\ ready' \in Seq(Nat) /\ completed' \in Seq(Nat)
      /\ Len(ready) \in Nat /\ Len(ready) > 0 /\ Len(ready') = Len(ready) - 1
      /\ Len(completed) \in Nat /\ Len(completed') = Len(completed) + 1
      /\ buffer[Slot(Head(ready))] = Block(sequence - Len(ready), TRUE)
      /\ \A i \in 1 .. Len(completed') :
           completed'[i] = IF i = Len(completed') THEN sequence - Len(ready)
                           ELSE completed[i]
      /\ \A i \in 1 .. Len(ready') :
           /\ ready'[i] = sequence - Len(ready') + i - 1
           /\ buffer[Slot(ready'[i])] = Block(ready'[i], TRUE)
  BY <1>1, QueueShift
<1>3. /\ Len(written) \in Nat /\ sequence \in Nat /\ sequence <= Blocks
      /\ Len(written) + Len(ready) <= sequence
      /\ video # "new"
  BY <1>2, Lengths, Sizes DEF IInv, ReceiverInv, QueueInv
<1>4. DeviceLine' /\ faults' \in 0 .. MaxFaults
  BY <1>1 DEF lineVars, IInv, DeviceLine
<1>5. ClientInv'  BY <1>1, ClientFrame DEF IInv
<1>6. ASSUME Len(written') \in Nat, Len(written) <= Len(written')
      PROVE  /\ ReceiverInv' /\ ClientLine' /\ acked' <= Len(written')
  <2>1. ReceiverInv'
    <3>1. lastAck < Len(written')
      BY <1>3, <1>6 DEF IInv, ReceiverInv
    <3>2. pending = Len(ready') + Len(completed')
      BY <1>2 DEF IInv, ReceiverInv
    <3>3. QED  BY <1>1, <1>3, <3>1, <3>2 DEF deviceVars, IInv, ReceiverInv
  <2>2. Promise \subseteq Promise'
    BY <1>3, <1>6, PromiseGrows
  <2>3. ClientLine'  BY <1>1, <2>2, ClientLineKept DEF IInv, lineVars
  <2>4. acked' <= Len(written')
    BY <1>1, <1>3, <1>6 DEF IInv, ClientInv, clientVars
  <2>5. QED  BY <2>1, <2>3, <2>4
<1>7. CASE /\ ~broken /\ written' = Append(written, buffer[Slot(Head(ready))])
           /\ UNCHANGED broken
  <2>1. Len(written) = sequence - Len(ready)
    BY <1>2, <1>3, <1>7 DEF IInv, QueueInv
  <2> DEFINE new == Block(Len(written), TRUE)
  <2>2. written' = Append(written, new)  BY <1>2, <1>7, <2>1, Zenon
  <2>3. new \in [seq : Nat, intact : BOOLEAN]  BY <1>3 DEF Block
  <2> HIDE DEF new
  <2>4. /\ written' \in Seq([seq : Nat, intact : BOOLEAN])
        /\ Len(written') = Len(written) + 1
        /\ \A i \in 1 .. Len(written) : written'[i] = written[i]
        /\ written'[Len(written) + 1] = new
    BY <2>2, <2>3, AppendProperties DEF IInv, QueueInv
  <2>5. StoredInOrder'
    <3>1. ASSUME NEW i \in 1 .. Len(written')
          PROVE  written'[i] = Block(i - 1, TRUE)
      <4>1. CASE i = Len(written) + 1
        <5>1. i - 1 = Len(written)  BY <1>3, <4>1
        <5>2. QED  BY <2>4, <4>1, <5>1, Zenon DEF new
      <4>2. CASE i # Len(written) + 1
        <5>1. i \in 1 .. Len(written)  BY <1>3, <2>4, <4>2
        <5>2. QED  BY <2>4, <5>1, Zenon DEF IInv, StoredInOrder
      <4>3. QED  BY <4>1, <4>2
    <3>2. QED  BY <3>1 DEF StoredInOrder, Block
  <2>6. QueueInv'
    <3>1. Len(written') + Len(ready') = sequence
      BY <1>2, <1>3, <2>1, <2>4
    <3>2. \A i \in 1 .. Len(completed') : completed'[i] < Len(written')
      <4>1. ASSUME NEW i \in 1 .. Len(completed')
            PROVE  completed'[i] < Len(written')
        <5>1. CASE i = Len(completed')
          <6>1. completed'[i] = Len(written)  BY <1>2, <2>1, <5>1
          <6>2. QED  BY <1>3, <2>4, <6>1
        <5>2. CASE i # Len(completed')
          <6>1. i \in 1 .. Len(completed)  BY <1>2, <5>2
          <6>2. completed'[i] = completed[i]  BY <1>2, <5>2
          <6>3. completed[i] < Len(written) /\ completed[i] \in Nat
            BY <1>7, <6>1, ElementOfSeq DEF IInv, QueueInv
          <6>4. QED  BY <1>3, <2>4, <6>2, <6>3
        <5>3. QED  BY <5>1, <5>2
      <4>2. QED  BY <4>1
    <3>3. broken' \in BOOLEAN /\ sequence' = sequence /\ buffer' = buffer
      BY <1>1, <1>7 DEF IInv, QueueInv
    <3>4. sequence \in Nat  BY <1>3
    <3>5. QED
      BY <1>2, <2>4, <3>1, <3>2, <3>3, <3>4 DEF QueueInv, Slot, Block
  <2>7. Len(written') \in Nat /\ Len(written) <= Len(written')
    BY <1>3, <2>4
  <2>8. QED  BY <1>4, <1>5, <1>6, <2>5, <2>6, <2>7 DEF IInv
<1>8. CASE broken' = TRUE /\ UNCHANGED written
  <2>1. QueueInv'
    <3>1. Len(written') + Len(ready') <= sequence  BY <1>2, <1>3, <1>8
    <3>2. /\ sequence' = sequence /\ buffer' = buffer
          /\ written' \in Seq([seq : Nat, intact : BOOLEAN])
      BY <1>1, <1>8 DEF IInv, QueueInv
    <3>3. QED  BY <1>2, <1>8, <3>1, <3>2 DEF QueueInv, Slot, Block
  <2>2. StoredInOrder'  BY <1>8 DEF IInv, StoredInOrder, Block
  <2>3. Len(written') \in Nat /\ Len(written) <= Len(written')
    BY <1>3, <1>8
  <2>4. QED  BY <1>4, <1>5, <1>6, <2>1, <2>2, <2>3 DEF IInv
<1>9. QED  BY <1>7, <1>8 DEF WriteBlock

\* A step of the line alone.
LEMMA LineOnly ==
  ASSUME IInv, UNCHANGED <<clientVars, deviceVars, writerVars>>,
         faults' \in 0 .. MaxFaults, DeviceLine', ClientLine'
  PROVE  IInv'
<1>1. ReceiverInv' /\ QueueInv' /\ StoredInOrder'  BY DeviceFrame
<1>2. QED  BY <1>1, NothingWritten DEF writerVars

LEMMA DiscardBlockStep == IInv /\ DiscardBlock => IInv'
<1> SUFFICES ASSUME IInv, DiscardBlock PROVE IInv'  OBVIOUS
<1>1. /\ toDevice # <<>> /\ toDevice' = Tail(toDevice)
      /\ UNCHANGED <<clientVars, toClient, faults, deviceVars, writerVars>>
  BY DEF DiscardBlock
<1>2. DeviceLine'  BY <1>1, LineTail DEF IInv, DeviceLine
<1>3. ClientLine'
  <2>1. Promise' = Promise  BY <1>1, DeviceFrame
  <2>2. QED  BY <1>1, <2>1 DEF IInv, ClientLine
<1>4. QED  BY <1>1, <1>2, <1>3, LineOnly DEF IInv

LEMMA LineFaultStep == IInv /\ LineFault => IInv'
<1> SUFFICES ASSUME IInv, LineFault PROVE IInv'  OBVIOUS
<1>1. /\ faults' \in 0 .. MaxFaults
      /\ UNCHANGED <<clientVars, sequence, pending, lastAck, nak, buffer, video,
                     writerVars>>
  BY Sizes DEF LineFault, IInv
<1>2. UNCHANGED device => UNCHANGED deviceVars /\ Promise' = Promise
  BY <1>1 DEF deviceVars, writerVars, Promise
<1>3. CASE /\ toDevice # <<>> /\ toDevice' = Tail(toDevice)
           /\ UNCHANGED <<toClient, device>>
  <2>1. DeviceLine'  BY <1>3, LineTail DEF IInv, DeviceLine
  <2>2. ClientLine'  BY <1>2, <1>3 DEF IInv, ClientLine
  <2>3. QED  BY <1>1, <1>2, <1>3, <2>1, <2>2, LineOnly
<1>4. CASE /\ toDevice # <<>>
           /\ toDevice' = <<Block(Head(toDevice).seq, FALSE)>> \o Tail(toDevice)
           /\ UNCHANGED <<toClient, device>>
  <2> DEFINE bad == Block(Head(toDevice).seq, FALSE)
  <2>1. Whole(bad)  BY Messages
  <2> HIDE DEF bad
  <2>2. PICK S : Tail(toDevice) \in Seq(S) /\ \A b \in S : Whole(b)
    BY <1>4, LineTail DEF IInv
  <2>3. Tail(toDevice) \in Seq(S \cup {bad})  BY <2>2, SeqMonotonic
  <2>4. <<bad>> \in Seq(S \cup {bad})  OBVIOUS
  <2>5. toDevice' \in Seq(S \cup {bad})
    BY <1>4, <2>3, <2>4, ConcatProperties DEF bad
  <2>6. DeviceLine'  BY <2>1, <2>2, <2>5, Zenon DEF DeviceLine
  <2>7. ClientLine'  BY <1>2, <1>4 DEF IInv, ClientLine
  <2>8. QED  BY <1>1, <1>2, <1>4, <2>6, <2>7, LineOnly
<1>5. CASE /\ toDevice # <<>> /\ toDevice' = Tail(toDevice)
           /\ device' = "failed" /\ Say("ERR", 0)
  <2>1. DeviceLine'  BY <1>5, LineTail DEF IInv, DeviceLine
  <2>2. ClientLine'
    BY <1>1, <1>5, NothingPromised, ClientLineSays DEF IInv, writerVars
  <2>3. ReceiverInv'  BY <1>1, <1>5 DEF IInv, ReceiverInv, writerVars
  <2>4. QueueInv'  BY <1>1 DEF IInv, QueueInv, Slot, Block, writerVars
  <2>5. QED  BY <1>1, <2>1, <2>2, <2>3, <2>4, NothingWritten DEF writerVars
<1>6. CASE /\ toClient # <<>> /\ toClient' = Tail(toClient)
           /\ UNCHANGED <<toDevice, device>>
  <2>1. DeviceLine'  BY <1>6 DEF IInv, DeviceLine
  <2>2. ClientLine'  BY <1>2, <1>6, ClientLineTail DEF IInv, ClientLine
  <2>3. QED  BY <1>1, <1>2, <1>6, <2>1, <2>2, LineOnly
<1>7. QED  BY <1>3, <1>4, <1>5, <1>6 DEF LineFault

-----------------------------------------------------------------------------
(* Invariance.                                                             *)

LEMMA IInvInit == Init => IInv
<1> SUFFICES ASSUME Init PROVE IInv  OBVIOUS
<1> USE Sizes DEF Init
<1>1. DeviceLine
  <2> DEFINE none == {}
  <2>1. toDevice \in Seq(none)  BY EmptySeq
  <2>2. \A b \in none : Whole(b)  OBVIOUS
  <2> HIDE DEF none
  <2>3. QED  BY <2>1, <2>2, Zenon DEF DeviceLine
<1>2. ClientLine  BY EmptySeq DEF ClientLine
<1>3. ClientInv
  <2>1. DOMAIN flight = acked .. next - 1  OBVIOUS
  <2>2. \A s \in DOMAIN flight : FALSE  OBVIOUS
  <2>3. QED  BY <2>1, <2>2 DEF ClientInv
<1>4. Len(written) = 0 /\ Len(ready) = 0 /\ Len(completed) = 0  BY EmptySeq
<1>5. ReceiverInv  BY <1>4 DEF ReceiverInv
<1>6. QueueInv
  <2>1. /\ ready \in Seq(Nat) /\ completed \in Seq(Nat)
        /\ written \in Seq([seq : Nat, intact : BOOLEAN])
    BY EmptySeq
  <2>2. 1 .. Len(ready) = {} /\ 1 .. Len(completed) = {}  BY <1>4
  <2>3. Len(written) + Len(ready) = sequence /\ sequence \in Nat  BY <1>4
  <2>4. broken \in BOOLEAN  OBVIOUS
  <2>5. QED  BY <2>1, <2>2, <2>3, <2>4 DEF QueueInv
<1>7. StoredInOrder  BY <1>4 DEF StoredInOrder
<1>8. QED  BY <1>1, <1>2, <1>3, <1>4, <1>5, <1>6, <1>7 DEF IInv

LEMMA IInvStep == IInv /\ [Next]_vars => IInv'
<1> SUFFICES ASSUME IInv, [Next]_vars PROVE IInv'  OBVIOUS
<1>1. CASE Client  BY <1>1, ClientStep
<1>2. CASE Device  BY <1>2, DeviceStep
<1>3. CASE WriteBlock  BY <1>3, WriteBlockStep
<1>4. CASE Heartbeat  BY <1>4, HeartbeatStep
<1>5. CASE DiscardBlock  BY <1>5, DiscardBlockStep
<1>6. CASE LineFault  BY <1>6, LineFaultStep
<1>7. CASE UNCHANGED vars
  <2>1. UNCHANGED <<clientVars, toDevice, toClient, faults, deviceVars,
                    writerVars>>
    BY <1>7 DEF vars, lineVars
  <2>2. DeviceLine'  BY <2>1 DEF IInv, DeviceLine
  <2>3. ClientLine'
    <3>1. Promise' = Promise  BY <2>1, DeviceFrame
    <3>2. QED  BY <2>1, <3>1 DEF IInv, ClientLine
  <2>4. QED  BY <2>1, <2>2, <2>3, LineOnly DEF IInv
<1>8. QED  BY <1>1, <1>2, <1>3, <1>4, <1>5, <1>6, <1>7 DEF Next

\* Window, buffers, queues and file belong together in every reachable state.
THEOREM Inductive == Spec => []IInv
<1>1. Init => IInv  BY IInvInit
<1>2. IInv /\ [Next]_vars => IInv'  BY IInvStep
<1>3. QED  BY <1>1, <1>2, PTL DEF Spec

\* The variables keep their types: neither the client's window nor the two
\* queues of the device ever hold more blocks than there are buffers.
THEOREM TypeCorrect == Spec => []TypeOK
<1>1. IInv => TypeOK
  <2> SUFFICES ASSUME IInv PROVE TypeOK  OBVIOUS
  <2>1. /\ Len(ready) \in Nat /\ Len(completed) \in Nat /\ Len(written) \in Nat
        /\ pending = Len(ready) + Len(completed) /\ pending <= Buffers
    BY Lengths DEF IInv, ReceiverInv
  <2>2. /\ next \in 0 .. Blocks /\ acked \in 0 .. next
        /\ DOMAIN flight = acked .. next - 1 /\ next - acked <= Buffers
    BY DEF IInv, ClientInv
  <2>3. Cardinality(DOMAIN flight) <= Buffers
    <3>1. Cardinality(acked .. next - 1)
            = IF acked > next - 1 THEN 0 ELSE (next - 1) - acked + 1
      BY <2>2, Sizes, FS_Interval
    <3>2. QED  BY <2>2, <3>1, Sizes
  <2>4. acked \in 0 .. Blocks /\ DOMAIN flight \subseteq Sequences_
    BY <2>2, Sizes DEF Sequences_
  <2>5. pending \in 0 .. Buffers /\ Len(ready) + Len(completed) <= Buffers
    BY <2>1, Sizes
  <2>6. QED
    BY <2>2, <2>3, <2>4, <2>5
    DEF IInv, ClientInv, ReceiverInv, QueueInv, TypeOK
<1>2. QED  BY <1>1, Inductive, PTL

\* The .part file holds the blocks of the source in order, each once and
\* undamaged (upload_writer_task writes what uart_file_upload_receive has read
\* into the block buffers).
THEOREM PartInOrder == Spec => []StoredInOrder
<1>1. IInv => StoredInOrder  BY DEF IInv
<1>2. QED  BY <1>1, Inductive, PTL

\* An acknowledgement, on the line or at the client, covers only blocks whose
\* SD write is complete (acknowledge_write).
THEOREM AcknowledgedStored == Spec => []AckMeansStored
<1>1. IInv => AckMeansStored
  <2> SUFFICES ASSUME IInv, NEW i \in 1 .. Len(toClient),
                      toClient[i].kind = "ACK"
               PROVE  toClient[i].seq < Len(written)
    BY DEF IInv, AckMeansStored
  <2>1. toClient[i] \in Promise  BY ElementOfSeq DEF IInv, ClientLine
  <2>2. QED  BY <2>1 DEF Promise
<1>2. QED  BY <1>1, Inductive, PTL

-----------------------------------------------------------------------------
(* The protocol implements UploadDelivery.                                 *)

Status == IF client \in {"done", "failed"} THEN client ELSE "busy"

\* A step that stores nothing, acknowledges nothing and replaces nothing: at
\* most the client gives up.
LEMMA QuietStep ==
  ASSUME client = client' \/ (client \in {"sending", "completing"}
                                /\ client' \in {"completing", "failed"}),
         Len(written)' = Len(written), UNCHANGED <<acked, video>>
  PROVE  [Delivery!DNext]_(Delivery!dVars)
<1>1. Status' = Status \/ (Status = "busy" /\ Status' = "failed")
  BY DEF Status
<1>2. CASE Status' = Status
  BY <1>2 DEF Delivery!dVars, Status
<1>3. CASE Status = "busy" /\ Status' = "failed"
  <2>1. Delivery!GiveUp  BY <1>3 DEF Delivery!GiveUp, Status
  <2>2. QED  BY <2>1 DEF Delivery!DNext
<1>4. QED  BY <1>1, <1>2, <1>3

LEMMA ClientDelivers ==
  ASSUME IInv, Client PROVE [Delivery!DNext]_(Delivery!dVars)
<1>1. UNCHANGED <<deviceVars, writerVars>>
  BY DEF Client, SendBlock, HandleResponse, AckTimeout, ClientGivesUp,
         AllAcknowledged, HandleCompletion
<1>2. Len(written)' = Len(written) /\ video' = video
  BY <1>1 DEF deviceVars, writerVars
<1>3. CASE SendBlock  BY <1>2, <1>3, QuietStep DEF SendBlock
<1>4. CASE HandleResponse
  <2> DEFINE response == Head(toClient)
  <2>1. client = "sending" /\ toClient # <<>>
    BY <1>4 DEF HandleResponse, Awaiting
  <2>2. /\ response.kind \in {"ACK", "NAK", "ERR", "WAIT", "DONE"}
        /\ response.seq \in Int
        /\ response.kind = "ACK" => response.seq < Len(written)
    BY <2>1, ClientLineTail DEF IInv, Promise
  <2> HIDE DEF response
  <2>3. CASE response.kind = "ACK"
    <3>1. Acknowledged(response.seq)
      BY <1>4, <2>3 DEF HandleResponse, response
    <3>2. CASE response.seq \in DOMAIN flight
      <4>1. acked' = response.seq + 1 /\ UNCHANGED client
        BY <3>1, <3>2 DEF Acknowledged
      <4>2. response.seq \in acked .. next - 1 /\ acked \in Nat
            /\ Len(written) \in Nat
        BY <3>2, Lengths, Sizes DEF IInv, ClientInv
      <4>3. acked' \in acked + 1 .. Len(written)
        BY <2>2, <2>3, <4>1, <4>2
      <4>4. Delivery!Acknowledge
        BY <1>2, <2>1, <4>1, <4>3 DEF Delivery!Acknowledge
      <4>5. QED  BY <4>4 DEF Delivery!DNext
    <3>3. CASE response.seq \notin DOMAIN flight
      <4>1. client' \in {client, "failed"} /\ UNCHANGED acked
        BY <3>1, <3>3 DEF Acknowledged
      <4>2. QED  BY <1>2, <2>1, <4>1, QuietStep
    <3>4. QED  BY <3>2, <3>3
  <2>4. CASE response.kind # "ACK"
    <3>1. client' \in {client, "failed"} /\ UNCHANGED acked
      BY <1>4, <2>2, <2>4 DEF HandleResponse, RetransmitFrom, response
    <3>2. QED  BY <1>2, <2>1, <3>1, QuietStep
  <2>5. QED  BY <2>3, <2>4
<1>5. CASE AckTimeout
  <2>1. client = "sending" /\ client' \in {client, "failed"} /\ UNCHANGED acked
    BY <1>5 DEF AckTimeout, Awaiting, RetransmitFrom
  <2>2. QED  BY <1>2, <2>1, QuietStep
<1>6. CASE ClientGivesUp
  BY <1>2, <1>6, QuietStep DEF ClientGivesUp, Awaiting
<1>7. CASE AllAcknowledged
  BY <1>2, <1>7, QuietStep DEF AllAcknowledged
<1>8. CASE HandleCompletion
  <2> DEFINE response == Head(toClient)
  <2>1. /\ client = "completing" /\ acked = Blocks /\ UNCHANGED acked
        /\ toClient # <<>>
    BY <1>8 DEF HandleCompletion, IInv, ClientInv
  <2>2. response.kind = "DONE" => video = "new"
    BY <2>1, ClientLineTail DEF IInv, Promise
  <2> HIDE DEF response
  <2>3. CASE response.kind = "DONE"
    <3>1. client' = "done"  BY <1>8, <2>3 DEF HandleCompletion, response
    <3>2. Delivery!Succeed
      BY <1>2, <2>1, <2>2, <2>3, <3>1 DEF Delivery!Succeed
    <3>3. QED  BY <3>2 DEF Delivery!DNext
  <2>4. CASE response.kind # "DONE"
    <3>1. client' \in {client, "failed"}
      BY <1>8, <2>4 DEF HandleCompletion, response
    <3>2. QED  BY <1>2, <2>1, <3>1, QuietStep
  <2>5. QED  BY <2>3, <2>4
<1>9. QED  BY <1>3, <1>4, <1>5, <1>6, <1>7, <1>8 DEF Client

LEMMA DeviceDelivers ==
  ASSUME IInv, Device PROVE [Delivery!DNext]_(Delivery!dVars)
<1>1. UNCHANGED <<client, acked>> /\ Len(written)' = Len(written)
  BY DEF Device, AcknowledgeWrite, AwaitBlock, ReadBlock, ReadTimeout, Drained,
         Finish, clientVars, writerVars
<1>2. CASE UNCHANGED video  BY <1>1, <1>2, QuietStep
<1>3. CASE video' # video
  <2>1. SourceWritten /\ video' = "new"
    BY <1>3 DEF Device, AcknowledgeWrite, AwaitBlock, ReadBlock, ReadTimeout,
                Drained, Finish
  <2>2. Len(written) = Blocks  BY <2>1, Sizes DEF SourceWritten
  <2>3. Delivery!Replace  BY <1>1, <2>1, <2>2 DEF Delivery!Replace
  <2>4. QED  BY <2>3 DEF Delivery!DNext
<1>4. QED  BY <1>2, <1>3

LEMMA WriterDelivers ==
  ASSUME IInv, WriteBlock PROVE [Delivery!DNext]_(Delivery!dVars)
<1>1. UNCHANGED <<client, acked, video>>
  BY DEF WriteBlock, clientVars, deviceVars
<1>2. CASE UNCHANGED written  BY <1>1, <1>2, QuietStep
<1>3. CASE written' = Append(written, buffer[Slot(Head(ready))])
  <2>1. IInv'  BY WriteBlockStep
  <2>2. /\ Len(written)' = Len(written) + 1 /\ Len(written) \in Nat
        /\ Len(written) < Blocks /\ video = "old"
    <3>1. Len(written) \in Nat /\ Len(written)' \in Nat
      BY <2>1, LenProperties DEF IInv, QueueInv
    <3>2. Len(written)' = Len(written) + 1
      <4>1. DOMAIN written = 1 .. Len(written)
        BY LenProperties DEF IInv, QueueInv
      <4>2. QED  BY <1>3, <3>1, <4>1
    <3>3. Len(written)' <= Blocks
      <4>1. /\ Len(written') + Len(ready') <= sequence' /\ Len(ready') \in Nat
            /\ sequence' \in 0 .. Blocks
        BY <2>1, LenProperties DEF IInv, QueueInv, ReceiverInv
      <4>2. QED  BY <3>1, <4>1, Sizes
    <3>4. QED  BY <3>1, <3>2, <3>3, Sizes DEF IInv, ReceiverInv
  <2>3. Delivery!Store  BY <1>1, <2>2 DEF Delivery!Store
  <2>4. QED  BY <2>3 DEF Delivery!DNext
<1>4. QED  BY <1>2, <1>3 DEF WriteBlock

\* What the lossy protocol does, seen from outside, is what UploadDelivery
\* allows: blocks are stored once and in order, the video is replaced only by a
\* complete one, and the client reports success only after that.
THEOREM ProtocolDelivers == Spec => Delivers
<1>1. Init => Delivery!DInit
  BY EmptySeq DEF Init, Delivery!DInit
<1>2. IInv /\ [Next]_vars => [Delivery!DNext]_(Delivery!dVars)
  <2> SUFFICES ASSUME IInv, [Next]_vars PROVE [Delivery!DNext]_(Delivery!dVars)
    OBVIOUS
  <2>1. CASE Client  BY <2>1, ClientDelivers
  <2>2. CASE Device  BY <2>2, DeviceDelivers
  <2>3. CASE WriteBlock  BY <2>3, WriterDelivers
  <2>4. CASE Heartbeat \/ DiscardBlock \/ LineFault \/ UNCHANGED vars
    <3>1. UNCHANGED <<client, acked, video, written>>
      BY <2>4 DEF Heartbeat, DiscardBlock, LineFault, vars, clientVars,
                  deviceVars, writerVars
    <3>2. QED  BY <3>1, QuietStep
  <2>5. QED  BY <2>1, <2>2, <2>3, <2>4 DEF Next
<1>3. QED
  BY <1>1, <1>2, Inductive, PTL DEF Spec, Delivers, Delivery!DSpec

-----------------------------------------------------------------------------
(* Every response can be acted on.                                         *)

\* Blocks on the line have been sent.  The device asks for a block that has
\* been sent, or else the client still has room to send it before it listens
\* again: that happens when a block is lost before the first acknowledgement.
DeviceSeqs == {b \in [seq : Int, intact : BOOLEAN] : b.seq < next}
SentInv == toDevice \in Seq(DeviceSeqs)
Askable ==
  {r \in [kind : {"ACK", "NAK", "ERR", "WAIT", "DONE"}, seq : Int] :
     r.kind = "NAK" =>
       r.seq < next \/ (r.seq = next /\ next < Blocks /\ next - acked < Buffers)}
AnswerInv == toClient \in Seq(Askable)
AheadInv ==
  /\ sequence <= next
  /\ lastAck = -1 /\ device # "failed" => pending = sequence
FlightInv == flight = [f \in DOMAIN flight |-> flight[f]]
UnderstoodInv == SentInv /\ AnswerInv /\ AheadInv /\ FlightInv

\* A set of natural numbers has a least element.
LEMMA Least ==
  ASSUME NEW T \in SUBSET Nat, T # {}
  PROVE  \E x \in T : \A y \in T : x <= y
<1> DEFINE R == {ss \in Nat \X Nat : ss[1] < ss[2]}
<1>1. IsWellFoundedOn(R, Nat)  BY NatLessThanWellFounded DEF OpToRel
<1>2. PICK x \in T : \A y \in T : ~ (<<y, x>> \in R)
  <2> HIDE DEF R
  <2> QED  BY <1>1, WFMin
<1>3. ASSUME NEW y \in T PROVE x <= y
  <2>1. y \in Nat /\ x \in Nat  OBVIOUS
  <2>2. ~ (<<y, x>> \in R)  BY <1>2
  <2>3. <<y, x>> \in Nat \X Nat /\ <<y, x>>[1] = y /\ <<y, x>>[2] = x
    BY <2>1
  <2>4. ~ (y < x)  BY <2>2, <2>3
  <2>5. QED  BY <2>1, <2>4
<1>4. QED  BY <1>3

\* Ascending enumerates an interval.
LEMMA AscendingInterval ==
  ASSUME NEW lo \in Int, NEW hi \in Int
  PROVE  Ascending(lo .. hi) \in [1 .. Cardinality(lo .. hi) -> lo .. hi]
<1> DEFINE S == lo .. hi
           n == Cardinality(S)
           q == [i \in 1 .. n |-> lo + i - 1]
<1>1. n = IF lo > hi THEN 0 ELSE hi - lo + 1  BY FS_Interval
<1>2. n \in Nat  BY <1>1
<1>3. q \in [1 .. n -> S]
  <2>1. ASSUME NEW i \in 1 .. n PROVE lo + i - 1 \in S  BY <1>1
  <2> HIDE DEF n, S
  <2>2. QED  BY <2>1
<1>4. \A i, j \in 1 .. n : i < j => q[i] < q[j]
  <2> HIDE DEF n
  <2> QED  BY <1>2
<1> HIDE DEF q
<1>5. QED  BY <1>3, <1>4 DEF Ascending

\* What retransmit_from sends: the blocks in flight from s on, up to the first
\* that was sent too often.  That is an interval.
Again(s) == {f \in DOMAIN flight : f >= s}
Resent(s) ==
  {f \in Again(s) : \A g \in Again(s) : g <= f => flight[g] < MaxAttempts}

LEMMA ResentInterval ==
  ASSUME IInv, NEW s, s \in Int \/ DOMAIN flight = {}
  PROVE  \E a, b \in Int : Resent(s) = a .. b
<1> DEFINE worn == {f \in Again(s) : ~ (flight[f] < MaxAttempts)}
<1>1. DOMAIN flight = acked .. next - 1 /\ acked \in Nat /\ next \in Nat
  BY Sizes DEF IInv, ClientInv
<1>2. \E a \in Int : Again(s) = a .. next - 1
  <2>1. CASE DOMAIN flight = {}
    <3>1. Again(s) = next .. next - 1  BY <1>1, <2>1 DEF Again
    <3>2. QED  BY <1>1, <3>1
  <2>2. CASE s \in Int /\ s > acked
    <3>1. Again(s) = s .. next - 1  BY <1>1, <2>2 DEF Again
    <3>2. QED  BY <2>2, <3>1
  <2>3. CASE s \in Int /\ ~ (s > acked)
    <3>1. Again(s) = acked .. next - 1  BY <1>1, <2>3 DEF Again
    <3>2. QED  BY <1>1, <3>1
  <2>4. QED  BY <2>1, <2>2, <2>3
<1>3. PICK a \in Int : Again(s) = a .. next - 1  BY <1>2
<1>4. Again(s) \subseteq Nat  BY <1>1 DEF Again
<1>5. CASE worn = {}
  <2>1. Resent(s) = Again(s)  BY <1>5 DEF Resent
  <2>2. next - 1 \in Int  BY <1>1
  <2>3. QED  BY <1>3, <2>1, <2>2
<1>6. CASE worn # {}
  <2>1. PICK m \in worn : \A y \in worn : m <= y  BY <1>4, <1>6, Least
  <2>2. m \in Again(s) /\ m \in Int /\ m - 1 \in Int  BY <1>4
  <2>3. ASSUME NEW f \in Resent(s) PROVE f \in a .. m - 1
    <3>1. f \in a .. next - 1  BY <1>3 DEF Resent
    <3>2. ~ (m <= f)  BY <2>1, <2>2 DEF Resent
    <3>3. QED  BY <1>1, <2>2, <3>1, <3>2
  <2>4. ASSUME NEW f \in a .. m - 1 PROVE f \in Resent(s)
    <3>1. f \in Again(s)  BY <1>1, <1>3, <2>2
    <3>2. ASSUME NEW h \in Again(s), h <= f PROVE flight[h] < MaxAttempts
      <4>1. h \in Int /\ ~ (m <= h)  BY <1>3, <2>2, <3>2
      <4>2. QED  BY <2>1, <4>1
    <3>3. QED  BY <3>1, <3>2 DEF Resent
  <2>5. Resent(s) = a .. m - 1  BY <2>3, <2>4
  <2>6. QED  BY <2>2, <2>5
<1>7. QED  BY <1>5, <1>6

\* What is sent again was sent before.
LEMMA ResentSent ==
  ASSUME IInv, SentInv, NEW s, s \in Int \/ DOMAIN flight = {},
         RetransmitFrom(s), next' = next
  PROVE  SentInv'
<1> DEFINE n    == Cardinality(Resent(s))
           more == [i \in 1 .. n |-> Block(Ascending(Resent(s))[i], TRUE)]
<1>1. toDevice' = toDevice \o more  BY DEF RetransmitFrom, Resent, Again
<1>2. PICK a, b \in Int : Resent(s) = a .. b  BY ResentInterval
<1>3. Ascending(Resent(s)) \in [1 .. n -> Resent(s)]
  BY <1>2, AscendingInterval
<1>4. n \in Nat
  <2>1. Cardinality(a .. b) = IF a > b THEN 0 ELSE b - a + 1  BY FS_Interval
  <2>2. QED  BY <1>2, <2>1
<1>5. \A f \in Resent(s) : f \in Int /\ f < next
  <2>1. DOMAIN flight = acked .. next - 1 /\ acked \in Nat /\ next \in Nat
    BY Sizes DEF IInv, ClientInv
  <2>2. QED  BY <2>1 DEF Resent, Again
<1> HIDE DEF n
<1>6. more \in [1 .. n -> DeviceSeqs]
  <2>1. ASSUME NEW i \in 1 .. n
        PROVE  Block(Ascending(Resent(s))[i], TRUE) \in DeviceSeqs
    <3>1. Ascending(Resent(s))[i] \in Resent(s)  BY <1>3
    <3>2. QED  BY <1>5, <3>1 DEF Block, DeviceSeqs
  <2>2. QED  BY <2>1
<1> HIDE DEF more
<1>7. more \in Seq(DeviceSeqs)  BY <1>4, <1>6, SeqDef
<1>8. toDevice' \in Seq(DeviceSeqs)  BY <1>1, <1>7, ConcatProperties DEF SentInv
<1>9. DeviceSeqs' = DeviceSeqs  BY DEF DeviceSeqs
<1>10. QED  BY <1>8, <1>9 DEF SentInv

\* What could be asked can still be asked after a step of the client.
LEMMA AskableGrows ==
  ASSUME IInv, IInv', next' \in {next, next + 1}, acked <= acked'
  PROVE  Askable \subseteq Askable' /\ DeviceSeqs \subseteq DeviceSeqs'
<1>1. /\ next \in Nat /\ next' \in Nat /\ acked \in Nat /\ acked' \in Nat
      /\ Buffers \in Nat /\ Blocks \in Nat
  BY Sizes DEF IInv, ClientInv
<1>2. DeviceSeqs \subseteq DeviceSeqs'  BY <1>1 DEF DeviceSeqs
<1>3. ASSUME NEW r \in Askable PROVE r \in Askable'
  <2>1. r.seq \in Int  BY DEF Askable
  <2>2. CASE next' = next
    <3> DEFINE a == acked
               b == acked'
    <3>1. next - a < Buffers => next - b < Buffers
      <4>1. a \in Nat /\ b \in Nat /\ a <= b  BY <1>1
      <4> HIDE DEF a, b
      <4>2. QED  BY <1>1, <4>1
    <3>2. QED  BY <2>2, <3>1 DEF Askable
  <2>3. CASE next' = next + 1
    <3>1. r.kind = "NAK" => r.seq < next'  BY <1>1, <2>1, <2>3 DEF Askable
    <3>2. QED  BY <3>1 DEF Askable
  <2>4. QED  BY <2>2, <2>3
<1>4. QED  BY <1>2, <1>3

\* A message put on the line or taken from it.
LEMMA AnswerSaid ==
  ASSUME AnswerInv, Askable \subseteq Askable', NEW k, NEW r, Say(k, r),
         Reply(k, r) \in Askable'
  PROVE  AnswerInv'
<1>1. toClient \in Seq(Askable')  BY SeqMonotonic DEF AnswerInv
<1>2. QED  BY <1>1, AppendProperties DEF AnswerInv, Say

LEMMA LinesTaken ==
  ASSUME Askable \subseteq Askable', DeviceSeqs \subseteq DeviceSeqs'
  PROVE  /\ AnswerInv /\ UNCHANGED toClient => AnswerInv'
         /\ AnswerInv /\ toClient # <<>> /\ toClient' = Tail(toClient)
              => AnswerInv' /\ Head(toClient) \in Askable
         /\ SentInv /\ UNCHANGED toDevice => SentInv'
         /\ SentInv /\ toDevice # <<>> /\ toDevice' = Tail(toDevice)
              => SentInv' /\ Head(toDevice) \in DeviceSeqs
<1>1. Seq(Askable) \subseteq Seq(Askable')
      /\ Seq(DeviceSeqs) \subseteq Seq(DeviceSeqs')
  BY SeqMonotonic
<1>2. AnswerInv /\ toClient # <<>> =>
        Tail(toClient) \in Seq(Askable) /\ Head(toClient) \in Askable
  BY HeadTailProperties DEF AnswerInv
<1>3. SentInv /\ toDevice # <<>> =>
        Tail(toDevice) \in Seq(DeviceSeqs) /\ Head(toDevice) \in DeviceSeqs
  BY HeadTailProperties DEF SentInv
<1>4. QED  BY <1>1, <1>2, <1>3 DEF AnswerInv, SentInv

\* The client sends a block before the device can expect the one after it.
LEMMA ClientUnderstands ==
  ASSUME IInv, IInv', UnderstoodInv, Client PROVE UnderstoodInv'
<1>1. /\ next' \in {next, next + 1} /\ acked <= acked'
      /\ UNCHANGED <<deviceVars, writerVars>>
  <2>1. CASE SendBlock
    BY <2>1, Sizes DEF SendBlock, IInv, ClientInv
  <2>2. CASE HandleResponse
    <3>1. acked' = acked \/ (\E s \in DOMAIN flight : acked' = s + 1)
      BY <2>2 DEF HandleResponse, Acknowledged
    <3>2. DOMAIN flight = acked .. next - 1 /\ acked \in Nat /\ next \in Nat
      BY Sizes DEF IInv, ClientInv
    <3>3. acked <= acked'  BY <3>1, <3>2
    <3>4. QED  BY <2>2, <3>3 DEF HandleResponse
  <2>3. CASE AckTimeout \/ ClientGivesUp \/ AllAcknowledged \/ HandleCompletion
    <3>1. /\ next' = next /\ acked' = acked /\ acked \in Nat
          /\ UNCHANGED <<deviceVars, writerVars>>
      BY <2>3, Sizes DEF AckTimeout, ClientGivesUp, AllAcknowledged,
                         HandleCompletion, IInv, ClientInv
    <3>2. QED  BY <3>1
  <2>4. QED  BY <2>1, <2>2, <2>3 DEF Client
<1>2. Askable \subseteq Askable' /\ DeviceSeqs \subseteq DeviceSeqs'
  BY <1>1, AskableGrows
<1>3. AheadInv'
  <2>1. next \in Nat /\ next <= next' /\ sequence \in Nat
    BY <1>1, Sizes DEF IInv, ClientInv, ReceiverInv
  <2>2. QED  BY <1>1, <2>1 DEF UnderstoodInv, AheadInv, deviceVars
<1>4. AnswerInv'
  <2>1. \/ UNCHANGED toClient
        \/ toClient # <<>> /\ toClient' = Tail(toClient)
    BY DEF Client, SendBlock, HandleResponse, AckTimeout, ClientGivesUp,
           AllAcknowledged, HandleCompletion, lineVars
  <2>2. QED  BY <1>2, <2>1, LinesTaken DEF UnderstoodInv
<1>5. SentInv' /\ FlightInv'
  <2>1. CASE SendBlock
    <3>1. /\ toDevice' = Append(toDevice, Block(next, TRUE)) /\ next' = next + 1
          /\ flight' = [s \in DOMAIN flight \cup {next} |->
                          IF s = next THEN 1 ELSE flight[s]]
      BY <2>1 DEF SendBlock
    <3>2. Block(next, TRUE) \in DeviceSeqs'
      <4>1. next \in Int  BY Sizes DEF IInv, ClientInv
      <4>2. QED  BY <3>1, <4>1 DEF Block, DeviceSeqs
    <3>3. toDevice \in Seq(DeviceSeqs')
      BY <1>2, SeqMonotonic DEF UnderstoodInv, SentInv
    <3>4. SentInv'  BY <3>1, <3>2, <3>3, AppendProperties DEF SentInv
    <3>5. FlightInv'  BY <3>1 DEF FlightInv
    <3>6. QED  BY <3>4, <3>5
  <2>2. ASSUME NEW s, s \in Int \/ DOMAIN flight = {}, RetransmitFrom(s),
               next' = next
        PROVE  SentInv' /\ FlightInv'
    <3>1. SentInv'  BY <2>2, ResentSent DEF UnderstoodInv
    <3>2. FlightInv'  BY <2>2 DEF RetransmitFrom, FlightInv
    <3>3. QED  BY <3>1, <3>2
  <2>3. CASE HandleResponse
    <3> DEFINE response == Head(toClient)
    <3>1. /\ next' = next /\ response.seq \in Int
          /\ response.kind \in {"ACK", "NAK", "ERR", "WAIT", "DONE"}
      BY <2>3, ClientLineTail DEF HandleResponse, IInv, Promise
    <3> HIDE DEF response
    <3>2. CASE response.kind = "NAK"
      <4>1. RetransmitFrom(response.seq)
        BY <2>3, <3>2 DEF HandleResponse, response
      <4>2. QED  BY <2>2, <3>1, <4>1
    <3>3. CASE response.kind # "NAK"
      <4>1. /\ UNCHANGED toDevice
            /\ \/ UNCHANGED flight
               \/ \E s \in Int :
                    flight' = [f \in {g \in DOMAIN flight : g > s} |-> flight[f]]
        BY <2>3, <3>1, <3>3 DEF HandleResponse, Acknowledged, response
      <4>2. FlightInv'  BY <4>1 DEF UnderstoodInv, FlightInv
      <4>3. SentInv'  BY <1>2, <4>1, LinesTaken DEF UnderstoodInv
      <4>4. QED  BY <4>2, <4>3
    <3>4. QED  BY <3>2, <3>3
  <2>4. CASE AckTimeout
    <3> DEFINE first == CHOOSE s \in DOMAIN flight :
                          \A f \in DOMAIN flight : s <= f
    <3>1. RetransmitFrom(first) /\ next' = next  BY <2>4 DEF AckTimeout
    <3>2. first \in Int \/ DOMAIN flight = {}
      <4>1. DOMAIN flight = acked .. next - 1 /\ acked \in Nat /\ next \in Nat
        BY Sizes DEF IInv, ClientInv
      <4>2. CASE DOMAIN flight # {}
        <5>1. acked \in DOMAIN flight /\ \A f \in DOMAIN flight : acked <= f
          BY <4>1, <4>2
        <5>2. first \in DOMAIN flight  BY <5>1
        <5>3. QED  BY <4>1, <5>2
      <4>3. QED  BY <4>2
    <3> HIDE DEF first
    <3>3. QED  BY <2>2, <3>1, <3>2
  <2>5. CASE ClientGivesUp \/ AllAcknowledged \/ HandleCompletion
    <3>1. UNCHANGED <<toDevice, flight>>
      BY <2>5 DEF ClientGivesUp, AllAcknowledged, HandleCompletion, lineVars
    <3>2. FlightInv'  BY <3>1 DEF UnderstoodInv, FlightInv
    <3>3. SentInv'  BY <1>2, <3>1, LinesTaken DEF UnderstoodInv
    <3>4. QED  BY <3>2, <3>3
  <2>6. QED  BY <2>1, <2>3, <2>4, <2>5 DEF Client
<1>6. QED  BY <1>3, <1>4, <1>5 DEF UnderstoodInv

\* The receiver answers a block that was sent.  It asks for the block after the
\* last one sent only if it has acknowledged nothing and has room for a block:
\* then the client has room as well.
LEMMA ReadUnderstands ==
  ASSUME IInv, UnderstoodInv, ReadBlock, Askable' = Askable,
         DeviceSeqs' = DeviceSeqs
  PROVE  UnderstoodInv'
<1> DEFINE block == Head(toDevice)
<1>1. /\ device = "read" /\ toDevice # <<>> /\ toDevice' = Tail(toDevice)
      /\ UNCHANGED <<lastAck, clientVars>>
  BY DEF ReadBlock
<1>2. SentInv' /\ block \in DeviceSeqs
  BY <1>1, LinesTaken DEF UnderstoodInv
<1>3. block.seq \in Int /\ block.seq < next  BY <1>2 DEF DeviceSeqs
<1>4. FlightInv'  BY <1>1 DEF UnderstoodInv, FlightInv, clientVars
<1> HIDE DEF block
<1>5. /\ next \in Nat /\ acked \in Nat /\ sequence \in Nat /\ pending \in Nat
      /\ Buffers \in Nat /\ Blocks \in Nat /\ lastAck \in Int
      /\ sequence < Blocks /\ pending < Buffers /\ sequence <= next
      /\ lastAck = -1 => pending = sequence
  BY <1>1, Sizes, Lengths
  DEF IInv, ClientInv, ReceiverInv, UnderstoodInv, AheadInv
<1>6. ASSUME block.seq # sequence,
             ~ (block.seq < sequence /\ lastAck # -1)
      PROVE  Reply("NAK", sequence) \in Askable'
  <2>1. sequence < next \/ (sequence = next /\ next - acked < Buffers)
    BY <1>3, <1>5, <1>6
  <2>2. QED  BY <1>5, <2>1, Messages DEF Askable, Reply
<1>7. ASSUME UNCHANGED <<sequence, pending>> PROVE AheadInv'
  BY <1>1, <1>5, <1>7 DEF AheadInv, clientVars
<1>8. CASE /\ block.seq < sequence /\ lastAck # -1
           /\ AcknowledgeAgain /\ UNCHANGED <<sequence, pending>>
  <2>1. Reply("ACK", lastAck) \in Askable'
    BY <1>5, Messages DEF Askable, Reply
  <2>2. AnswerInv'
    BY <1>8, <2>1, AnswerSaid DEF AcknowledgeAgain, UnderstoodInv
  <2>3. QED  BY <1>2, <1>4, <1>7, <1>8, <2>2 DEF UnderstoodInv
<1>9. CASE /\ block.seq # sequence /\ ~ (block.seq < sequence /\ lastAck # -1)
           /\ UNCHANGED toClient \/ AskAgain
           /\ UNCHANGED <<sequence, pending>>
  <2>1. AnswerInv'
    BY <1>6, <1>9, AnswerSaid DEF AskAgain, UnderstoodInv, AnswerInv
  <2>2. QED  BY <1>2, <1>4, <1>7, <1>9, <2>1 DEF UnderstoodInv
<1>10. CASE /\ block.seq = sequence /\ AskAgain
            /\ UNCHANGED <<sequence, pending>>
  <2>1. Reply("NAK", sequence) \in Askable'
    BY <1>3, <1>5, <1>10, Messages DEF Askable, Reply
  <2>2. AnswerInv'  BY <1>10, <2>1, AnswerSaid DEF AskAgain, UnderstoodInv
  <2>3. QED  BY <1>2, <1>4, <1>7, <1>10, <2>2 DEF UnderstoodInv
<1>11. CASE /\ block.seq = sequence /\ sequence' = sequence + 1
            /\ pending' = pending + 1 /\ UNCHANGED toClient
  <2>1. AheadInv'
    BY <1>1, <1>3, <1>5, <1>11 DEF AheadInv, clientVars
  <2>2. AnswerInv'  BY <1>11 DEF UnderstoodInv, AnswerInv
  <2>3. QED  BY <1>2, <1>4, <2>1, <2>2 DEF UnderstoodInv
<1>12. QED  BY <1>8, <1>9, <1>10, <1>11 DEF ReadBlock, block

\* Of the other messages only acknowledgements matter, and they say what is
\* written.
LEMMA OthersUnderstand ==
  ASSUME IInv, UnderstoodInv,
         Device \/ WriteBlock \/ Heartbeat \/ DiscardBlock \/ LineFault
           \/ UNCHANGED vars
  PROVE  UnderstoodInv'
<1>1. UNCHANGED clientVars
  BY DEF Device, AcknowledgeWrite, AwaitBlock, ReadBlock, ReadTimeout, Drained,
         Finish, WriteBlock, Heartbeat, DiscardBlock, LineFault, vars
<1>2. Askable' = Askable /\ DeviceSeqs' = DeviceSeqs /\ FlightInv'
  BY <1>1 DEF Askable, DeviceSeqs, FlightInv, UnderstoodInv, clientVars
<1>3. CASE ReadBlock  BY <1>2, <1>3, ReadUnderstands
<1>4. CASE ~ ReadBlock
  <2>1. UNCHANGED sequence
    BY <1>4 DEF Device, AcknowledgeWrite, AwaitBlock, ReadTimeout, Drained,
         Finish, WriteBlock, Heartbeat, DiscardBlock, LineFault, vars, deviceVars
  <2>2. sequence \in Int  BY Sizes DEF IInv, ReceiverInv
  <2>3. SentInv'
    <3>1. CASE UNCHANGED toDevice \/ (toDevice # <<>> /\ toDevice' = Tail(toDevice))
      BY <1>2, <3>1, LinesTaken DEF UnderstoodInv
    <3>2. CASE /\ toDevice # <<>>
               /\ toDevice' = <<Block(Head(toDevice).seq, FALSE)>>
                                \o Tail(toDevice)
      <4> DEFINE bad == Block(Head(toDevice).seq, FALSE)
      <4>1. Head(toDevice) \in DeviceSeqs /\ Tail(toDevice) \in Seq(DeviceSeqs)
        BY <3>2, HeadTailProperties DEF UnderstoodInv, SentInv
      <4>2. bad \in DeviceSeqs  BY <4>1 DEF Block, DeviceSeqs
      <4> HIDE DEF bad
      <4>3. <<bad>> \in Seq(DeviceSeqs)  BY <4>2
      <4>4. toDevice' \in Seq(DeviceSeqs)
        BY <3>2, <4>1, <4>3, ConcatProperties DEF bad
      <4>5. QED  BY <1>2, <4>4 DEF SentInv
    <3>3. QED
      BY <1>4, <3>1, <3>2
      DEF Device, AcknowledgeWrite, AwaitBlock, ReadTimeout, Drained,
          Finish, WriteBlock, Heartbeat, DiscardBlock, LineFault, vars, lineVars
  <2>4. AheadInv'
    <3>1. CASE AcknowledgeWrite
      <4>1. lastAck' # -1 \/ device' = "failed"
        <5>1. completed \in Seq(Nat) /\ completed # <<>>
          BY <3>1 DEF AcknowledgeWrite, IInv, QueueInv
        <5>2. Head(completed) \in Nat  BY <5>1, HeadTailProperties
        <5>3. QED  BY <3>1, <5>2 DEF AcknowledgeWrite
      <4>2. QED
        BY <1>1, <2>1, <4>1 DEF UnderstoodInv, AheadInv, clientVars
    <3>2. CASE ~ AcknowledgeWrite
      <4>1. UNCHANGED <<pending, lastAck>>
            /\ (device = "failed" => device' = "failed")
        BY <1>4, <3>2
        DEF Device, AwaitBlock, ReadTimeout, Drained, Finish, WriteBlock,
            Heartbeat, DiscardBlock, LineFault, vars, deviceVars
      <4>2. QED
        BY <1>1, <2>1, <4>1 DEF UnderstoodInv, AheadInv, clientVars
    <3>3. QED  BY <3>1, <3>2
  <2>5. AnswerInv'
    <3>1. ASSUME NEW k \in {"ACK", "ERR", "WAIT"}, NEW r \in Int, Say(k, r)
          PROVE  AnswerInv'
      <4>1. Reply(k, r) \in Askable'  BY <1>2, Messages DEF Askable, Reply
      <4>2. QED  BY <1>2, <3>1, <4>1, AnswerSaid DEF UnderstoodInv
    <3>2. CASE AcknowledgeWrite
      <4>1. completed \in Seq(Nat) /\ completed # <<>>
        BY <3>2 DEF AcknowledgeWrite, IInv, QueueInv
      <4>2. Head(completed) \in Int  BY <4>1, HeadTailProperties
      <4>3. Say("ERR", 0) \/ Say("ACK", Head(completed))
        BY <3>2 DEF AcknowledgeWrite
      <4>4. QED  BY <3>1, <4>2, <4>3
    <3>3. CASE Finish
      <4>1. CASE Say("ERR", 0)  BY <3>1, <4>1
      <4>2. CASE toClient' = toClient \o [i \in 1 .. DoneCopies |-> Reply("DONE", 0)]
        <5>1. Reply("DONE", 0) \in Askable'
          BY <1>2, Messages DEF Askable, Reply
        <5>2. [i \in 1 .. DoneCopies |-> Reply("DONE", 0)] \in Seq(Askable')
          BY <5>1, Sizes
        <5>3. toClient \in Seq(Askable')  BY <1>2 DEF UnderstoodInv, AnswerInv
        <5>4. QED  BY <4>2, <5>2, <5>3, ConcatProperties DEF AnswerInv
      <4>3. QED  BY <3>3, <4>1, <4>2 DEF Finish
    <3>4. CASE ~ AcknowledgeWrite /\ ~ Finish
      <4>1. \/ Say("ERR", 0) \/ Say("WAIT", sequence) \/ UNCHANGED toClient
            \/ toClient # <<>> /\ toClient' = Tail(toClient)
        BY <1>4, <3>4
        DEF Device, AwaitBlock, ReadTimeout, Drained, WriteBlock, Heartbeat,
            DiscardBlock, LineFault, vars, lineVars
      <4>2. QED  BY <1>2, <2>2, <3>1, <4>1, LinesTaken DEF UnderstoodInv
    <3>5. QED  BY <3>2, <3>3, <3>4
  <2>6. QED  BY <1>2, <2>3, <2>4, <2>5 DEF UnderstoodInv
<1>5. QED  BY <1>3, <1>4

\* The client can act on every response that it reads (upload() in
\* uart_upload.py raises an error on an ACK or a NAK outside its window): no
\* acknowledgement runs ahead of it, and no block is asked for that it has given
\* up.
THEOREM NoResponseStray == Spec => []ResponsesUnderstood
<1>1. Init => UnderstoodInv
  <2> SUFFICES ASSUME Init PROVE UnderstoodInv  OBVIOUS
  <2>1. SentInv /\ AnswerInv  BY EmptySeq DEF Init, SentInv, AnswerInv
  <2>2. AheadInv /\ FlightInv  BY DEF Init, AheadInv, FlightInv
  <2>3. QED  BY <2>1, <2>2 DEF UnderstoodInv
<1>2. IInv /\ IInv' /\ UnderstoodInv /\ [Next]_vars => UnderstoodInv'
  BY ClientUnderstands, OthersUnderstand DEF Next
<1>3. IInv /\ UnderstoodInv => ResponsesUnderstood
  <2> DEFINE response == Head(toClient)
  <2> SUFFICES ASSUME IInv, UnderstoodInv, Awaiting, toClient # <<>>
               PROVE  /\ response.kind = "NAK" =>
                           \E f \in DOMAIN flight : f >= response.seq
                      /\ response.kind = "ACK" =>
                           response.seq \in DOMAIN flight \/ response.seq < acked
    BY DEF ResponsesUnderstood
  <2>1. /\ DOMAIN flight = acked .. next - 1 /\ acked \in Nat /\ next \in Nat
        /\ next <= Blocks /\ acked <= next /\ sequence \in Nat
        /\ Blocks \in Nat /\ Buffers \in Nat \ {0}
        /\ Len(written) <= sequence /\ sequence <= next /\ Len(written) \in Nat
    BY Sizes, Lengths
    DEF IInv, ClientInv, ReceiverInv, QueueInv, UnderstoodInv, AheadInv
  <2>2. Cardinality(DOMAIN flight) = next - acked
    <3>1. Cardinality(acked .. next - 1)
            = IF acked > next - 1 THEN 0 ELSE (next - 1) - acked + 1
      BY <2>1, FS_Interval
    <3>2. QED  BY <2>1, <3>1
  <2>3. acked < next
    <3>1. DOMAIN flight # {}
      BY DEF Awaiting, UnderstoodInv, FlightInv
    <3>2. QED  BY <2>1, <3>1
  <2>4. /\ response \in Askable
        /\ response \in Promise
    BY ClientLineTail, HeadTailProperties
    DEF UnderstoodInv, AnswerInv, IInv
  <2> HIDE DEF response
  <2>5. ~ (next < Blocks /\ next - acked < Buffers)
    BY <2>2 DEF Awaiting, WindowOpen
  <2>6. ASSUME response.kind = "NAK"
        PROVE  \E f \in DOMAIN flight : f >= response.seq
    <3>1. response.seq \in Int /\ response.seq < next
      BY <2>4, <2>5, <2>6 DEF Askable
    <3>2. next - 1 \in DOMAIN flight /\ next - 1 >= response.seq
      BY <2>1, <2>3, <3>1
    <3>3. QED  BY <3>2
  <2>7. ASSUME response.kind = "ACK"
        PROVE  response.seq \in DOMAIN flight \/ response.seq < acked
    <3>1. response.seq \in Int /\ response.seq < Len(written)
      BY <2>4, <2>7 DEF Promise
    <3>2. QED  BY <2>1, <3>1
  <2>8. QED  BY <2>6, <2>7
<1>4. QED  BY <1>1, <1>2, <1>3, Inductive, PTL DEF Spec
=============================================================================
