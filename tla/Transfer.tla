------------------------------ MODULE Transfer ------------------------------
(***************************************************************************)
(* The network loop of DownloadEngine::run from armed requests to queued   *)
(* packets: the write callback and its buffer, the pauses for memory, for  *)
(* the queue and at the end of a window, the data queue with its counter,  *)
(* the global memory accounting, and the order in which the network and    *)
(* the persistence thread are stopped (download/download_engine.cpp,       *)
(* core/memory_accounting.cpp, persistence/persistence_thread.cpp).        *)
(*                                                                         *)
(* Two threads: the orchestrator, whose program counter is pc and which    *)
(* also runs the callbacks of libcurl, and the persistence thread, here    *)
(* only what it does to the queue and to the accounting.                   *)
(*                                                                         *)
(* Every range is one window of WindowBytes bytes; offsets count from its  *)
(* first.  Which windows there are is the matter of RangeScheduler.  A     *)
(* payload is its size, as is the accounting: payload plus Overhead.       *)
(***************************************************************************)
EXTENDS Integers, Sequences, FiniteSets, Sums

CONSTANTS HandleCount,    \* max_connections
          RangeCount,     \* the ranges to download
          WindowBytes,
          PacketBytes,    \* kAggregatedPacketBytes
          ChunkBytes,     \* the largest chunk libcurl hands to the callback; it fits a packet
          Overhead,       \* sizeof(DataPacket)
          Capacity,       \* queue_capacity_packets
          Slack,          \* what the queue holds beyond: it allocates whole blocks
          Watermarks,     \* backpressure_high_bytes and _low_bytes, as [high, low]
          Overruns,       \* may the server send more than was asked for
          MayFail         \* may connections break and persistence fail

ASSUME TransferAssumption ==
  /\ {HandleCount, RangeCount, WindowBytes, ChunkBytes, Capacity} \subseteq Nat \ {0}
  /\ {PacketBytes, Overhead, Slack} \subseteq Nat
  /\ Watermarks \subseteq [high : Nat, low : Nat]
  /\ ChunkBytes <= PacketBytes
  /\ Overruns \in BOOLEAN /\ MayFail \in BOOLEAN

Handles == 1 .. HandleCount
Ranges == 1 .. RangeCount
NoRange == 0
Chunks == 1 .. ChunkBytes

VARIABLES
  watermarks,
  pc,               \* the orchestrator
  current,          \* the handle it is at
  arriving,         \* the size of the chunk in the write callback
  seen,             \* current_bytes as resume_paused_transfers read it
  pending_ranges,
  handle,           \* the TransferHandle records
  failure,          \* the run will end with an error
  data_queue,
  queued_packets,   \* the counter in SessionState
  uncounted,        \* a packet is queued that queued_packets does not count yet
  memory,           \* MemoryAccounting::current_bytes_
  consumer,         \* the persistence thread
  packet,           \* the packet in its hands
  persisted,        \* the bytes of each range it has appended
  completed,        \* the ranges whose range_complete it has handled
  error             \* PersistenceThread::error_

consumerVars == <<consumer, packet, persisted, completed, error>>
vars == <<watermarks, pc, current, arriving, seen, pending_ranges, handle, failure, data_queue,
          queued_packets, uncounted, memory, consumerVars>>

EmptyBuffer == [offset |-> 0, size |-> 0, accounted |-> 0]
IdleHandle == [range |-> NoRange, next_offset |-> 0, buffer |-> EmptyBuffer, pauses |-> {},
               curl_paused |-> FALSE, in_multi |-> FALSE, result |-> "none"]

NoPacket == [kind |-> "none"]
Data(h) == [kind |-> "data", range |-> handle[h].range, offset |-> handle[h].buffer.offset,
            size |-> handle[h].buffer.size, accounted |-> handle[h].buffer.accounted]
RangeComplete(r) == [kind |-> "range_complete", range |-> r]
Shutdown == [kind |-> "shutdown"]

-----------------------------------------------------------------------------
\* The orchestrator.

\* It does nothing between queueing a packet and counting it.
At(step) == pc = step /\ uncounted = 0
LocalUnchanged == UNCHANGED <<watermarks, data_queue, queued_packets, uncounted, consumerVars>>

CheckPersistence ==
  /\ At("check")
  /\ pc' = IF error THEN "drain" ELSE "dispatch"
  /\ current' = 1
  /\ failure' = (failure \/ error)
  /\ UNCHANGED <<arriving, seen, pending_ranges, handle, memory>>
  /\ LocalUnchanged

Idle == {h \in Handles : handle[h].range = NoRange /\ ~handle[h].in_multi}

\* The first idle handle gets the first range; arm_transfer resets it.
ArmTransfer(h) ==
  /\ At("dispatch")
  /\ h \in Idle /\ \A i \in Idle : h <= i
  /\ pending_ranges > 0
  /\ handle' = [handle EXCEPT ![h] = [IdleHandle EXCEPT
       !.range = RangeCount - pending_ranges + 1, !.in_multi = TRUE]]
  /\ pending_ranges' = pending_ranges - 1
  /\ UNCHANGED <<pc, current, arriving, seen, failure, memory>>
  /\ LocalUnchanged

AllArmed ==
  /\ At("dispatch")
  /\ Idle = {} \/ pending_ranges = 0
  /\ pc' = "backpressure"
  /\ UNCHANGED <<current, arriving, seen, pending_ranges, handle, failure, memory>>
  /\ LocalUnchanged

\* Pausing a transfer makes libcurl stop to read for it.
Paused(h, why) ==
  [handle EXCEPT ![h].pauses = @ \cup {why}, ![h].curl_paused = TRUE]

\* The speeds that order the active handles may be any.
PauseCount(active) == LET fifth == (active + 4) \div 5 IN IF fifth > 1 THEN fifth ELSE 1

ApplyMemoryBackpressure ==
  LET active == {h \in Handles : handle[h].in_multi /\ handle[h].range # NoRange
                                   /\ handle[h].pauses \cap {"memory", "boundary"} = {}}
  IN /\ At("backpressure")
     /\ IF memory > watermarks.high /\ active # {}
          THEN \E fastest \in SUBSET active :
                 /\ Cardinality(fastest) = PauseCount(Cardinality(active))
                 /\ handle' = [h \in Handles |->
                      IF h \in fastest THEN Paused(h, "memory")[h] ELSE handle[h]]
          ELSE UNCHANGED handle
     /\ pc' = "resume"
     /\ UNCHANGED <<current, arriving, seen, pending_ranges, failure, memory>>
     /\ LocalUnchanged

BeginResume ==
  /\ At("resume")
  /\ seen' = memory
  /\ current' = 1
  /\ pc' = "resuming"
  /\ UNCHANGED <<arriving, pending_ranges, handle, failure, memory>>
  /\ LocalUnchanged

\* Slip: a slot of the queue is kept in reserve.
SpareSlot == queued_packets + 1 < Capacity
QueueReady == queued_packets < Capacity

\* Slip: memory has to fall below the low watermark.
NotBelowLow == seen >= watermarks.low
AboveLow == seen > watermarks.low

\* What resume_paused_transfers leaves of the pauses of a handle.
Remaining(pauses) ==
  LET queue_ready == "queue" \in pauses /\ QueueReady
  IN IF AboveLow /\ (queue_ready \/ "memory" \in pauses)
       THEN pauses
       ELSE pauses \ ({"memory"} \cup (IF queue_ready THEN {"queue"} ELSE {}))

\* Slip: libcurl is told to go on after a pause for memory only.
ContinuesAfterMemory(before, after) == "memory" \in before /\ after = {}
Continues(before, after) == after # before /\ after = {}

ResumeTransfer ==
  /\ At("resuming")
  /\ current <= HandleCount
  /\ LET old == handle[current].pauses
         new == IF handle[current].in_multi THEN Remaining(old) ELSE old
     IN handle' = [handle EXCEPT ![current].pauses = new,
                                 ![current].curl_paused = @ /\ ~Continues(old, new)]
  /\ current' = current + 1
  /\ UNCHANGED <<pc, arriving, seen, pending_ranges, failure, memory>>
  /\ LocalUnchanged

ResumeEnds ==
  /\ At("resuming")
  /\ current > HandleCount
  /\ current' = 1
  /\ seen' = 0
  /\ pc' = "perform"
  /\ UNCHANGED <<arriving, pending_ranges, handle, failure, memory>>
  /\ LocalUnchanged

-----------------------------------------------------------------------------
\* curl_multi_perform: the write callback, any number of times for each transfer.

MayEnqueue == Len(data_queue) < Capacity + Slack
MayRefuse == Len(data_queue) >= Capacity

\* try_enqueue of a data packet takes all that is buffered.
Enqueue(p) ==
  /\ data_queue' = Append(data_queue, p)
  /\ uncounted' = 1
  /\ UNCHANGED <<watermarks, queued_packets, consumerVars>>

Receiving(h) ==
  /\ At("perform")
  /\ handle[h].in_multi /\ ~handle[h].curl_paused /\ handle[h].result = "none"

\* Slip: a chunk is taken as long as the watermark is not passed yet.
PausesLate(incoming) == memory > watermarks.high
ShouldPauseForBackpressure(incoming) ==
  incoming > 0 /\ memory > 0 /\ memory + incoming > watermarks.high

\* Slip: the offset of the first byte that was ever buffered.
KeepsOffset(h, size) == IF handle[h].next_offset = 0 THEN 0 ELSE handle[h].buffer.offset
BufferOffset(h, size) == IF size = 0 THEN handle[h].next_offset ELSE handle[h].buffer.offset

\* What follows in the callback once there is room in the buffer, which is held by
\* the handle with buffered bytes of it.
AppendOrPause(h, buffered, n) ==
  LET before == IF buffered = 0 THEN 0 ELSE handle[h].buffer.accounted
      projected == buffered + n + Overhead
  IN /\ IF ShouldPauseForBackpressure(projected - before)
          THEN /\ handle' = Paused(h, "memory")
               /\ UNCHANGED memory
          ELSE /\ memory' = memory + projected - before
               /\ handle' = [handle EXCEPT
                    ![h].buffer = [offset |-> BufferOffset(h, buffered),
                                   size |-> buffered + n, accounted |-> projected],
                    ![h].next_offset = @ + n]
     /\ pc' = "perform"
     /\ current' = 1
     /\ arriving' = 0
     /\ UNCHANGED <<seen, pending_ranges, failure>>
     /\ LocalUnchanged

CallbackOnly == UNCHANGED <<pc, current, arriving, seen, pending_ranges, failure, memory>>

\* Slip: any buffer that is not full yet takes the chunk.
FitsIfNotFull(h, n) == handle[h].buffer.size < PacketBytes
Fits(h, n) == handle[h].buffer.size + n <= PacketBytes

Deliver(h, n) ==
  /\ Receiving(h)
  /\ handle[h].next_offset + n <= WindowBytes
  /\ Fits(h, n)
  /\ AppendOrPause(h, handle[h].buffer.size, n)

\* The buffer has to be flushed first; its memory stays accounted.
Overflows(h, n) ==
  /\ Receiving(h)
  /\ handle[h].next_offset + n <= WindowBytes
  /\ ~Fits(h, n)

FlushBuffer(h) ==
  /\ MayEnqueue
  /\ Enqueue(Data(h))

DeliverAfterFlush(h, n) ==
  /\ Overflows(h, n)
  /\ FlushBuffer(h)
  /\ handle' = [handle EXCEPT ![h].buffer = EmptyBuffer]
  /\ pc' = "append"
  /\ current' = h
  /\ arriving' = n
  /\ UNCHANGED <<seen, pending_ranges, failure, memory>>

AppendArrived ==
  /\ At("append")
  /\ AppendOrPause(current, 0, arriving)

\* start_queue_pause
PauseForQueue(h) ==
  /\ MayRefuse
  /\ handle' = [Paused(h, "queue") EXCEPT ![h].pauses = @ \ {"boundary"}]
  /\ CallbackOnly
  /\ LocalUnchanged

DeliverToFullQueue(h, n) == Overflows(h, n) /\ PauseForQueue(h)

\* A server that sends more than the window: at its end the transfer is paused, in
\* the middle of a chunk it is broken off.
DeliverBeyondWindow(h) ==
  /\ Overruns
  /\ Receiving(h)
  /\ handle[h].next_offset = WindowBytes
  /\ \/ /\ handle[h].buffer.size > 0
        /\ PauseForQueue(h)
     \/ /\ handle[h].buffer.size > 0
        /\ FlushBuffer(h)
        /\ handle' = [Paused(h, "boundary") EXCEPT ![h].buffer = EmptyBuffer]
        /\ CallbackOnly
     \/ /\ handle[h].buffer.size = 0
        /\ handle' = Paused(h, "boundary")
        /\ CallbackOnly
        /\ LocalUnchanged

Ended(h, result) ==
  /\ handle' = [handle EXCEPT ![h].result = result]
  /\ CallbackOnly
  /\ LocalUnchanged

DeliverAcrossWindow(h) ==
  /\ Overruns
  /\ Receiving(h)
  /\ handle[h].next_offset \in WindowBytes - ChunkBytes + 1 .. WindowBytes - 1
  /\ Ended(h, "failed")

TransferDone(h) ==
  /\ Receiving(h)
  /\ handle[h].next_offset = WindowBytes
  /\ Ended(h, "ok")

\* The connection breaks or ends early, or the status is not the one that is expected.
TransferBreaks(h) ==
  /\ MayFail
  /\ Receiving(h)
  /\ \E result \in {"ok", "failed"} : Ended(h, result)

PerformEnds ==
  /\ At("perform")
  /\ pc' = "messages"
  /\ UNCHANGED <<current, arriving, seen, pending_ranges, handle, failure, memory>>
  /\ LocalUnchanged

\* curl_multi_perform or curl_multi_wait returns an error.
PerformFails ==
  /\ MayFail
  /\ At("perform")
  /\ failure' = TRUE
  /\ pc' = "drain"
  /\ UNCHANGED <<current, arriving, seen, pending_ranges, handle, memory>>
  /\ LocalUnchanged

-----------------------------------------------------------------------------
\* The requests that are over.

Messages == {h \in Handles : handle[h].in_multi /\ handle[h].result # "none"}

ReadMessage(h) ==
  /\ At("messages")
  /\ h \in Messages
  /\ handle' = [handle EXCEPT ![h].in_multi = FALSE]
  /\ current' = h
  /\ pc' = "finalize"
  /\ UNCHANGED <<arriving, seen, pending_ranges, failure, memory>>
  /\ LocalUnchanged

NetworkDone == pending_ranges = 0 /\ \A h \in Handles : handle[h].range = NoRange
MessagesRead ==
  /\ At("messages")
  /\ Messages = {}
  /\ pc' = IF NetworkDone THEN "drain" ELSE "check"
  /\ current' = 1
  /\ UNCHANGED <<arriving, seen, pending_ranges, handle, failure, memory>>
  /\ LocalUnchanged

\* flush_transfer_buffer_blocking, also while the network is stopped.  It is not over
\* before the queue takes the packet; nobody can stop it while the request is finalized.
FlushBlocking ==
  /\ At("finalize") \/ At("drain")
  /\ current <= HandleCount
  /\ handle[current].buffer.size > 0
  /\ FlushBuffer(current)
  /\ handle' = [handle EXCEPT ![current].buffer = EmptyBuffer]
  /\ UNCHANGED <<pc, current, arriving, seen, pending_ranges, failure, memory>>

\* Slip: the request is finished with what is still buffered.
FlushedLater(h) == TRUE
Flushed(h) == handle[h].buffer.size = 0

\* Slip: the answer's end is trusted, however much of it came.
EndedWell(h) == handle[h].result = "ok"
RequestSucceeded(h) == handle[h].result = "ok" /\ handle[h].next_offset = WindowBytes

FinishRequest ==
  /\ At("finalize")
  /\ Flushed(current)
  /\ RequestSucceeded(current)
  /\ Enqueue(RangeComplete(handle[current].range))
  /\ handle' = [handle EXCEPT ![current] = IdleHandle]
  /\ pc' = "messages"
  /\ current' = 1
  /\ UNCHANGED <<arriving, seen, pending_ranges, failure, memory>>

\* The handle keeps its range; the messages of the others are not read any more.
RequestFails ==
  /\ At("finalize")
  /\ Flushed(current)
  /\ ~RequestSucceeded(current)
  /\ failure' = TRUE
  /\ pc' = "drain"
  /\ current' = 1
  /\ UNCHANGED <<arriving, seen, pending_ranges, handle, memory>>
  /\ LocalUnchanged

-----------------------------------------------------------------------------
\* stop_network_phase, with stop_requested, and stop_persistence_phase.

ReleaseTransfer ==
  /\ At("drain")
  /\ current <= HandleCount
  /\ handle[current].buffer.size = 0
  /\ handle' = [handle EXCEPT ![current] = IdleHandle]
  /\ current' = current + 1
  /\ UNCHANGED <<pc, arriving, seen, pending_ranges, failure, memory>>
  /\ LocalUnchanged

\* The queue is full: this handle and those that follow are left as they are.
DrainGivesUp ==
  /\ At("drain")
  /\ current <= HandleCount
  /\ handle[current].buffer.size > 0
  /\ MayRefuse /\ ~QueueReady
  /\ failure' = TRUE
  /\ current' = HandleCount + 1
  /\ UNCHANGED <<pc, arriving, seen, pending_ranges, handle, memory>>
  /\ LocalUnchanged

\* shutdown is enqueued, with another producer, and not counted.
StopPersistence ==
  /\ At("drain")
  /\ current > HandleCount
  /\ pc' = "join"
  /\ current' = 1
  /\ UNCHANGED <<arriving, seen, pending_ranges, handle, failure, memory>>
  /\ LocalUnchanged

JoinPersistence ==
  /\ At("join")
  /\ consumer = "ended"
  /\ failure' = (failure \/ error)
  /\ pc' = "ended"
  /\ UNCHANGED <<current, arriving, seen, pending_ranges, handle, memory>>
  /\ LocalUnchanged

CountEnqueued ==
  /\ uncounted = 1
  /\ uncounted' = 0
  /\ queued_packets' = queued_packets + 1
  /\ UNCHANGED <<watermarks, pc, current, arriving, seen, pending_ranges, handle, failure,
                 data_queue, memory, consumerVars>>

-----------------------------------------------------------------------------
\* The persistence thread.

NetworkUnchanged ==
  UNCHANGED <<watermarks, pc, current, arriving, seen, pending_ranges, handle, failure, uncounted>>

\* shutdown comes first as soon as no more than one packet is left (PersistenceThread).
TakesShutdown == pc = "join" /\ Len(data_queue) <= 1

Take(p) ==
  /\ consumer = "waiting"
  /\ packet' = p
  /\ consumer' = "taken"
  /\ UNCHANGED <<queued_packets, memory, persisted, completed, error>>
  /\ NetworkUnchanged

Dequeue ==
  /\ ~TakesShutdown
  /\ data_queue # <<>>
  /\ Take(Head(data_queue))
  /\ data_queue' = Tail(data_queue)

DequeueShutdown ==
  /\ TakesShutdown
  /\ Take(Shutdown)
  /\ UNCHANGED data_queue

\* The counter may be behind the queue: it is of an unsigned type, and wraps.
\* Slip: the shutdown packet is counted off like the others.
EveryPacket(p) == TRUE
Counted(p) == p.kind # "shutdown"

CountDequeued ==
  /\ consumer = "taken"
  /\ queued_packets' = queued_packets - (IF Counted(packet) THEN 1 ELSE 0)
  /\ consumer' = "counted"
  /\ UNCHANGED <<data_queue, memory, packet, persisted, completed, error>>
  /\ NetworkUnchanged

\* Slip: the bytes of the payload are released, not what was accounted for them.
PayloadOnly(p) == p.size
Released(p) == p.accounted

PacketHandled(ok) ==
  /\ packet' = NoPacket
  /\ error' = (error \/ ~ok)
  /\ consumer' = IF packet.kind = "shutdown" \/ ~ok THEN "ended" ELSE "waiting"
  /\ UNCHANGED <<data_queue, queued_packets>>
  /\ NetworkUnchanged

\* A packet that does not come next would be put aside (PersistenceThread); none does.
HandleData ==
  /\ consumer = "counted"
  /\ packet.kind = "data"
  /\ packet.offset = persisted[packet.range]
  /\ persisted' = [persisted EXCEPT ![packet.range] = @ + packet.size]
  /\ memory' = memory - Released(packet)
  /\ UNCHANGED completed
  /\ PacketHandled(TRUE)

HandleRangeComplete ==
  /\ consumer = "counted"
  /\ packet.kind = "range_complete"
  /\ completed' = completed \cup {packet.range}
  /\ UNCHANGED <<memory, persisted>>
  /\ PacketHandled(TRUE)

HandleShutdown ==
  /\ consumer = "counted"
  /\ packet.kind = "shutdown"
  /\ UNCHANGED <<memory, persisted, completed>>
  /\ PacketHandled(TRUE)

\* An append, a tail or the last flush fails; the packet's memory is released first.
HandlePacketFails ==
  /\ MayFail
  /\ consumer = "counted"
  /\ memory' = memory - (IF packet.kind = "data" THEN Released(packet) ELSE 0)
  /\ UNCHANGED <<persisted, completed>>
  /\ PacketHandled(FALSE)

\* The flush task reports an error.
FlushFails ==
  /\ MayFail
  /\ consumer = "waiting"
  /\ consumer' = "ended"
  /\ error' = TRUE
  /\ UNCHANGED <<data_queue, queued_packets, memory, packet, persisted, completed>>
  /\ NetworkUnchanged

-----------------------------------------------------------------------------
Init ==
  /\ watermarks \in Watermarks
  /\ pc = "check"
  /\ current = 1
  /\ arriving = 0
  /\ seen = 0
  /\ pending_ranges = RangeCount
  /\ handle = [h \in Handles |-> IdleHandle]
  /\ failure = FALSE
  /\ data_queue = <<>>
  /\ queued_packets = 0
  /\ uncounted = 0
  /\ memory = 0
  /\ consumer = "waiting"
  /\ packet = NoPacket
  /\ persisted = [r \in Ranges |-> 0]
  /\ completed = {}
  /\ error = FALSE

Callback(h) ==
  \E n \in Chunks : Deliver(h, n) \/ DeliverAfterFlush(h, n) \/ DeliverToFullQueue(h, n)

Perform ==
  \E h \in Handles :
    \/ Callback(h)
    \/ TransferDone(h)
    \/ DeliverBeyondWindow(h)
    \/ DeliverAcrossWindow(h)
    \/ TransferBreaks(h)

Orchestrator ==
  \/ CheckPersistence
  \/ \E h \in Handles : ArmTransfer(h)
  \/ AllArmed
  \/ ApplyMemoryBackpressure
  \/ BeginResume
  \/ ResumeTransfer
  \/ ResumeEnds
  \/ AppendArrived
  \/ PerformEnds
  \/ \E h \in Handles : ReadMessage(h)
  \/ MessagesRead
  \/ FlushBlocking
  \/ FinishRequest
  \/ RequestFails
  \/ ReleaseTransfer
  \/ DrainGivesUp
  \/ StopPersistence
  \/ JoinPersistence
  \/ CountEnqueued

Persistence ==
  \/ Dequeue
  \/ DequeueShutdown
  \/ CountDequeued
  \/ HandleData
  \/ HandleRangeComplete
  \/ HandleShutdown

Next ==
  \/ Perform
  \/ PerformFails
  \/ Orchestrator
  \/ Persistence
  \/ HandlePacketFails
  \/ FlushFails

Spec == Init /\ [][Next]_vars

\* Both threads are scheduled; the server sends what it was asked for to a transfer
\* that keeps reading.
Fairness ==
  /\ WF_vars(Orchestrator)
  /\ WF_vars(Persistence)
  /\ \A h \in Handles : SF_vars(Callback(h) \/ TransferDone(h))

FairSpec == Spec /\ Fairness

-----------------------------------------------------------------------------
(***************************************************************************)
(* Properties.                                                             *)
(***************************************************************************)
Steps == {"check", "dispatch", "backpressure", "resume", "resuming", "perform", "append",
          "messages", "finalize", "drain", "join", "ended"}
Accounted == 0 .. PacketBytes + Overhead
Offsets == 0 .. WindowBytes
Buffers == [offset : Offsets, size : 0 .. PacketBytes, accounted : Accounted]
TransferHandles ==
  [range : Ranges \cup {NoRange}, next_offset : Offsets, buffer : Buffers,
   pauses : SUBSET {"memory", "queue", "boundary"}, curl_paused : BOOLEAN,
   in_multi : BOOLEAN, result : {"none", "ok", "failed"}]
DataPackets ==
  [kind : {"data"}, range : Ranges, offset : Offsets, size : 1 .. PacketBytes,
   accounted : Accounted]
QueuePackets == DataPackets \cup {RangeComplete(r) : r \in Ranges}

\* The variables hold values the program's types allow.
TypeOK ==
  /\ watermarks \in Watermarks
  /\ pc \in Steps
  /\ current \in 1 .. HandleCount + 1
  /\ arriving \in 0 .. ChunkBytes
  /\ seen \in Nat
  /\ pending_ranges \in 0 .. RangeCount
  /\ handle \in [Handles -> TransferHandles]
  /\ failure \in BOOLEAN
  /\ data_queue \in Seq(QueuePackets)
  /\ queued_packets \in Int
  /\ uncounted \in {0, 1}
  /\ memory \in Nat
  /\ consumer \in {"waiting", "taken", "counted", "ended"}
  /\ packet \in QueuePackets \cup {Shutdown, NoPacket}
  /\ persisted \in [Ranges -> Offsets]
  /\ completed \subseteq Ranges
  /\ error \in BOOLEAN

\* What is between the callback and the file, oldest first.
InHand == IF packet = NoPacket THEN <<>> ELSE <<packet>>
Line == InHand \o data_queue
AccountedOf(p) == IF p.kind = "data" THEN p.accounted ELSE 0

\* The accounting counts every byte once, in whosever hands it is: what is handed
\* over is neither released twice nor left behind when a buffer is reset.
BufferedMemory == Sum([h \in Handles |-> handle[h].buffer.accounted], Handles)
MemoryAccounted ==
  memory = BufferedMemory + Sum([i \in DOMAIN Line |-> AccountedOf(Line[i])], DOMAIN Line)

\* The high watermark holds: it may be passed only by a first chunk, which is always
\* taken so that something moves.
MemoryBounded == memory <= watermarks.high \/ memory <= ChunkBytes + Overhead

\* The counter of queued packets, which two threads change at different times, is
\* the length of the queue but for packets one of them just put in or took out.
QueuedPacketsExact ==
  queued_packets + uncounted =
    Len(data_queue) + (IF consumer = "taken" /\ packet # Shutdown THEN 1 ELSE 0)

\* The packets of a range reach the persistence thread in order and without a gap,
\* and its completion after all of them, whatever pauses came between: so nothing
\* waits in its map, and it never asks for a pause because of a gap.
IsNext(r, i, offset) ==
  Line[i].kind = "data" /\ Line[i].range = r => Line[i].offset = offset
SizeIn(p, r) == IF p.kind = "data" /\ p.range = r THEN p.size ELSE 0
Ahead(r, i) == persisted[r] + Sum([j \in 1 .. i - 1 |-> SizeIn(Line[j], r)], 1 .. i - 1)
DeliveredInOrder ==
  ~error => \A r \in Ranges :
    /\ \A i \in DOMAIN Line :
         /\ IsNext(r, i, Ahead(r, i))
         /\ Line[i] = RangeComplete(r) => Ahead(r, i) = WindowBytes
    /\ \A h \in Handles : handle[h].range = r =>
         /\ Ahead(r, Len(Line) + 1) + handle[h].buffer.size = handle[h].next_offset
         /\ handle[h].buffer.size > 0 =>
              handle[h].buffer.offset = Ahead(r, Len(Line) + 1)

\* No resume is lost: a transfer that libcurl was told to pause has a pause on record
\* that resume_paused_transfers looks at, and one that reads has none.
PausedForAReason ==
  \A h \in Handles : handle[h].in_multi => (handle[h].curl_paused <=> handle[h].pauses # {})

\* A download that ends without an error has persisted and completed every range, and
\* gave back all of its memory; but for the one packet that shutdown may overtake.
SuccessIsComplete ==
  pc = "ended" /\ ~failure =>
    \/ Len(data_queue) = 1
    \/ /\ data_queue = <<>> /\ queued_packets = 0 /\ memory = 0
       /\ completed = Ranges
       /\ \A r \in Ranges : persisted[r] = WindowBytes

\* A resume keeps no transfer waiting for what will not come: once the persistence thread
\* has handled all that was queued, a look at a transfer leaves it paused only for the
\* memory in buffers above the low watermark, or at the end of its window.
ResumeReleases ==
  [][/\ ResumeTransfer
     /\ handle[current].in_multi
     /\ Line = <<>>
     /\ seen = memory
     => \/ "boundary" \in handle[current].pauses
        \/ BufferedMemory > watermarks.low
        \/ ~handle'[current].curl_paused]_vars

\* The ways to wait for ever: for a window boundary to go away; for memory that only
\* the buffers of paused transfers hold; for room in the queue of a dead consumer.
BoundaryStall == \E h \in Handles : handle[h].in_multi /\ "boundary" \in handle[h].pauses
MemoryStall ==
  /\ BufferedMemory > watermarks.low
  /\ \A h \in Handles : handle[h].in_multi => handle[h].curl_paused
DeadConsumerStall == pc = "finalize" /\ error /\ Len(data_queue) >= Capacity

\* Whatever the server does and whatever fails, the download comes to its end, except
\* in those three ways; provided a chunk fits between what may be held by buffers when
\* transfers are resumed, if that is anything, and the high watermark.
WatermarksApart ==
  \/ watermarks.low + ChunkBytes + Overhead <= watermarks.high
  \/ watermarks.low <= Overhead
EndsOrStalls ==
  WatermarksApart => <>[](pc = "ended" \/ BoundaryStall \/ MemoryStall \/ DeadConsumerStall)

-----------------------------------------------------------------------------
(***************************************************************************)
(* What a comment of the code promises and the code does not keep.         *)
(***************************************************************************)
\* download_engine.cpp, run(): after a write or the metadata failed, the network layer
\* stops to produce data as soon as possible.
ErrorStopsNetwork == error ~> pc = "ended"
=============================================================================
