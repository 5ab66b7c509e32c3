--------------------------- MODULE Transfer_proofs ---------------------------
(***************************************************************************)
(* Proofs about Transfer, for any number of handles, any sizes, watermarks *)
(* and capacity: no resume is lost, the counter of queued packets is exact *)
(* and the high watermark holds.                                           *)
(***************************************************************************)
EXTENDS Transfer, TLAPS

-----------------------------------------------------------------------------
(***************************************************************************)
(* The inductive invariant.                                                *)
(***************************************************************************)
\* A handle: libcurl reads for it unless there is a pause on record, and what it buffers
\* belongs to a range and is accounted for.
HandleOk(r) ==
  /\ r \in TransferHandles
  /\ r.in_multi => r.range # NoRange /\ (r.curl_paused <=> r.pauses # {})
  /\ r.buffer.size > 0 =>
       r.range # NoRange /\ r.buffer.accounted = r.buffer.size + Overhead
HandlesOk == handle \in [Handles -> TransferHandles] /\ \A h \in Handles : HandleOk(handle[h])

\* The signs of memory and seen are a matter of what is in the queue: see MemoryAccounted.
NetworkTyped ==
  /\ watermarks \in Watermarks
  /\ pc \in Steps
  /\ current \in 1 .. HandleCount + 1
  /\ arriving \in 0 .. ChunkBytes
  /\ seen \in Int
  /\ pending_ranges \in 0 .. RangeCount
  /\ memory \in Int

\* What the orchestrator remembers between two steps.
StepOk ==
  /\ pc \in {"append", "finalize"} => current \in Handles /\ handle[current].range # NoRange
  /\ pc = "append" => /\ arriving \in Chunks
                      /\ handle[current].next_offset + arriving <= WindowBytes

\* The queue, its counter and the packet the persistence thread holds.
QueueOk ==
  /\ data_queue \in Seq(QueuePackets)
  /\ queued_packets \in Int
  /\ uncounted \in {0, 1}
  /\ consumer \in {"waiting", "taken", "counted", "ended"}
  /\ packet \in QueuePackets \cup {Shutdown, NoPacket}
  /\ QueuedPacketsExact

TransferIInv == HandlesOk /\ NetworkTyped /\ StepOk /\ MemoryBounded /\ QueueOk

-----------------------------------------------------------------------------
LEMMA Sizes ==
  /\ HandleCount \in Nat \ {0} /\ RangeCount \in Nat \ {0} /\ WindowBytes \in Nat \ {0}
  /\ ChunkBytes \in Nat \ {0} /\ Capacity \in Nat \ {0}
  /\ PacketBytes \in Nat /\ Overhead \in Nat /\ Slack \in Nat
  /\ ChunkBytes <= PacketBytes
  /\ \A w \in Watermarks : w.high \in Nat /\ w.low \in Nat
BY TransferAssumption

LEMMA IdleTyped == IdleHandle \in TransferHandles
BY Sizes DEF IdleHandle, EmptyBuffer, TransferHandles, Buffers, Offsets, Accounted, NoRange

LEMMA InitOk == Init => TransferIInv
<1> SUFFICES ASSUME Init PROVE TransferIInv
  OBVIOUS
<1>1. HandlesOk
  <2>1. HandleOk(IdleHandle)
    BY IdleTyped DEF HandleOk, IdleHandle, EmptyBuffer
  <2> QED
    BY <2>1, IdleTyped DEF Init, HandlesOk
<1>2. NetworkTyped
  <2>1. /\ current \in 1 .. HandleCount + 1 /\ arriving \in 0 .. ChunkBytes
        /\ pending_ranges \in 0 .. RangeCount
    BY Sizes DEF Init
  <2>2. watermarks \in Watermarks /\ seen = 0 /\ memory = 0 /\ pc = "check"
    BY DEF Init
  <2>3. pc \in Steps
    BY <2>2 DEF Steps
  <2>4. seen \in Int /\ memory \in Int
    BY <2>2
  <2> QED
    BY <2>1, <2>2, <2>3, <2>4 DEF NetworkTyped
<1>3. StepOk
  BY DEF Init, StepOk
<1>4. MemoryBounded
  BY Sizes DEF Init, MemoryBounded
<1>5. QueueOk
  BY DEF Init, QueueOk, QueuedPacketsExact
<1> QED
  BY <1>1, <1>2, <1>3, <1>4, <1>5 DEF TransferIInv

LEMMA PausesOk == HandlesOk => PausedForAReason
BY DEF HandlesOk, HandleOk, PausedForAReason

\* One handle changes.
LEMMA OneChanges ==
  ASSUME HandlesOk, NEW h \in Handles, NEW r, HandleOk(r), handle' = [handle EXCEPT ![h] = r]
  PROVE  HandlesOk'
BY DEF HandlesOk, HandleOk

\* What pausing and flushing make of a handle.
LEMMA PausedOk ==
  ASSUME HandlesOk, NEW h \in Handles, NEW why \in {"memory", "queue", "boundary"}
  PROVE  /\ Paused(h, why) \in [Handles -> TransferHandles]
         /\ \A i \in Handles : HandleOk(Paused(h, why)[i])
         /\ \A i \in Handles \ {h} : Paused(h, why)[i] = handle[i]
         /\ Paused(h, why)[h] = [handle[h] EXCEPT !.pauses = @ \cup {why}, !.curl_paused = TRUE]
<1>1. HandleOk(handle[h]) /\ handle[h] \in TransferHandles
  BY DEF HandlesOk
<1> DEFINE r == [handle[h] EXCEPT !.pauses = @ \cup {why}, !.curl_paused = TRUE]
<1>2. /\ r \in TransferHandles /\ r.in_multi = handle[h].in_multi /\ r.range = handle[h].range
      /\ r.buffer = handle[h].buffer /\ r.pauses = handle[h].pauses \cup {why} /\ r.curl_paused = TRUE
  BY <1>1 DEF TransferHandles
<1>3. HandleOk(r)
  BY <1>1, <1>2 DEF HandleOk
<1>4. Paused(h, why) = [handle EXCEPT ![h] = r]
  BY DEF Paused
<1> QED
  BY <1>1, <1>2, <1>3, <1>4 DEF HandlesOk

LEMMA EmptiedOk ==
  ASSUME NEW r, HandleOk(r)
  PROVE  HandleOk([r EXCEPT !.buffer = EmptyBuffer])
<1>1. r \in TransferHandles
  BY DEF HandleOk
<1>2. EmptyBuffer \in Buffers
  BY Sizes DEF EmptyBuffer, Buffers, Offsets, Accounted
<1> QED
  BY <1>1, <1>2 DEF HandleOk, TransferHandles, EmptyBuffer

\* Taking a chunk: the watermark is looked at, the buffer and its accounting grow alike.
LEMMA AppendOk ==
  ASSUME HandlesOk, NetworkTyped, MemoryBounded, NEW h \in Handles, NEW n \in Chunks,
         NEW buffered \in {0, handle[h].buffer.size},
         buffered + n <= PacketBytes, handle[h].next_offset + n <= WindowBytes,
         handle[h].range # NoRange,
         AppendOrPause(h, buffered, n)
  PROVE  HandlesOk' /\ MemoryBounded' /\ memory' \in Int
<1> DEFINE before == IF buffered = 0 THEN 0 ELSE handle[h].buffer.accounted
<1> DEFINE projected == buffered + n + Overhead
<1>1. /\ handle[h] \in TransferHandles /\ HandleOk(handle[h])
      /\ handle[h].buffer.size \in 0 .. PacketBytes /\ handle[h].next_offset \in Offsets
      /\ handle[h].buffer.accounted \in Accounted /\ handle[h].buffer.offset \in Offsets
  BY DEF HandlesOk, TransferHandles, Buffers
<1>2. n \in Nat /\ n >= 1 /\ n <= ChunkBytes
  BY Sizes DEF Chunks
<1>3. /\ projected \in Accounted /\ before \in Nat
      /\ projected - before >= 1 /\ projected - before <= ChunkBytes + Overhead
  BY <1>1, <1>2, Sizes DEF HandleOk, Accounted
<1>4. watermarks.high \in Nat
  BY Sizes DEF NetworkTyped
<1> HIDE DEF before, projected
<1>5. CASE ShouldPauseForBackpressure(projected - before)
  <2>1. handle' = Paused(h, "memory") /\ UNCHANGED <<memory, watermarks>>
    BY <1>5 DEF AppendOrPause, LocalUnchanged, before, projected
  <2> QED
    BY <2>1, PausedOk DEF HandlesOk, MemoryBounded, NetworkTyped
<1>6. CASE ~ShouldPauseForBackpressure(projected - before)
  <2> DEFINE b == [offset |-> BufferOffset(h, buffered), size |-> buffered + n,
                   accounted |-> projected]
  <2> DEFINE r == [handle[h] EXCEPT !.buffer = b, !.next_offset = @ + n]
  <2>1. /\ memory' = memory + projected - before /\ UNCHANGED watermarks
        /\ handle' = [handle EXCEPT ![h] = r]
    BY <1>6 DEF AppendOrPause, LocalUnchanged, before, projected
  <2>2. b \in Buffers
    BY <1>1, <1>2, <1>3, Sizes DEF Buffers, BufferOffset, Offsets
  <2>9. handle[h].next_offset + n \in Offsets
    BY <1>1, <1>2, Sizes DEF Offsets
  <2> HIDE DEF b
  <2>3. /\ r \in TransferHandles /\ r.buffer = b /\ r.in_multi = handle[h].in_multi
        /\ r.range = handle[h].range /\ r.pauses = handle[h].pauses
        /\ r.curl_paused = handle[h].curl_paused
    BY <1>1, <2>2, <2>9 DEF TransferHandles
  <2>10. b.size = buffered + n /\ b.accounted = projected
    BY DEF b
  <2>4. HandleOk(r)
    BY <1>1, <2>3, <2>10 DEF HandleOk, projected
  <2>5. HandlesOk'
    BY <2>1, <2>4, OneChanges
  <2>6. memory \in Int /\ memory' = memory + (projected - before)
    BY <1>3, <2>1 DEF NetworkTyped, Accounted
  <2>7. memory <= 0 \/ memory + (projected - before) <= watermarks.high
    BY <1>3, <1>4, <1>6, <2>6, Sizes DEF ShouldPauseForBackpressure, Accounted
  <2>8. MemoryBounded' /\ memory' \in Int
    BY <1>3, <1>4, <2>1, <2>6, <2>7, Sizes DEF MemoryBounded, Accounted
  <2> QED
    BY <2>5, <2>8
<1> QED
  BY <1>5, <1>6

-----------------------------------------------------------------------------
(***************************************************************************)
(* The queue.                                                              *)
(***************************************************************************)
LEMMA QueueFrame ==
  ASSUME QueueOk, LocalUnchanged
  PROVE  QueueOk'
BY DEF QueueOk, LocalUnchanged, consumerVars, QueuedPacketsExact

LEMMA EnqueueOk ==
  ASSUME QueueOk, uncounted = 0, NEW p \in QueuePackets, Enqueue(p)
  PROVE  QueueOk' /\ UNCHANGED watermarks
<1>1. /\ data_queue' = Append(data_queue, p) /\ uncounted' = 1
      /\ UNCHANGED <<queued_packets, consumer, packet, watermarks>>
  BY DEF Enqueue, consumerVars
<1>2. data_queue' \in Seq(QueuePackets) /\ Len(data_queue') = Len(data_queue) + 1
  BY <1>1 DEF QueueOk
<1>3. Len(data_queue) \in Nat /\ queued_packets \in Int
  BY DEF QueueOk
<1>4. QueuedPacketsExact'
  BY <1>1, <1>2, <1>3 DEF QueueOk, QueuedPacketsExact
<1> QED
  BY <1>1, <1>2, <1>4 DEF QueueOk

\* What is buffered makes a packet.
LEMMA DataOk ==
  ASSUME HandlesOk, NEW h \in Handles, handle[h].buffer.size > 0
  PROVE  Data(h) \in QueuePackets
<1>1. handle[h] \in TransferHandles /\ handle[h].range # NoRange
  BY DEF HandlesOk, HandleOk
<1>2. /\ handle[h].range \in Ranges /\ handle[h].buffer.offset \in Offsets
      /\ handle[h].buffer.size \in 1 .. PacketBytes /\ handle[h].buffer.accounted \in Accounted
  BY <1>1, Sizes DEF TransferHandles, Buffers
<1> QED
  BY <1>2 DEF Data, QueuePackets, DataPackets

\* Flushing a buffer that holds something.
LEMMA FlushOk ==
  ASSUME HandlesOk, QueueOk, uncounted = 0, NEW h \in Handles, handle[h].buffer.size > 0,
         FlushBuffer(h)
  PROVE  QueueOk' /\ UNCHANGED watermarks
BY DataOk, EnqueueOk DEF FlushBuffer

\* Setting aside the buffer, whatever else happens to the handle.
LEMMA EmptiedHandlesOk ==
  ASSUME HandlesOk, NEW h \in Handles,
         handle' = [handle EXCEPT ![h].buffer = EmptyBuffer]
  PROVE  /\ HandlesOk'
         /\ handle'[h].range = handle[h].range
         /\ handle'[h].next_offset = handle[h].next_offset
<1>1. HandleOk(handle[h]) /\ handle[h] \in TransferHandles
  BY DEF HandlesOk
<1> DEFINE r == [handle[h] EXCEPT !.buffer = EmptyBuffer]
<1>2. HandleOk(r) /\ r.range = handle[h].range /\ r.next_offset = handle[h].next_offset
  BY <1>1, EmptiedOk DEF TransferHandles
<1>3. handle' = [handle EXCEPT ![h] = r]
  OBVIOUS
<1>4. handle'[h] = r
  BY <1>3 DEF HandlesOk
<1> QED
  BY <1>2, <1>3, <1>4, OneChanges

-----------------------------------------------------------------------------
(***************************************************************************)
(* The orchestrator, between the callbacks.                                *)
(***************************************************************************)
\* The orchestrator's actions that leave queue and memory alone.
Quiet == LocalUnchanged /\ UNCHANGED memory

LEMMA QuietOk ==
  ASSUME TransferIInv, Quiet, HandlesOk', StepOk', pc' \in Steps,
         current' \in 1 .. HandleCount + 1, arriving' \in 0 .. ChunkBytes, seen' \in Int,
         pending_ranges' \in 0 .. RangeCount
  PROVE  TransferIInv'
<1>1. QueueOk' /\ UNCHANGED <<watermarks, memory>>
  BY QueueFrame DEF TransferIInv, Quiet, LocalUnchanged
<1>2. NetworkTyped'
  BY <1>1 DEF TransferIInv, NetworkTyped
<1>3. MemoryBounded'
  BY <1>1 DEF TransferIInv, MemoryBounded
<1> QED
  BY <1>1, <1>2, <1>3 DEF TransferIInv

\* Those that do not look at the handles either.
LEMMA StepsOk ==
  ASSUME TransferIInv,
         \/ CheckPersistence \/ AllArmed \/ BeginResume \/ ResumeEnds \/ PerformEnds
         \/ PerformFails \/ MessagesRead \/ RequestFails \/ DrainGivesUp \/ StopPersistence
         \/ JoinPersistence
  PROVE  TransferIInv'
<1>1. Quiet /\ UNCHANGED handle
  BY DEF Quiet, CheckPersistence, AllArmed, BeginResume, ResumeEnds, PerformEnds, PerformFails,
         MessagesRead, RequestFails, DrainGivesUp, StopPersistence, JoinPersistence
<1>2. /\ pc' \in {"check", "drain", "dispatch", "backpressure", "resuming", "perform",
                  "messages", "join", "ended"}
      /\ current' \in {current, 1, HandleCount + 1}
      /\ arriving' = arriving /\ seen' \in {seen, 0, memory} /\ pending_ranges' = pending_ranges
  BY DEF At, CheckPersistence, AllArmed, BeginResume, ResumeEnds, PerformEnds, PerformFails,
         MessagesRead, RequestFails, DrainGivesUp, StopPersistence, JoinPersistence
<1>3. pc' \in Steps /\ StepOk'
  BY <1>2 DEF Steps, StepOk
<1>4. /\ current' \in 1 .. HandleCount + 1 /\ arriving' \in 0 .. ChunkBytes /\ seen' \in Int
      /\ pending_ranges' \in 0 .. RangeCount
  BY <1>2, Sizes DEF TransferIInv, NetworkTyped
<1>5. HandlesOk'
  BY <1>1 DEF TransferIInv, HandlesOk
<1> QED
  BY <1>1, <1>3, <1>4, <1>5, QuietOk

LEMMA IdleOk == HandleOk(IdleHandle)
BY IdleTyped DEF HandleOk, IdleHandle, EmptyBuffer

LEMMA ArmTransferOk ==
  ASSUME TransferIInv, NEW h \in Handles, ArmTransfer(h)
  PROVE  TransferIInv'
<1> DEFINE r == [IdleHandle EXCEPT !.range = RangeCount - pending_ranges + 1, !.in_multi = TRUE]
<1>1. /\ Quiet /\ handle' = [handle EXCEPT ![h] = r] /\ pending_ranges > 0
      /\ pending_ranges' = pending_ranges - 1 /\ pc = "dispatch"
      /\ UNCHANGED <<pc, current, arriving, seen>>
  BY DEF ArmTransfer, At, Quiet
<1>2. pending_ranges \in 1 .. RangeCount
  BY <1>1, Sizes DEF TransferIInv, NetworkTyped
<1>3. pending_ranges' \in 0 .. RangeCount /\ RangeCount - pending_ranges + 1 \in Ranges
  BY <1>1, <1>2, Sizes DEF Ranges
<1>4. HandleOk(r)
  <2>1. /\ r \in TransferHandles /\ r.range \in Ranges /\ r.curl_paused = FALSE
        /\ r.pauses = {} /\ r.buffer.size = 0
    BY <1>3, IdleTyped DEF IdleHandle, EmptyBuffer, TransferHandles
  <2>2. r.range # NoRange
    BY <2>1, Sizes DEF Ranges, NoRange
  <2> QED
    BY <2>1, <2>2 DEF HandleOk
<1>5. HandlesOk'
  BY <1>1, <1>4, OneChanges DEF TransferIInv
<1>6. StepOk'
  BY <1>1 DEF StepOk
<1> QED
  BY <1>1, <1>3, <1>5, <1>6, QuietOk DEF TransferIInv, NetworkTyped

LEMMA ApplyMemoryBackpressureOk ==
  ASSUME TransferIInv, ApplyMemoryBackpressure
  PROVE  TransferIInv'
<1>1. /\ Quiet /\ pc' = "resume" /\ UNCHANGED <<current, arriving, seen, pending_ranges>>
  BY DEF ApplyMemoryBackpressure, Quiet
<1>2. HandlesOk'
  <2>1. CASE UNCHANGED handle
    BY <2>1 DEF TransferIInv, HandlesOk
  <2>2. CASE \E fastest \in SUBSET Handles :
               handle' = [h \in Handles |->
                 IF h \in fastest THEN Paused(h, "memory")[h] ELSE handle[h]]
    <3>1. PICK fastest \in SUBSET Handles :
            handle' = [h \in Handles |->
              IF h \in fastest THEN Paused(h, "memory")[h] ELSE handle[h]]
      BY <2>2
    <3>2. \A h \in Handles : HandleOk(handle[h]) /\ HandleOk(Paused(h, "memory")[h])
      BY PausedOk DEF TransferIInv, HandlesOk
    <3>3. \A h \in Handles : HandleOk(handle'[h])
      BY <3>1, <3>2
    <3>4. \A h \in Handles : handle'[h] \in TransferHandles
      BY <3>3 DEF HandleOk
    <3> QED
      BY <3>1, <3>3, <3>4 DEF HandlesOk
  <2> QED
    BY <2>1, <2>2 DEF ApplyMemoryBackpressure
<1>3. StepOk' /\ pc' \in Steps
  BY <1>1 DEF StepOk, Steps
<1> QED
  BY <1>1, <1>2, <1>3, QuietOk DEF TransferIInv, NetworkTyped

LEMMA ResumeTransferOk ==
  ASSUME TransferIInv, ResumeTransfer
  PROVE  TransferIInv'
<1> DEFINE old == handle[current].pauses
           new == IF handle[current].in_multi THEN Remaining(old) ELSE old
           go == Continues(old, new)
           r == [handle[current] EXCEPT !.pauses = new, !.curl_paused = @ /\ ~go]
<1>1. /\ Quiet /\ pc = "resuming" /\ UNCHANGED <<pc, arriving, seen, pending_ranges>>
      /\ current <= HandleCount /\ current' = current + 1
  BY DEF ResumeTransfer, At, Quiet
<1>2. current \in Handles /\ current' \in 1 .. HandleCount + 1
  BY <1>1, Sizes DEF TransferIInv, NetworkTyped, Handles
<1>3. handle' = [handle EXCEPT ![current] = r]
  BY DEF ResumeTransfer
<1>4. HandleOk(handle[current]) /\ handle[current] \in TransferHandles
  BY <1>2 DEF TransferIInv, HandlesOk
<1>5. old \in SUBSET {"memory", "queue", "boundary"} /\ handle[current].curl_paused \in BOOLEAN
  BY <1>4 DEF TransferHandles
<1>6. new \subseteq old
  BY DEF Remaining
<1>7. go <=> new # old /\ new = {}
  BY DEF Continues
<1> HIDE DEF old, new, go
<1>8. /\ r \in TransferHandles /\ r.pauses = new /\ r.range = handle[current].range
      /\ r.curl_paused = (handle[current].curl_paused /\ ~go)
      /\ r.in_multi = handle[current].in_multi /\ r.buffer = handle[current].buffer
  BY <1>4, <1>5, <1>6 DEF TransferHandles
<1>9. HandleOk(r)
  BY <1>4, <1>6, <1>7, <1>8 DEF HandleOk, old
<1>10. HandlesOk'
  BY <1>2, <1>3, <1>9, OneChanges DEF TransferIInv
<1>11. StepOk'
  BY <1>1 DEF StepOk
<1> QED
  BY <1>1, <1>2, <1>10, <1>11, QuietOk DEF TransferIInv, NetworkTyped

LEMMA ReadMessageOk ==
  ASSUME TransferIInv, NEW h \in Handles, ReadMessage(h)
  PROVE  TransferIInv'
<1> DEFINE r == [handle[h] EXCEPT !.in_multi = FALSE]
<1>1. /\ Quiet /\ pc' = "finalize" /\ current' = h /\ handle' = [handle EXCEPT ![h] = r]
      /\ UNCHANGED <<arriving, seen, pending_ranges>> /\ handle[h].in_multi
  BY DEF ReadMessage, Messages, Quiet
<1>2. HandleOk(handle[h]) /\ handle[h] \in TransferHandles /\ handle[h].range # NoRange
  BY <1>1 DEF TransferIInv, HandlesOk, HandleOk
<1>3. /\ r \in TransferHandles /\ r.in_multi = FALSE /\ r.range = handle[h].range
      /\ r.buffer = handle[h].buffer
  BY <1>2 DEF TransferHandles
<1>4. HandlesOk'
  BY <1>1, <1>2, <1>3, OneChanges DEF HandleOk, TransferIInv
<1>5. handle'[h].range # NoRange
  BY <1>1, <1>2, <1>3 DEF TransferIInv, HandlesOk
<1>6. StepOk' /\ pc' \in Steps
  BY <1>1, <1>5 DEF StepOk, Steps
<1>7. current' \in 1 .. HandleCount + 1
  BY <1>1, Sizes DEF Handles
<1> QED
  BY <1>1, <1>4, <1>6, <1>7, QuietOk DEF TransferIInv, NetworkTyped

LEMMA ReleaseTransferOk ==
  ASSUME TransferIInv, ReleaseTransfer
  PROVE  TransferIInv'
<1>1. /\ Quiet /\ pc = "drain" /\ UNCHANGED <<pc, arriving, seen, pending_ranges>>
      /\ current <= HandleCount /\ current' = current + 1
      /\ handle' = [handle EXCEPT ![current] = IdleHandle]
  BY DEF ReleaseTransfer, At, Quiet
<1>2. current \in Handles /\ current' \in 1 .. HandleCount + 1
  BY <1>1, Sizes DEF TransferIInv, NetworkTyped, Handles
<1>3. HandlesOk' /\ StepOk'
  BY <1>1, <1>2, IdleOk, OneChanges DEF StepOk, TransferIInv
<1> QED
  BY <1>1, <1>2, <1>3, QuietOk DEF TransferIInv, NetworkTyped

-----------------------------------------------------------------------------
(***************************************************************************)
(* The callbacks.                                                          *)
(***************************************************************************)
\* Those that leave the queue alone change one handle to one that is fine.
LEMMA CallbackOk ==
  ASSUME TransferIInv, pc = "perform", CallbackOnly, LocalUnchanged, HandlesOk'
  PROVE  TransferIInv'
<1>1. StepOk' /\ Quiet
  BY DEF CallbackOnly, StepOk, Quiet
<1> QED
  BY <1>1, QuietOk DEF CallbackOnly, TransferIInv, NetworkTyped

LEMMA EndedOk ==
  ASSUME TransferIInv, NEW h \in Handles, NEW result \in {"ok", "failed"},
         Receiving(h), Ended(h, result)
  PROVE  TransferIInv'
<1> DEFINE r == [handle[h] EXCEPT !.result = result]
<1>1. HandleOk(handle[h]) /\ handle[h] \in TransferHandles
  BY DEF TransferIInv, HandlesOk
<1>2. /\ r \in TransferHandles /\ r.in_multi = handle[h].in_multi /\ r.range = handle[h].range
      /\ r.buffer = handle[h].buffer /\ r.pauses = handle[h].pauses
      /\ r.curl_paused = handle[h].curl_paused
  BY <1>1 DEF TransferHandles
<1>3. HandleOk(r)
  BY <1>1, <1>2 DEF HandleOk
<1>4. HandlesOk'
  BY <1>3, OneChanges DEF Ended, TransferIInv
<1> QED
  BY <1>4, CallbackOk DEF Ended, Receiving, At

LEMMA PauseForQueueOk ==
  ASSUME TransferIInv, NEW h \in Handles, Receiving(h), PauseForQueue(h)
  PROVE  TransferIInv'
<1> DEFINE r == [handle[h] EXCEPT !.pauses = (@ \cup {"queue"}) \ {"boundary"},
                                  !.curl_paused = TRUE]
<1>1. HandleOk(handle[h]) /\ handle[h] \in TransferHandles
  BY DEF TransferIInv, HandlesOk
<1>2. /\ r \in TransferHandles /\ r.in_multi = handle[h].in_multi /\ r.range = handle[h].range
      /\ r.buffer = handle[h].buffer /\ r.curl_paused = TRUE
      /\ r.pauses = (handle[h].pauses \cup {"queue"}) \ {"boundary"}
  BY <1>1 DEF TransferHandles
<1>3. "queue" \in r.pauses
  BY <1>2
<1>4. HandleOk(r)
  BY <1>1, <1>2, <1>3 DEF HandleOk
<1>5. handle' = [handle EXCEPT ![h] = r]
  BY <1>1 DEF PauseForQueue, Paused, TransferIInv, HandlesOk
<1>6. HandlesOk'
  BY <1>4, <1>5, OneChanges DEF TransferIInv
<1> QED
  BY <1>6, CallbackOk DEF PauseForQueue, Receiving, At

LEMMA DeliverBeyondWindowOk ==
  ASSUME TransferIInv, NEW h \in Handles, DeliverBeyondWindow(h)
  PROVE  TransferIInv'
<1>1. Receiving(h) /\ pc = "perform" /\ uncounted = 0
  BY DEF DeliverBeyondWindow, Receiving, At
<1>2. CASE PauseForQueue(h)
  BY <1>1, <1>2, PauseForQueueOk
<1>3. CASE /\ handle[h].buffer.size > 0 /\ FlushBuffer(h) /\ CallbackOnly
           /\ handle' = [Paused(h, "boundary") EXCEPT ![h].buffer = EmptyBuffer]
  <2> DEFINE r == [handle[h] EXCEPT !.pauses = @ \cup {"boundary"}, !.curl_paused = TRUE]
             q == [r EXCEPT !.buffer = EmptyBuffer]
  <2>1. HandleOk(r)
    <3>1. HandlesOk /\ "boundary" \in {"memory", "queue", "boundary"}
      BY DEF TransferIInv
    <3>2. Paused(h, "boundary")[h] = r
      BY <3>1, PausedOk
    <3>3. HandleOk(Paused(h, "boundary")[h])
      BY <3>1, PausedOk
    <3> QED
      BY <3>2, <3>3
  <2>2. HandleOk(q)
    BY <2>1, EmptiedOk
  <2>3. handle' = [handle EXCEPT ![h] = q]
    BY <1>3 DEF Paused, TransferIInv, HandlesOk
  <2>4. HandlesOk'
    BY <2>2, <2>3, OneChanges DEF TransferIInv
  <2>5. QueueOk' /\ UNCHANGED watermarks
    BY <1>1, <1>3, FlushOk DEF TransferIInv
  <2>6. NetworkTyped' /\ StepOk' /\ MemoryBounded'
    BY <1>1, <1>3, <2>5 DEF CallbackOnly, TransferIInv, NetworkTyped, StepOk, MemoryBounded
  <2> QED
    BY <2>4, <2>5, <2>6 DEF TransferIInv
<1>4. CASE handle' = Paused(h, "boundary") /\ CallbackOnly /\ LocalUnchanged
  <2>1. HandlesOk'
    BY <1>4, PausedOk DEF TransferIInv, HandlesOk
  <2> QED
    BY <1>1, <1>4, <2>1, CallbackOk
<1> QED
  BY <1>2, <1>3, <1>4 DEF DeliverBeyondWindow

\* The whole of AppendOrPause.
LEMMA AppendOrPauseOk ==
  ASSUME TransferIInv, NEW h \in Handles, NEW n \in Chunks,
         NEW buffered \in {0, handle[h].buffer.size},
         buffered + n <= PacketBytes, handle[h].next_offset + n <= WindowBytes,
         handle[h].range # NoRange,
         AppendOrPause(h, buffered, n)
  PROVE  TransferIInv'
<1>1. HandlesOk' /\ MemoryBounded' /\ memory' \in Int
  BY AppendOk DEF TransferIInv
<1>2. /\ LocalUnchanged /\ pc' = "perform" /\ current' = 1 /\ arriving' = 0
      /\ UNCHANGED <<seen, pending_ranges, watermarks>>
  BY DEF AppendOrPause, LocalUnchanged
<1>3. QueueOk'
  BY <1>2, QueueFrame DEF TransferIInv
<1>4. StepOk' /\ pc' \in Steps
  BY <1>2 DEF StepOk, Steps
<1>5. current' \in 1 .. HandleCount + 1 /\ arriving' \in 0 .. ChunkBytes
  BY <1>2, Sizes
<1>6. NetworkTyped'
  BY <1>1, <1>2, <1>4, <1>5 DEF TransferIInv, NetworkTyped
<1> QED
  BY <1>1, <1>3, <1>4, <1>6 DEF TransferIInv

LEMMA DeliverOk ==
  ASSUME TransferIInv, NEW h \in Handles, NEW n \in Chunks, Deliver(h, n)
  PROVE  TransferIInv'
<1>1. handle[h].range # NoRange
  BY DEF Deliver, Receiving, TransferIInv, HandlesOk, HandleOk
<1> QED
  BY <1>1, AppendOrPauseOk DEF Deliver, Fits

LEMMA AppendArrivedOk ==
  ASSUME TransferIInv, AppendArrived
  PROVE  TransferIInv'
<1>1. /\ current \in Handles /\ handle[current].range # NoRange /\ arriving \in Chunks
      /\ handle[current].next_offset + arriving <= WindowBytes
  BY DEF AppendArrived, At, TransferIInv, StepOk
<1>2. 0 + arriving <= PacketBytes
  BY <1>1, Sizes DEF Chunks
<1> QED
  BY <1>1, <1>2, AppendOrPauseOk DEF AppendArrived

LEMMA DeliverAfterFlushOk ==
  ASSUME TransferIInv, NEW h \in Handles, NEW n \in Chunks, DeliverAfterFlush(h, n)
  PROVE  TransferIInv'
<1>1. /\ uncounted = 0 /\ FlushBuffer(h) /\ handle[h].next_offset + n <= WindowBytes
      /\ ~(handle[h].buffer.size + n <= PacketBytes) /\ handle[h].in_multi
      /\ handle' = [handle EXCEPT ![h].buffer = EmptyBuffer]
      /\ pc' = "append" /\ current' = h /\ arriving' = n
      /\ UNCHANGED <<seen, pending_ranges, memory>>
  BY DEF DeliverAfterFlush, Overflows, Fits, Receiving, At
<1>2. /\ handle[h].range # NoRange /\ handle[h].buffer.size > 0
  <2>1. handle[h].buffer.size \in Nat
    BY Sizes DEF TransferIInv, HandlesOk, TransferHandles, Buffers
  <2> QED
    BY <1>1, <2>1, Sizes DEF Chunks, TransferIInv, HandlesOk, HandleOk
<1>3. QueueOk' /\ UNCHANGED watermarks
  BY <1>1, <1>2, FlushOk DEF TransferIInv
<1>4. /\ HandlesOk' /\ handle'[h].range = handle[h].range
      /\ handle'[h].next_offset = handle[h].next_offset
  BY <1>1, EmptiedHandlesOk DEF TransferIInv
<1>5. pc' \in Steps /\ StepOk'
  BY <1>1, <1>2, <1>4 DEF Steps, StepOk
<1>6. current' \in 1 .. HandleCount + 1 /\ arriving' \in 0 .. ChunkBytes
  BY <1>1, Sizes DEF Handles, Chunks
<1>7. NetworkTyped' /\ MemoryBounded'
  BY <1>1, <1>3, <1>5, <1>6 DEF TransferIInv, NetworkTyped, MemoryBounded
<1> QED
  BY <1>3, <1>4, <1>5, <1>7 DEF TransferIInv

LEMMA PerformOk ==
  ASSUME TransferIInv, Perform
  PROVE  TransferIInv'
<1> PICK h \in Handles :
      \/ Callback(h) \/ TransferDone(h) \/ DeliverBeyondWindow(h) \/ DeliverAcrossWindow(h)
      \/ TransferBreaks(h)
  BY DEF Perform
<1>1. CASE Callback(h)
  <2> PICK n \in Chunks : Deliver(h, n) \/ DeliverAfterFlush(h, n) \/ DeliverToFullQueue(h, n)
    BY <1>1 DEF Callback
  <2>1. CASE DeliverToFullQueue(h, n)
    BY <2>1, PauseForQueueOk DEF DeliverToFullQueue, Overflows
  <2> QED
    BY <2>1, DeliverOk, DeliverAfterFlushOk
<1>2. CASE TransferDone(h) \/ DeliverAcrossWindow(h) \/ TransferBreaks(h)
  <2>1. Receiving(h) /\ \E result \in {"ok", "failed"} : Ended(h, result)
    BY <1>2 DEF TransferDone, DeliverAcrossWindow, TransferBreaks
  <2> QED
    BY <2>1, EndedOk
<1> QED
  BY <1>1, <1>2, DeliverBeyondWindowOk

-----------------------------------------------------------------------------
(***************************************************************************)
(* The end of a request, and the counter.                                  *)
(***************************************************************************)
LEMMA FlushBlockingOk ==
  ASSUME TransferIInv, FlushBlocking
  PROVE  TransferIInv'
<1>1. /\ uncounted = 0 /\ current <= HandleCount /\ handle[current].buffer.size > 0
      /\ FlushBuffer(current) /\ pc \in {"finalize", "drain"}
      /\ handle' = [handle EXCEPT ![current].buffer = EmptyBuffer]
      /\ UNCHANGED <<pc, current, arriving, seen, pending_ranges, memory>>
  BY DEF FlushBlocking, At
<1>2. current \in Handles
  BY <1>1, Sizes DEF TransferIInv, NetworkTyped, Handles
<1>3. QueueOk' /\ UNCHANGED watermarks
  BY <1>1, <1>2, FlushOk DEF TransferIInv
<1>4. HandlesOk' /\ handle'[current].range = handle[current].range
  BY <1>1, <1>2, EmptiedHandlesOk DEF TransferIInv
<1>5. StepOk'
  BY <1>1, <1>2, <1>4 DEF TransferIInv, StepOk
<1>6. NetworkTyped' /\ MemoryBounded'
  BY <1>1, <1>3 DEF TransferIInv, NetworkTyped, MemoryBounded
<1> QED
  BY <1>3, <1>4, <1>5, <1>6 DEF TransferIInv

LEMMA FinishRequestOk ==
  ASSUME TransferIInv, FinishRequest
  PROVE  TransferIInv'
<1>1. /\ uncounted = 0 /\ pc = "finalize" /\ Enqueue(RangeComplete(handle[current].range))
      /\ handle' = [handle EXCEPT ![current] = IdleHandle] /\ pc' = "messages" /\ current' = 1
      /\ UNCHANGED <<arriving, seen, pending_ranges, memory>>
  BY DEF FinishRequest, At
<1>2. current \in Handles /\ handle[current].range \in Ranges
  BY <1>1 DEF TransferIInv, StepOk, HandlesOk, TransferHandles
<1>3. QueueOk' /\ UNCHANGED watermarks
  BY <1>1, <1>2, EnqueueOk DEF TransferIInv, QueuePackets
<1>4. HandlesOk'
  BY <1>1, <1>2, IdleOk, OneChanges DEF TransferIInv
<1>5. StepOk' /\ pc' \in Steps /\ current' \in 1 .. HandleCount + 1
  BY <1>1, Sizes DEF StepOk, Steps
<1>6. NetworkTyped' /\ MemoryBounded'
  BY <1>1, <1>3, <1>5 DEF TransferIInv, NetworkTyped, MemoryBounded
<1> QED
  BY <1>3, <1>4, <1>5, <1>6 DEF TransferIInv

\* Nothing of the network changes when the queue is counted or consumed.
LEMMA NetworkFrame ==
  ASSUME TransferIInv, memory' \in Int, memory' <= memory,
         UNCHANGED <<watermarks, pc, current, arriving, seen, pending_ranges, handle>>
  PROVE  HandlesOk' /\ NetworkTyped' /\ StepOk' /\ MemoryBounded'
<1>1. memory \in Int /\ watermarks.high \in Nat
  BY Sizes DEF TransferIInv, NetworkTyped
<1>2. MemoryBounded'
  BY <1>1, Sizes DEF TransferIInv, MemoryBounded
<1> QED
  BY <1>2 DEF TransferIInv, HandlesOk, NetworkTyped, StepOk

LEMMA CountEnqueuedOk ==
  ASSUME TransferIInv, CountEnqueued
  PROVE  TransferIInv'
<1>1. HandlesOk' /\ NetworkTyped' /\ StepOk' /\ MemoryBounded'
  BY NetworkFrame DEF CountEnqueued, TransferIInv, NetworkTyped
<1>2. QueueOk'
  BY DEF CountEnqueued, consumerVars, TransferIInv, QueueOk, QueuedPacketsExact
<1> QED
  BY <1>1, <1>2 DEF TransferIInv

-----------------------------------------------------------------------------
(***************************************************************************)
(* The persistence thread.                                                 *)
(***************************************************************************)
LEMMA Kinds ==
  /\ \A p \in QueuePackets : p # Shutdown /\ p # NoPacket /\ p.kind # "shutdown"
  /\ Shutdown.kind = "shutdown" /\ NoPacket # Shutdown
  /\ \A p \in QueuePackets \cup {Shutdown, NoPacket} :
       p.kind = "data" => p \in DataPackets /\ Released(p) \in Nat
<1>1. \A p \in QueuePackets : p.kind \in {"data", "range_complete"}
  BY DEF QueuePackets, DataPackets, RangeComplete
<1>2. Shutdown.kind = "shutdown" /\ NoPacket.kind = "none"
  BY DEF Shutdown, NoPacket
<1>3. \A r : RangeComplete(r).kind = "range_complete"
  BY DEF RangeComplete
<1>4. \A p \in QueuePackets \cup {Shutdown, NoPacket} : p.kind = "data" => p \in DataPackets
  BY <1>2, <1>3 DEF QueuePackets
<1>5. \A p \in DataPackets : Released(p) \in Nat
  BY Sizes DEF DataPackets, Accounted, Released
<1> QED
  BY <1>1, <1>2, <1>4, <1>5

LEMMA DequeueOk ==
  ASSUME TransferIInv, Dequeue
  PROVE  TransferIInv'
<1>1. /\ consumer = "waiting" /\ consumer' = "taken" /\ packet' = Head(data_queue)
      /\ data_queue # <<>> /\ data_queue' = Tail(data_queue)
      /\ UNCHANGED <<queued_packets, uncounted>>
  BY DEF Dequeue, Take, NetworkUnchanged
<1>2. /\ packet' \in QueuePackets /\ data_queue' \in Seq(QueuePackets)
      /\ Len(data_queue) \in Nat /\ Len(data_queue') = Len(data_queue) - 1
  BY <1>1 DEF TransferIInv, QueueOk
<1>3. packet' # Shutdown
  BY <1>2, Kinds
<1>4. QueuedPacketsExact'
  BY <1>1, <1>2, <1>3 DEF TransferIInv, QueueOk, QueuedPacketsExact
<1>5. QueueOk'
  BY <1>1, <1>2, <1>4 DEF TransferIInv, QueueOk
<1>6. HandlesOk' /\ NetworkTyped' /\ StepOk' /\ MemoryBounded'
  BY NetworkFrame DEF Dequeue, Take, NetworkUnchanged, TransferIInv, NetworkTyped
<1> QED
  BY <1>5, <1>6 DEF TransferIInv

LEMMA DequeueShutdownOk ==
  ASSUME TransferIInv, DequeueShutdown
  PROVE  TransferIInv'
<1>1. /\ consumer = "waiting" /\ consumer' = "taken" /\ packet' = Shutdown
      /\ UNCHANGED <<data_queue, queued_packets, uncounted>>
  BY DEF DequeueShutdown, Take, NetworkUnchanged
<1>2. QueueOk'
  BY <1>1 DEF TransferIInv, QueueOk, QueuedPacketsExact
<1>3. HandlesOk' /\ NetworkTyped' /\ StepOk' /\ MemoryBounded'
  BY NetworkFrame DEF DequeueShutdown, Take, NetworkUnchanged, TransferIInv, NetworkTyped
<1> QED
  BY <1>2, <1>3 DEF TransferIInv

LEMMA CountDequeuedOk ==
  ASSUME TransferIInv, CountDequeued
  PROVE  TransferIInv'
<1>1. /\ consumer = "taken" /\ consumer' = "counted"
      /\ queued_packets' = queued_packets - (IF Counted(packet) THEN 1 ELSE 0)
      /\ UNCHANGED <<data_queue, packet, uncounted>>
  BY DEF CountDequeued, NetworkUnchanged
<1>3. Counted(packet) <=> packet # Shutdown
  <2>1. packet \in QueuePackets \cup {Shutdown, NoPacket}
    BY DEF TransferIInv, QueueOk
  <2>2. NoPacket.kind # "shutdown"
    BY DEF NoPacket
  <2> QED
    BY <2>1, <2>2, Kinds DEF Counted
<1>4. /\ queued_packets \in Int /\ Len(data_queue) \in Nat /\ uncounted \in Int
  BY DEF TransferIInv, QueueOk
<1>5. QueuedPacketsExact' /\ queued_packets' \in Int
  BY <1>1, <1>3, <1>4 DEF TransferIInv, QueueOk, QueuedPacketsExact
<1>6. QueueOk'
  BY <1>1, <1>5 DEF TransferIInv, QueueOk
<1>7. HandlesOk' /\ NetworkTyped' /\ StepOk' /\ MemoryBounded'
  BY NetworkFrame DEF CountDequeued, NetworkUnchanged, TransferIInv, NetworkTyped
<1> QED
  BY <1>6, <1>7 DEF TransferIInv

\* A packet is done with, or the thread gives up: the queue stays, memory may be released.
LEMMA ConsumedOk ==
  ASSUME TransferIInv, consumer # "taken", consumer' \in {"waiting", "ended"},
         packet' \in {packet, NoPacket}, UNCHANGED <<data_queue, queued_packets>>,
         NetworkUnchanged, memory' \in Int, memory' <= memory
  PROVE  TransferIInv'
<1>1. QueueOk'
  BY DEF NetworkUnchanged, TransferIInv, QueueOk, QueuedPacketsExact
<1>2. HandlesOk' /\ NetworkTyped' /\ StepOk' /\ MemoryBounded'
  BY NetworkFrame DEF NetworkUnchanged
<1> QED
  BY <1>1, <1>2 DEF TransferIInv

LEMMA HandledOk ==
  ASSUME TransferIInv,
         HandleData \/ HandleRangeComplete \/ HandleShutdown \/ HandlePacketFails \/ FlushFails
  PROVE  TransferIInv'
<1>1. /\ consumer # "taken" /\ consumer' \in {"waiting", "ended"}
      /\ packet' \in {packet, NoPacket} /\ UNCHANGED <<data_queue, queued_packets>>
      /\ NetworkUnchanged
  BY DEF HandleData, HandleRangeComplete, HandleShutdown, HandlePacketFails, FlushFails,
         PacketHandled
<1>2. \/ memory' = memory
      \/ packet.kind = "data" /\ memory' = memory - Released(packet)
      \/ memory' = memory - 0
  BY DEF HandleData, HandleRangeComplete, HandleShutdown, HandlePacketFails, FlushFails
<1>3. packet.kind = "data" => Released(packet) \in Nat
  BY Kinds DEF TransferIInv, QueueOk
<1>4. memory' \in Int /\ memory' <= memory
  BY <1>2, <1>3 DEF TransferIInv, NetworkTyped
<1> QED
  BY <1>1, <1>4, ConsumedOk

-----------------------------------------------------------------------------
LEMMA NextOk ==
  ASSUME TransferIInv, Next
  PROVE  TransferIInv'
<1>1. CASE Orchestrator
  BY <1>1, StepsOk, ArmTransferOk, ApplyMemoryBackpressureOk, ResumeTransferOk, AppendArrivedOk,
     ReadMessageOk, FlushBlockingOk, FinishRequestOk, ReleaseTransferOk, CountEnqueuedOk
  DEF Orchestrator
<1>2. CASE Persistence
  BY <1>2, DequeueOk, DequeueShutdownOk, CountDequeuedOk, HandledOk DEF Persistence
<1> QED
  BY <1>1, <1>2, PerformOk, StepsOk, HandledOk DEF Next

LEMMA StutterOk ==
  ASSUME TransferIInv, UNCHANGED vars
  PROVE  TransferIInv'
BY DEF vars, consumerVars, TransferIInv, HandlesOk, NetworkTyped, StepOk, MemoryBounded, QueueOk,
       QueuedPacketsExact

\* The transfer's inductive invariant: whatever the server sends, whatever fails and
\* however the two threads interleave, from any of the allowed sizes and watermarks.
THEOREM TransferInvariant == Spec => []TransferIInv
<1>1. TransferIInv /\ [Next]_vars => TransferIInv'
  BY NextOk, StutterOk
<1> QED
  BY <1>1, InitOk, PTL DEF Spec

\* No resume is lost: libcurl's view of a paused transfer and the record of its pauses
\* (write_callback, resume_paused_transfers) agree.
COROLLARY PausesCorrect == Spec => []PausedForAReason
<1>1. TransferIInv => PausedForAReason
  BY PausesOk DEF TransferIInv
<1> QED
  BY <1>1, TransferInvariant, PTL

\* SessionState::queued_packets is the length of the queue, but for packets in transit.
COROLLARY CounterCorrect == Spec => []QueuedPacketsExact
<1>1. TransferIInv => QueuedPacketsExact
  BY DEF TransferIInv, QueueOk
<1> QED
  BY <1>1, TransferInvariant, PTL

\* Backpressure works: memory passes the high watermark by a first chunk only.
COROLLARY WatermarkCorrect == Spec => []MemoryBounded
<1>1. TransferIInv => MemoryBounded
  BY DEF TransferIInv
<1> QED
  BY <1>1, TransferInvariant, PTL

=============================================================================
