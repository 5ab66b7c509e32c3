-------------------------- MODULE PersistenceThread --------------------------
(***************************************************************************)
(* The persistence thread (persistence/persistence_thread.cpp): it takes   *)
(* packets from the data queue, restores their order within each range,    *)
(* gathers them into aligned writes, advances persisted_offset and the     *)
(* block bitmap, and has a worker of the thread pool flush the file and    *)
(* save the recovery metadata in the background.                           *)
(*                                                                         *)
(* Three actors run concurrently: the orchestrator, which enqueues packets *)
(* and in the end stop()s the thread; the thread, whose program counter is *)
(* pc; and the flush task, whose counter is pending_flush.                 *)
(*                                                                         *)
(* Bytes are offsets.  written holds the offsets whose right content is in *)
(* the operating system's cache of the file, durable those that survive a  *)
(* power failure.  A crash may come at any state: what the next process    *)
(* finds is durable, part of written, and metadata.                        *)
(***************************************************************************)
EXTENDS Geometry, Sequences, FiniteSets

CONSTANTS RangeIds,      \* the ranges the orchestrator registered
          RangeFirst,    \* start_offset, by range
          RangeLast,     \* end_offset, by range
          Packets,       \* the data packets of this run, [range, offset, size]
          Reordered,     \* may the packets of a range be queued out of order
          IoAlignment,   \* DownloadOptions::io_alignment
          MaxGapBytes,   \* DownloadOptions::max_gap_bytes
          MayFail        \* may write, fsync, read and save fail

PacketEnd(p) == p.offset + p.size
PacketBytes(p) == p.offset .. (PacketEnd(p) - 1)
RangeBytes(r) == RangeFirst[r] .. RangeLast[r]

ASSUME PersistenceAssumption ==
  /\ IoAlignment \in Nat \ {0}
  /\ MaxGapBytes \in Nat
  /\ Reordered \in BOOLEAN /\ MayFail \in BOOLEAN
  /\ RangeFirst \in [RangeIds -> Bytes] /\ RangeLast \in [RangeIds -> Bytes]
  /\ \A r \in RangeIds : RangeFirst[r] <= RangeLast[r]
  /\ \A r, q \in RangeIds : r # q => RangeBytes(r) \cap RangeBytes(q) = {}
  \* A byte is in one packet.  The packets of a range need not be its bytes: without Range
  \* support the one request is for the whole file (RangeScheduler::next_window).
  /\ Packets \subseteq [range : RangeIds, offset : Bytes, size : 1 .. TotalSize]
  /\ \A p, q \in Packets : p # q => PacketBytes(p) \cap PacketBytes(q) = {}

VARIABLES
  unsent,             \* packets the network still has to deliver
  uncompleted,        \* ranges whose range_complete was not enqueued
  data_queue,         \* what the orchestrator's producer token enqueued
  stopping,           \* stop() was called and enqueued shutdown
  pc,                 \* the persistence thread
  packet,             \* the packet in its hands
  persisted_offset,   \* RangeContext fields, by range
  tail_buffer,
  out_of_order_queue,
  pause_for_gap,
  marked_finished,    \* the finished ranges
  bitmap,             \* the shared AtomicBlockBitmap
  error,              \* error_ is set
  pending_flush,      \* the future pending_flush_ and the task behind it
  snapshot,           \* the MetadataState the task captured
  vdl_offset,         \* SessionState::vdl_offset
  written, durable, metadata,   \* the disk
  flush_failed        \* history: a flush task returned an error

networkVars == <<unsent, uncompleted>>
rangeVars == <<persisted_offset, tail_buffer, out_of_order_queue, pause_for_gap>>
flushVars == <<pending_flush, snapshot>>
vars == <<networkVars, data_queue, stopping, pc, packet, rangeVars, marked_finished, bitmap,
          error, flushVars, vdl_offset, written, durable, metadata, flush_failed>>

NoTail == [offset |-> 0, length |-> 0]
\* Slip: the rest of a packet is not copied.
TailBufferDropped(from, upto) == NoTail
TailBuffer(from, upto) ==
  IF from = upto THEN NoTail ELSE [offset |-> from, length |-> upto - from]
TailEnd(t) == t.offset + t.length
TailBytes(t) == t.offset .. (TailEnd(t) - 1)

NoPacket == [kind |-> "none"]
DataPacket(p) == [kind |-> "data", range |-> p.range, offset |-> p.offset, size |-> p.size]
RangeComplete(r) == [kind |-> "range_complete", range |-> r]
ShutdownPacket == [kind |-> "shutdown"]

DataPackets == {DataPacket(p) : p \in Packets}

-----------------------------------------------------------------------------
\* The orchestrator: packets as they arrive, range_complete after the last
\* packet of a range, stop() when everything was sent or the download failed.

EnqueueData(p) ==
  /\ ~stopping
  /\ p \in unsent
  /\ ~Reordered => \A q \in unsent : q.range = p.range => p.offset <= q.offset
  /\ unsent' = unsent \ {p}
  /\ data_queue' = Append(data_queue, DataPacket(p))
  /\ UNCHANGED <<uncompleted, stopping, pc, packet, rangeVars, marked_finished, bitmap,
                 error, flushVars, vdl_offset, written, durable, metadata, flush_failed>>

\* finalize_completed_request, its checks passed, takes the gap flag down.  A
\* range with unleased bytes goes back to the deque; the last request of a range
\* announces it.
RequestEnds(r) ==
  /\ ~stopping
  /\ r \in pause_for_gap
  /\ pause_for_gap' = pause_for_gap \ {r}
  /\ UNCHANGED <<networkVars, data_queue, stopping, pc, packet, persisted_offset, tail_buffer,
                 out_of_order_queue, marked_finished, bitmap, error, flushVars, vdl_offset,
                 written, durable, metadata, flush_failed>>

EnqueueComplete(r) ==
  /\ ~stopping
  /\ r \in uncompleted
  /\ \A p \in unsent : p.range # r
  /\ pause_for_gap' = pause_for_gap \ {r}
  /\ uncompleted' = uncompleted \ {r}
  /\ data_queue' = Append(data_queue, RangeComplete(r))
  /\ UNCHANGED <<unsent, stopping, pc, packet, persisted_offset, tail_buffer,
                 out_of_order_queue, marked_finished, bitmap, error, flushVars, vdl_offset,
                 written, durable, metadata, flush_failed>>

StopThread ==
  /\ ~stopping
  /\ stopping' = TRUE
  /\ UNCHANGED <<networkVars, data_queue, pc, packet, rangeVars, marked_finished, bitmap,
                 error, flushVars, vdl_offset, written, durable, metadata, flush_failed>>

-----------------------------------------------------------------------------
\* append_bytes.  What was in the tail buffer and the packet are one interval
\* [from, upto).  Its whole units of io_alignment are written; the rest becomes
\* the tail buffer.  A rest that ends the file is written only if it was
\* gathered in the tail buffer in two steps, where is_last_chunk is tested: on
\* top of an older tail, or past the head of a unit that is not aligned.

AppendFrom(r, p) == IF tail_buffer[r].length > 0 THEN tail_buffer[r].offset ELSE p.offset

\* Slip: a rest of exactly one unit is left in the tail buffer.
WholeUnitsShort(from, upto) == from + ((upto - from - 1) \div IoAlignment) * IoAlignment
WholeUnits(from, upto) == from + ((upto - from) \div IoAlignment) * IoAlignment

FlushesAtEof(r, from, upto) ==
  LET rest == WholeUnits(from, upto)
      head == rest % IoAlignment
  IN /\ upto = TotalSize
     /\ \/ rest = from /\ tail_buffer[r].length > 0
        \/ head # 0 /\ upto - rest > IoAlignment - head

WriteUpto(r, from, upto) ==
  IF FlushesAtEof(r, from, upto) THEN upto ELSE WholeUnits(from, upto)

\* The tail buffer, if any, ends where the packet begins.
Continues(r, p) == tail_buffer[r].length > 0 => TailEnd(tail_buffer[r]) = p.offset

AppendBytes(r, p) ==
  LET from == AppendFrom(r, p)
      upto == PacketEnd(p)
      cut == WriteUpto(r, from, upto)
  IN /\ Continues(r, p)
     /\ written' = written \cup (from .. (cut - 1))
     /\ bitmap' = MarkDownloading(bitmap, from, cut)
     /\ tail_buffer' = [tail_buffer EXCEPT ![r] = TailBuffer(cut, upto)]
     /\ UNCHANGED error

\* A write fails after n whole units.  The tail buffer of a range is not
\* looked at after an error, so what the failure leaves in it is not modelled.
AppendFails(r, p) ==
  LET from == AppendFrom(r, p)
  IN /\ MayFail \/ ~Continues(r, p)
     /\ \E n \in 0 .. ((PacketEnd(p) - from) \div IoAlignment) :
          /\ written' = written \cup (from .. (from + n * IoAlignment - 1))
          /\ bitmap' = MarkDownloading(bitmap, from, from + n * IoAlignment)
     /\ error' = TRUE
     /\ UNCHANGED tail_buffer

\* append_bytes of p, which the thread now holds: published next, or an error.
AppendPacket(r, p) ==
  /\ packet' = p
  /\ \/ AppendBytes(r, p) /\ pc' = "publish"
     \/ AppendFails(r, p) /\ pc' = "poll"

\* Slip: the tail is not written when the range is complete.
FlushTailSkipped(r) == UNCHANGED <<written, durable, bitmap, tail_buffer>>

\* flush_tail: the unit the tail begins is written whole, zeros behind the tail.
FlushTail(r) ==
  LET t == tail_buffer[r]
      upto == Min2(t.offset + IoAlignment, TotalSize)
      zeros == TailEnd(t) .. (upto - 1)
  IN IF t.length = 0
       THEN UNCHANGED <<written, durable, bitmap, tail_buffer>>
       ELSE /\ written' = (written \cup TailBytes(t)) \ zeros
            /\ durable' = durable \ zeros
            /\ bitmap' = MarkDownloading(bitmap, t.offset, upto)
            /\ tail_buffer' = [tail_buffer EXCEPT ![r] = NoTail]

-----------------------------------------------------------------------------
\* process_loop and the handlers it dispatches to.

\* The queue asks its newest producer first, the one shutdown was enqueued
\* with, and an older one only if that holds more (try_dequeue): shutdown comes
\* first as soon as no more than one packet is left.
TakesShutdown == stopping /\ Len(data_queue) <= 1

Gap(r, queue) ==
  /\ queue # {}
  /\ \A p \in queue : p.offset - persisted_offset[r] > MaxGapBytes
\* Slip: the flag is raised and never taken down.
UpdateGapFlagRaises(r, queue) ==
  pause_for_gap' = IF Gap(r, queue) THEN pause_for_gap \cup {r} ELSE pause_for_gap
UpdateGapFlag(r, queue) ==
  pause_for_gap' = IF Gap(r, queue) THEN pause_for_gap \cup {r} ELSE pause_for_gap \ {r}

DequeueData ==
  /\ pc = "idle" /\ ~TakesShutdown
  /\ data_queue # <<>>
  /\ LET p == Head(data_queue)
         r == p.range
         waiting == out_of_order_queue[r] \cup {p}
     IN /\ p.kind = "data"
        /\ IF p.offset = persisted_offset[r]
             THEN /\ AppendPacket(r, p)
                  /\ UNCHANGED <<out_of_order_queue, pause_for_gap>>
             ELSE /\ out_of_order_queue' = [out_of_order_queue EXCEPT ![r] = waiting]
                  /\ UpdateGapFlag(r, waiting)
                  /\ packet' = p
                  /\ pc' = "schedule"
                  /\ UNCHANGED <<tail_buffer, written, bitmap, error>>
  /\ data_queue' = Tail(data_queue)
  /\ UNCHANGED <<networkVars, stopping, persisted_offset, marked_finished, flushVars,
                 vdl_offset, durable, metadata, flush_failed>>

\* The frontier of the range advances over the packet just appended.
Publish ==
  /\ pc = "publish"
  /\ persisted_offset' = [persisted_offset EXCEPT ![packet.range] = @ + packet.size]
  /\ bitmap' = MarkFinished(bitmap, RangeFirst[packet.range], persisted_offset'[packet.range])
  /\ pc' = "drain"
  /\ UNCHANGED <<networkVars, data_queue, stopping, packet, tail_buffer, out_of_order_queue,
                 pause_for_gap, marked_finished, error, flushVars, vdl_offset, written,
                 durable, metadata, flush_failed>>

\* drain_ordered_packets, one turn of its loop: it looks at the first packet only, so one
\* behind the frontier would hold up all others.
\* Slip: only what lies behind the frontier is taken.
NextInOrderBehind(r) == {p \in out_of_order_queue[r] : p.offset < persisted_offset[r]}
NextInOrder(r) ==
  {p \in out_of_order_queue[r] :
     /\ \A q \in out_of_order_queue[r] : p.offset <= q.offset
     /\ p.offset = persisted_offset[r]}

Drain ==
  /\ pc = "drain"
  /\ LET r == packet.range
         next == NextInOrder(r)
     IN IF next = {}
          THEN /\ UpdateGapFlag(r, out_of_order_queue[r])
               /\ pc' = "schedule"
               /\ UNCHANGED <<packet, tail_buffer, out_of_order_queue, written, bitmap, error>>
          ELSE /\ \E p \in next : AppendPacket(r, p)
               /\ out_of_order_queue' = [out_of_order_queue EXCEPT ![r] = @ \ next]
               /\ UNCHANGED pause_for_gap
  /\ UNCHANGED <<networkVars, data_queue, stopping, persisted_offset, marked_finished,
                 flushVars, vdl_offset, durable, metadata, flush_failed>>

\* handle_range_complete writes the tail, then publishes the range as finished.
DequeueComplete ==
  /\ pc = "idle" /\ ~TakesShutdown
  /\ data_queue # <<>>
  /\ Head(data_queue).kind = "range_complete"
  /\ packet' = Head(data_queue)
  /\ \/ /\ FlushTail(packet'.range)
        /\ pc' = "finish"
        /\ UNCHANGED error
     \/ /\ MayFail /\ tail_buffer[packet'.range].length > 0
        /\ error' = TRUE
        /\ pc' = "poll"
        /\ UNCHANGED <<written, durable, bitmap, tail_buffer>>
  /\ data_queue' = Tail(data_queue)
  /\ UNCHANGED <<networkVars, stopping, persisted_offset, out_of_order_queue, pause_for_gap,
                 marked_finished, flushVars, vdl_offset, metadata, flush_failed>>

FinishRange ==
  /\ pc = "finish"
  /\ LET r == packet.range
     IN /\ bitmap' = MarkFinished(bitmap, RangeFirst[r], persisted_offset[r])
        /\ marked_finished' = marked_finished \cup {r}
  /\ pc' = "schedule"
  /\ UNCHANGED <<networkVars, data_queue, stopping, packet, rangeVars, error, flushVars,
                 vdl_offset, written, durable, metadata, flush_failed>>

DequeueShutdown ==
  /\ pc = "idle" /\ TakesShutdown
  /\ packet' = ShutdownPacket
  /\ pc' = "schedule"
  /\ UNCHANGED <<networkVars, data_queue, stopping, rangeVars, marked_finished, bitmap,
                 error, flushVars, vdl_offset, written, durable, metadata, flush_failed>>

DequeueTimesOut ==
  /\ pc = "idle"
  /\ ~stopping /\ data_queue = <<>>
  /\ packet' = NoPacket
  /\ pc' = "poll"
  /\ UNCHANGED <<networkVars, data_queue, stopping, rangeVars, marked_finished, bitmap,
                 error, flushVars, vdl_offset, written, durable, metadata, flush_failed>>

-----------------------------------------------------------------------------
\* maybe_schedule_flush.

\* Slips: a failed task is never seen to be ready; neither is a successful one.
FailedFlushRuns == pending_flush \notin {"none", "done"}
DoneFlushRuns == pending_flush # "none"
FlushRunning == pending_flush \in {"flushing", "reading_vdl", "sampling", "saving"}

\* build_metadata_state: the bitmap with every persisted_offset projected on it.
\* The offsets themselves are saved too; loading them projects them again, which
\* adds nothing.
\* Slip: only the ranges of this run are projected.
SnapshotOfRanges ==
  [b \in Blocks |->
     IF \E r \in RangeIds : Covers(RangeFirst[r], persisted_offset[r], b)
       THEN "finished"
       ELSE "empty"]
SnapshotBitmap ==
  [b \in Blocks |->
     IF \E r \in RangeIds : Covers(RangeFirst[r], persisted_offset[r], b)
       THEN "finished"
       ELSE bitmap[b]]
BuildMetadataState ==
  [bitmap |-> SnapshotBitmap, vdl |-> ContiguousFinished(SnapshotBitmap), samples |-> {}]

SubmitFlush ==
  /\ ~error /\ ~FlushRunning
  /\ snapshot' = BuildMetadataState
  /\ pending_flush' = "flushing"

\* Unforced, too few bytes were written and too little time has passed.
SkipFlush(force) ==
  /\ error \/ FlushRunning \/ ~force
  /\ UNCHANGED flushVars

\* The flush that ends the handling of a packet, forced except after data.
Schedule ==
  /\ pc = "schedule"
  /\ SubmitFlush \/ SkipFlush(packet.kind # "data")
  /\ pc' = IF packet.kind = "shutdown" THEN "exit" ELSE "poll"
  /\ UNCHANGED <<networkVars, data_queue, stopping, packet, rangeVars, marked_finished, bitmap,
                 error, vdl_offset, written, durable, metadata, flush_failed>>

\* poll_pending_flush, and wait_pending_flush once the task is done.
TakeFlushResult ==
  /\ error' = (error \/ pending_flush = "failed")
  /\ vdl_offset' = IF pending_flush = "done" THEN ContiguousFinished(bitmap) ELSE vdl_offset
  /\ pending_flush' = IF FlushRunning THEN pending_flush ELSE "none"

PollPendingFlush ==
  /\ pc = "poll"
  /\ TakeFlushResult
  /\ pc' = "housekeep"
  /\ UNCHANGED <<networkVars, data_queue, stopping, packet, rangeVars, marked_finished, bitmap,
                 snapshot, written, durable, metadata, flush_failed>>

\* The unforced flush of every turn of the loop, which ends at an error.
HousekeepWith(Flush) ==
  /\ pc = "housekeep"
  /\ Flush
  /\ pc' = IF error THEN "exit" ELSE "idle"
  /\ UNCHANGED <<networkVars, data_queue, stopping, packet, rangeVars, marked_finished, bitmap,
                 error, vdl_offset, written, durable, metadata, flush_failed>>

HousekeepFlushes == HousekeepWith(SubmitFlush)
HousekeepSkips == HousekeepWith(SkipFlush(FALSE))

WaitPendingFlush ==
  /\ pc = "exit"
  /\ ~FlushRunning
  /\ TakeFlushResult
  /\ pc' = "stopped"
  /\ UNCHANGED <<networkVars, data_queue, stopping, packet, rangeVars, marked_finished, bitmap,
                 snapshot, written, durable, metadata, flush_failed>>

-----------------------------------------------------------------------------
\* The flush task, on a worker of the thread pool.

TaskFails ==
  /\ MayFail
  /\ pending_flush' = "failed"
  /\ flush_failed' = TRUE

TaskUnchanged == <<networkVars, data_queue, stopping, pc, packet, rangeVars, marked_finished,
                   bitmap, error, vdl_offset, written>>

FlushFile ==
  /\ pending_flush = "flushing"
  /\ \/ /\ durable' = written
        /\ pending_flush' = "reading_vdl"
        /\ UNCHANGED flush_failed
     \/ /\ TaskFails
        /\ UNCHANGED durable
  /\ UNCHANGED <<TaskUnchanged, snapshot, metadata>>

\* The VDL is read from the live bitmap, the rest was captured by the snapshot.
\* Slip: the bitmap too is taken after the flush.
LateSnapshot == [snapshot EXCEPT !.vdl = ContiguousFinished(bitmap), !.bitmap = bitmap]
SnapshotWithVdl == [snapshot EXCEPT !.vdl = ContiguousFinished(bitmap)]

ReadVdl ==
  /\ pending_flush = "reading_vdl"
  /\ snapshot' = SnapshotWithVdl
  /\ pending_flush' = "sampling"
  /\ UNCHANGED <<TaskUnchanged, durable, metadata, flush_failed>>

\* A sample is the content of a block beyond the VDL, read from the file's
\* cache; blocks that cannot be read get none.
BuildCrcSamples ==
  /\ pending_flush = "sampling"
  /\ LET beyond == {b \in FinishedBlocks(snapshot.bitmap) : BlockBegin(b) >= snapshot.vdl}
     IN \E read \in IF MayFail THEN SUBSET beyond ELSE {beyond} :
          snapshot' = [snapshot EXCEPT !.samples =
                         {[block |-> b, content |-> BlockBytes(b) \cap written] : b \in read}]
  /\ pending_flush' = "saving"
  /\ UNCHANGED <<TaskUnchanged, durable, metadata, flush_failed>>

NoMetadata == [bitmap |-> EmptyBitmap, vdl |-> 0, samples |-> {}]

\* A failed save leaves the old metadata or, the old file removed, none.
SaveMetadata ==
  /\ pending_flush = "saving"
  /\ \/ /\ metadata' = snapshot
        /\ pending_flush' = "done"
        /\ UNCHANGED flush_failed
     \/ /\ TaskFails
        /\ metadata' \in {metadata, NoMetadata}
  /\ UNCHANGED <<TaskUnchanged, snapshot, durable>>

-----------------------------------------------------------------------------
\* What a resumed download finds done: every byte that is in no range.
ResumedBytes == Bytes \ UNION {RangeBytes(r) : r \in RangeIds}
ResumedBitmap ==
  [b \in Blocks |-> IF BlockBytes(b) \subseteq ResumedBytes THEN "finished" ELSE "empty"]
ResumedMetadata ==
  [bitmap |-> ResumedBitmap, vdl |-> ContiguousFinished(ResumedBitmap),
   samples |-> {[block |-> b, content |-> BlockBytes(b)] :
                  b \in {c \in FinishedBlocks(ResumedBitmap) :
                           BlockBegin(c) >= ContiguousFinished(ResumedBitmap)}}]

Init ==
  /\ unsent = Packets
  /\ uncompleted = RangeIds
  /\ data_queue = <<>>
  /\ stopping = FALSE
  /\ pc = "idle"
  /\ packet = NoPacket
  /\ persisted_offset = RangeFirst
  /\ tail_buffer = [r \in RangeIds |-> NoTail]
  /\ out_of_order_queue = [r \in RangeIds |-> {}]
  /\ pause_for_gap = {}
  /\ marked_finished = {}
  /\ bitmap = ResumedBitmap
  /\ error = FALSE
  /\ pending_flush = "none"
  /\ snapshot = NoMetadata
  /\ vdl_offset = ContiguousFinished(ResumedBitmap)
  /\ written = ResumedBytes
  /\ durable = ResumedBytes
  /\ metadata = ResumedMetadata
  /\ flush_failed = FALSE

Network ==
  \/ \E p \in Packets : EnqueueData(p)
  \/ \E r \in RangeIds : RequestEnds(r) \/ EnqueueComplete(r)
  \/ StopThread

Thread ==
  \/ DequeueData
  \/ Publish
  \/ Drain
  \/ DequeueComplete
  \/ FinishRange
  \/ DequeueShutdown
  \/ DequeueTimesOut
  \/ Schedule
  \/ PollPendingFlush
  \/ HousekeepFlushes
  \/ HousekeepSkips
  \/ WaitPendingFlush

FlushTask ==
  \/ FlushFile
  \/ ReadVdl
  \/ BuildCrcSamples
  \/ SaveMetadata

Next == Network \/ Thread \/ FlushTask

Spec == Init /\ [][Next]_vars

\* The thread and the worker are scheduled; flush_interval elapses again and
\* again, and with it the unforced flush comes due.
Fairness ==
  /\ WF_vars(Thread)
  /\ WF_vars(FlushTask)
  /\ SF_vars(HousekeepFlushes)

FairSpec == Spec /\ Fairness

-----------------------------------------------------------------------------
(***************************************************************************)
(* Properties.                                                             *)
(***************************************************************************)
FinishedBytes(bm) == UNION {BlockBytes(b) : b \in FinishedBlocks(bm)}
Delivered(r) == RangeFirst[r] .. (persisted_offset[r] - 1)
QueuedPackets == {data_queue[i] : i \in 1 .. Len(data_queue)}

Metadata == [bitmap : Bitmaps, vdl : 0 .. TotalSize,
             samples : SUBSET [block : Blocks, content : SUBSET Bytes]]
ControlPackets == {RangeComplete(r) : r \in RangeIds}

\* The variables hold values the program's types allow.
TypeOK ==
  /\ unsent \in SUBSET Packets
  /\ uncompleted \in SUBSET RangeIds
  /\ data_queue \in Seq(DataPackets \cup ControlPackets)
  /\ stopping \in BOOLEAN
  /\ pc \in {"idle", "publish", "drain", "finish", "schedule", "poll", "housekeep",
             "exit", "stopped"}
  /\ packet \in DataPackets \cup ControlPackets \cup {NoPacket, ShutdownPacket}
  /\ persisted_offset \in [RangeIds -> 0 .. TotalSize]
  /\ tail_buffer \in [RangeIds -> [offset : Bytes, length : 0 .. (IoAlignment - 1)]]
  /\ out_of_order_queue \in [RangeIds -> SUBSET DataPackets]
  /\ pause_for_gap \in SUBSET RangeIds
  /\ marked_finished \in SUBSET RangeIds
  /\ bitmap \in Bitmaps
  /\ error \in BOOLEAN
  /\ pending_flush \in {"none", "flushing", "reading_vdl", "sampling", "saving",
                        "done", "failed"}
  /\ snapshot \in Metadata
  /\ vdl_offset \in 0 .. TotalSize
  /\ written \in SUBSET Bytes
  /\ durable \in SUBSET Bytes
  /\ metadata \in Metadata
  /\ flush_failed \in BOOLEAN

\* A finished block is in the file except for what a tail buffer still holds:
\* no byte the bitmap vouches for is anywhere else, and no tail written with
\* its padding destroys a neighbour's bytes.
FinishedBytesAreHeld ==
  FinishedBytes(bitmap) \subseteq written \cup UNION {TailBytes(tail_buffer[r]) : r \in RangeIds}

\* The bytes of a block that are in whole units of the file: all, but for the rest a file may
\* end with, which a tail buffer can still hold when its block is finished (see
\* SavedBlocksAreDurable).
UnitBytes(b) == {x \in BlockBytes(b) : x < AlignDown(TotalSize, IoAlignment)}

\* Whatever the interleaving of writes, flushes and saves, a crash at any moment leaves
\* metadata whose trusted blocks are on stable storage, up to the last whole unit of
\* io_alignment of the file: those below its VDL because they were flushed, those beyond
\* because a sample was of content that was all there.  Of the file's last bytes, less than
\* a unit, the code guarantees nothing.
RecoverySafe ==
  \A b \in FinishedBlocks(metadata.bitmap) :
    /\ BlockBegin(b) < metadata.vdl => UnitBytes(b) \subseteq durable
    /\ \A s \in metadata.samples : s.block = b => UnitBytes(b) \subseteq s.content

\* Between two packets nothing is stranded: a packet that was taken from the
\* queue is either part of the frontier or waits strictly beyond it.
NoPacketStranded ==
  pc = "idle" =>
    \A p \in Packets :
      \/ p \in unsent
      \/ DataPacket(p) \in QueuedPackets
      \/ PacketEnd(p) <= persisted_offset[p.range]
      \/ /\ DataPacket(p) \in out_of_order_queue[p.range]
         /\ persisted_offset[p.range] < p.offset

\* The gap flag the orchestrator pauses handles by is never stale: it is up only
\* for ranges that wait behind a hole wider than max_gap_bytes, so a range whose
\* hole was filled is not paused for ever.
GapFlagSound ==
  pc \in {"idle", "poll", "housekeep"} /\ ~error =>
    pause_for_gap \subseteq {r \in RangeIds : Gap(r, out_of_order_queue[r])}

\* RangeStatus::finished, "network and persistence have both confirmed that the range is
\* complete" (models.hpp): then the frontier is at its end, all of it is in the file and all of
\* its blocks are finished.  True of the packets of Range requests; without Range support the
\* packets of the whole file may never meet the frontier of a resumed range.
FinishedRangesComplete ==
  \A r \in marked_finished :
    /\ persisted_offset[r] = RangeLast[r] + 1
    /\ RangeBytes(r) \subseteq written
    /\ RangeBytes(r) \subseteq FinishedBytes(bitmap)

\* Saving metadata never forgets progress: a later save trusts every block an
\* earlier one did, unless it failed and left no metadata.
MetadataOnlyGrows ==
  [][ \/ pending_flush' = "failed" /\ metadata' = NoMetadata
      \/ /\ FinishedBlocks(metadata.bitmap) \subseteq FinishedBlocks(metadata'.bitmap)
         /\ metadata.vdl <= metadata'.vdl ]_metadata

\* stop() ends the thread, whatever is queued, running or failing.
StopsWhenAsked == stopping ~> pc = "stopped"

\* A finished block reaches the saved metadata, as long as the thread neither
\* fails nor is stopped.
ProgressIsSaved ==
  \A b \in Blocks :
    bitmap[b] = "finished" ~>
      metadata.bitmap[b] = "finished" \/ error \/ flush_failed \/ stopping

-----------------------------------------------------------------------------
(***************************************************************************)
(* What comments of the code promise and the code does not keep.           *)
(***************************************************************************)
\* block_bitmap.hpp, finished: all valid bytes of the block are stably on disk
\* and may directly take part in a recovery.
SavedBlocksAreDurable == FinishedBytes(metadata.bitmap) \subseteq durable

\* stop(): shutdown queues behind the data, all of which is consumed before the
\* thread leaves.
ShutdownComesLast == pc = "stopped" /\ ~error => data_queue = <<>>

\* persistence_thread.hpp, error(): the first error of the background is returned.
FlushErrorsReported == pc = "stopped" /\ flush_failed => error
=============================================================================
