# AsyncDownload in TLA+

AsyncDownload downloads one file over several HTTP range requests, writes it to a
temporary file through a single persistence thread, and keeps recovery metadata so
that an interrupted download resumes. These modules describe how it schedules, transfers,
persists and recovers, check it on small instances with TLC and prove the most important
of it with TLAPS.

Paths below are relative to the repository; line numbers are those of the commit
beside this directory.

## The system

| Component | State | Operations | Who calls it |
|---|---|---|---|
| Block bitmap (`src/core/block_bitmap.cpp`) | one atomic state per block: empty, downloading, finished | mark a byte range downloading or finished, longest finished prefix (the VDL), snapshot, restore | persistence thread writes, flush task and orchestrator read |
| Range scheduler (`src/download/range_scheduler.cpp`) | next range id | cut the unfinished file into ranges, split them for the connections, steal the unleased tail of the largest, next window of a range | orchestrator |
| Download engine (`src/download/download_engine.cpp`) | ranges, the deque of pending ranges, transfer handles, failure | arm a window, write callback, end of a request, rollback, pauses, shutdown, finalization | the caller's thread, the *orchestrator* |
| Data queue (vendored `concurrentqueue`) | packets | enqueue (token of the network, implicit producer of shutdown), timed dequeue | orchestrator to persistence thread |
| Persistence thread (`src/persistence/persistence_thread.cpp`) | per range: persisted_offset, tail buffer, out of order map, gap flag; error, pending flush | handle data, range_complete, shutdown; drain; append aligned; schedule, poll and await flushes | its own thread |
| Flush task (lambda in `maybe_schedule_flush`) | the captured snapshot | fsync, read the VDL, sample CRCs, save metadata | a worker of the thread pool |
| Metadata store (`src/metadata/metadata_store.cpp`) | the metadata file | save, load, remove | flush task, orchestrator |
| File writer (`src/storage/file_writer.cpp`) | the temporary file | open, preallocate, write, flush, read, finalize | persistence thread, flush task, orchestrator |
| Memory accounting (`src/core/memory_accounting.cpp`) | one global counter | add, subtract, reset | orchestrator, persistence thread |
| HTTP probe, client API, command line, progress, utilities | none that a download depends on | | |

How they interact: the orchestrator hands a *range* of the file to an idle handle one
*window* at a time. `current_offset` of the range, its lease frontier, is moved past the
window before the request starts. Callbacks gather bytes into packets and enqueue them.
The persistence thread restores the order within a range, writes whole units of
`io_alignment`, keeps the rest in a tail buffer, advances `persisted_offset` and marks
blocks finished; when the orchestrator has leased and received all of a range it sends
`range_complete` through the same queue, which flushes the tail. In the background one
task at a time flushes the file and saves a snapshot of the bitmap. A later run trusts
the finished blocks of that snapshot below its VDL, and those beyond whose CRC sample
still fits.

What is hard in it, and what makes each part correct:

* **Scheduler and dispatch.** Splits, steals, requeues, failures and the shutdown
  interleave. Ranges must stay a partition of the unfinished bytes, with borders on block
  borders; a steal must not touch a request in flight; a range is announced once, after
  its last byte; a failure returns what was not delivered and nothing else; the loop must
  not leave work behind.
* **Persistence.** Packets, a stop and the flush task race. No packet may be stranded, a
  tail padded with zeros must not damage its neighbour, the gap flag must not go stale,
  a finished range must be complete, and the thread must end when asked.
* **Recovery.** The snapshot, the flush, the VDL and the CRC samples are taken at four
  different moments while writing goes on. Whatever metadata a crash leaves must not make
  a later run trust bytes that are not there. Three files change one after another when a
  run starts, saves and ends; a crash between any two must leave a disk the next run
  understands.
* **Backpressure.** Four reasons to pause a handle, each with its own way of resuming:
  no handle may be paused for ever, what is accounted must be released, and the counter
  two threads keep of the queue must not drift.
* **Errors and shutdown.** The first error must surface, everything queued before the
  shutdown must be consumed, and no thread may wait for one that is gone.

`PROJECT.json` lists these hazards one by one at the lines where they bite.

## The modules

**Geometry** holds what all share: blocks, bitmaps and the bitmap's operations as
functions from bitmap to bitmap (`MarkDownloading`, `MarkFinished`, `ContiguousFinished`).
The code's loops are given by what they compute. **Geometry_proofs** holds the lemmas
about blocks and rounding, for every block and file size.

**BlockBitmap** has the loops themselves: `AtomicBlockBitmap` is an array of atomics without a
lock. One writer, the persistence thread, marks intervals block by block (`Mark`, `MarkBlock`,
`MarkReturns`), one reader, the flush task, computes the VDL beside it (`BeginScan`,
`ScanBlock`, `ScanStops`). `expected` is a history variable: the bitmap if every call were one
step, as the other modules take it. Marks of blocks that are finished already are real:
`flush_tail` marks a tail downloading after `update_finished_blocks`. A step reads or writes
one atomic in the writer's order. That is what acquire and release give the reader here: a
finished block it has seen makes all earlier marks visible, so what it returns is the prefix at some
moment of that order. The snapshot and the session's VDL are read by the writer itself;
`restore`, `reset_transient_states` and the checks of a resume run before there are threads
(`ValidateResumed` of Recovery).

**Sums** adds up a function over a finite set, for what buffers and queues hold.
**Sums_proofs** holds what the other proofs need to know of such sums, and that a nonempty set
of naturals has a least element (`SmallestOf`, which Geometry_proofs uses as well).

**RangeScheduler** is the orchestrator's view. `range`, `next_offset` and `request_end`
are the fields of `TransferHandle` by handle; `start_offset`, `end_offset`,
`current_offset`, `completion_notified` and `marked_finished` those of `RangeContext` by
range; `pending_ranges` is the deque. Actions:

| Action | Code |
|---|---|
| `SplitLargest`, `BuildRanges` | `build_initial_ranges`, `split_spans`: one turn of its loop, then the sort |
| `Steal` | `steal_largest_range` and its push onto the deque |
| `Dispatch`, `DispatchFails` | the `while (true)` of the main loop with `arm_transfer`; `curl_multi_add_handle` failing |
| `Receive` | the write callback accepting bytes |
| `FinishOk`, `FinishFailed` | `finalize_completed_request` |
| `PersistRangeComplete` | the persistence thread answering `range_complete` |
| `LoopFails`, `NetworkDrained` | the loop's error exits; its regular end |
| `StopHandle`, `AbandonHandles`, `Stop` | `stop_network_phase`, its early return, `stop_persistence_phase` |

**PersistenceThread** has three actors. `Network` enqueues packets and calls `stop()`.
`Thread` is `process_loop` with the program counter `pc`; its handlers are cut where
another actor can look in between: the append (which touches file and bitmap), the
publication of `persisted_offset`, every turn of the drain, the flush of the tail, the
scheduling, the poll. `FlushTask` is the lambda, cut into its four effects. The disk is
three variables: `written` (offsets whose right content is in the cache), `durable` (those
that survive a power failure), `metadata`.

**Transfer** joins the two threads over the queue. The orchestrator has the program counter
`pc`, one value per phase of the main loop, with `current` the handle its inner loops are
at; the callbacks of libcurl run inside its step "perform". `handle` holds the fields of a
`TransferHandle` that pauses and buffers depend on. Of the persistence thread only what it
does to queue, counter and accounting is here.

| Action | Code |
|---|---|
| `CheckPersistence`, `ArmTransfer`, `AllArmed` | the head of the loop, `arm_transfer` |
| `ApplyMemoryBackpressure`, `BeginResume`, `ResumeTransfer`, `ResumeEnds` | `apply_memory_backpressure`; `resume_paused_transfers`, which reads `current_bytes` once and then goes over the handles |
| `Deliver`, `DeliverAfterFlush`, `AppendArrived`, `DeliverToFullQueue` | the write callback: append, flush first, pause for memory or for the queue |
| `DeliverBeyondWindow`, `DeliverAcrossWindow` | a server that sends more than it was asked for |
| `TransferDone`, `TransferBreaks`, `PerformEnds`, `PerformFails` | what `curl_multi_perform` makes of it |
| `ReadMessage`, `FlushBlocking`, `FinishRequest`, `RequestFails`, `MessagesRead` | `curl_multi_info_read`, `flush_transfer_buffer_blocking`, `finalize_completed_request` |
| `ReleaseTransfer`, `DrainGivesUp`, `StopPersistence`, `JoinPersistence` | `stop_network_phase`, `stop_persistence_phase` |
| `CountEnqueued`, `CountDequeued` | `queued_packets`, counted after the queue has changed |
| `Dequeue`, `DequeueShutdown`, `HandleData`, `HandleRangeComplete`, `HandleShutdown`, `HandlePacketFails`, `FlushFails` | the persistence thread |

**Recovery** is `run()` from the probe to the finished file, over any number of runs into one
output path. `phase` says how far a run is; "off" is the time between two processes. The disk
is `temp` (the `.part` file), `metadata` (`.config.json`), `metadata_tmp` and `output`; a file
has a `content`, seen by whoever reads it, and a `durable` content that survives a power
failure. Content is told apart by version of the remote file and by *piece*: the blocks, each up to
its last whole unit of `io_alignment`, and, where the file ends inside a unit, the *tail* behind its
last whole unit (`Tails`, `Pieces`, `PiecesOf`). The last block can be finished while the tail
is in memory only (`tail_buffer`).

| Action | Code |
|---|---|
| `StartRun` | the probe and what comes before it |
| `LoadMetadata`, `LoadFails` | `MetadataStore::load` |
| `OpenResumed`, `OpenFresh`, `PreallocateFails`, `OpenFails` | `can_resume` with `metadata_matches`; `FileWriter::open` |
| `ValidateResumed`, `ReadFails` | restore, `reset_transient_states`, `validate_resumed_blocks` |
| `RemoveOldMetadata` | `MetadataStore::remove`, its error ignored |
| `BeginBlock`, `FinishBlock`, `FlushTail` | the download, by what it does to pieces: the frontier enters a block, passes its end (231, 461-470), and `flush_tail` writes what was kept back |
| `DownloadFails`, `DownloadEnds`, `DownloadEndsIncomplete` | its end: with an error; with every block finished, whether or not the tail was flushed; without error but incomplete (1604-1608) |
| `SubmitFlush`, `FlushFile`, `BuildCrcSamples`, `WriteMetadataTmp`, `RemovePreviousMetadata`, `RenameMetadata` and their failures | the flush task, `MetadataStore::save` |
| `FinalizeFlushes`, `WithdrawOutput`, `PromotePart`, `FinalizeFails`, `RunSucceeds` | `FileWriter::finalize`, `finalize_storage_phase` |
| `ProcessCrashes`, `PowerFails`, `RemoteChanges` | the world |

Two history variables say what the program cannot know. `stale`: the metadata on disk is of
a `.part` file that was emptied since. `exposed`: a run resumed such metadata, or metadata of another
version which the server did not tell from its own (a comparison is skipped when a side has no
`etag` or no `last_modified`, download_engine.cpp:674-682), or the server's file changed while a run
was downloading it (requests carry no `If-Range`, download_engine.cpp:1105).

**ReliableDownload** is the promise to the user, in one page: under the output path is the file
that was there before, or none, or a delivery of the version the publishing run asked for, whatever
crashes and failures happened; the promise ends when trust is lost. Recovery implements it
(`KeepsPromise`) under the map `asked <- IF phase = "off" THEN NoFile ELSE` the probed version,
`trusted <- ~exposed`, `Delivered <- AllButTail`: a delivery is the version up to the file's last
whole unit, hence all of it if the file ends on one. More would not be true. The tail may be missing
from a published file in two ways: the `range_complete` that writes it was overtaken by the
shutdown (`PersistShutdown`), and the frontier that counts it (`rebuild_bitmap_from_ranges`,
download_engine.cpp:1982) makes the file complete; or metadata saved while it was in memory outlived
a crash (`PersistTail`), and the next run trusts the last block.

**WorkPool** is the promise of the scheduler, whatever ranges the work is cut into: a byte is
leased by one worker at a time and delivered once, goes back only after a failure, and
unless something failed the end comes when nothing is left. RangeScheduler implements it
(`DistributesWork`) under the map `todo <- Unleased`, the bytes from the cursor of each range to
its end; `leased <- Leased`, per handle the bytes its request still owes, which are cut by a rolled
back cursor; `done <- fetched`; `over <- phase = "done"`.

| Action of RangeScheduler | is for WorkPool |
|---|---|
| `Dispatch` | `Lease` |
| `Receive` | `Deliver` |
| `DispatchFails`, `FinishFailed`, `LoopFails` | `Fail`, with or without what was leased |
| `StopHandle` | `Return` |
| `Stop`, `AbandonHandles` | `End` |
| splits, building, `Steal`, the end of a request, `PersistRangeComplete` | nothing |

**The MC modules** give the constants values. **RangeScheduler_proofs**,
**PersistenceThread_proofs**, **Transfer_proofs**, **Delivery_proofs** (which goes on where
Transfer_proofs ends), **Recovery_proofs** and **BlockBitmap_proofs** hold the theorems; each MC module extends the
proofs of its component so that TLC checks the inductive invariants too. **MCPersistenceNoRange** extends
PersistenceThread alone, since its packets are not those of Range requests, which the proofs assume.

How the modules fit together: each assumes of its neighbours what a run or a theorem of
theirs shows. PersistenceThread takes ranges that are disjoint; with Range support its packets are the
bytes of their range (`RangeRequests` of PersistenceThread_proofs), as RangeScheduler delivers them
(`RangesPartition`, `FetchedIsAccounted`), in order (`DeliveredInOrder` of Transfer). What becomes
of packets that are not, `PersistNoRange` shows. Transfer takes windows from RangeScheduler and needs from the
persistence thread only that it consumes. Recovery takes from PersistenceThread that the blocks of a
snapshot are whole once flushed, up to the file's last whole unit (`RecoverySafe`), and that
the tail is there once `range_complete` was handled (`FinishedRangesComplete`) and maybe not before
(`PersistTail`, `PersistShutdown`).

Operators whose comment begins with *Slip* are the definition below them with one plausible
mistake. No specification uses them; substituted for the original, each makes TLC refute
the property it is paired with in `PROJECT.json`, which shows that the property depends on
that code.

### What the models leave out

* A packet's content: a byte is its offset. Contents matter where an answer with the wrong
  status is queued before the status is looked at (download_engine.cpp:1283); that remains
  a hazard without a property.
* Pauses: in RangeScheduler a handle may always receive; in PersistenceThread packets arrive
  one by one at any time, and the queue is unbounded. Both belong to Transfer.
* In Transfer: pauses because of a gap. With Range support `DeliveredInOrder` shows that nothing ever
  waits in the map of the persistence thread. Without it packets do wait there, with their
  memory accounted, because they begin at offset 0 and not at the frontier; but the
  first of them is then behind the frontier, so the gap is never positive and the flag never
  raised (persistence_thread.cpp:504-514). Also the statistics (`queued_bytes` and the figures); a
  failing `curl_multi_init` or `curl_multi_add_handle` (the latter is `DispatchFails` of
  RangeScheduler). Every range is one window: what follows a window is RangeScheduler's.
* In Recovery: JSON, but for a file that does not parse; a CRC is the content it was computed
  from. A block is written in two steps, its tail with the second or later. Operations on a directory take
  effect in the order of the calls and survive a power failure; the code never flushes a directory, so a
  file system that reorders them is beyond the model. That `io_alignment` divides `block_size`
  (`RecoveryAssumption`, `AlignedRanges`) is true of the defaults, 4 KB and 64 KB; nothing in the program
  enforces it, and other values let any range end inside a unit (persistence_thread.cpp:433). Servers
  without Range support: a resume from such a one need never succeed (`PersistNoRange`).
* A whole write, or a run of writes of one packet, is one step together with the marks
  of its blocks, which BlockBitmap justifies; so is the sampling of all CRCs. The unit lost by a failing write is any
  number of whole units.
* The time and byte thresholds of a flush: an unforced flush may or may not come due.
* `max_element` and the search for a donor take the first of equals; the model takes any.
* Model bounds: `MaxRanges`, the number of ranges that may ever exist, where it is reached
  steals stop; `MaxFaults` of Recovery, the number of crashes, failures and changes.

The packets of a range come out of order in `PersistOrder` only. Within one request the
orchestrator delivers them in order; the persistence thread does not rely on it, its tests
(`ClearsGapPauseAfterMissingDataArrives`) send them out of order, and its reordering is what
this run is about.

## The runs

| Configuration | Instance | Shows |
|---|---|---|
| `SchedulerSteal` | 13 bytes, blocks of 2, 2 handles, windows of 3, every resumable bitmap | the type invariant, seven safety properties, the inductive invariant, the refinement `DistributesWork`, `Terminates` |
| `PersistOrder` | 7 bytes, blocks of 4, units of 2, 3 packets in any order, failures, stop at any time | ordering, tails, gap flag, completion, the inductive invariants; that the thread stops and progress is saved |
| `PersistResume` | 15 bytes, two ranges around a trusted block, in order, failures | `RecoverySafe` with the end of file inside a unit, `MetadataOnlyGrows` |
| `PersistTail` | 7 bytes, without failures | refutes `SavedBlocksAreDurable` |
| `PersistShutdown` | 8 bytes, without failures | refutes `ShutdownComesLast` |
| `PersistErrors` | 8 bytes, with failures | refutes `FlushErrorsReported` |
| `PersistNoRange` | 7 bytes, block 0 resumed, one request for the whole file, without failures | refutes `FinishedRangesComplete` |
| `Recovery` | 7 bytes in blocks of 4 and units of 2, three versions, two faults between any two steps, until exposed | `MetadataBacksUnits`, `FinishedUnitsAreCurrent`, the inductive invariant, the refinement `KeepsPromise`, `DownloadsInTheEnd` |
| `RecoveryMix` | two requests for one path, one version | refutes `ResumesItsOwnPart` |
| `Transfer` | 2 handles, 3 ranges of 3 bytes, packets and chunks of at most 2, a queue of one packet, two pairs of watermarks, failures and overruns | accounting, counter, order, pauses, resumes, completeness, the inductive invariant; `EndsOrStalls` |
| `TransferError` | 2 ranges, ample memory, room for two packets, failures | refutes `ErrorStopsNetwork` |
| `BlockBitmap` | 7 bytes in blocks of 2, every interval, every bitmap a run may begin with | `MarksComputed`, `VdlOfOneMoment` |

Why these bounds: thirteen bytes in blocks of two have a short last block, windows of three
do not divide blocks, and a range of eight bytes or more leaves enough for a steal behind its
first window. Four ranges are the most that holes, splits and steals make of this file (a
larger `MaxRanges` reaches the same states). Two handles suffice for every interaction of
two requests, and of a request with a steal for the other handle; the theorems hold for any
number. The wide threshold (16 in the code) is a constant: the run is of a session below it, for above
it a donor must keep two windows, which a file so small never leaves; the theorems cover
both sides. The packets of the persistence runs end inside units and inside blocks, at a block's
end inside a unit, and at an end of file that is inside a unit (7, 15) or on one (8); a
hole wider than `max_gap_bytes` occurs. Bytes are few, but every code path compares them
only with each other, with borders of blocks and units and with range borders, all of
which occur.

Recovery: two blocks, the second short and with a tail of one byte, suffice for metadata with a block
below its VDL, one beyond it with a sample, one missing, and one finished whose tail is in memory. Two faults
are a crash and a crash during the recovery from it, or a failed removal followed by a crash, or a
change of the server's file and a crash. A third adds repetitions; the theorems hold for any number.
The second of the three versions has another `etag` than the first, the third has none and the second's
`last_modified`; the run starts from the second (`MCFairSpec`), so that one change can be one
the validators show and one they do not, and with a file to be replaced: a crash between its
withdrawal and the promotion leads to the start without one. `Explored` bounds the states in two ways. None
is explored beyond exposure: the formulas claim nothing there but the type, which
`RecoveryTypeCorrect` proves, and `DownloadsInTheEnd` names that exemption itself. And where a run has
published a file without its tail no further run is started: the program never reads the output, so
what follows is what follows a whole file. The step that publishes it is checked.

Transfer: windows of three and packets of two make a full buffer that has to be flushed inside
a callback, and a rest that is flushed at the end of the request. With a capacity of one
the second packet is refused, in the callback as well as in the blocking flush. The
watermarks [5, 2] are reached by the buffers of two handles, [2, 1] by the first chunk alone
(`Overhead` is 1). Three ranges for two handles make a handle start over while the other is
paused.

BlockBitmap: four blocks, the last of one byte, have a begin, an inside and an end for every
interval. One scan may see any number of marks pass.

`CHECK_DEADLOCK FALSE` is in every configuration but that of `BlockBitmap`, because the program
really ends: phase "done", or a thread that has stopped.

### Fairness

* RangeScheduler: the orchestrator is one loop that never blocks for more than 100 ms
  (`curl_multi_wait`), so planning, the end of the loop and the shutdown are weakly fair.
  `HandleStep` is weakly fair for each handle: a request goes on or ends. That is an
  assumption about the server and the pauses, not a fact of the code: no time limit is set
  on a transfer. Transfer says when pauses break it. `LoopFails` and `Steal` need no fairness.
* PersistenceThread: the thread and the pool's worker are scheduled. The unforced flush
  (`HousekeepFlushes`) is strongly fair: `flush_interval` elapses again and again, and the
  loop comes round at least every 100 ms. The orchestrator owes nothing: `StopsWhenAsked`
  and `ProgressIsSaved` hold even if it never sends another packet.
* Transfer: both threads are weakly fair. For each handle, delivering a chunk or ending is
  strongly fair: a server keeps sending to a transfer that is read again and again, and
  `curl_multi_perform` serves every transfer that is ready. Breaking, overrunning and failing
  need no fairness.
* Recovery: a run that ended is started again, a process that runs goes on, the server answers.
  `DownloadEnds` is strongly fair, for flush tasks come and go beside it; the thread that is
  asked to stop submits no more of them. Faults need no fairness, and there are finitely many.

### What the refuted promises show

* **Finished blocks whose tail is in memory** (`PersistTail`). The file's last block is
  marked finished as soon as its last packet was appended, while its last bytes are in
  the tail buffer. Metadata saved then counts the block below the VDL, so no CRC sample guards
  it. After a crash the block is trusted with a hole behind the file's last whole unit. Up to there
  `RecoverySafe` holds, and is proved; that is why Recovery and its promise stop there, too.
* **shutdown overtakes** (`PersistShutdown`). The network enqueues with a producer token, the
  shutdown without. `try_dequeue` asks the newest producer first and prefers another only if
  it holds more, so a single queued packet loses the tie. If that is the last
  `range_complete`, the tail is never written; the last projection of the frontiers onto the
  bitmap (download_engine.cpp:1982) still finds the file complete, and it is published with the hole.
* **A flush error is dropped** (`PersistErrors`). A forced flush after `range_complete` may
  replace the future of a task that failed since the last poll.
* **Resuming without Range support** (`PersistNoRange`). A request is for the whole file then, as it
  has to be (range_scheduler.cpp:98-100), so its packets begin at offset 0
  (download_engine.cpp:988). The persistence thread compares each with the frontier of the range,
  which begins at the hole (persistence_thread.cpp:221). Unless a packet happens to end there, all are put
  into the map, where the first is behind the frontier and holds up the rest. The range is announced and
  marked finished (models.hpp:32) with nothing of it written. No such file is published: the run
  ends with `http_transfer_failed` (download_engine.cpp:1604-1608), and the next one with the same
  metadata does so, too.
* **Old metadata, new file** (`RecoveryMix`). The `.part` file is emptied when it is opened;
  the metadata of its predecessor is removed afterwards, and a failure to remove it is ignored.
  A crash between, or that failure, leaves metadata which vouches for blocks of zeros; the
  next run of the older request matches it and trusts them below the VDL.
* **An error that stops nothing** (`TransferError`). `flush_transfer_buffer_blocking` waits for
  room in the queue and asks only whether the download was told to stop. Once the
  persistence thread has ended of a write error there will never be room, and nobody looks at
  that error before the flush returns.

One more promise is not kept and has no run of its own. That metadata is replaced atomically is what
metadata_store.cpp:97-98, docs/architecture_zh.md:141 and docs/project_requirement_document.md:211 say; `save`
removes the old file before it renames the new one (108-110), and a crash or a failing rename between
leaves none. Recovery has the two as steps (`RemovePreviousMetadata`, `RenameMetadata`), and
`MetadataOnlyGrows` exempts metadata that is gone for this reason. What it costs is progress, not
correctness: the next run starts from nothing.

### What the passing runs say by their exceptions

* `EndsOrStalls` names three ways to wait for ever, each reached by a run of the model: a handle
  paused at the end of its window because the server sends more (download_engine.cpp:1041;
  nothing takes this pause down); memory above the low watermark held by buffers of paused
  handles only, which nobody flushes (1126); the dead consumer just described (956). It also
  needs the watermarks apart by at least one packet.
* `SuccessIsComplete` exempts a queue with one packet left: shutdown may overtake it, as in
  `PersistShutdown`.
* `DownloadsInTheEnd` exempts metadata that does not parse: it fails this run and every later one
  (metadata_store.cpp:135), until somebody deletes it. A power failure after a save leaves it so,
  and so does a stream error while `.tmp` is written, which `save` does not look at.
* `KeepsPromise`, `MetadataBacksUnits`, `FinishedUnitsAreCurrent` and `DownloadsInTheEnd` say nothing
  after `exposed`, and the first three nothing of the bytes behind the file's last whole unit.
* `FinishedBytesAreHeld` takes a byte in a tail buffer for held, and its run has one range: that padding
  damages no neighbour is said of several ranges by its theorem only.

## The proofs

All proofs are checked to the last leaf. Each rests on the ASSUME of its module, which TLC
evaluates on every run of it, and on nothing else. Where a theorem has a further assumption its
statement names it.

### RangeScheduler

From `GeometryAssumption` and `SchedulerAssumption` (positive sizes; one connection and one
window without Range support; a null range that is no number):

* `TypeCorrect`: `Spec => []TypeOK`, with and without Range support;
* `BordersCorrect`: `Spec => []RangesAlignedToBlocks`, likewise. Typing and `Borders` are
  inductive: a border is the begin or the end of a block, a rounded midpoint, or older.

From these and `AcceptRanges`:

* `SchedulerInvariant`: `Spec => []IInv`, and its corollaries `PartitionCorrect`,
  `LeasesCorrect`, `DeliveryCorrect`, `CompletionCorrect`, `OwnershipCorrect`,
  `DownloadCorrect`, one for each other safety property of
  `SchedulerSteal`.

None of the safety properties is inductive alone. That ranges partition the file after
a steal needs the donor's cursor to lie in its range (`Cursors`). That a steal keeps leases
whole needs the lease frontier to be just past the lease while the loop runs (`Leases`);
`LeaseOk` weakens this after a failure, when `Rollback` has moved the frontier back into
the lease. That completion is sound needs `Ownership`, for only then is an announced range
neither pending nor held, so its end cannot move any more: it has no unleased byte, hence it is
no donor (`Completion`: its cursor is one past its end). `Delivered` relates the
history variable `fetched` to the cursors byte by byte, in both directions; with `Ended` it
yields `DownloadsEverything`. `IInv` is their conjunction, and the proof has a lemma for
every action and below it a step for every conjunct the action can disturb.

The part with most geometry is that `UnfinishedSpans` is a partition: every unfinished block
lies in exactly one maximal run (`SpansPartitionUnfinished`). The smallest and the greatest end of
a run are found by `SmallestOf` and `GreatestOf`.

* `WorkDistributed`: `Spec => DistributesWork`, the refinement. That a lease takes only bytes nobody
  else was asked for, and that an end without failure leaves nothing, is `IInv` again:
  ranges are disjoint (`Partition`), a cursor lies in its range (`Cursors`), a lease ends before
  the cursor (`LeaseOk`), and without failure the regular end finds all delivered (`Ended`). It
  says more than the invariants do. They look at one state, and a request that is stopped without
  `Rollback` violates none of them, for nobody asks for its bytes again; but then they are
  neither to do, nor leased, nor done, which is no step of WorkPool.

### BlockBitmap

From `GeometryAssumption`, for any block and file size: `BitmapInvariant` (`Spec => []IInv`) with
`MarksCorrect`, and the action properties `FinishedBlocksStay` and `VdlCorrect`.

`IInv` is `TypeOK`, `MarkingOk` (within a call the blocks before `index` have what they shall have, and those from
it on would get it if the rest of the call were one step) and
`ScanningOk` (blocks before `position` are finished, and `finished_bytes` counts them).
`MarkingOk` at the end of the loop is `MarksComputed`, since the blocks an interval meets are those
between the two divisions (`VisitedBlocks`, the short last block included). `ScanningOk` is
inductive because finished blocks stay; with it, the load that stops a scan sees the
longest finished prefix of that very moment.

### PersistenceThread

From `GeometryAssumption`, `PersistenceAssumption` (packets are disjoint) and `RangeRequests` (those of a
range are its bytes, true of every server with Range support), for any file, ranges, packets, order of
delivery and failures: `PersistenceInvariant` (`Spec => []IInv`) with `PersistenceTypeCorrect`,
`NoneStranded`, `GapFlagCorrect` and `SavesCorrect`.

`IInv` is `TypeOK`, `Flow` and `SavedOk`. `Flow` follows the packets. Each is in one place
(`OnePlace`: with the network, in the queue, put aside, or in the thread's hand between append and
publication); the frontier of its range is behind all that is under way and past all that is not
(`FrontierOk`); a tail buffer ends where its range was appended to (`TailsOk`); `range_complete` is
behind every packet of its range (`CompletionOk`). From these and `RangeRequests` - every
byte of a range is in a packet - follows that a range whose `range_complete` is next was appended to
its end (`AtTheEnd`): the byte at the frontier would be in a packet that is nowhere. That a
drain takes one packet at a time follows from their being disjoint (`Disjoint`). Without an
error the gap flag may be stale only while its range is being drained (`GapOk`). `SavedOk` orders
metadata, the snapshot a task works on, and the snapshot that would be taken next.

A further layer assumes `AlignedRanges`: ranges are made of whole blocks (`BordersCorrect` of
RangeScheduler_proofs) and a block of whole units of `io_alignment` (the defaults). The file may end
anywhere.

* `FileInvariant`, with `FinishedBytesHeld` and `FinishedRangesCorrect`. The heart of it: the cut before
  the tail buffer of a range is a whole number of units behind its first byte, so the tail that
  `flush_tail` pads with zeros ends its unit or the file, and the zeros damage no neighbour
  (`TailWritten`).
* `SafetyInvariant`, with `RecoveryCorrect`. What a tail buffer holds of a block that a frontier passed lies
  behind the file's last whole unit (`UnitBytesEnd`), so up to there such a block is in the file
  (`SnapshotWhole`): what a snapshot vouches for is written when it is taken, durable once the task has
  flushed, and stays so. `PersistTail` shows that not a byte more can be claimed.

### Recovery

From `GeometryAssumption` and `RecoveryAssumption`, for any file, wherever it ends, any number of requests,
versions and faults, and whatever validators the server sends or leaves out:
`RecoveryInvariant` (`Spec => []IInv`) with its corollaries `RecoveryTypeCorrect`,
`MetadataCorrect`, `ResumeCorrect`, and `PromiseKept`: `Spec => KeepsPromise`.

`IInv` is `TypeOK`, `PhasesInOrder` (what each phase of `run()` relies on, exposed or not) and,
until exposed, `Truthful`. `MetadataBacksUnits` alone is not inductive: metadata is backed when it
is renamed into place because the `.tmp` file was, that because the snapshot was of blocks
finished then (`Describes`) and flushed since (`OnStableStorage`), and it stays so because
the blocks it vouches for are never written again up to their last whole unit (`KeptBy`: what a run
resumed from metadata stays finished in its bitmap); `FlushTail` writes behind it. That versions are
distinguished is not assumed: a run that resumes metadata of another version was either told so
(`ToldApart`), and then `MatchingVersion` says it did not resume, or is exposed.

The refinement maps `StartRun` to `Ask`; `OpenResumed` with stale metadata, or with that of a version not
told from the one probed, to `LoseTrust`; `WithdrawOutput` to `Withdraw`; `PromotePart` to `Publish`, for
then all blocks are finished and current up to the last whole unit, and the flush before the rename
made them durable; every end of a process to `Leave`;
`RemoteChanges` to itself. All else stutters, a power failure included: what is under the
output path is on stable storage.

### Transfer

From `TransferAssumption`, for any number of handles, sizes, watermarks and capacities:
`TransferInvariant` (`Spec => []TransferIInv`) with `PausesCorrect`, `CounterCorrect` and
`WatermarkCorrect`. The invariant joins to these three what each step of the orchestrator
leaves for the next (`StepOk`) and that what is buffered belongs to a range and is
accounted with its overhead (`HandleOk`): without the latter a chunk could be taken whose growth of
the accounting is larger than what was held against the watermark.

Delivery_proofs adds what is said of sums over handles and queue: `DeliveryInvariant`
(`Spec => []DeliveryIInv`) with `MemoryCorrect`, `OrderCorrect`, `TransferTypeCorrect`,
`SuccessCorrect` and the action property `ReleaseCorrect` (`Spec => ResumeReleases`). None of these
is inductive alone. `DeliveryIInv` adds to `TransferIInv`:

* `BuffersOk`: an empty buffer is accounted with zero, one that holds something ends
  at the handle's `next_offset`. Without it, resetting a buffer could lose accounted bytes, and the next packet
  leave a gap.
* `ConsumerOk`: when the persistence thread is gone without an error it has seen shutdown, so the
  orchestrator is past its last packet. Without it something could be queued behind
  shutdown, and success would not mean that everything was persisted.
* `RangesOk`: a range has at most one handle, and one that was not dispatched is nowhere. Without it
  a handle could be armed with a range whose packets are still on their way.
* `PacketsOk`: a packet ends within its window, so `persisted` stays in range.
* `CompletionOk`: without failure, a dispatched range is with its handle, or its `range_complete`
  is in the line, or it is completed; and a completed range is persisted.
* `EndOk`: the run comes to drain, join and end without failure only when no range is pending
  and no handle has one.

The proofs are about the *line*: the packet in the hand of the persistence thread, then the queue.
`MemoryOk` and `OrderOk` say `MemoryAccounted` and `DeliveredInOrder` in terms of the line, the
handles and what is persisted, so that one lemma serves a state and its successor
(`WorkingMeaning`). Each action then appends to the line (`LineGrows`), takes from its head
(`PacketLeaves`), puts shutdown in front (`OrderShutdown`), or leaves it as it is.

`ReleaseCorrect` is where accounting, counter and pauses meet. An empty line makes
`queued_packets` zero and `memory` what the buffers hold (`NothingInLine`), so
`resume_paused_transfers` finds the queue ready; it leaves no pause but a boundary one when the
buffers hold no more than the low watermark, and `PausedForAReason` turns "no pause" into "libcurl
reads". The two exceptions are those `MemoryStall` and `BoundaryStall` name.

### Sums

`Sum` is a fold, that is a recursive function over sets. The library's induction theorems cannot be
used, for they take an operator as a parameter; their well-founded cores can. From
`FS_StrictSubsetOrderingWellFounded` and `WFMin` follows that a nonempty set of naturals has a
least element (`SmallestOf`), and a nonempty family of subsets of a finite set a minimal member
(`MinimalSet`). So a function that satisfies the recursion exists (`SumsExist`: else take the least
size at which it fails) and two of them agree (`SumsAgree`: else take a minimal set on which they
differ, and remove an element). From there `SumOverSubsets` gives the recursion of `Sum` itself, and the order in
which elements are taken does not matter (`SumSplit`). `SumUpdate` is for one handle that changes;
`WeightAppend` and `WeightTail` are for a sequence that grows at its end and shrinks at its head.

### Only model-checked

The liveness properties (`Terminates`, `StopsWhenAsked`, `ProgressIsSaved`, `DownloadsInTheEnd`,
`EndsOrStalls`): fairness and ENABLED are beyond the prover. Every invariant and action property
that a passing run checks is also a theorem. `FinishedBytesAreHeld` and
`FinishedRangesComplete` are checked, in `PersistOrder`, also where the file ends inside a unit;
`AlignedRanges` allows that.

## Plan

Done: Geometry and BlockBitmap; RangeScheduler, PersistenceThread, Recovery and Transfer, with
proofs of all their safety and action properties and of the two refinements.

Left: RangeScheduler and PersistenceThread in one module. What each assumes of the other is
shown by the other alone (see *How the modules fit together*); a composition would check
that nothing is assumed in a circle.

## Not modelled

* **HTTP probe**: two requests and header parsing. Its result is `AcceptRanges`, `TotalSize` and a
  version with its validator.
* **Progress and performance summary**, **client API and command line**, **utilities**: figures for
  display, a `std::async` wrapper, option parsing, pure functions. Nothing a download's
  correctness depends on.
* **The inside of the vendored queue and thread pool**, libcurl, the JSON library, the test
  framework. Modelled is what the code relies on: the order a consumer sees, a refused
  `try_enqueue`, a task that runs later, callbacks and pauses. These libraries and tests are most
  of the lines of the repository; of the program's own sources the models map
  `range_scheduler.cpp`, `persistence_thread.cpp`, `block_bitmap.cpp`, `metadata_store.cpp`,
  `file_writer.cpp`, `memory_accounting.cpp` and the control flow of `download_engine.cpp`.
* Two downloads in one process, which would share the process-wide memory accounting
  (download_engine.cpp:1638).
* `overwrite_existing = false`: the option is a constant of Recovery, which the runs set to TRUE.
  With FALSE the rename replaces an existing file all the same (file_writer.cpp:286), although
  docs/reimplementation_test_spec_zh.md:350 asks that it is not silently overwritten; and a `.part`
  file left without metadata fails the exclusive open of every later run.
