--------------------------- MODULE RangeScheduler ---------------------------
(***************************************************************************)
(* The orchestrator thread's work distribution: RangeScheduler             *)
(* (download/range_scheduler.cpp) and the part of DownloadEngine::run that *)
(* drives it (download/download_engine.cpp): cutting the unfinished part   *)
(* of the file into ranges, leasing windows of ranges to transfer handles, *)
(* stealing the unleased tail of the largest range for an idle handle,     *)
(* announcing a range to the persistence thread when all of it has been    *)
(* fetched, and rolling leases back when the download stops.               *)
(*                                                                         *)
(* A byte is an offset.  What the file contains, how packets travel and    *)
(* why handles pause is left to other modules; here libcurl delivers the   *)
(* next bytes of a lease (Receive) or ends its request, well (FinishOk) or *)
(* badly (FinishFailed), and the persistence thread answers range_complete *)
(* packets (PersistRangeComplete) or fails (LoopFails).                    *)
(***************************************************************************)
EXTENDS Geometry, Sequences, FiniteSets

CONSTANTS MaxConnections,   \* DownloadOptions::max_connections, the handles
          WindowBytes,      \* DownloadOptions::scheduler_window_bytes
          AcceptRanges,     \* does the server honour Range requests
          WideConnections,  \* 16: from here on a steal must leave two windows
          MaxRanges,        \* model bound: how many ranges can be created
          NoRange           \* a handle's null range pointer

ASSUME SchedulerAssumption ==
  /\ MaxConnections \in Nat \ {0}
  /\ WindowBytes \in Nat \ {0}
  /\ AcceptRanges \in BOOLEAN
  /\ WideConnections \in Nat
  /\ MaxRanges \in Nat \ {0}
  /\ NoRange \notin Nat
  \* DownloadEngine::run falls back to one connection and one window.
  /\ ~AcceptRanges => MaxConnections = 1 /\ WindowBytes = TotalSize

Handles == 1 .. MaxConnections
RangeIds == 0 .. (MaxRanges - 1)
Spans == [first : Bytes, last : Bytes]

VARIABLES
  phase,                \* "split" -> "run" -> "stopping" -> "done"
  failure,              \* run()'s failure is set
  finishedAtStart,      \* blocks the resumed bitmap trusts
  spans,                \* split_spans' result vector, while phase = "split"
  next_range_id,        \* RangeScheduler::next_range_id_
  start_offset,         \* RangeContext fields, by range id
  end_offset,
  current_offset,       \* first byte of the range no request was leased for
  completion_notified,  \* ranges whose range_complete was enqueued
  marked_finished,      \* ranges the persistence thread finished
  pending_ranges,       \* the deque of ranges to dispatch
  range,                \* TransferHandle fields, by handle
  next_offset,
  request_end,
  control,              \* range_complete packets in the data queue
  fetched               \* history: bytes appended to a transfer buffer

handleVars == <<range, next_offset, request_end>>
rangeVars == <<next_range_id, start_offset, end_offset>>
vars == <<phase, failure, finishedAtStart, spans, rangeVars, current_offset,
          completion_notified, marked_finished, pending_ranges, handleVars,
          control, fetched>>

LiveRanges == 0 .. (next_range_id - 1)

-----------------------------------------------------------------------------
\* Planning: build_initial_ranges.

\* build_unfinished_spans: the maximal runs of unfinished blocks.
\* Slip: the last block is not cut at the end of the file.
UnfinishedSpansUncut(finished) ==
  {[first |-> BlockBegin(run[1]), last |-> BlockBegin(run[2] + 1) - 1] :
     run \in {r \in Blocks \X Blocks :
                /\ r[1] <= r[2]
                /\ \A b \in r[1] .. r[2] : b \notin finished
                /\ r[1] - 1 \in Blocks => r[1] - 1 \in finished
                /\ r[2] + 1 \in Blocks => r[2] + 1 \in finished}}
UnfinishedSpans(finished) ==
  {[first |-> BlockBegin(run[1]), last |-> BlockEnd(run[2]) - 1] :
     run \in {r \in Blocks \X Blocks :
                /\ r[1] <= r[2]
                /\ \A b \in r[1] .. r[2] : b \notin finished
                /\ r[1] - 1 \in Blocks => r[1] - 1 \in finished
                /\ r[2] + 1 \in Blocks => r[2] + 1 \in finished}}

\* max_element takes the first of several largest spans; here it may be any of them,
\* and likewise for the donor of a steal.
SpanLength(s) == s.last - s.first + 1
Largest(S) == {s \in S : \A t \in S : SpanLength(t) <= SpanLength(s)}
SpanMidpoint(s) == AlignUp(s.first + SpanLength(s) \div 2, BlockSize)

\* The loop body of split_spans does not break on span s.
CanSplit(s) ==
  /\ AcceptRanges
  /\ Cardinality(spans) < MaxConnections
  /\ SpanLength(s) >= 2 * BlockSize
  /\ s.first < SpanMidpoint(s) /\ SpanMidpoint(s) <= s.last

SplitLargest ==
  /\ phase = "split"
  /\ \E s \in Largest(spans) :
       /\ CanSplit(s)
       /\ spans' = (spans \ {s}) \cup
                     {[first |-> s.first, last |-> SpanMidpoint(s) - 1],
                      [first |-> SpanMidpoint(s), last |-> s.last]}
  /\ UNCHANGED <<phase, failure, finishedAtStart, rangeVars, current_offset,
                 completion_notified, marked_finished, pending_ranges,
                 handleVars, control, fetched>>

\* The final sort by first byte: enumeration f lists the n spans in that order.
SortedEnumeration(f, n) ==
  /\ \A s \in spans : \E i \in 0 .. (n - 1) : f[i] = s
  /\ \A i, j \in 0 .. (n - 1) : i < j => f[i].first < f[j].first

\* Range ids follow the order of the file, and every range is pending.
BuildRanges ==
  /\ phase = "split"
  /\ \A s \in Largest(spans) : ~CanSplit(s)
  /\ \E n \in 1 .. MaxRanges : \E f \in [0 .. (n - 1) -> spans] :
       /\ SortedEnumeration(f, n)
       /\ next_range_id' = n
       /\ start_offset' = [r \in RangeIds |-> IF r < n THEN f[r].first ELSE 0]
       /\ end_offset' = [r \in RangeIds |-> IF r < n THEN f[r].last ELSE 0]
       /\ current_offset' = [r \in RangeIds |-> IF r < n THEN f[r].first ELSE 0]
       /\ pending_ranges' = [i \in 1 .. n |-> i - 1]
  /\ phase' = "run"
  /\ spans' = {}
  /\ UNCHANGED <<failure, finishedAtStart, completion_notified,
                 marked_finished, handleVars, control, fetched>>

-----------------------------------------------------------------------------
\* Work stealing: steal_largest_range, called for an idle handle when no range
\* is pending.

Remaining(r) == end_offset[r] - current_offset[r] + 1
StealCandidates ==
  {r \in LiveRanges : r \notin marked_finished /\ current_offset[r] < end_offset[r]}
Donors ==
  {d \in StealCandidates : \A r \in StealCandidates : Remaining(r) <= Remaining(d)}
MinimumRemainingForSteal ==
  IF MaxConnections >= WideConnections
    THEN Max2(2 * BlockSize, 2 * WindowBytes)
    ELSE 2 * BlockSize
\* Slip: the midpoint is not rounded to a block.
StealMidpointUnaligned(d) == current_offset[d] + Remaining(d) \div 2
StealMidpoint(d) == AlignDown(current_offset[d] + Remaining(d) \div 2, BlockSize)

CanSteal(d) ==
  /\ AcceptRanges
  /\ d \in Donors
  /\ Remaining(d) >= MinimumRemainingForSteal
  /\ current_offset[d] < StealMidpoint(d) /\ StealMidpoint(d) <= end_offset[d]

Idle(h) == range[h] = NoRange

Steal ==
  /\ phase = "run"
  /\ \E h \in Handles : Idle(h)
  /\ pending_ranges = <<>>
  /\ next_range_id < MaxRanges
  /\ \E d \in LiveRanges :
       LET id == next_range_id
           midpoint == StealMidpoint(d)
       IN /\ CanSteal(d)
          /\ end_offset' = [end_offset EXCEPT ![id] = end_offset[d], ![d] = midpoint - 1]
          /\ start_offset' = [start_offset EXCEPT ![id] = midpoint]
          /\ current_offset' = [current_offset EXCEPT ![id] = midpoint]
          /\ pending_ranges' = <<id>>
  /\ next_range_id' = next_range_id + 1
  /\ UNCHANGED <<phase, failure, finishedAtStart, spans, completion_notified,
                 marked_finished, handleVars, control, fetched>>

-----------------------------------------------------------------------------
\* Dispatch: an idle handle takes the first pending range; arm_transfer leases
\* next_window to it.

\* Slip: a window is not cut at the end of its range.
WindowUncut(r) ==
  [first |-> current_offset[r], last |-> current_offset[r] + WindowBytes - 1]
Window(r) ==
  IF AcceptRanges
    THEN [first |-> current_offset[r],
          last |-> Min2(end_offset[r], current_offset[r] + WindowBytes - 1)]
    ELSE [first |-> 0, last |-> TotalSize - 1]

\* Slip: the range's cursor does not move past the lease.
ArmWithoutLease(h, r) ==
  /\ range' = [range EXCEPT ![h] = r]
  /\ next_offset' = [next_offset EXCEPT ![h] = Window(r).first]
  /\ request_end' = [request_end EXCEPT ![h] = Window(r).last]
  /\ UNCHANGED current_offset
Arm(h, r) ==
  /\ range' = [range EXCEPT ![h] = r]
  /\ next_offset' = [next_offset EXCEPT ![h] = Window(r).first]
  /\ request_end' = [request_end EXCEPT ![h] = Window(r).last]
  /\ current_offset' = [current_offset EXCEPT ![r] = Window(r).last + 1]

\* Some of range r is unleased.
\* Slips: a single byte does not count; a range read to its end still does.
HasSeveralUnleased(r) == current_offset[r] < end_offset[r]
HasUnleasedOrEnd(r) == current_offset[r] <= end_offset[r] + 1
HasUnleased(r) == current_offset[r] <= end_offset[r]

\* completion_notified.exchange(true) guards every enqueue of range_complete.
\* Slip: the flag is read and not set.
NotifyUnmarked(r) ==
  /\ control' = IF r \in completion_notified THEN control ELSE Append(control, r)
  /\ UNCHANGED completion_notified
NotifyOnce(r) ==
  /\ completion_notified' = completion_notified \cup {r}
  /\ control' = IF r \in completion_notified THEN control ELSE Append(control, r)

Dispatch(h) ==
  /\ phase = "run"
  /\ Idle(h)
  /\ pending_ranges # <<>>
  /\ pending_ranges' = Tail(pending_ranges)
  /\ LET r == Head(pending_ranges)
     IN IF r \in marked_finished
          THEN UNCHANGED <<handleVars, current_offset, completion_notified, control>>
        ELSE IF ~HasUnleased(r)
          THEN NotifyOnce(r) /\ UNCHANGED <<handleVars, current_offset>>
          ELSE Arm(h, r) /\ UNCHANGED <<completion_notified, control>>
  /\ UNCHANGED <<phase, failure, finishedAtStart, spans, rangeVars,
                 marked_finished, fetched>>

-----------------------------------------------------------------------------
\* curl_multi_add_handle fails: the lease is taken but no handle holds it.
DispatchFails(h) ==
  /\ phase = "run"
  /\ Idle(h)
  /\ pending_ranges # <<>>
  /\ LET r == Head(pending_ranges)
     IN /\ r \notin marked_finished
        /\ HasUnleased(r)
        /\ current_offset' = [current_offset EXCEPT ![r] = Window(r).last + 1]
  /\ pending_ranges' = Tail(pending_ranges)
  /\ failure' = TRUE
  /\ phase' = "stopping"
  /\ UNCHANGED <<finishedAtStart, spans, rangeVars, completion_notified,
                 marked_finished, handleVars, control, fetched>>

-----------------------------------------------------------------------------
\* libcurl: the write callback accepts n more bytes, never past the lease.

Receive(h, n) ==
  /\ phase = "run"
  /\ ~Idle(h)
  /\ next_offset[h] + n - 1 <= request_end[h]
  /\ fetched' = fetched \cup (next_offset[h] .. (next_offset[h] + n - 1))
  /\ next_offset' = [next_offset EXCEPT ![h] = @ + n]
  /\ UNCHANGED <<phase, failure, finishedAtStart, spans, rangeVars,
                 current_offset, completion_notified, marked_finished,
                 pending_ranges, range, request_end, control>>

\* finalize_completed_request, all checks passed: the range goes back to the
\* deque while some of it is unleased, else it is announced.
FinishOk(h) ==
  /\ phase = "run"
  /\ ~Idle(h)
  /\ next_offset[h] > request_end[h]
  /\ LET r == range[h]
     IN IF HasUnleased(r)
          THEN /\ pending_ranges' = Append(pending_ranges, r)
               /\ UNCHANGED <<completion_notified, control>>
          ELSE /\ NotifyOnce(r)
               /\ UNCHANGED pending_ranges
  /\ range' = [range EXCEPT ![h] = NoRange]
  /\ UNCHANGED <<phase, failure, finishedAtStart, spans, rangeVars,
                 current_offset, marked_finished, next_offset, request_end,
                 fetched>>

\* rollback_inflight_window: the part of h's lease that did not arrive is given back.
\* Slip: all of the lease is given back, what arrived of it included.
RollbackWindow(h) ==
  current_offset' =
    IF ~Idle(h)
      THEN [current_offset EXCEPT ![range[h]] = Max2(start_offset[range[h]],
                                                     request_end[h] + 1 - WindowBytes)]
      ELSE current_offset
\* Slip: the cursor of a range whose request is stopped stays where it is.
RollbackForgotten(h) == UNCHANGED current_offset
Rollback(h) ==
  current_offset' =
    IF ~Idle(h) /\ next_offset[h] < current_offset[range[h]]
      THEN [current_offset EXCEPT ![range[h]] = next_offset[h]]
      ELSE current_offset

\* finalize_completed_request, some check failed: transport error, wrong
\* status or short body.  The handle keeps its range until the stop.
FinishFailed(h) ==
  /\ phase = "run"
  /\ ~Idle(h)
  /\ Rollback(h)
  /\ failure' = TRUE
  /\ phase' = "stopping"
  /\ UNCHANGED <<finishedAtStart, spans, rangeVars, completion_notified,
                 marked_finished, pending_ranges, handleVars, control, fetched>>

\* The persistence thread, as the orchestrator sees it.
PersistRangeComplete ==
  /\ control # <<>>
  /\ phase # "done"
  /\ marked_finished' = marked_finished \cup {Head(control)}
  /\ control' = Tail(control)
  /\ UNCHANGED <<phase, failure, finishedAtStart, spans, rangeVars,
                 current_offset, completion_notified, pending_ranges,
                 handleVars, fetched>>

\* persistence.error() is set, or curl_multi_perform or curl_multi_wait fails.
LoopFails ==
  /\ phase = "run"
  /\ failure' = TRUE
  /\ phase' = "stopping"
  /\ UNCHANGED <<finishedAtStart, spans, rangeVars, current_offset,
                 completion_notified, marked_finished, pending_ranges,
                 handleVars, control, fetched>>

-----------------------------------------------------------------------------
\* The main loop ends when nothing is active and nothing is pending;
\* stop_network_phase then rolls back and releases the handles one by one.

\* Slip: ranges that wait to be dispatched are not looked at.
NothingActive == \A h \in Handles : Idle(h)
NothingToDo == (\A h \in Handles : Idle(h)) /\ pending_ranges = <<>>

NetworkDrained ==
  /\ phase = "run"
  /\ NothingToDo
  /\ phase' = "stopping"
  /\ UNCHANGED <<failure, finishedAtStart, spans, rangeVars, current_offset,
                 completion_notified, marked_finished, pending_ranges,
                 handleVars, control, fetched>>

StopHandle(h) ==
  /\ phase = "stopping"
  /\ ~Idle(h)
  /\ Rollback(h)
  /\ range' = [range EXCEPT ![h] = NoRange]
  /\ UNCHANGED <<phase, failure, finishedAtStart, spans, rangeVars,
                 completion_notified, marked_finished, pending_ranges,
                 next_offset, request_end, control, fetched>>

\* stop_network_phase gives up at the first handle whose buffer cannot be
\* flushed: neither it nor the handles after it are rolled back.
AbandonHandles ==
  /\ phase = "stopping"
  /\ failure
  /\ \E h \in Handles : ~Idle(h)
  /\ phase' = "done"
  /\ UNCHANGED <<failure, finishedAtStart, spans, rangeVars, current_offset,
                 completion_notified, marked_finished, pending_ranges,
                 handleVars, control, fetched>>

\* stop_persistence_phase has joined the persistence thread.
Stop ==
  /\ phase = "stopping"
  /\ \A h \in Handles : Idle(h)
  /\ phase' = "done"
  /\ UNCHANGED <<failure, finishedAtStart, spans, rangeVars, current_offset,
                 completion_notified, marked_finished, pending_ranges,
                 handleVars, control, fetched>>

-----------------------------------------------------------------------------
Init ==
  /\ phase = "split"
  /\ failure = FALSE
  /\ finishedAtStart \in SUBSET Blocks \ {Blocks}
  /\ spans = UnfinishedSpans(finishedAtStart)
  /\ next_range_id = 0
  /\ start_offset = [r \in RangeIds |-> 0]
  /\ end_offset = [r \in RangeIds |-> 0]
  /\ current_offset = [r \in RangeIds |-> 0]
  /\ completion_notified = {}
  /\ marked_finished = {}
  /\ pending_ranges = <<>>
  /\ range = [h \in Handles |-> NoRange]
  /\ next_offset = [h \in Handles |-> 0]
  /\ request_end = [h \in Handles |-> 0]
  /\ control = <<>>
  /\ fetched = {}

HandleStep(h) ==
  \/ Dispatch(h)
  \/ DispatchFails(h)
  \/ \E n \in 1 .. WindowBytes : Receive(h, n)
  \/ FinishOk(h)
  \/ FinishFailed(h)
  \/ StopHandle(h)

Next ==
  \/ SplitLargest
  \/ BuildRanges
  \/ Steal
  \/ \E h \in Handles : HandleStep(h)
  \/ PersistRangeComplete
  \/ LoopFails
  \/ NetworkDrained
  \/ AbandonHandles
  \/ Stop

Spec == Init /\ [][Next]_vars

\* The orchestrator never blocks between two steps of its loop, and every
\* request ends: the server sends the rest of the window or libcurl reports.
Fairness ==
  /\ WF_vars(SplitLargest \/ BuildRanges \/ NetworkDrained \/ AbandonHandles \/ Stop)
  /\ \A h \in Handles : WF_vars(HandleStep(h))

FairSpec == Spec /\ Fairness

-----------------------------------------------------------------------------
(***************************************************************************)
(* Properties.                                                             *)
(***************************************************************************)
UnfinishedBytes == UNION {BlockBytes(b) : b \in Blocks \ finishedAtStart}
RangeBytes(r) == start_offset[r] .. end_offset[r]
Holders(r) == {h \in Handles : range[h] = r}
InPending(r) == \E i \in 1 .. Len(pending_ranges) : pending_ranges[i] = r
NoDuplicates(s) == \A i, j \in 1 .. Len(s) : s[i] = s[j] => i = j

\* Bytes of range r that were not delivered yet: unleased, or leased and on the way.
Outstanding(r) ==
  (current_offset[r] .. end_offset[r])
    \cup UNION {next_offset[h] .. request_end[h] : h \in Holders(r)}

\* The variables hold values the program's types allow.
TypeOK ==
  /\ phase \in {"split", "run", "stopping", "done"}
  /\ failure \in BOOLEAN
  /\ finishedAtStart \in SUBSET Blocks
  /\ spans \in SUBSET Spans
  /\ next_range_id \in 0 .. MaxRanges
  /\ start_offset \in [RangeIds -> Bytes]
  /\ end_offset \in [RangeIds -> Bytes]
  /\ current_offset \in [RangeIds -> 0 .. TotalSize]
  /\ completion_notified \in SUBSET RangeIds
  /\ marked_finished \in SUBSET RangeIds
  /\ pending_ranges \in Seq(RangeIds)
  /\ range \in [Handles -> RangeIds \cup {NoRange}]
  /\ next_offset \in [Handles -> 0 .. TotalSize]
  /\ request_end \in [Handles -> Bytes]
  /\ control \in Seq(RangeIds)
  /\ fetched \in SUBSET Bytes

\* Splitting and stealing never lose a byte, never assign a byte to two ranges
\* and never schedule a byte the resumed bitmap already trusts.
RangesPartition ==
  phase # "split" =>
    /\ UNION {RangeBytes(r) : r \in LiveRanges} = UnfinishedBytes
    /\ \A r, q \in LiveRanges : r # q => RangeBytes(r) \cap RangeBytes(q) = {}

\* Every range begins and ends on a block boundary (or at the end of the file),
\* so that each block belongs to one range and can become finished.
RangesAlignedToBlocks ==
  \A r \in LiveRanges :
    /\ start_offset[r] % BlockSize = 0
    /\ (end_offset[r] + 1) % BlockSize = 0 \/ end_offset[r] + 1 = TotalSize

\* What a request still has to deliver lies inside its range, below the range's
\* lease frontier, and no two requests are for the same range: a steal never
\* cuts into a request in flight.
LeasesExclusive ==
  \A h \in Handles :
    ~Idle(h) =>
      /\ start_offset[range[h]] <= next_offset[h]
      /\ request_end[h] <= end_offset[range[h]]
      /\ ~failure => request_end[h] < current_offset[range[h]]
      /\ Holders(range[h]) = {h}

\* The scheduler's cursors tell exactly what was delivered: no byte is requested
\* again after it arrived, and none is skipped while nothing failed.
FetchedIsAccounted ==
  \A r \in LiveRanges :
    /\ Outstanding(r) \cap fetched = {}
    /\ ~failure => RangeBytes(r) \ Outstanding(r) \subseteq fetched

\* While the loop runs, every range is in exactly one place: waiting in the
\* deque, held by one handle, or announced to the persistence thread, once.
\* A pending range has unleased bytes, so the completion packet that dispatch
\* would send for an exhausted range is never needed.
EveryRangeOwnedOnce ==
  phase = "run" =>
    /\ NoDuplicates(pending_ranges)
    /\ \A r \in LiveRanges :
         \/ /\ InPending(r) /\ Holders(r) = {} /\ r \notin completion_notified
            /\ current_offset[r] <= end_offset[r]
         \/ /\ ~InPending(r) /\ Holders(r) # {} /\ r \notin completion_notified
         \/ /\ ~InPending(r) /\ Holders(r) = {} /\ r \in completion_notified

\* range_complete is queued at most once per range and only when every byte of
\* the range, as it is bounded now, has been delivered.
CompletionSound ==
  /\ NoDuplicates(control)
  /\ \A i \in 1 .. Len(control) :
       control[i] \in completion_notified \ marked_finished
  /\ marked_finished \subseteq completion_notified
  /\ \A r \in completion_notified : RangeBytes(r) \subseteq fetched

\* A network phase that ends without failure has delivered every unfinished
\* byte and announced every range.
DownloadsEverything ==
  phase \in {"stopping", "done"} /\ ~failure =>
    /\ fetched = UnfinishedBytes
    /\ completion_notified = LiveRanges

\* The work as bytes, of which ranges, splits and steals are only an arrangement: what no
\* request was made for, and what the request of a handle still owes.  A cursor that was
\* rolled back has taken the rest of its request back.
Unleased ==
  IF phase = "split"
    THEN UNION {s.first .. s.last : s \in spans}
    ELSE UNION {current_offset[r] .. end_offset[r] : r \in LiveRanges}
Leased ==
  [h \in Handles |-> IF Idle(h) THEN {} ELSE next_offset[h] .. (current_offset[range[h]] - 1)]

\* Whatever is split, stolen, requeued and rolled back, every byte is asked for once and
\* fetched once, and only what did not arrive is given back (WorkPool).
Pool == INSTANCE WorkPool WITH
          Work <- Bytes,
          Workers <- Handles,
          todo <- Unleased,
          leased <- Leased,
          done <- fetched,
          failed <- failure,
          over <- phase = "done"
DistributesWork == Pool!Spec

\* The orchestrator reaches the end of its shutdown sequence.
Terminates == <>(phase = "done")
=============================================================================
