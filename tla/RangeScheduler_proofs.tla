------------------------ MODULE RangeScheduler_proofs ------------------------
(***************************************************************************)
(* Proofs about RangeScheduler: its typing, that ranges end on blocks, and,*)
(* for a server with Range support, that ranges partition the unfinished   *)
(* bytes, that leases are exclusive, that delivery is accounted for exactly*)
(* and that a network phase without failure downloads everything.          *)
(***************************************************************************)
EXTENDS RangeScheduler, Geometry_proofs

-----------------------------------------------------------------------------
(***************************************************************************)
(* The inductive invariant.  An interval is disjoint from another when it  *)
(* ends before the other begins; comparing ends keeps the arithmetic linear. *)
(***************************************************************************)
SpansPartition ==
  /\ \A s \in spans : /\ s.first <= s.last
                      /\ s.first .. s.last \subseteq UnfinishedBytes
  /\ \A x \in UnfinishedBytes : \E s \in spans : s.first <= x /\ x <= s.last
  /\ \A s, t \in spans : s # t => s.last < t.first \/ t.last < s.first

Planning ==
  phase = "split" =>
    /\ SpansPartition
    /\ next_range_id = 0
    /\ completion_notified = {} /\ marked_finished = {}
    /\ pending_ranges = <<>> /\ control = <<>>
    /\ fetched = {}
    /\ \A h \in Handles : range[h] = NoRange

Partition ==
  phase # "split" =>
    /\ \A r \in LiveRanges : /\ start_offset[r] <= end_offset[r]
                             /\ RangeBytes(r) \subseteq UnfinishedBytes
    /\ \A x \in UnfinishedBytes :
         \E r \in LiveRanges : start_offset[r] <= x /\ x <= end_offset[r]
    /\ \A r, q \in LiveRanges :
         r # q => end_offset[r] < start_offset[q] \/ end_offset[q] < start_offset[r]

Cursors ==
  \A r \in LiveRanges :
    start_offset[r] <= current_offset[r] /\ current_offset[r] <= end_offset[r] + 1

\* What is known of the lease that handle h holds on range r.
LeaseOk(h, r) ==
  /\ r \in LiveRanges \ completion_notified
  /\ start_offset[r] <= next_offset[h]
  /\ next_offset[h] <= request_end[h] + 1
  /\ next_offset[h] <= current_offset[r]
  /\ request_end[h] <= end_offset[r]
  /\ current_offset[r] <= request_end[h] + 1
  /\ phase = "run" => current_offset[r] = request_end[h] + 1

Leases ==
  \A h \in Handles : range[h] # NoRange =>
    /\ LeaseOk(h, range[h])
    /\ \A g \in Handles : range[g] = range[h] => g = h

Ownership ==
  phase = "run" =>
    /\ NoDuplicates(pending_ranges)
    /\ \A i \in 1 .. Len(pending_ranges) :
         /\ pending_ranges[i] \in LiveRanges \ completion_notified
         /\ current_offset[pending_ranges[i]] <= end_offset[pending_ranges[i]]
         /\ \A h \in Handles : range[h] # pending_ranges[i]
    /\ \A r \in LiveRanges :
         InPending(r) \/ (\E h \in Handles : range[h] = r) \/ r \in completion_notified

Completion ==
  /\ \A r \in completion_notified :
       /\ r \in LiveRanges
       /\ current_offset[r] = end_offset[r] + 1
       /\ RangeBytes(r) \subseteq fetched
  /\ marked_finished \subseteq completion_notified
  /\ NoDuplicates(control)
  /\ \A i \in 1 .. Len(control) : control[i] \in completion_notified \ marked_finished

Delivered ==
  /\ fetched \subseteq UnfinishedBytes
  /\ \A r \in LiveRanges : \A x \in RangeBytes(r) :
       /\ current_offset[r] <= x => x \notin fetched
       /\ \A h \in Handles :
            range[h] = r /\ next_offset[h] <= x /\ x <= request_end[h] => x \notin fetched
       /\ (/\ ~failure
           /\ x < current_offset[r]
           /\ \A h \in Handles : range[h] = r => x < next_offset[h]) => x \in fetched

Ended ==
  /\ phase \in {"split", "run"} => ~failure
  /\ phase \in {"stopping", "done"} /\ ~failure =>
       /\ \A h \in Handles : range[h] = NoRange
       /\ LiveRanges \subseteq completion_notified

IInv ==
  /\ TypeOK
  /\ Planning
  /\ Partition
  /\ Cursors
  /\ Leases
  /\ Ownership
  /\ Completion
  /\ Delivered
  /\ Ended

-----------------------------------------------------------------------------
(***************************************************************************)
(* Typing, for every value of the constants.                               *)
(***************************************************************************)
USE GeometryAssumption, SchedulerAssumption

LEMMA SpansAreSpans ==
  ASSUME NEW F
  PROVE  UnfinishedSpans(F) \subseteq Spans
<1> SUFFICES ASSUME NEW i \in Blocks, NEW j \in Blocks, i <= j
             PROVE  [first |-> BlockBegin(i), last |-> BlockEnd(j) - 1] \in Spans
  BY DEF UnfinishedSpans
<1> QED
  BY RunBytes DEF Spans

LEMMA InitTyped == Init => TypeOK
<1> SUFFICES ASSUME Init PROVE TypeOK
  OBVIOUS
<1>1. spans \in SUBSET Spans
  BY SpansAreSpans DEF Init
<1>2. 0 \in Bytes /\ 0 \in 0 .. TotalSize /\ next_range_id \in 0 .. MaxRanges
  BY DEF Init, Bytes
<1>3. /\ start_offset \in [RangeIds -> Bytes]
      /\ end_offset \in [RangeIds -> Bytes]
      /\ current_offset \in [RangeIds -> 0 .. TotalSize]
      /\ range \in [Handles -> RangeIds \cup {NoRange}]
      /\ next_offset \in [Handles -> 0 .. TotalSize]
      /\ request_end \in [Handles -> Bytes]
  BY <1>2 DEF Init
<1>4. pending_ranges \in Seq(RangeIds) /\ control \in Seq(RangeIds)
  BY DEF Init
<1> QED
  BY <1>1, <1>2, <1>3, <1>4 DEF Init, TypeOK

\* The first half of a split ends, and the second begins, inside the span.
LEMMA SplitTyped == TypeOK /\ SplitLargest => TypeOK'
<1> SUFFICES ASSUME TypeOK, SplitLargest PROVE TypeOK'
  OBVIOUS
<1>1. PICK s \in Largest(spans) :
        /\ CanSplit(s)
        /\ spans' = (spans \ {s}) \cup
                      {[first |-> s.first, last |-> SpanMidpoint(s) - 1],
                       [first |-> SpanMidpoint(s), last |-> s.last]}
  BY DEF SplitLargest
<1>2. s \in Spans
  BY DEF Largest, TypeOK
<1>3. SpanMidpoint(s) \in Int
  <2>1. s.first \in Int /\ SpanLength(s) \in Int
    BY <1>2 DEF SpanLength, Spans, Bytes
  <2> QED
    BY <2>1, RoundingTyped DEF SpanMidpoint
<1>4. spans' \in SUBSET Spans
  BY <1>1, <1>2, <1>3 DEF TypeOK, CanSplit, Spans, Bytes
<1> QED
  BY <1>4 DEF TypeOK, SplitLargest, rangeVars, handleVars

LEMMA BuildTyped == TypeOK /\ BuildRanges => TypeOK'
<1> SUFFICES ASSUME TypeOK, BuildRanges PROVE TypeOK'
  OBVIOUS
<1>1. PICK n \in 1 .. MaxRanges : \E f \in [0 .. (n - 1) -> spans] :
        /\ SortedEnumeration(f, n)
        /\ next_range_id' = n
        /\ start_offset' = [r \in RangeIds |-> IF r < n THEN f[r].first ELSE 0]
        /\ end_offset' = [r \in RangeIds |-> IF r < n THEN f[r].last ELSE 0]
        /\ current_offset' = [r \in RangeIds |-> IF r < n THEN f[r].first ELSE 0]
        /\ pending_ranges' = [i \in 1 .. n |-> i - 1]
  BY DEF BuildRanges
<1>2. PICK f \in [0 .. (n - 1) -> spans] :
        /\ start_offset' = [r \in RangeIds |-> IF r < n THEN f[r].first ELSE 0]
        /\ end_offset' = [r \in RangeIds |-> IF r < n THEN f[r].last ELSE 0]
        /\ current_offset' = [r \in RangeIds |-> IF r < n THEN f[r].first ELSE 0]
  BY <1>1
<1>3. \A r \in RangeIds : r < n => f[r].first \in Bytes /\ f[r].last \in Bytes
  BY DEF TypeOK, Spans, RangeIds
<1>4. 0 \in Bytes /\ Bytes \subseteq 0 .. TotalSize
  BY DEF Bytes
<1>5. /\ start_offset' \in [RangeIds -> Bytes]
      /\ end_offset' \in [RangeIds -> Bytes]
      /\ current_offset' \in [RangeIds -> 0 .. TotalSize]
  BY <1>2, <1>3, <1>4
<1>6. pending_ranges' \in Seq(RangeIds)
  BY <1>1 DEF RangeIds
<1>7. next_range_id' \in 0 .. MaxRanges
  BY <1>1
<1> QED
  BY <1>5, <1>6, <1>7 DEF TypeOK, BuildRanges, handleVars

LEMMA StealTyped == TypeOK /\ Steal => TypeOK'
<1> SUFFICES ASSUME TypeOK, Steal PROVE TypeOK'
  OBVIOUS
<1> DEFINE id == next_range_id
<1>1. PICK d \in LiveRanges :
        /\ CanSteal(d)
        /\ end_offset' = [end_offset EXCEPT ![id] = end_offset[d],
                                           ![d] = StealMidpoint(d) - 1]
        /\ start_offset' = [start_offset EXCEPT ![id] = StealMidpoint(d)]
        /\ current_offset' = [current_offset EXCEPT ![id] = StealMidpoint(d)]
        /\ pending_ranges' = <<id>>
  BY DEF Steal
<1>2. id \in RangeIds /\ d \in RangeIds
  BY DEF Steal, TypeOK, RangeIds, LiveRanges
<1>3. StealMidpoint(d) \in Int
  <2>1. current_offset[d] \in Int /\ Remaining(d) \in Int
    BY <1>2 DEF Remaining, TypeOK, Bytes
  <2> QED
    BY <2>1, RoundingTyped DEF StealMidpoint
<1>4. StealMidpoint(d) \in Bytes /\ StealMidpoint(d) - 1 \in Bytes
  BY <1>1, <1>2, <1>3 DEF CanSteal, TypeOK, Bytes
<1>5. next_range_id' \in 0 .. MaxRanges
  BY DEF Steal, TypeOK
<1>6. Bytes \subseteq 0 .. TotalSize
  BY DEF Bytes
<1>7. /\ start_offset' \in [RangeIds -> Bytes]
      /\ end_offset' \in [RangeIds -> Bytes]
      /\ current_offset' \in [RangeIds -> 0 .. TotalSize]
  BY <1>1, <1>2, <1>4, <1>6 DEF TypeOK
<1>8. pending_ranges' \in Seq(RangeIds)
  BY <1>1, <1>2
<1> QED
  BY <1>5, <1>7, <1>8 DEF Steal, TypeOK, handleVars

LEMMA WindowTyped ==
  ASSUME TypeOK, NEW r \in RangeIds, current_offset[r] <= end_offset[r]
  PROVE  /\ Window(r).first \in Bytes /\ Window(r).last \in Bytes
         /\ Window(r).last + 1 \in 0 .. TotalSize
         /\ AcceptRanges => /\ Window(r).first = current_offset[r]
                            /\ current_offset[r] <= Window(r).last
                            /\ Window(r).last <= end_offset[r]
  BY DEF Window, TypeOK, Bytes, Min2

LEMMA AppendTyped ==
  ASSUME NEW S, NEW s \in Seq(S), NEW e \in S
  PROVE  Append(s, e) \in Seq(S)
  OBVIOUS

\* Announcing a range keeps the control queue and the set of announced ranges typed.
LEMMA NotifyTyped ==
  ASSUME TypeOK, NEW r \in RangeIds, NotifyOnce(r)
  PROVE  completion_notified' \in SUBSET RangeIds /\ control' \in Seq(RangeIds)
  BY AppendTyped DEF TypeOK, NotifyOnce

\* The facts about a range that its type gives, unfolded.
LEMMA RangeTyped ==
  ASSUME TypeOK
  PROVE  /\ \A r \in RangeIds : /\ start_offset[r] \in Int
                                /\ end_offset[r] \in Int
                                /\ current_offset[r] \in Int
         /\ \A h \in Handles : /\ next_offset[h] \in Int
                               /\ request_end[h] \in Int
                               /\ range[h] \in RangeIds \cup {NoRange}
         /\ LiveRanges \subseteq RangeIds
         /\ \A i \in 1 .. Len(pending_ranges) : pending_ranges[i] \in RangeIds
         /\ NoRange \notin RangeIds
<1>1. /\ \A r \in RangeIds : start_offset[r] \in Bytes /\ end_offset[r] \in Bytes
      /\ \A r \in RangeIds : current_offset[r] \in 0 .. TotalSize
      /\ \A h \in Handles : next_offset[h] \in 0 .. TotalSize /\ request_end[h] \in Bytes
      /\ \A h \in Handles : range[h] \in RangeIds \cup {NoRange}
  BY DEF TypeOK
<1>2. LiveRanges \subseteq RangeIds /\ NoRange \notin RangeIds
  BY DEF TypeOK, LiveRanges, RangeIds
<1>3. \A i \in 1 .. Len(pending_ranges) : pending_ranges[i] \in RangeIds
  BY DEF TypeOK
<1> QED
  BY <1>1, <1>2, <1>3 DEF Bytes

LEMMA HandleTyped ==
  ASSUME TypeOK, NEW h \in Handles, HandleStep(h)
  PROVE  TypeOK'
<1>1. CASE Dispatch(h)
  <2> DEFINE r == Head(pending_ranges)
  <2>1. r \in RangeIds /\ pending_ranges' \in Seq(RangeIds)
    BY <1>1 DEF Dispatch, TypeOK
  <2>2. CASE r \in marked_finished
    <3>1. UNCHANGED <<handleVars, current_offset, completion_notified, control>>
      BY <1>1, <2>2 DEF Dispatch
    <3>2. UNCHANGED <<phase, failure, finishedAtStart, spans, rangeVars, marked_finished, fetched>>
      BY <1>1 DEF Dispatch
    <3> HIDE DEF r
    <3> QED
      BY <2>1, <3>1, <3>2 DEF TypeOK, rangeVars, handleVars
  <2>3. CASE r \notin marked_finished /\ current_offset[r] > end_offset[r]
    <3>1. NotifyOnce(r) /\ UNCHANGED <<handleVars, current_offset>>
      <4>1. ~(current_offset[r] <= end_offset[r])
        BY <2>1, <2>3, RangeTyped
      <4> QED
        BY <1>1, <2>3, <4>1 DEF Dispatch, HasUnleased
    <3>2. UNCHANGED <<phase, failure, finishedAtStart, spans, rangeVars, marked_finished, fetched>>
      BY <1>1 DEF Dispatch
    <3> HIDE DEF r
    <3> QED
      BY <2>1, <3>1, <3>2, NotifyTyped DEF TypeOK, rangeVars, handleVars
  <2>4. CASE r \notin marked_finished /\ ~(current_offset[r] > end_offset[r])
    <3>1. current_offset[r] <= end_offset[r]
      BY <2>1, <2>4 DEF TypeOK, Bytes
    <3>2. Arm(h, r) /\ UNCHANGED <<completion_notified, control>>
      BY <1>1, <2>4, <3>1 DEF Dispatch, HasUnleased
    <3> HIDE DEF r
    <3>3. /\ Window(r).first \in Bytes /\ Window(r).last \in Bytes
          /\ Window(r).last + 1 \in 0 .. TotalSize
      BY <2>1, <3>1, WindowTyped
    <3>4. Bytes \subseteq 0 .. TotalSize
      BY DEF Bytes
    <3> QED
      BY <1>1, <2>1, <3>2, <3>3, <3>4 DEF Dispatch, TypeOK, rangeVars, Arm
  <2> QED
    BY <2>2, <2>3, <2>4
<1>2. CASE DispatchFails(h)
  <2> DEFINE r == Head(pending_ranges)
  <2>1. r \in RangeIds /\ pending_ranges' \in Seq(RangeIds)
    BY <1>2 DEF DispatchFails, TypeOK
  <2>2. Window(r).last + 1 \in 0 .. TotalSize
    BY <1>2, <2>1, WindowTyped DEF DispatchFails, HasUnleased
  <2> QED
    BY <1>2, <2>1, <2>2 DEF DispatchFails, TypeOK, rangeVars, handleVars
<1>3. ASSUME NEW n \in 1 .. WindowBytes, Receive(h, n)
      PROVE  TypeOK'
  <2>0. next_offset[h] \in 0 .. TotalSize /\ request_end[h] \in Bytes
    BY DEF TypeOK
  <2>. next_offset[h] + n - 1 <= request_end[h]
    BY <1>3 DEF Receive
  <2>1. next_offset[h] + n \in 0 .. TotalSize
    BY <2>0 DEF Bytes
  <2>2. next_offset[h] .. (next_offset[h] + n - 1) \subseteq Bytes
    BY <2>0 DEF Bytes
  <2> QED
    BY <1>3, <2>1, <2>2 DEF Receive, TypeOK, rangeVars
<1>4. CASE FinishOk(h)
  <2> DEFINE r == range[h]
  <2>1. r \in RangeIds
    BY <1>4 DEF FinishOk, TypeOK, Idle
  <2>2. range' \in [Handles -> RangeIds \cup {NoRange}]
    BY <1>4 DEF FinishOk, TypeOK
  <2>3. /\ pending_ranges' \in Seq(RangeIds)
        /\ completion_notified' \in SUBSET RangeIds
        /\ control' \in Seq(RangeIds)
    <3>1. CASE current_offset[r] <= end_offset[r]
      <4>1. /\ pending_ranges' = Append(pending_ranges, r)
            /\ UNCHANGED <<completion_notified, control>>
        BY <1>4, <3>1 DEF FinishOk, HasUnleased
      <4> HIDE DEF r
      <4> QED
        BY <2>1, <4>1, AppendTyped DEF TypeOK
    <3>2. CASE ~(current_offset[r] <= end_offset[r])
      <4>1. NotifyOnce(r) /\ UNCHANGED pending_ranges
        BY <1>4, <3>2 DEF FinishOk, HasUnleased
      <4> QED
        BY <2>1, <4>1, NotifyTyped DEF TypeOK
    <3> QED
      BY <3>1, <3>2
  <2> QED
    BY <1>4, <2>2, <2>3 DEF FinishOk, TypeOK, rangeVars
<1>5. CASE FinishFailed(h)
  BY <1>5 DEF FinishFailed, TypeOK, rangeVars, handleVars, Rollback, Idle
<1>6. CASE StopHandle(h)
  BY <1>6 DEF StopHandle, TypeOK, rangeVars, Rollback, Idle
<1> QED
  BY <1>1, <1>2, <1>3, <1>4, <1>5, <1>6 DEF HandleStep

LEMMA NextTyped == TypeOK /\ [Next]_vars => TypeOK'
<1> SUFFICES ASSUME TypeOK, [Next]_vars PROVE TypeOK'
  OBVIOUS
<1>1. CASE PersistRangeComplete
  BY <1>1 DEF PersistRangeComplete, TypeOK, rangeVars, handleVars
<1>2. CASE LoopFails \/ NetworkDrained \/ AbandonHandles \/ Stop
  BY <1>2 DEF LoopFails, NetworkDrained, AbandonHandles, Stop, TypeOK, rangeVars, handleVars
<1>3. CASE UNCHANGED vars
  BY <1>3 DEF vars, TypeOK, rangeVars, handleVars
<1> QED
  BY <1>1, <1>2, <1>3, SplitTyped, BuildTyped, StealTyped, HandleTyped DEF Next

\* The orchestrator's state is well typed in every reachable state, for every
\* file size, block size, window, number of connections and kind of server.
THEOREM TypeCorrect == Spec => []TypeOK
  BY InitTyped, NextTyped, PTL DEF Spec

-----------------------------------------------------------------------------
(***************************************************************************)
(* Planning: the spans partition the unfinished bytes.                     *)
(***************************************************************************)
\* A maximal run of blocks that finished does not contain.
IsRun(finished, i, j) ==
  /\ i <= j
  /\ \A b \in i .. j : b \notin finished
  /\ i - 1 \in Blocks => i - 1 \in finished
  /\ j + 1 \in Blocks => j + 1 \in finished

LEMMA SpanIsRun ==
  ASSUME NEW F, NEW s \in UnfinishedSpans(F)
  PROVE  \E i, j \in Blocks : /\ IsRun(F, i, j)
                              /\ s = [first |-> BlockBegin(i), last |-> BlockEnd(j) - 1]
<1>1. PICK run \in Blocks \X Blocks :
        /\ IsRun(F, run[1], run[2])
        /\ s = [first |-> BlockBegin(run[1]), last |-> BlockEnd(run[2]) - 1]
  BY DEF UnfinishedSpans, IsRun
<1> QED
  BY <1>1

LEMMA RunIsSpan ==
  ASSUME NEW F, NEW i \in Blocks, NEW j \in Blocks, IsRun(F, i, j)
  PROVE  [first |-> BlockBegin(i), last |-> BlockEnd(j) - 1] \in UnfinishedSpans(F)
<1> DEFINE run == <<i, j>>
<1>1. run \in Blocks \X Blocks /\ run[1] = i /\ run[2] = j
  OBVIOUS
<1>2. IsRun(F, run[1], run[2])
  BY <1>1
<1> HIDE DEF run
<1>3. [first |-> BlockBegin(run[1]), last |-> BlockEnd(run[2]) - 1] \in UnfinishedSpans(F)
  BY <1>1, <1>2 DEF UnfinishedSpans, IsRun
<1> QED
  BY <1>1, <1>3

\* Every block outside F lies in a maximal run.
LEMMA BlockInRun ==
  ASSUME NEW F, NEW b \in Blocks, b \notin F
  PROVE  \E i, j \in Blocks : IsRun(F, i, j) /\ b \in i .. j
<1> DEFINE L == {i \in 0 .. b : \A k \in i .. b : k \notin F}
<1> DEFINE H == {j \in b .. (BlockCount - 1) : \A k \in b .. j : k \notin F}
<1>1. b \in Nat /\ BlockCount \in Nat /\ b <= BlockCount - 1
  BY CountCovers DEF Blocks
<1>2. b \in L /\ L \in SUBSET Nat
  BY <1>1
<1>3. b \in H /\ H \in SUBSET (0 .. (BlockCount - 1)) /\ BlockCount - 1 \in Nat
  BY <1>1
<1>4. PICK i \in L : \A y \in L : i <= y
  <2> HIDE DEF L
  <2> QED
    BY <1>2, SmallestOf
<1>5. PICK j \in H : \A y \in H : y <= j
  <2> HIDE DEF H
  <2> QED
    BY <1>3, GreatestOf
<1>6. i \in Blocks /\ j \in Blocks /\ i <= b /\ b <= j
  BY <1>1 DEF Blocks
<1>7. \A k \in i .. j : k \notin F
  BY <1>1, <1>6
<1>8. ASSUME i - 1 \in Blocks PROVE i - 1 \in F
  <2>1. i - 1 \notin L
    BY <1>4, <1>1, <1>6 DEF Blocks
  <2> QED
    BY <2>1, <1>1, <1>6, <1>7, <1>8 DEF Blocks
<1>9. ASSUME j + 1 \in Blocks PROVE j + 1 \in F
  <2>1. j + 1 \notin H
    BY <1>5, <1>1, <1>6 DEF Blocks
  <2> QED
    BY <2>1, <1>1, <1>6, <1>7, <1>9 DEF Blocks
<1> HIDE DEF L, H
<1>10. IsRun(F, i, j) /\ b \in i .. j
  BY <1>1, <1>6, <1>7, <1>8, <1>9 DEF IsRun, Blocks
<1> QED
  BY <1>6, <1>10

\* Two runs are the same or one ends before the other begins.
LEMMA RunsApart ==
  ASSUME NEW F, NEW i \in Blocks, NEW j \in Blocks, NEW k \in Blocks, NEW l \in Blocks,
         IsRun(F, i, j), IsRun(F, k, l)
  PROVE  (i = k /\ j = l) \/ j < k \/ l < i
BY CountCovers DEF IsRun, Blocks

LEMMA SpansPartitionUnfinished ==
  ASSUME NEW F, F = finishedAtStart, spans = UnfinishedSpans(F)
  PROVE  SpansPartition
<1>1. ASSUME NEW s \in spans
      PROVE  s.first <= s.last /\ s.first .. s.last \subseteq UnfinishedBytes
  <2>1. PICK i \in Blocks, j \in Blocks :
          IsRun(F, i, j) /\ s = [first |-> BlockBegin(i), last |-> BlockEnd(j) - 1]
    BY SpanIsRun
  <2>2. i <= j /\ i .. j \subseteq Blocks /\ \A b \in i .. j : b \notin F
    BY <2>1, CountCovers DEF IsRun, Blocks
  <2>3. /\ s.first \in Bytes /\ s.last \in Bytes /\ s.first <= s.last
        /\ \A x \in Bytes : s.first <= x /\ x <= s.last
                              => \E b \in i .. j : x \in BlockBytes(b)
    BY <2>1, <2>2, RunBytes
  <2>4. s.first .. s.last \subseteq Bytes
    BY <2>3 DEF Bytes
  <2>5. ASSUME NEW x \in s.first .. s.last PROVE x \in UnfinishedBytes
    <3>1. PICK b \in i .. j : x \in BlockBytes(b)
      BY <2>3, <2>4 DEF Bytes
    <3> QED
      BY <3>1, <2>2 DEF UnfinishedBytes
  <2> QED
    BY <2>3, <2>5
<1>2. ASSUME NEW x \in UnfinishedBytes
      PROVE  \E s \in spans : s.first <= x /\ x <= s.last
  <2>1. PICK b \in Blocks : b \notin F /\ x \in BlockBytes(b)
    BY DEF UnfinishedBytes
  <2>2. PICK i \in Blocks, j \in Blocks : IsRun(F, i, j) /\ b \in i .. j
    BY <2>1, BlockInRun
  <2> DEFINE s == [first |-> BlockBegin(i), last |-> BlockEnd(j) - 1]
  <2>3. s \in spans
    BY <2>2, RunIsSpan
  <2>4. x \in Bytes
    BY <2>1, BlockInFile DEF BlockBytes, Bytes
  <2>5. BlockBegin(i) <= x /\ x <= BlockEnd(j) - 1
    BY <2>1, <2>2, <2>4, RunBytes DEF IsRun
  <2> QED
    BY <2>3, <2>5
<1>3. ASSUME NEW s \in spans, NEW t \in spans, s # t
      PROVE  s.last < t.first \/ t.last < s.first
  <2>1. PICK i \in Blocks, j \in Blocks :
          IsRun(F, i, j) /\ s = [first |-> BlockBegin(i), last |-> BlockEnd(j) - 1]
    BY SpanIsRun
  <2>2. PICK k \in Blocks, l \in Blocks :
          IsRun(F, k, l) /\ t = [first |-> BlockBegin(k), last |-> BlockEnd(l) - 1]
    BY SpanIsRun
  <2>3. j < k \/ l < i
    BY <1>3, <2>1, <2>2, RunsApart
  <2>4. BlockEnd(j) <= BlockBegin(k) \/ BlockEnd(l) <= BlockBegin(i)
    BY <2>3, BlockSequence
  <2>5. /\ BlockEnd(j) \in Int /\ BlockBegin(k) \in Int
        /\ BlockEnd(l) \in Int /\ BlockBegin(i) \in Int
    BY BlockInFile DEF Bytes
  <2> QED
    BY <2>1, <2>2, <2>4, <2>5
<1> QED
  BY <1>1, <1>2, <1>3 DEF SpansPartition

LEMMA InitIInv == Init => IInv
<1> SUFFICES ASSUME Init PROVE IInv
  OBVIOUS
<1>1. TypeOK
  BY InitTyped
<1>2. Planning
  <2>1. SpansPartition
    BY SpansPartitionUnfinished DEF Init
  <2> QED
    BY <2>1 DEF Init, Planning
<1>3. LiveRanges = {}
  BY DEF Init, LiveRanges
<1> QED
  BY <1>1, <1>2, <1>3 DEF Init, IInv, Partition, Cursors, Leases, Ownership, Completion,
                          Delivered, Ended, NoDuplicates, UnfinishedBytes

-----------------------------------------------------------------------------
(***************************************************************************)
(* Every action preserves the invariant, when the server has Range support. *)
(* Without it a request asks for the whole file and leaves its range.      *)
(***************************************************************************)
LEMMA SplitIInv == IInv /\ SplitLargest => IInv'
<1> SUFFICES ASSUME IInv, SplitLargest PROVE IInv'
  OBVIOUS
<1>1. TypeOK'
  BY SplitTyped DEF IInv
<1>2. PICK s \in Largest(spans) :
        /\ CanSplit(s)
        /\ spans' = (spans \ {s}) \cup
                      {[first |-> s.first, last |-> SpanMidpoint(s) - 1],
                       [first |-> SpanMidpoint(s), last |-> s.last]}
  BY DEF SplitLargest
<1>3. s \in Spans /\ s \in spans /\ spans \subseteq Spans
  BY DEF Largest, IInv, TypeOK
<1>4. SpanMidpoint(s) \in Int
  <2>1. s.first \in Int /\ SpanLength(s) \in Int
    BY <1>3 DEF SpanLength, Spans, Bytes
  <2> QED
    BY <2>1, RoundingTyped DEF SpanMidpoint
<1> DEFINE m == SpanMidpoint(s)
<1> DEFINE a == [first |-> s.first, last |-> m - 1]
<1> DEFINE b == [first |-> m, last |-> s.last]
<1>5. s.first < m /\ m <= s.last
  BY <1>2 DEF CanSplit
<1>6. SpansPartition
  BY DEF IInv, Planning, SplitLargest
<1>7. UnfinishedBytes' = UnfinishedBytes
  BY DEF SplitLargest, UnfinishedBytes
<1>8. SpansPartition'
  <2> HIDE DEF m
  <2>1. \A t \in Spans : t.first \in Int /\ t.last \in Int
    BY DEF Spans, Bytes
  <2>2. \A t \in spans' : t.first <= t.last /\ t.first .. t.last \subseteq UnfinishedBytes
    BY <1>2, <1>3, <1>4, <1>5, <1>6, <2>1 DEF SpansPartition, m
  <2>3. ASSUME NEW x \in UnfinishedBytes
        PROVE  \E t \in spans' : t.first <= x /\ x <= t.last
    <3>1. PICK t \in spans : t.first <= x /\ x <= t.last
      BY <1>6 DEF SpansPartition
    <3>2. x \in Int
      BY BlockInFile DEF UnfinishedBytes, BlockBytes, Bytes
    <3>3. a \in spans' /\ b \in spans'
      BY <1>2 DEF m
    <3>4. CASE t # s
      BY <1>2, <3>1, <3>4
    <3>5. CASE t = s
      <4>1. (a.first <= x /\ x <= a.last) \/ (b.first <= x /\ x <= b.last)
        BY <3>1, <3>2, <3>5, <1>3, <1>4, <2>1 DEF m
      <4> QED
        BY <3>3, <4>1
    <3> QED
      BY <3>4, <3>5
  <2>4. ASSUME NEW t \in spans', NEW u \in spans', t # u
        PROVE  t.last < u.first \/ u.last < t.first
    <3>1. \A v \in spans \ {s} : v.last < s.first \/ s.last < v.first
      BY <1>3, <1>6 DEF SpansPartition
    <3>2. \A v \in spans \ {s} : /\ v.last < a.first \/ a.last < v.first
                                 /\ v.last < b.first \/ b.last < v.first
      BY <1>3, <1>4, <1>5, <2>1, <3>1 DEF m
    <3>3. a.last < b.first
      BY <1>4 DEF m
    <3>4. t \in (spans \ {s}) \cup {a, b} /\ u \in (spans \ {s}) \cup {a, b}
      BY <1>2 DEF m
    <3> HIDE DEF a, b
    <3> QED
      BY <2>4, <3>2, <3>3, <3>4, <1>6 DEF SpansPartition
  <2> QED
    BY <1>7, <2>2, <2>3, <2>4 DEF SpansPartition
<1>9. Planning'
  BY <1>8 DEF IInv, Planning, SplitLargest, rangeVars, handleVars
<1>10. LiveRanges' = LiveRanges /\ phase' = "split" /\ phase = "split"
  BY DEF SplitLargest, LiveRanges, rangeVars
<1>11. LiveRanges = {}
  BY DEF IInv, Planning, SplitLargest, LiveRanges
<1> QED
  BY <1>1, <1>7, <1>9, <1>10, <1>11
  DEF IInv, Planning, SplitLargest, rangeVars, handleVars, Partition, Cursors, Leases, Ownership,
      Completion, Delivered, Ended, NoDuplicates

LEMMA BuildIInv == IInv /\ BuildRanges => IInv'
<1> SUFFICES ASSUME IInv, BuildRanges PROVE IInv'
  OBVIOUS
<1>1. TypeOK'
  BY BuildTyped DEF IInv
<1>2. PICK n \in 1 .. MaxRanges : \E f \in [0 .. (n - 1) -> spans] :
        /\ SortedEnumeration(f, n)
        /\ next_range_id' = n
        /\ start_offset' = [r \in RangeIds |-> IF r < n THEN f[r].first ELSE 0]
        /\ end_offset' = [r \in RangeIds |-> IF r < n THEN f[r].last ELSE 0]
        /\ current_offset' = [r \in RangeIds |-> IF r < n THEN f[r].first ELSE 0]
        /\ pending_ranges' = [i \in 1 .. n |-> i - 1]
  BY DEF BuildRanges
<1>3. PICK f \in [0 .. (n - 1) -> spans] :
        /\ SortedEnumeration(f, n)
        /\ start_offset' = [r \in RangeIds |-> IF r < n THEN f[r].first ELSE 0]
        /\ end_offset' = [r \in RangeIds |-> IF r < n THEN f[r].last ELSE 0]
        /\ current_offset' = [r \in RangeIds |-> IF r < n THEN f[r].first ELSE 0]
  BY <1>2
<1>4. LiveRanges' = 0 .. (n - 1)
  BY <1>2 DEF LiveRanges
<1>5. \A r \in 0 .. (n - 1) : /\ f[r] \in spans
                              /\ f[r].first \in Int /\ f[r].last \in Int
                              /\ start_offset'[r] = f[r].first
                              /\ end_offset'[r] = f[r].last
                              /\ current_offset'[r] = f[r].first
  <2>1. \A r \in 0 .. (n - 1) : r \in RangeIds /\ r < n
    BY DEF RangeIds
  <2>2. \A t \in spans : t.first \in Int /\ t.last \in Int
    BY DEF IInv, TypeOK, Spans, Bytes
  <2> QED
    BY <1>3, <2>1, <2>2
<1>6. SpansPartition
  BY DEF IInv, Planning, BuildRanges
<1>7. UnfinishedBytes' = UnfinishedBytes
  BY DEF BuildRanges, UnfinishedBytes
<1>8. phase' = "run" /\ failure' = FALSE /\ completion_notified' = {} /\ marked_finished' = {}
      /\ control' = <<>> /\ fetched' = {} /\ \A h \in Handles : range'[h] = NoRange
  BY DEF IInv, Planning, Ended, BuildRanges, handleVars, TypeOK
<1>9. Partition'
  <2>1. \A r \in 0 .. (n - 1) : /\ start_offset'[r] <= end_offset'[r]
                                /\ start_offset'[r] .. end_offset'[r] \subseteq UnfinishedBytes
    BY <1>5, <1>6 DEF SpansPartition
  <2>2. \A x \in UnfinishedBytes :
          \E r \in 0 .. (n - 1) : start_offset'[r] <= x /\ x <= end_offset'[r]
    <3> TAKE x \in UnfinishedBytes
    <3>1. PICK t \in spans : t.first <= x /\ x <= t.last
      BY <1>6 DEF SpansPartition
    <3>2. PICK r \in 0 .. (n - 1) : f[r] = t
      BY <1>3 DEF SortedEnumeration
    <3> WITNESS r \in 0 .. (n - 1)
    <3> QED
      BY <1>5, <3>1, <3>2
  <2>3. ASSUME NEW r \in 0 .. (n - 1), NEW q \in 0 .. (n - 1), r # q
        PROVE  end_offset'[r] < start_offset'[q] \/ end_offset'[q] < start_offset'[r]
    <3>1. f[r].first < f[q].first \/ f[q].first < f[r].first
      <4>1. r < q \/ q < r
        BY <2>3
      <4> QED
        BY <1>3, <4>1 DEF SortedEnumeration
    <3>2. f[r] # f[q]
      BY <3>1, <1>5
    <3>3. f[r].last < f[q].first \/ f[q].last < f[r].first
      BY <3>2, <1>5, <1>6 DEF SpansPartition
    <3> QED
      BY <3>3, <1>5
  <2> QED
    BY <1>4, <1>7, <2>1, <2>2, <2>3 DEF Partition, RangeBytes
<1>10. Cursors'
  BY <1>4, <1>5, <1>6 DEF Cursors, SpansPartition
<1>11. Ownership'
  <2>1. pending_ranges' = [i \in 1 .. n |-> i - 1] /\ Len(pending_ranges') = n
    BY <1>2
  <2>2. \A r \in 0 .. (n - 1) : r + 1 \in 1 .. n /\ pending_ranges'[r + 1] = r
    BY <2>1
  <2>3. \A r \in 0 .. (n - 1) : current_offset'[r] <= end_offset'[r]
    BY <1>5, <1>6 DEF SpansPartition
  <2>4. NoDuplicates(pending_ranges)'
    BY <2>1 DEF NoDuplicates
  <2>5. \A i \in 1 .. n : pending_ranges'[i] \in 0 .. (n - 1)
    BY <2>1
  <2>6. \A i \in 1 .. n, h \in Handles : range'[h] # pending_ranges'[i]
    BY <1>8, <2>5
  <2> QED
    BY <1>4, <1>8, <2>1, <2>2, <2>3, <2>4, <2>5, <2>6 DEF Ownership, InPending
<1>12. Delivered'
  BY <1>4, <1>5, <1>8 DEF Delivered, RangeBytes
<1> QED
  BY <1>1, <1>8, <1>9, <1>10, <1>11, <1>12
  DEF IInv, Planning, Leases, Completion, Ended, NoDuplicates

\* The donor keeps the bytes below the midpoint, and whatever is leased of it
\* lies below its cursor, hence below the midpoint.
LEMMA StealIInv == IInv /\ Steal => IInv'
<1> SUFFICES ASSUME IInv, Steal PROVE IInv'
  OBVIOUS
<1> DEFINE id == next_range_id
<1>1. PICK d \in LiveRanges :
        /\ CanSteal(d)
        /\ end_offset' = [end_offset EXCEPT ![id] = end_offset[d],
                                           ![d] = StealMidpoint(d) - 1]
        /\ start_offset' = [start_offset EXCEPT ![id] = StealMidpoint(d)]
        /\ current_offset' = [current_offset EXCEPT ![id] = StealMidpoint(d)]
        /\ pending_ranges' = <<id>>
  BY DEF Steal
<1> DEFINE m == StealMidpoint(d)
<1>2. id \in RangeIds /\ d \in RangeIds /\ id # d /\ id \notin LiveRanges
  BY DEF Steal, IInv, TypeOK, RangeIds, LiveRanges
<1>3. m \in Int
  <2>1. current_offset[d] \in Int /\ Remaining(d) \in Int
    BY <1>2 DEF Remaining, IInv, TypeOK, Bytes
  <2> QED
    BY <2>1, RoundingTyped DEF StealMidpoint
<1>4. current_offset[d] < m /\ m <= end_offset[d]
  BY <1>1 DEF CanSteal
<1>5. LiveRanges' = LiveRanges \cup {id} /\ LiveRanges \subseteq RangeIds
  BY DEF Steal, LiveRanges, IInv, TypeOK, RangeIds
<1> HIDE DEF m, id
<1>6. /\ start_offset'[id] = m /\ end_offset'[id] = end_offset[d] /\ current_offset'[id] = m
      /\ start_offset'[d] = start_offset[d] /\ end_offset'[d] = m - 1
      /\ current_offset'[d] = current_offset[d]
  BY <1>1, <1>2 DEF IInv, TypeOK, m
<1>7. \A r \in LiveRanges : /\ start_offset'[r] = start_offset[r]
                            /\ current_offset'[r] = current_offset[r]
                            /\ r # d => end_offset'[r] = end_offset[r]
  BY <1>1, <1>2, <1>5 DEF IInv, TypeOK, m
<1>8. \A r \in LiveRanges : /\ start_offset[r] \in Int /\ end_offset[r] \in Int
                            /\ current_offset[r] \in Int
  BY <1>5, RangeTyped DEF IInv
<1>9. phase = "run" /\ phase' = "run" /\ pending_ranges = <<>>
  BY DEF Steal
<1>10. UNCHANGED <<failure, finishedAtStart, completion_notified, marked_finished,
                   range, next_offset, request_end, control, fetched>>
  BY DEF Steal, handleVars
<1>11. TypeOK'
  BY StealTyped DEF IInv
<1>12. UnfinishedBytes' = UnfinishedBytes
  BY <1>10 DEF UnfinishedBytes
<1>13. Partition'
  <2>1. /\ \A r \in LiveRanges : /\ start_offset[r] <= end_offset[r]
                                 /\ start_offset[r] .. end_offset[r] \subseteq UnfinishedBytes
        /\ \A x \in UnfinishedBytes :
             \E r \in LiveRanges : start_offset[r] <= x /\ x <= end_offset[r]
        /\ \A r, q \in LiveRanges :
             r # q => end_offset[r] < start_offset[q] \/ end_offset[q] < start_offset[r]
    BY <1>9 DEF IInv, Partition, RangeBytes
  <2>2. start_offset[d] <= current_offset[d]
    BY DEF IInv, Cursors
  <2>3. \A r \in LiveRanges' : /\ start_offset'[r] <= end_offset'[r]
                               /\ start_offset'[r] .. end_offset'[r] \subseteq UnfinishedBytes
    <3>1. start_offset'[id] .. end_offset'[id] \subseteq start_offset[d] .. end_offset[d]
      BY <1>3, <1>4, <1>6, <1>8, <2>2
    <3>2. start_offset'[d] .. end_offset'[d] \subseteq start_offset[d] .. end_offset[d]
      BY <1>3, <1>4, <1>6, <1>8, <2>2
    <3>3. start_offset'[id] <= end_offset'[id] /\ start_offset'[d] <= end_offset'[d]
      BY <1>3, <1>4, <1>6, <1>8, <2>2
    <3> QED
      BY <3>1, <3>2, <3>3, <1>5, <1>7, <2>1
  <2>4. ASSUME NEW x \in UnfinishedBytes
        PROVE  \E r \in LiveRanges' : start_offset'[r] <= x /\ x <= end_offset'[r]
    <3>1. PICK r \in LiveRanges : start_offset[r] <= x /\ x <= end_offset[r]
      BY <2>1
    <3>2. x \in Int
      BY BlockInFile DEF UnfinishedBytes, BlockBytes, Bytes
    <3>3. CASE r # d
      BY <3>1, <3>3, <1>5, <1>7
    <3>4. CASE r = d /\ x < m
      BY <3>1, <3>2, <3>4, <1>3, <1>5, <1>6
    <3>5. CASE r = d /\ ~(x < m)
      BY <3>1, <3>2, <3>5, <1>3, <1>5, <1>6
    <3> QED
      BY <3>3, <3>4, <3>5
  <2>5. ASSUME NEW r \in LiveRanges', NEW q \in LiveRanges', r # q
        PROVE  end_offset'[r] < start_offset'[q] \/ end_offset'[q] < start_offset'[r]
    <3>1. \A p \in LiveRanges \ {d} :
            end_offset[p] < start_offset[d] \/ end_offset[d] < start_offset[p]
      BY <2>1
    <3>2. \A p \in LiveRanges \ {d} :
            /\ end_offset'[p] < start_offset'[d] \/ end_offset'[d] < start_offset'[p]
            /\ end_offset'[p] < start_offset'[id] \/ end_offset'[id] < start_offset'[p]
      BY <1>3, <1>4, <1>6, <1>7, <1>8, <2>2, <3>1
    <3>3. end_offset'[d] < start_offset'[id]
      BY <1>3, <1>6
    <3>4. \A p, s \in LiveRanges \ {d} :
            p # s => end_offset'[p] < start_offset'[s] \/ end_offset'[s] < start_offset'[p]
      BY <1>7, <2>1
    <3>5. r \in (LiveRanges \ {d}) \cup {d, id} /\ q \in (LiveRanges \ {d}) \cup {d, id}
      BY <1>5
    <3> QED
      BY <2>5, <3>2, <3>3, <3>4, <3>5
  <2> QED
    BY <1>12, <2>3, <2>4, <2>5 DEF Partition, RangeBytes
<1>14. Cursors'
  BY <1>3, <1>4, <1>5, <1>6, <1>7, <1>8 DEF IInv, Cursors
<1>15. \A h \in Handles : range[h] # NoRange =>
         /\ LeaseOk(h, range[h])
         /\ \A g \in Handles : range[g] = range[h] => g = h
  BY DEF IInv, Leases
<1>16. \A h \in Handles : next_offset[h] \in Int /\ request_end[h] \in Int
  BY RangeTyped DEF IInv
<1>17. Leases'
  <2> SUFFICES ASSUME NEW h \in Handles, range[h] # NoRange
               PROVE  LeaseOk(h, range[h])'
    BY <1>10, <1>15 DEF Leases
  <2>1. LeaseOk(h, range[h])
    BY <1>15
  <2>2. CASE range[h] = d
    BY <1>3, <1>4, <1>5, <1>6, <1>8, <1>9, <1>10, <1>16, <2>1, <2>2 DEF LeaseOk
  <2>3. CASE range[h] # d
    BY <1>5, <1>7, <1>9, <1>10, <2>1, <2>3 DEF LeaseOk
  <2> QED
    BY <2>2, <2>3
<1>18. \A r \in completion_notified :
         r \in LiveRanges /\ current_offset[r] = end_offset[r] + 1 /\ RangeBytes(r) \subseteq fetched
  BY DEF IInv, Completion
<1>19. d \notin completion_notified
  BY <1>3, <1>4, <1>8, <1>18
<1>20. Completion'
  <2>1. \A r \in completion_notified : RangeBytes(r)' = RangeBytes(r)
    BY <1>7, <1>18, <1>19 DEF RangeBytes
  <2> QED
    BY <1>5, <1>7, <1>10, <1>18, <1>19, <2>1 DEF IInv, Completion, NoDuplicates
<1>21. Ownership'
  <2>1. pending_ranges' = <<id>>
    BY <1>1 DEF id
  <2>2. \A h \in Handles : range[h] # id
    BY <1>15, <1>2 DEF LeaseOk, IInv, TypeOK, RangeIds, id
  <2>3. id \in LiveRanges' \ completion_notified /\ current_offset'[id] <= end_offset'[id]
    BY <1>2, <1>4, <1>5, <1>6, <1>18
  <2>4. \A r \in LiveRanges : (\E h \in Handles : range[h] = r) \/ r \in completion_notified
    BY <1>9 DEF IInv, Ownership, InPending
  <2>5. Len(pending_ranges') = 1 /\ pending_ranges'[1] = id
    BY <2>1
  <2>6. NoDuplicates(pending_ranges)'
    BY <2>1 DEF NoDuplicates
  <2>7. ASSUME NEW i \in 1 .. Len(pending_ranges')
        PROVE  /\ pending_ranges'[i] \in LiveRanges' \ completion_notified'
               /\ current_offset'[pending_ranges'[i]] <= end_offset'[pending_ranges'[i]]
               /\ \A h \in Handles : range'[h] # pending_ranges'[i]
    <3>1. pending_ranges'[i] = id
      BY <2>5
    <3> QED
      BY <3>1, <1>10, <2>2, <2>3
  <2>8. ASSUME NEW r \in LiveRanges'
        PROVE  \/ \E i \in 1 .. Len(pending_ranges') : pending_ranges'[i] = r
               \/ \E h \in Handles : range'[h] = r
               \/ r \in completion_notified'
    <3>1. CASE r = id
      BY <2>5, <3>1
    <3>2. CASE r \in LiveRanges
      BY <1>10, <2>4, <3>2
    <3> QED
      BY <1>5, <3>1, <3>2
  <2> QED
    BY <2>6, <2>7, <2>8 DEF Ownership, InPending
<1>22. Delivered'
  <2>1. /\ fetched \subseteq UnfinishedBytes
        /\ \A r \in LiveRanges : \A x \in start_offset[r] .. end_offset[r] :
             /\ current_offset[r] <= x => x \notin fetched
             /\ \A h \in Handles :
                  range[h] = r /\ next_offset[h] <= x /\ x <= request_end[h] => x \notin fetched
             /\ (/\ ~failure
                 /\ x < current_offset[r]
                 /\ \A h \in Handles : range[h] = r => x < next_offset[h]) => x \in fetched
    BY DEF IInv, Delivered, RangeBytes
  <2>2. \A r \in LiveRanges : start_offset'[r] .. end_offset'[r] \subseteq start_offset[r] .. end_offset[r]
    BY <1>3, <1>4, <1>6, <1>7, <1>8
  <2>3. \A x \in start_offset'[id] .. end_offset'[id] :
          /\ x \in start_offset[d] .. end_offset[d]
          /\ current_offset[d] <= x
          /\ ~(x < current_offset'[id])
    <3>1. start_offset[d] <= current_offset[d]
      BY DEF IInv, Cursors
    <3> QED
      BY <1>3, <1>4, <1>6, <1>8, <3>1
  <2>4. ASSUME NEW r \in LiveRanges', NEW x \in start_offset'[r] .. end_offset'[r]
        PROVE  /\ current_offset'[r] <= x => x \notin fetched
               /\ \A h \in Handles :
                    range[h] = r /\ next_offset[h] <= x /\ x <= request_end[h] => x \notin fetched
               /\ (/\ ~failure
                   /\ x < current_offset'[r]
                   /\ \A h \in Handles : range[h] = r => x < next_offset[h]) => x \in fetched
    <3>1. CASE r = id
      BY <2>1, <2>3, <2>4, <3>1
    <3>2. CASE r \in LiveRanges
      BY <2>1, <2>2, <2>4, <3>2, <1>7
    <3> QED
      BY <1>5, <3>1, <3>2
  <2> QED
    BY <1>10, <1>12, <2>1, <2>4 DEF Delivered, RangeBytes
<1>23. Planning' /\ Ended'
  BY <1>9, <1>10 DEF IInv, Planning, Ended
<1> QED
  BY <1>11, <1>13, <1>14, <1>17, <1>20, <1>21, <1>22, <1>23 DEF IInv

LEMMA TailOf ==
  ASSUME NEW S, NEW s \in Seq(S), s # <<>>
  PROVE  /\ Len(s) \in Nat \ {0} /\ Head(s) = s[1]
         /\ Len(Tail(s)) = Len(s) - 1
         /\ \A i \in 1 .. Len(Tail(s)) : i + 1 \in 1 .. Len(s) /\ Tail(s)[i] = s[i + 1]
  OBVIOUS

\* What the invariant says of the range at the head of the deque.
LEMMA HeadOfDeque ==
  ASSUME IInv, phase = "run", pending_ranges # <<>>
  PROVE  LET r == Head(pending_ranges)
         IN /\ r \in LiveRanges /\ r \in RangeIds
            /\ r \notin completion_notified /\ r \notin marked_finished
            /\ current_offset[r] <= end_offset[r]
            /\ \A h \in Handles : range[h] # r
            /\ \A i \in 1 .. Len(Tail(pending_ranges)) : Tail(pending_ranges)[i] # r
<1>1. /\ pending_ranges \in Seq(RangeIds)
      /\ NoDuplicates(pending_ranges)
      /\ \A i \in 1 .. Len(pending_ranges) :
           /\ pending_ranges[i] \in LiveRanges \ completion_notified
           /\ current_offset[pending_ranges[i]] <= end_offset[pending_ranges[i]]
           /\ \A h \in Handles : range[h] # pending_ranges[i]
  BY DEF IInv, Ownership, TypeOK
<1> DEFINE s == pending_ranges
<1>2. 1 \in 1 .. Len(s) /\ Head(s) = s[1]
  BY <1>1, TailOf
<1>3. \A i \in 1 .. Len(Tail(s)) : Tail(s)[i] # Head(s)
  BY <1>1, <1>2, TailOf DEF NoDuplicates
<1>4. marked_finished \subseteq completion_notified /\ LiveRanges \subseteq RangeIds
  BY RangeTyped DEF IInv, Completion
<1> QED
  BY <1>1, <1>2, <1>3, <1>4

LEMMA DispatchIInv ==
  ASSUME AcceptRanges, IInv, NEW h \in Handles, Dispatch(h)
  PROVE  IInv'
<1> DEFINE r == Head(pending_ranges)
<1> DEFINE w == Window(r).last
<1>1. phase = "run" /\ range[h] = NoRange /\ pending_ranges # <<>>
      /\ pending_ranges' = Tail(pending_ranges)
  BY DEF Dispatch, Idle
<1>2. /\ r \in LiveRanges /\ r \in RangeIds
      /\ r \notin completion_notified /\ r \notin marked_finished
      /\ current_offset[r] <= end_offset[r]
      /\ \A g \in Handles : range[g] # r
      /\ \A i \in 1 .. Len(Tail(pending_ranges)) : Tail(pending_ranges)[i] # r
  BY <1>1, HeadOfDeque
<1>3. TypeOK /\ TypeOK'
  BY HandleTyped DEF IInv, HandleStep
<1>4. /\ Window(r).first = current_offset[r]
      /\ w \in Int /\ current_offset[r] <= w /\ w <= end_offset[r]
  BY <1>2, <1>3, WindowTyped DEF Bytes
<1>5. Arm(h, r) /\ UNCHANGED <<completion_notified, control>>
  <2>1. ~(current_offset[r] > end_offset[r])
    BY <1>2, <1>3, RangeTyped
  <2> QED
    BY <1>2, <2>1 DEF Dispatch, HasUnleased
<1>6. UNCHANGED <<phase, failure, finishedAtStart, spans, next_range_id, start_offset,
                  end_offset, marked_finished, fetched>>
  BY DEF Dispatch, rangeVars
<1>7. NoRange \notin RangeIds /\ LiveRanges \subseteq RangeIds /\ LiveRanges' = LiveRanges
  BY <1>3, <1>6, RangeTyped DEF LiveRanges
<1>8. \A q \in RangeIds : /\ start_offset[q] \in Int /\ end_offset[q] \in Int
                          /\ current_offset[q] \in Int
  BY <1>3, RangeTyped
<1>9. UnfinishedBytes' = UnfinishedBytes
  BY <1>6 DEF UnfinishedBytes
<1> HIDE DEF r, w
<1>10. /\ range'[h] = r /\ next_offset'[h] = current_offset[r] /\ request_end'[h] = w
       /\ \A g \in Handles \ {h} : /\ range'[g] = range[g]
                                   /\ next_offset'[g] = next_offset[g]
                                   /\ request_end'[g] = request_end[g]
       /\ current_offset'[r] = w + 1
       /\ \A q \in RangeIds \ {r} : current_offset'[q] = current_offset[q]
  BY <1>2, <1>3, <1>4, <1>5 DEF Arm, TypeOK, w
<1>11. Cursors'
  BY <1>2, <1>4, <1>6, <1>7, <1>8, <1>10 DEF IInv, Cursors
<1>12. Leases'
  <2>1. LeaseOk(h, range[h])'
    <3>1. start_offset[r] <= current_offset[r]
      BY <1>2 DEF IInv, Cursors
    <3>2. r \in LiveRanges' \ completion_notified'
      BY <1>2, <1>5, <1>7
    <3>3. /\ start_offset'[r] <= next_offset'[h]
          /\ next_offset'[h] <= request_end'[h] + 1
          /\ next_offset'[h] <= current_offset'[r]
          /\ request_end'[h] <= end_offset'[r]
          /\ current_offset'[r] = request_end'[h] + 1
      BY <1>2, <1>4, <1>6, <1>8, <1>10, <3>1
    <3> QED
      BY <3>2, <3>3, <1>4, <1>8, <1>10, <1>2 DEF LeaseOk
  <2>2. ASSUME NEW g \in Handles \ {h}, range'[g] # NoRange
        PROVE  LeaseOk(g, range[g])'
    <3>1. LeaseOk(g, range[g]) /\ range[g] # r /\ range[g] \in RangeIds
      BY <2>2, <1>2, <1>3, <1>10 DEF IInv, Leases, TypeOK
    <3> QED
      BY <3>1, <1>5, <1>6, <1>7, <1>10 DEF LeaseOk
  <2>3. \A g, k \in Handles : range'[g] # NoRange /\ range'[k] = range'[g] => k = g
    BY <1>2, <1>10 DEF IInv, Leases
  <2> QED
    BY <2>1, <2>2, <2>3 DEF Leases
<1>13. Ownership'
  <2>1. /\ pending_ranges \in Seq(RangeIds)
        /\ \A i, j \in 1 .. Len(pending_ranges) :
             pending_ranges[i] = pending_ranges[j] => i = j
        /\ \A i \in 1 .. Len(pending_ranges) :
             /\ pending_ranges[i] \in LiveRanges \ completion_notified
             /\ current_offset[pending_ranges[i]] <= end_offset[pending_ranges[i]]
             /\ \A g \in Handles : range[g] # pending_ranges[i]
        /\ \A q \in LiveRanges :
             \/ \E i \in 1 .. Len(pending_ranges) : pending_ranges[i] = q
             \/ \E g \in Handles : range[g] = q
             \/ q \in completion_notified
    BY <1>1, <1>3 DEF IInv, Ownership, NoDuplicates, InPending, TypeOK
  <2>2. /\ Len(pending_ranges) \in Nat \ {0} /\ r = pending_ranges[1]
        /\ Len(pending_ranges') = Len(pending_ranges) - 1
        /\ \A i \in 1 .. Len(pending_ranges') :
             i + 1 \in 1 .. Len(pending_ranges) /\ pending_ranges'[i] = pending_ranges[i + 1]
    BY <1>1, <2>1, TailOf DEF r
  <2>3. ASSUME NEW i \in 1 .. Len(pending_ranges')
        PROVE  /\ pending_ranges'[i] \in LiveRanges \ completion_notified
               /\ current_offset'[pending_ranges'[i]] <= end_offset[pending_ranges'[i]]
               /\ \A g \in Handles : range'[g] # pending_ranges'[i]
    <3>1. pending_ranges'[i] # r
      BY <1>1, <1>2
    <3>2. PICK j \in 1 .. Len(pending_ranges) : pending_ranges'[i] = pending_ranges[j]
      BY <2>2
    <3> QED
      BY <3>1, <3>2, <2>1, <1>7, <1>10
  <2>4. ASSUME NEW i \in 1 .. Len(pending_ranges'), NEW j \in 1 .. Len(pending_ranges'),
               pending_ranges'[i] = pending_ranges'[j]
        PROVE  i = j
    BY <2>1, <2>2, <2>4
  <2>5. ASSUME NEW q \in LiveRanges
        PROVE  \/ \E i \in 1 .. Len(pending_ranges') : pending_ranges'[i] = q
               \/ \E g \in Handles : range'[g] = q
               \/ q \in completion_notified
    <3>1. CASE q = r
      BY <3>1, <1>10
    <3>2. ASSUME NEW i \in 1 .. Len(pending_ranges), pending_ranges[i] = q, q # r
          PROVE  \E k \in 1 .. Len(pending_ranges') : pending_ranges'[k] = q
      <4>1. i # 1
        BY <2>2, <3>2
      <4>2. i - 1 \in 1 .. Len(pending_ranges') /\ (i - 1) + 1 = i
        BY <2>2, <3>2, <4>1
      <4>3. pending_ranges'[i - 1] = pending_ranges[i]
        BY <2>2, <4>2
      <4> QED
        BY <3>2, <4>2, <4>3
    <3>3. ASSUME NEW g \in Handles, range[g] = q
          PROVE  range'[g] = q
      BY <3>3, <1>1, <1>7, <1>10
    <3> QED
      BY <2>1, <3>1, <3>2, <3>3
  <2> QED
    BY <1>5, <1>6, <1>7, <2>3, <2>4, <2>5 DEF Ownership, NoDuplicates, InPending
<1>14. Completion'
  <2>1. \A q \in completion_notified : q \in LiveRanges /\ q # r
    BY <1>2 DEF IInv, Completion
  <2> QED
    BY <2>1, <1>5, <1>6, <1>7, <1>10 DEF IInv, Completion, NoDuplicates, RangeBytes
<1>15. Delivered'
  <2>1. ASSUME NEW q \in LiveRanges, NEW x \in start_offset[q] .. end_offset[q]
        PROVE  /\ current_offset'[q] <= x => x \notin fetched
               /\ \A g \in Handles :
                    range'[g] = q /\ next_offset'[g] <= x /\ x <= request_end'[g] => x \notin fetched
               /\ (/\ ~failure
                   /\ x < current_offset'[q]
                   /\ \A g \in Handles : range'[g] = q => x < next_offset'[g]) => x \in fetched
    <3>1. /\ current_offset[q] <= x => x \notin fetched
          /\ \A g \in Handles :
               range[g] = q /\ next_offset[g] <= x /\ x <= request_end[g] => x \notin fetched
          /\ (/\ ~failure
              /\ x < current_offset[q]
              /\ \A g \in Handles : range[g] = q => x < next_offset[g]) => x \in fetched
      BY DEF IInv, Delivered, RangeBytes
    <3>2. CASE q = r
      BY <3>1, <3>2, <1>2, <1>4, <1>8, <1>10
    <3>3. CASE q # r
      BY <3>1, <3>3, <1>1, <1>7, <1>10
    <3> QED
      BY <3>2, <3>3
  <2> QED
    BY <2>1, <1>6, <1>7, <1>9 DEF IInv, Delivered, RangeBytes
<1>16. Partition' /\ Planning' /\ Ended'
  BY <1>1, <1>6, <1>7, <1>9 DEF IInv, Partition, Planning, Ended, RangeBytes
<1> QED
  BY <1>3, <1>11, <1>12, <1>13, <1>14, <1>15, <1>16 DEF IInv

LEMMA DispatchFailsIInv ==
  ASSUME AcceptRanges, IInv, NEW h \in Handles, DispatchFails(h)
  PROVE  IInv'
<1> DEFINE r == Head(pending_ranges)
<1> DEFINE w == Window(r).last
<1>1. phase = "run" /\ pending_ranges # <<>> /\ phase' = "stopping" /\ failure' = TRUE
      /\ current_offset' = [current_offset EXCEPT ![r] = w + 1]
  BY DEF DispatchFails
<1>2. /\ r \in LiveRanges /\ r \in RangeIds /\ r \notin completion_notified
      /\ current_offset[r] <= end_offset[r]
      /\ \A g \in Handles : range[g] # r
  BY <1>1, HeadOfDeque
<1>3. TypeOK /\ TypeOK'
  BY HandleTyped DEF IInv, HandleStep
<1>4. w \in Int /\ current_offset[r] <= w /\ w <= end_offset[r]
  BY <1>2, <1>3, WindowTyped DEF Bytes
<1>5. UNCHANGED <<finishedAtStart, spans, next_range_id, start_offset, end_offset,
                  completion_notified, marked_finished, range, next_offset, request_end,
                  control, fetched>>
  BY DEF DispatchFails, rangeVars, handleVars
<1>6. LiveRanges \subseteq RangeIds /\ LiveRanges' = LiveRanges /\ UnfinishedBytes' = UnfinishedBytes
  BY <1>3, <1>5, RangeTyped DEF LiveRanges, UnfinishedBytes
<1>7. \A q \in RangeIds : /\ start_offset[q] \in Int /\ end_offset[q] \in Int
                          /\ current_offset[q] \in Int
  BY <1>3, RangeTyped
<1> HIDE DEF r, w
<1>8. /\ current_offset'[r] = w + 1
      /\ \A q \in RangeIds \ {r} : current_offset'[q] = current_offset[q]
  BY <1>1, <1>2, <1>3 DEF TypeOK
<1>9. Cursors'
  BY <1>2, <1>4, <1>5, <1>6, <1>7, <1>8 DEF IInv, Cursors
<1>10. Leases'
  <2>1. ASSUME NEW g \in Handles, range[g] # NoRange
        PROVE  LeaseOk(g, range[g])'
    <3>1. LeaseOk(g, range[g]) /\ range[g] # r /\ range[g] \in RangeIds
      BY <2>1, <1>2, <1>3 DEF IInv, Leases, TypeOK
    <3> QED
      BY <3>1, <1>1, <1>5, <1>6, <1>8 DEF LeaseOk
  <2> QED
    BY <2>1, <1>5 DEF IInv, Leases
<1>11. Completion'
  <2>1. \A q \in completion_notified : q \in LiveRanges /\ q # r
    BY <1>2 DEF IInv, Completion
  <2> QED
    BY <2>1, <1>5, <1>6, <1>8 DEF IInv, Completion, NoDuplicates, RangeBytes
<1>12. Delivered'
  <2>1. \A q \in LiveRanges : \A x \in start_offset[q] .. end_offset[q] :
          current_offset'[q] <= x => current_offset[q] <= x
    BY <1>2, <1>4, <1>6, <1>7, <1>8
  <2> QED
    BY <2>1, <1>1, <1>5, <1>6 DEF IInv, Delivered, RangeBytes
<1>13. Partition' /\ Planning' /\ Ended' /\ Ownership'
  BY <1>1, <1>5, <1>6 DEF IInv, Partition, Planning, Ended, Ownership, RangeBytes
<1> QED
  BY <1>3, <1>9, <1>10, <1>11, <1>12, <1>13 DEF IInv

\* What the invariant says of a lease in flight.
LEMMA HeldLease ==
  ASSUME IInv, NEW h \in Handles, ~Idle(h)
  PROVE  LET r == range[h]
         IN /\ r \in LiveRanges /\ r \in RangeIds /\ r # NoRange
            /\ LeaseOk(h, r)
            /\ \A g \in Handles : range[g] = r => g = h
            /\ start_offset[r] \in Int /\ end_offset[r] \in Int /\ current_offset[r] \in Int
            /\ next_offset[h] \in Int /\ request_end[h] \in Int
            /\ phase # "split"
<1>1. range[h] # NoRange
  BY DEF Idle
<1>2. LeaseOk(h, range[h]) /\ \A g \in Handles : range[g] = range[h] => g = h
  BY <1>1 DEF IInv, Leases
<1>3. TypeOK /\ Planning
  BY DEF IInv
<1>4. range[h] \in LiveRanges /\ range[h] \in RangeIds
  BY <1>2, <1>3, RangeTyped DEF LeaseOk
<1> QED
  BY <1>1, <1>2, <1>3, <1>4, RangeTyped DEF Planning

LEMMA ReceiveIInv ==
  ASSUME IInv, NEW h \in Handles, NEW n \in 1 .. WindowBytes, Receive(h, n)
  PROVE  IInv'
<1> DEFINE r == range[h]
<1> DEFINE new == next_offset[h] .. (next_offset[h] + n - 1)
<1>1. /\ phase = "run" /\ ~Idle(h)
      /\ next_offset[h] + n - 1 <= request_end[h]
      /\ fetched' = fetched \cup new
      /\ next_offset' = [next_offset EXCEPT ![h] = @ + n]
  BY DEF Receive
<1>2. /\ r \in LiveRanges /\ r \in RangeIds /\ r # NoRange
      /\ LeaseOk(h, r)
      /\ \A g \in Handles : range[g] = r => g = h
      /\ start_offset[r] \in Int /\ end_offset[r] \in Int /\ current_offset[r] \in Int
      /\ next_offset[h] \in Int /\ request_end[h] \in Int
  BY <1>1, HeldLease
<1>3. TypeOK /\ TypeOK'
  BY HandleTyped DEF IInv, HandleStep
<1>4. UNCHANGED <<phase, failure, finishedAtStart, spans, next_range_id, start_offset, end_offset,
                  current_offset, completion_notified, marked_finished, pending_ranges, range,
                  request_end, control>>
  BY DEF Receive, rangeVars
<1>5. LiveRanges \subseteq RangeIds /\ LiveRanges' = LiveRanges /\ UnfinishedBytes' = UnfinishedBytes
  BY <1>3, <1>4, RangeTyped DEF LiveRanges, UnfinishedBytes
<1>6. \A q \in RangeIds : /\ start_offset[q] \in Int /\ end_offset[q] \in Int
                          /\ current_offset[q] \in Int
  BY <1>3, RangeTyped
<1>7. /\ next_offset'[h] = next_offset[h] + n
      /\ \A g \in Handles \ {h} : next_offset'[g] = next_offset[g]
  BY <1>1, <1>3 DEF TypeOK
<1>8. /\ start_offset[r] <= next_offset[h]
      /\ next_offset[h] + n - 1 <= request_end[h]
      /\ request_end[h] <= end_offset[r]
      /\ current_offset[r] = request_end[h] + 1
  BY <1>1, <1>2 DEF LeaseOk
<1> HIDE DEF r
<1>9. new \subseteq RangeBytes(r)
  BY <1>2, <1>8 DEF RangeBytes
<1>10. \A q \in LiveRanges \ {r} : RangeBytes(q) \cap RangeBytes(r) = {}
  <2> TAKE q \in LiveRanges \ {r}
  <2>1. end_offset[q] < start_offset[r] \/ end_offset[r] < start_offset[q]
    BY <1>1, <1>2 DEF IInv, Partition
  <2> QED
    BY <2>1, <1>2, <1>5, <1>6 DEF RangeBytes
<1> HIDE DEF new
<1>11. Leases'
  <2>1. ASSUME NEW g \in Handles, range[g] # NoRange
        PROVE  LeaseOk(g, range[g])'
    <3>1. LeaseOk(g, range[g])
      BY <2>1 DEF IInv, Leases
    <3>2. CASE g = h
      BY <3>1, <3>2, <1>2, <1>4, <1>5, <1>7, <1>8 DEF LeaseOk, r
    <3>3. CASE g # h
      BY <3>1, <3>3, <1>4, <1>5, <1>7 DEF LeaseOk
    <3> QED
      BY <3>2, <3>3
  <2> QED
    BY <2>1, <1>4 DEF IInv, Leases
<1>12. Completion'
  BY <1>1, <1>4, <1>5 DEF IInv, Completion, NoDuplicates, RangeBytes
<1>13. Delivered'
  <2>1. ASSUME NEW q \in LiveRanges, NEW x \in RangeBytes(q)
        PROVE  /\ current_offset[q] <= x => x \notin fetched'
               /\ \A g \in Handles :
                    range[g] = q /\ next_offset'[g] <= x /\ x <= request_end[g] => x \notin fetched'
               /\ (/\ ~failure
                   /\ x < current_offset[q]
                   /\ \A g \in Handles : range[g] = q => x < next_offset'[g]) => x \in fetched'
    <3>1. /\ current_offset[q] <= x => x \notin fetched
          /\ \A g \in Handles :
               range[g] = q /\ next_offset[g] <= x /\ x <= request_end[g] => x \notin fetched
          /\ (/\ ~failure
              /\ x < current_offset[q]
              /\ \A g \in Handles : range[g] = q => x < next_offset[g]) => x \in fetched
      BY DEF IInv, Delivered
    <3>2. CASE q = r
      <4>1. x \in Int
        BY <3>2, <1>2 DEF RangeBytes
      <4>2. \A g \in Handles : range[g] = q => g = h
        BY <3>2, <1>2
      <4>3. range[h] = q
        BY <3>2 DEF r
      <4>4. x \in new <=> next_offset[h] <= x /\ x < next_offset[h] + n
        BY <4>1, <1>2 DEF new
      <4>5. current_offset[q] <= x => x \notin new
        BY <4>1, <4>4, <3>2, <1>2, <1>8
      <4>6. next_offset'[h] <= x /\ x <= request_end[h] => x \notin fetched'
        BY <4>1, <4>3, <4>4, <3>1, <1>1, <1>2, <1>7
      <4>7. ~failure /\ x < current_offset[q] /\ x < next_offset'[h] => x \in fetched'
        BY <4>1, <4>2, <4>4, <3>1, <1>1, <1>2, <1>7
      <4> QED
        BY <4>2, <4>3, <4>5, <4>6, <4>7, <3>1, <1>1
    <3>3. CASE q # r
      <4>1. x \notin new
        BY <3>3, <1>9, <1>10
      <4>2. \A g \in Handles : range[g] = q => next_offset'[g] = next_offset[g]
        BY <3>3, <1>7 DEF r
      <4> QED
        BY <4>1, <4>2, <3>1, <1>1
    <3> QED
      BY <3>2, <3>3
  <2>2. fetched' \subseteq UnfinishedBytes
    BY <1>1, <1>2, <1>9 DEF IInv, Delivered, Partition
  <2>3. \A q \in LiveRanges : RangeBytes(q)' = RangeBytes(q)
    BY <1>4 DEF RangeBytes
  <2> QED
    BY <2>1, <2>2, <2>3, <1>4, <1>5 DEF Delivered
<1>14. Partition' /\ Planning' /\ Ended' /\ Ownership' /\ Cursors'
  BY <1>1, <1>4, <1>5
  DEF IInv, Partition, Planning, Ended, Ownership, Cursors, RangeBytes, NoDuplicates, InPending
<1> QED
  BY <1>3, <1>11, <1>12, <1>13, <1>14 DEF IInv

LEMMA AppendOf ==
  ASSUME NEW S, NEW s \in Seq(S), NEW e \in S
  PROVE  /\ Len(s) \in Nat /\ Len(Append(s, e)) = Len(s) + 1
         /\ \A i \in 1 .. Len(s) : Append(s, e)[i] = s[i]
         /\ Append(s, e)[Len(s) + 1] = e
  OBVIOUS

LEMMA AppendDistinct ==
  ASSUME NEW S, NEW s \in Seq(S), NEW e \in S,
         NoDuplicates(s), \A i \in 1 .. Len(s) : s[i] # e
  PROVE  NoDuplicates(Append(s, e))
<1> SUFFICES ASSUME NEW i \in 1 .. (Len(s) + 1), NEW j \in 1 .. (Len(s) + 1),
                    Append(s, e)[i] = Append(s, e)[j]
             PROVE  i = j
  BY AppendOf DEF NoDuplicates
<1> DEFINE t == Append(s, e)
<1>1. /\ Len(s) \in Nat
      /\ \A k \in 1 .. Len(s) : t[k] = s[k] /\ t[k] # e
      /\ t[Len(s) + 1] = e
  BY AppendOf
<1> HIDE DEF t
<1>2. t[i] = t[j]
  BY DEF t
<1>3. CASE i \in 1 .. Len(s) /\ j \in 1 .. Len(s)
  BY <1>1, <1>2, <1>3 DEF NoDuplicates
<1>4. CASE i = Len(s) + 1 \/ j = Len(s) + 1
  BY <1>1, <1>2, <1>4
<1> QED
  BY <1>1, <1>3, <1>4

LEMMA FinishOkIInv ==
  ASSUME IInv, NEW h \in Handles, FinishOk(h)
  PROVE  IInv'
<1> DEFINE r == range[h]
<1>1. phase = "run" /\ ~Idle(h) /\ next_offset[h] > request_end[h]
      /\ range' = [range EXCEPT ![h] = NoRange]
  BY DEF FinishOk
<1>2. /\ r \in LiveRanges /\ r \in RangeIds /\ r # NoRange
      /\ LeaseOk(h, r)
      /\ \A g \in Handles : range[g] = r => g = h
      /\ start_offset[r] \in Int /\ end_offset[r] \in Int /\ current_offset[r] \in Int
      /\ next_offset[h] \in Int /\ request_end[h] \in Int
  BY <1>1, HeldLease
<1>3. TypeOK /\ TypeOK'
  BY HandleTyped DEF IInv, HandleStep
<1>4. UNCHANGED <<phase, failure, finishedAtStart, spans, next_range_id, start_offset, end_offset,
                  current_offset, marked_finished, next_offset, request_end, fetched>>
  BY DEF FinishOk, rangeVars
<1>5. LiveRanges \subseteq RangeIds /\ LiveRanges' = LiveRanges /\ UnfinishedBytes' = UnfinishedBytes
  BY <1>3, <1>4, RangeTyped DEF LiveRanges, UnfinishedBytes
<1>6. /\ range'[h] = NoRange
      /\ \A g \in Handles \ {h} : range'[g] = range[g]
  BY <1>1, <1>3 DEF TypeOK
<1>7. /\ next_offset[h] = current_offset[r] /\ r \notin completion_notified
      /\ start_offset[r] <= current_offset[r] /\ current_offset[r] <= end_offset[r] + 1
      /\ ~failure
  BY <1>1, <1>2 DEF LeaseOk, IInv, Cursors, Ended
<1>8. \/ /\ current_offset[r] <= end_offset[r]
         /\ pending_ranges' = Append(pending_ranges, r)
         /\ UNCHANGED <<completion_notified, control>>
      \/ /\ current_offset[r] = end_offset[r] + 1
         /\ completion_notified' = completion_notified \cup {r}
         /\ control' = Append(control, r)
         /\ UNCHANGED pending_ranges
  BY <1>2, <1>7 DEF FinishOk, NotifyOnce, HasUnleased
<1> HIDE DEF r
<1>9. Leases'
  <2>1. ASSUME NEW g \in Handles, range'[g] # NoRange
        PROVE  LeaseOk(g, range[g])'
    <3>1. g # h /\ range[g] # NoRange /\ range[g] # r
      BY <2>1, <1>2, <1>6
    <3>2. LeaseOk(g, range[g])
      BY <3>1 DEF IInv, Leases
    <3> QED
      BY <3>1, <3>2, <1>4, <1>5, <1>6, <1>8 DEF LeaseOk
  <2> QED
    BY <2>1, <1>6 DEF IInv, Leases
<1>10. /\ pending_ranges \in Seq(RangeIds) /\ control \in Seq(RangeIds)
       /\ NoDuplicates(pending_ranges) /\ NoDuplicates(control)
       /\ \A i \in 1 .. Len(pending_ranges) :
            /\ pending_ranges[i] \in LiveRanges \ completion_notified
            /\ current_offset[pending_ranges[i]] <= end_offset[pending_ranges[i]]
            /\ \A g \in Handles : range[g] # pending_ranges[i]
       /\ \A q \in LiveRanges :
            \/ \E i \in 1 .. Len(pending_ranges) : pending_ranges[i] = q
            \/ \E g \in Handles : range[g] = q
            \/ q \in completion_notified
       /\ \A i \in 1 .. Len(control) : control[i] \in completion_notified \ marked_finished
       /\ marked_finished \subseteq completion_notified
  BY <1>1, <1>3 DEF IInv, Ownership, Completion, InPending, TypeOK
<1>11. \A i \in 1 .. Len(pending_ranges) :
         pending_ranges[i] # r /\ \A g \in Handles : range'[g] # pending_ranges[i]
  BY <1>5, <1>6, <1>10, <1>3, RangeTyped DEF r
<1>12. Ownership'
  <2>1. CASE /\ current_offset[r] <= end_offset[r]
             /\ pending_ranges' = Append(pending_ranges, r)
             /\ UNCHANGED <<completion_notified, control>>
    <3>1. /\ Len(pending_ranges) \in Nat /\ Len(pending_ranges') = Len(pending_ranges) + 1
          /\ \A i \in 1 .. Len(pending_ranges) : pending_ranges'[i] = pending_ranges[i]
          /\ pending_ranges'[Len(pending_ranges) + 1] = r
      BY <2>1, <1>2, <1>10, AppendOf
    <3>2. NoDuplicates(pending_ranges)'
      <4>1. NoDuplicates(Append(pending_ranges, r))
        BY <1>2, <1>10, <1>11, AppendDistinct
      <4> QED
        BY <2>1, <4>1 DEF NoDuplicates
    <3>3. \A g \in Handles : range'[g] # r
      BY <1>2, <1>6
    <3>4. ASSUME NEW i \in 1 .. Len(pending_ranges')
          PROVE  /\ pending_ranges'[i] \in LiveRanges \ completion_notified
                 /\ current_offset[pending_ranges'[i]] <= end_offset[pending_ranges'[i]]
                 /\ \A g \in Handles : range'[g] # pending_ranges'[i]
      <4>1. CASE i \in 1 .. Len(pending_ranges)
        BY <4>1, <3>1, <1>10, <1>11
      <4>2. CASE i = Len(pending_ranges) + 1
        BY <4>2, <3>1, <3>3, <2>1, <1>2, <1>7
      <4> QED
        BY <3>1, <4>1, <4>2
    <3>5. ASSUME NEW q \in LiveRanges
          PROVE  \/ \E i \in 1 .. Len(pending_ranges') : pending_ranges'[i] = q
                 \/ \E g \in Handles : range'[g] = q
                 \/ q \in completion_notified
      <4>1. Len(pending_ranges) + 1 \in 1 .. Len(pending_ranges')
            /\ 1 .. Len(pending_ranges) \subseteq 1 .. Len(pending_ranges')
        BY <3>1
      <4>2. CASE q = r
        BY <4>1, <4>2, <3>1
      <4>3. CASE q # r /\ \E i \in 1 .. Len(pending_ranges) : pending_ranges[i] = q
        BY <4>1, <4>3, <3>1
      <4>4. CASE q # r /\ \E g \in Handles : range[g] = q
        BY <4>4, <1>6 DEF r
      <4> QED
        BY <4>2, <4>3, <4>4, <1>10
    <3> QED
      BY <2>1, <3>2, <3>4, <3>5, <1>4, <1>5 DEF Ownership, InPending
  <2>2. CASE /\ completion_notified' = completion_notified \cup {r}
             /\ UNCHANGED pending_ranges
    <3>1. ASSUME NEW q \in LiveRanges
          PROVE  \/ \E i \in 1 .. Len(pending_ranges) : pending_ranges[i] = q
                 \/ \E g \in Handles : range'[g] = q
                 \/ q \in completion_notified'
      BY <2>2, <1>6, <1>10 DEF r
    <3>2. ASSUME NEW i \in 1 .. Len(pending_ranges)
          PROVE  pending_ranges[i] \in LiveRanges \ completion_notified'
      BY <2>2, <1>10, <1>11
    <3> QED
      BY <2>2, <3>1, <3>2, <1>4, <1>5, <1>10, <1>11 DEF Ownership, InPending, NoDuplicates
  <2> QED
    BY <1>8, <2>1, <2>2
<1>13. Completion'
  <2>1. \A q \in LiveRanges : RangeBytes(q)' = RangeBytes(q)
    BY <1>4 DEF RangeBytes
  <2>2. CASE UNCHANGED <<completion_notified, control>>
    BY <2>2, <1>4, <1>5 DEF IInv, Completion, NoDuplicates, RangeBytes
  <2>3. CASE /\ current_offset[r] = end_offset[r] + 1
             /\ completion_notified' = completion_notified \cup {r}
             /\ control' = Append(control, r)
    <3>1. RangeBytes(r) \subseteq fetched
      <4> SUFFICES ASSUME NEW x \in RangeBytes(r) PROVE x \in fetched
        OBVIOUS
      <4>1. x < current_offset[r] /\ \A g \in Handles : range[g] = r => x < next_offset[g]
        BY <2>3, <1>2, <1>7 DEF RangeBytes
      <4> QED
        BY <4>1, <1>2, <1>7 DEF IInv, Delivered
    <3>2. r \notin marked_finished /\ \A i \in 1 .. Len(control) : control[i] # r
      BY <1>7, <1>10
    <3>3. NoDuplicates(control)'
      <4>1. NoDuplicates(Append(control, r))
        BY <3>2, <1>2, <1>10, AppendDistinct
      <4> QED
        BY <4>1, <2>3 DEF NoDuplicates
    <3>4. ASSUME NEW i \in 1 .. Len(control')
          PROVE  control'[i] \in completion_notified' \ marked_finished
      <4>1. /\ Len(control) \in Nat /\ Len(control') = Len(control) + 1
            /\ \A j \in 1 .. Len(control) : control'[j] = control[j]
            /\ control'[Len(control) + 1] = r
        BY <2>3, <1>2, <1>10, AppendOf
      <4>2. CASE i \in 1 .. Len(control)
        BY <4>1, <4>2, <2>3, <1>10
      <4>3. CASE i = Len(control) + 1
        BY <4>1, <4>3, <3>2, <2>3
      <4> QED
        BY <4>1, <4>2, <4>3
    <3>5. \A q \in completion_notified' :
            q \in LiveRanges /\ current_offset[q] = end_offset[q] + 1 /\ RangeBytes(q) \subseteq fetched
      BY <2>3, <3>1, <1>2 DEF IInv, Completion
    <3> QED
      BY <2>1, <2>3, <3>3, <3>4, <3>5, <1>4, <1>5, <1>10 DEF Completion
  <2> QED
    BY <1>8, <2>2, <2>3
<1>14. Delivered'
  <2>1. ASSUME NEW q \in LiveRanges, NEW x \in RangeBytes(q)
        PROVE  /\ current_offset[q] <= x => x \notin fetched
               /\ \A g \in Handles :
                    range'[g] = q /\ next_offset[g] <= x /\ x <= request_end[g] => x \notin fetched
               /\ (/\ ~failure
                   /\ x < current_offset[q]
                   /\ \A g \in Handles : range'[g] = q => x < next_offset[g]) => x \in fetched
    <3>1. /\ current_offset[q] <= x => x \notin fetched
          /\ \A g \in Handles :
               range[g] = q /\ next_offset[g] <= x /\ x <= request_end[g] => x \notin fetched
          /\ (/\ ~failure
              /\ x < current_offset[q]
              /\ \A g \in Handles : range[g] = q => x < next_offset[g]) => x \in fetched
      BY DEF IInv, Delivered
    <3>2. \A g \in Handles : range'[g] = q => range[g] = q
      BY <1>2, <1>5, <1>6, <1>3, RangeTyped
    <3>3. ASSUME x < current_offset[q], NEW g \in Handles, range[g] = q,
                 \A k \in Handles : range'[k] = q => x < next_offset[k]
          PROVE  x < next_offset[g]
      <4>1. CASE g = h
        BY <3>3, <4>1, <1>7 DEF r
      <4>2. CASE g # h
        BY <3>3, <4>2, <1>6
      <4> QED
        BY <4>1, <4>2
    <3> QED
      BY <3>1, <3>2, <3>3
  <2>2. \A q \in LiveRanges : RangeBytes(q)' = RangeBytes(q)
    BY <1>4 DEF RangeBytes
  <2> QED
    BY <2>1, <2>2, <1>4, <1>5 DEF IInv, Delivered
<1>15. Partition' /\ Planning' /\ Ended' /\ Cursors'
  BY <1>1, <1>4, <1>5 DEF IInv, Partition, Planning, Ended, Cursors, RangeBytes
<1> QED
  BY <1>3, <1>9, <1>12, <1>13, <1>14, <1>15 DEF IInv

\* A lease rolled back keeps the cursors right for every range.
LEMMA RollbackCursors ==
  ASSUME IInv, NEW h \in Handles, ~Idle(h), Rollback(h)
  PROVE  /\ current_offset'[range[h]] = next_offset[h]
         /\ \A q \in LiveRanges \ {range[h]} : current_offset'[q] = current_offset[q]
<1> DEFINE r == range[h]
<1>1. /\ r \in LiveRanges /\ r \in RangeIds /\ LeaseOk(h, r)
      /\ current_offset[r] \in Int /\ next_offset[h] \in Int
  BY HeldLease
<1>2. current_offset \in [RangeIds -> 0 .. TotalSize] /\ LiveRanges \subseteq RangeIds
  BY RangeTyped DEF IInv, TypeOK
<1> HIDE DEF r
<1>3. current_offset' = IF next_offset[h] < current_offset[r]
                          THEN [current_offset EXCEPT ![r] = next_offset[h]]
                          ELSE current_offset
  BY DEF Rollback, r
<1>4. next_offset[h] <= current_offset[r]
  BY <1>1 DEF LeaseOk
<1>5. current_offset'[r] = next_offset[h]
      /\ \A q \in LiveRanges \ {r} : current_offset'[q] = current_offset[q]
  BY <1>1, <1>2, <1>3, <1>4
<1> QED
  BY <1>5 DEF r

\* A failing request, or the stop of a handle, gives back what is left of its
\* lease; whether the handle keeps its range matters only to its own lease.
LEMMA RollbackIInv ==
  ASSUME IInv, TypeOK', NEW h \in Handles, FinishFailed(h) \/ StopHandle(h)
  PROVE  IInv'
<1> DEFINE r == range[h]
<1>1. ~Idle(h) /\ Rollback(h)
  BY DEF FinishFailed, StopHandle
<1>2. /\ r \in LiveRanges /\ r \in RangeIds /\ r # NoRange
      /\ LeaseOk(h, r)
      /\ \A g \in Handles : range[g] = r => g = h
      /\ start_offset[r] \in Int /\ end_offset[r] \in Int /\ current_offset[r] \in Int
      /\ next_offset[h] \in Int /\ request_end[h] \in Int
      /\ phase # "split"
  BY <1>1, HeldLease
<1>3. /\ current_offset'[r] = next_offset[h]
      /\ \A q \in LiveRanges \ {r} : current_offset'[q] = current_offset[q]
  BY <1>1, RollbackCursors
<1>4. phase' = "stopping" /\ failure' = TRUE
  BY <1>2, RangeTyped DEF FinishFailed, StopHandle, IInv, Ended, TypeOK
<1>5. UNCHANGED <<finishedAtStart, spans, next_range_id, start_offset, end_offset,
                  completion_notified, marked_finished, pending_ranges, next_offset,
                  request_end, control, fetched>>
  BY DEF FinishFailed, StopHandle, rangeVars, handleVars
<1>6. \A g \in Handles : range'[g] # NoRange => range'[g] = range[g]
  BY DEF FinishFailed, StopHandle, handleVars, IInv, TypeOK
<1>7. LiveRanges' = LiveRanges /\ UnfinishedBytes' = UnfinishedBytes
      /\ LiveRanges \subseteq RangeIds
  BY <1>5, RangeTyped DEF LiveRanges, UnfinishedBytes, IInv
<1>8. /\ start_offset[r] <= next_offset[h]
      /\ next_offset[h] <= request_end[h] + 1
      /\ next_offset[h] <= current_offset[r]
      /\ request_end[h] <= end_offset[r]
      /\ current_offset[r] <= request_end[h] + 1
      /\ r \notin completion_notified
  BY <1>2 DEF LeaseOk
<1> HIDE DEF r
<1>9. Cursors'
  BY <1>2, <1>3, <1>5, <1>7, <1>8 DEF IInv, Cursors
<1>10. Leases'
  <2>1. ASSUME NEW g \in Handles, range'[g] # NoRange
        PROVE  LeaseOk(g, range[g])'
    <3>1. LeaseOk(g, range[g]) /\ range'[g] = range[g]
      BY <2>1, <1>6 DEF IInv, Leases
    <3>2. CASE g = h
      BY <3>1, <3>2, <1>2, <1>3, <1>4, <1>5, <1>7, <1>8 DEF LeaseOk, r
    <3>3. CASE g # h
      <4>1. range[g] # r
        BY <3>3, <1>2
      <4> QED
        BY <3>1, <4>1, <1>3, <1>4, <1>5, <1>7 DEF LeaseOk
    <3> QED
      BY <3>2, <3>3
  <2> QED
    BY <2>1, <1>6 DEF IInv, Leases
<1>11. Completion'
  <2>1. \A q \in completion_notified : q \in LiveRanges /\ q # r
    BY <1>8 DEF IInv, Completion
  <2> QED
    BY <2>1, <1>3, <1>5, <1>7 DEF IInv, Completion, NoDuplicates, RangeBytes
<1>12. Delivered'
  <2>1. ASSUME NEW q \in LiveRanges, NEW x \in RangeBytes(q)
        PROVE  /\ current_offset'[q] <= x => x \notin fetched
               /\ \A g \in Handles :
                    range'[g] = q /\ next_offset[g] <= x /\ x <= request_end[g] => x \notin fetched
    <3>1. /\ current_offset[q] <= x => x \notin fetched
          /\ \A g \in Handles :
               range[g] = q /\ next_offset[g] <= x /\ x <= request_end[g] => x \notin fetched
      BY DEF IInv, Delivered
    <3>2. \A g \in Handles : range'[g] = q => range[g] = q
      BY <1>6, <1>7, RangeTyped DEF IInv
    <3>3. CASE q = r
      <4>1. x \in Int
        BY <3>3, <1>2 DEF RangeBytes
      <4>2. ASSUME next_offset[h] <= x PROVE x \notin fetched
        BY <4>1, <4>2, <3>1, <3>3, <1>2, <1>8 DEF r
      <4> QED
        BY <4>2, <3>1, <3>2, <3>3, <1>3
    <3>4. CASE q # r
      BY <3>1, <3>2, <3>4, <1>3
    <3> QED
      BY <3>3, <3>4
  <2>2. \A q \in LiveRanges : RangeBytes(q)' = RangeBytes(q)
    BY <1>5 DEF RangeBytes
  <2> QED
    BY <2>1, <2>2, <1>4, <1>5, <1>7 DEF IInv, Delivered
<1>13. Partition' /\ Planning' /\ Ended' /\ Ownership'
  BY <1>2, <1>4, <1>5, <1>7 DEF IInv, Partition, Planning, Ended, Ownership, RangeBytes
<1> QED
  BY <1>9, <1>10, <1>11, <1>12, <1>13 DEF IInv

LEMMA PersistIInv == IInv /\ TypeOK' /\ PersistRangeComplete => IInv'
<1> SUFFICES ASSUME IInv, TypeOK', PersistRangeComplete PROVE IInv'
  OBVIOUS
<1>1. control # <<>> /\ control \in Seq(RangeIds) /\ control' = Tail(control)
      /\ marked_finished' = marked_finished \cup {Head(control)}
  BY DEF PersistRangeComplete, IInv, TypeOK
<1>2. UNCHANGED <<phase, failure, finishedAtStart, spans, next_range_id, start_offset, end_offset,
                  current_offset, completion_notified, pending_ranges, range, next_offset,
                  request_end, fetched>>
  BY DEF PersistRangeComplete, rangeVars, handleVars
<1>3. /\ Len(control) \in Nat \ {0} /\ Head(control) = control[1]
      /\ \A i \in 1 .. Len(control') : i + 1 \in 1 .. Len(control) /\ control'[i] = control[i + 1]
  BY <1>1, TailOf
<1>4. NoDuplicates(control)
      /\ \A i \in 1 .. Len(control) : control[i] \in completion_notified \ marked_finished
  BY DEF IInv, Completion
<1>5. 1 \in 1 .. Len(control) /\ Head(control) \in completion_notified
  BY <1>3, <1>4
<1>6. ASSUME NEW i \in 1 .. Len(control')
      PROVE  control'[i] \in completion_notified \ marked_finished'
  <2>1. i + 1 \in 1 .. Len(control) /\ i + 1 # 1 /\ control'[i] = control[i + 1]
    BY <1>3
  <2>2. control[i + 1] # control[1]
    BY <2>1, <1>4, <1>5 DEF NoDuplicates
  <2> QED
    BY <2>1, <2>2, <1>1, <1>3, <1>4
<1>7. NoDuplicates(control)'
  <2> SUFFICES ASSUME NEW i \in 1 .. Len(control'), NEW j \in 1 .. Len(control'),
                      control'[i] = control'[j]
               PROVE  i = j
    BY DEF NoDuplicates
  <2>1. i + 1 = j + 1
    BY <1>3, <1>4 DEF NoDuplicates
  <2> QED
    BY <2>1
<1>8. Completion'
  BY <1>1, <1>2, <1>5, <1>6, <1>7 DEF IInv, Completion, RangeBytes, LiveRanges
<1>9. Planning'
  BY <1>1, <1>2 DEF IInv, Planning
<1> QED
  BY <1>2, <1>8, <1>9
  DEF IInv, Partition, Cursors, Leases, LeaseOk, Ownership, Delivered, Ended, RangeBytes,
      LiveRanges, UnfinishedBytes, InPending, NoDuplicates

LEMMA PhaseIInv ==
  IInv /\ TypeOK' /\ (LoopFails \/ NetworkDrained \/ AbandonHandles \/ Stop) => IInv'
<1> SUFFICES ASSUME IInv, TypeOK', LoopFails \/ NetworkDrained \/ AbandonHandles \/ Stop
             PROVE  IInv'
  OBVIOUS
<1>1. UNCHANGED <<finishedAtStart, spans, next_range_id, start_offset, end_offset, current_offset,
                  completion_notified, marked_finished, pending_ranges, range, next_offset,
                  request_end, control, fetched>>
  BY DEF LoopFails, NetworkDrained, AbandonHandles, Stop, rangeVars, handleVars
<1>2. /\ phase \in {"run", "stopping"} /\ phase' \in {"stopping", "done"}
      /\ failure => failure'
  BY DEF LoopFails, NetworkDrained, AbandonHandles, Stop
<1>3. Partition' /\ Cursors' /\ Leases' /\ Completion' /\ Delivered' /\ Planning' /\ Ownership'
  BY <1>1, <1>2
  DEF IInv, Partition, Planning, Cursors, Leases, LeaseOk, Ownership, Completion, Delivered,
      RangeBytes, LiveRanges, UnfinishedBytes, NoDuplicates
<1>4. Ended'
  <2>1. CASE LoopFails
    BY <2>1 DEF LoopFails, Ended
  <2>2. CASE NetworkDrained
    <3>1. \A h \in Handles : range[h] = NoRange
      BY <2>2 DEF NetworkDrained, Idle, NothingToDo
    <3>2. \A r \in LiveRanges : r # NoRange
      BY RangeTyped DEF IInv
    <3>3. LiveRanges \subseteq completion_notified
      BY <2>2, <3>1, <3>2 DEF NetworkDrained, IInv, Ownership, InPending, NothingToDo
    <3> QED
      BY <2>2, <3>1, <3>3, <1>1, <1>2 DEF Ended, LiveRanges
  <2>3. CASE AbandonHandles
    BY <2>3, <1>2 DEF AbandonHandles, Ended
  <2>4. CASE Stop
    BY <2>4, <1>1, <1>2 DEF Stop, IInv, Ended, LiveRanges
  <2> QED
    BY <2>1, <2>2, <2>3, <2>4
<1> QED
  BY <1>3, <1>4 DEF IInv

LEMMA NextIInv ==
  ASSUME AcceptRanges, IInv, [Next]_vars
  PROVE  IInv'
<1>1. TypeOK'
  BY NextTyped DEF IInv
<1>2. ASSUME NEW h \in Handles, HandleStep(h) PROVE IInv'
  BY <1>1, <1>2, DispatchIInv, DispatchFailsIInv, ReceiveIInv, FinishOkIInv, RollbackIInv
  DEF HandleStep
<1>3. CASE UNCHANGED vars
  BY <1>3 DEF vars, rangeVars, handleVars, IInv, TypeOK, Planning, SpansPartition, Partition,
              Cursors, Leases, LeaseOk, Ownership, Completion, Delivered, Ended, RangeBytes,
              LiveRanges, UnfinishedBytes, InPending, NoDuplicates
<1> QED
  BY <1>1, <1>2, <1>3, SplitIInv, BuildIInv, StealIInv, PersistIInv, PhaseIInv DEF Next

\* With Range support the invariant holds in every reachable state, whatever
\* the file, the resumed bitmap, the block, the window and the connections.
THEOREM SchedulerInvariant ==
  ASSUME AcceptRanges
  PROVE  Spec => []IInv
  BY InitIInv, NextIInv, PTL DEF Spec

\* Splitting and stealing never lose, duplicate or invent a byte.
COROLLARY PartitionCorrect ==
  ASSUME AcceptRanges
  PROVE  Spec => []RangesPartition
<1>1. IInv => RangesPartition
  <2> SUFFICES ASSUME IInv, phase # "split"
               PROVE  /\ UNION {RangeBytes(r) : r \in LiveRanges} = UnfinishedBytes
                      /\ \A r, q \in LiveRanges : r # q => RangeBytes(r) \cap RangeBytes(q) = {}
    BY DEF RangesPartition
  <2>1. \A r \in LiveRanges : start_offset[r] \in Int /\ end_offset[r] \in Int
    BY RangeTyped DEF IInv
  <2>2. \A x \in UnfinishedBytes : x \in Int
    BY BlockInFile DEF UnfinishedBytes, BlockBytes, Bytes
  <2>3. \A x \in UnfinishedBytes : \E r \in LiveRanges : x \in RangeBytes(r)
    BY <2>1, <2>2 DEF IInv, Partition, RangeBytes
  <2>4. UNION {RangeBytes(r) : r \in LiveRanges} = UnfinishedBytes
    BY <2>3 DEF IInv, Partition
  <2>5. ASSUME NEW r \in LiveRanges, NEW q \in LiveRanges, r # q
        PROVE  RangeBytes(r) \cap RangeBytes(q) = {}
    <3>1. end_offset[r] < start_offset[q] \/ end_offset[q] < start_offset[r]
      BY <2>5 DEF IInv, Partition
    <3> QED
      BY <3>1, <2>1 DEF RangeBytes
  <2> QED
    BY <2>4, <2>5
<1> QED
  BY <1>1, SchedulerInvariant, PTL

\* No two requests are for the same range and no steal cuts into a request.
COROLLARY LeasesCorrect ==
  ASSUME AcceptRanges
  PROVE  Spec => []LeasesExclusive
<1>1. IInv => LeasesExclusive
  <2> SUFFICES ASSUME IInv, NEW h \in Handles, ~Idle(h)
               PROVE  /\ start_offset[range[h]] <= next_offset[h]
                      /\ request_end[h] <= end_offset[range[h]]
                      /\ ~failure => request_end[h] < current_offset[range[h]]
                      /\ Holders(range[h]) = {h}
    BY DEF LeasesExclusive
  <2>1. /\ LeaseOk(h, range[h])
        /\ \A g \in Handles : range[g] = range[h] => g = h
        /\ current_offset[range[h]] \in Int /\ request_end[h] \in Int /\ phase # "split"
    BY HeldLease
  <2>2. Holders(range[h]) = {h}
    BY <2>1 DEF Holders
  <2>3. ~failure => phase = "run"
    BY <2>1, HeldLease DEF IInv, Ended, TypeOK, Idle
  <2> QED
    BY <2>1, <2>2, <2>3 DEF LeaseOk
<1> QED
  BY <1>1, SchedulerInvariant, PTL

\* The cursors of the scheduler account for every delivered byte: none is asked
\* for twice and, while nothing failed, none is skipped.
COROLLARY DeliveryCorrect ==
  ASSUME AcceptRanges
  PROVE  Spec => []FetchedIsAccounted
<1>1. IInv => FetchedIsAccounted
  <2> SUFFICES ASSUME IInv, NEW r \in LiveRanges
               PROVE  /\ Outstanding(r) \cap fetched = {}
                      /\ ~failure => RangeBytes(r) \ Outstanding(r) \subseteq fetched
    BY DEF FetchedIsAccounted
  <2>1. phase # "split"
    BY DEF IInv, Planning, LiveRanges
  <2>2. /\ start_offset[r] \in Int /\ end_offset[r] \in Int /\ current_offset[r] \in Int
        /\ r # NoRange
        /\ start_offset[r] <= current_offset[r]
    BY RangeTyped DEF IInv, Cursors
  <2>3. \A h \in Handles : range[h] = r =>
          /\ ~Idle(h)
          /\ start_offset[r] <= next_offset[h]
          /\ next_offset[h] \in Int /\ request_end[h] \in Int
          /\ request_end[h] <= end_offset[r]
          /\ current_offset[r] <= request_end[h] + 1
    BY <2>2, HeldLease DEF Idle, LeaseOk
  <2>4. \A x \in RangeBytes(r) :
          /\ current_offset[r] <= x => x \notin fetched
          /\ \A h \in Handles :
               range[h] = r /\ next_offset[h] <= x /\ x <= request_end[h] => x \notin fetched
          /\ (/\ ~failure
              /\ x < current_offset[r]
              /\ \A h \in Handles : range[h] = r => x < next_offset[h]) => x \in fetched
    BY DEF IInv, Delivered
  <2>5. Outstanding(r) \cap fetched = {}
    <3>1. (current_offset[r] .. end_offset[r]) \cap fetched = {}
      BY <2>2, <2>4 DEF RangeBytes
    <3>2. ASSUME NEW h \in Handles, range[h] = r
          PROVE  (next_offset[h] .. request_end[h]) \cap fetched = {}
      BY <3>2, <2>2, <2>3, <2>4 DEF RangeBytes
    <3> QED
      BY <3>1, <3>2 DEF Outstanding, Holders
  <2>6. ASSUME ~failure, NEW x \in RangeBytes(r), x \notin Outstanding(r)
        PROVE  x \in fetched
    <3>1. x \in Int /\ x <= end_offset[r]
      BY <2>2 DEF RangeBytes
    <3>2. x < current_offset[r]
      BY <2>2, <2>6, <3>1 DEF Outstanding
    <3>3. ASSUME NEW h \in Handles, range[h] = r PROVE x < next_offset[h]
      <4>1. x \notin next_offset[h] .. request_end[h]
        BY <2>6, <3>3 DEF Outstanding, Holders
      <4> QED
        BY <4>1, <3>1, <3>2, <3>3, <2>2, <2>3
    <3> QED
      BY <2>4, <2>6, <3>2, <3>3
  <2> QED
    BY <2>5, <2>6
<1> QED
  BY <1>1, SchedulerInvariant, PTL

\* range_complete is announced once, and only for a range delivered in full.
COROLLARY CompletionCorrect ==
  ASSUME AcceptRanges
  PROVE  Spec => []CompletionSound
<1>1. IInv => CompletionSound
  BY DEF IInv, Completion, CompletionSound
<1> QED
  BY <1>1, SchedulerInvariant, PTL

\* A network phase that ends without failure has fetched exactly the bytes the
\* resumed bitmap did not trust, and announced every range.
COROLLARY DownloadCorrect ==
  ASSUME AcceptRanges
  PROVE  Spec => []DownloadsEverything
<1>1. IInv => DownloadsEverything
  <2> SUFFICES ASSUME IInv, phase \in {"stopping", "done"}, ~failure
               PROVE  fetched = UnfinishedBytes /\ completion_notified = LiveRanges
    BY DEF DownloadsEverything
  <2>1. completion_notified = LiveRanges
    BY DEF IInv, Ended, Completion
  <2>2. \A r \in LiveRanges : RangeBytes(r) \subseteq fetched
    BY <2>1 DEF IInv, Completion
  <2>3. \A x \in UnfinishedBytes : \E r \in LiveRanges : x \in RangeBytes(r)
    <3>1. \A x \in UnfinishedBytes : x \in Int
      BY BlockInFile DEF UnfinishedBytes, BlockBytes, Bytes
    <3> QED
      BY <3>1, RangeTyped DEF IInv, Partition, RangeBytes
  <2> QED
    BY <2>1, <2>2, <2>3 DEF IInv, Delivered
<1> QED
  BY <1>1, SchedulerInvariant, PTL

\* While the loop runs every range is in exactly one place: the deque, one
\* handle, or the persistence thread's hands.
COROLLARY OwnershipCorrect ==
  ASSUME AcceptRanges
  PROVE  Spec => []EveryRangeOwnedOnce
<1>1. IInv => EveryRangeOwnedOnce
  <2> SUFFICES ASSUME IInv, phase = "run"
               PROVE  /\ NoDuplicates(pending_ranges)
                      /\ \A r \in LiveRanges :
                           \/ /\ InPending(r) /\ Holders(r) = {} /\ r \notin completion_notified
                              /\ current_offset[r] <= end_offset[r]
                           \/ /\ ~InPending(r) /\ Holders(r) # {} /\ r \notin completion_notified
                           \/ /\ ~InPending(r) /\ Holders(r) = {} /\ r \in completion_notified
    BY DEF EveryRangeOwnedOnce
  <2>1. /\ NoDuplicates(pending_ranges)
        /\ \A i \in 1 .. Len(pending_ranges) :
             /\ pending_ranges[i] \in LiveRanges \ completion_notified
             /\ current_offset[pending_ranges[i]] <= end_offset[pending_ranges[i]]
             /\ \A h \in Handles : range[h] # pending_ranges[i]
        /\ \A r \in LiveRanges :
             InPending(r) \/ (\E h \in Handles : range[h] = r) \/ r \in completion_notified
    BY DEF IInv, Ownership
  <2> SUFFICES ASSUME NEW r \in LiveRanges
               PROVE  \/ /\ InPending(r) /\ Holders(r) = {} /\ r \notin completion_notified
                         /\ current_offset[r] <= end_offset[r]
                      \/ /\ ~InPending(r) /\ Holders(r) # {} /\ r \notin completion_notified
                      \/ /\ ~InPending(r) /\ Holders(r) = {} /\ r \in completion_notified
    BY <2>1
  <2>2. r # NoRange
    BY RangeTyped DEF IInv
  <2>3. InPending(r) => /\ Holders(r) = {} /\ r \notin completion_notified
                        /\ current_offset[r] <= end_offset[r]
    BY <2>1 DEF InPending, Holders
  <2>4. Holders(r) # {} => r \notin completion_notified
    BY <2>2, HeldLease DEF Holders, Idle, LeaseOk
  <2> QED
    BY <2>1, <2>3, <2>4 DEF Holders
<1> QED
  BY <1>1, SchedulerInvariant, PTL

-----------------------------------------------------------------------------
(***************************************************************************)
(* Borders.  Typing is all that is needed: every border is the begin or    *)
(* the end of a block, a rounded midpoint, or one that was there before.   *)
(***************************************************************************)
OnBlock(n) == \E k \in Int : n = k * BlockSize
Aligned(first, last) == OnBlock(first) /\ (OnBlock(last + 1) \/ last + 1 = TotalSize)

Borders ==
  /\ phase = "split" => \A s \in spans : Aligned(s.first, s.last)
  /\ \A r \in LiveRanges : Aligned(start_offset[r], end_offset[r])

\* Rounding a midpoint, up or down, puts it on a block.
LEMMA RoundedOnBlock ==
  ASSUME NEW x \in Int, NEW y \in Int
  PROVE  /\ OnBlock(AlignDown(x + y \div 2, BlockSize))
         /\ OnBlock(AlignUp(x + y \div 2, BlockSize))
<1>1. y \div 2 \in Int
  OBVIOUS
<1>2. /\ (x + y \div 2) \div BlockSize \in Int
      /\ (x + y \div 2 + BlockSize - 1) \div BlockSize \in Int
  BY <1>1, DivBounds
<1> QED
  BY <1>2 DEF AlignDown, AlignUp, OnBlock

\* A block begins on a multiple of its size; it ends on one or with the file.
LEMMA BlockAligned ==
  ASSUME NEW i \in Blocks, NEW j \in Blocks
  PROVE  Aligned(BlockBegin(i), BlockEnd(j) - 1)
<1>1. i \in Int /\ j + 1 \in Int /\ BlockEnd(j) \in Int
  BY BlockInFile
<1>2. OnBlock(BlockBegin(i))
  BY <1>1 DEF BlockBegin, OnBlock
<1>3. BlockEnd(j) = (j + 1) * BlockSize \/ BlockEnd(j) = TotalSize
  BY DEF BlockEnd, Min2
<1>4. OnBlock(BlockEnd(j)) \/ BlockEnd(j) = TotalSize
  BY <1>1, <1>3 DEF OnBlock
<1>5. (BlockEnd(j) - 1) + 1 = BlockEnd(j)
  BY <1>1
<1> QED
  BY <1>2, <1>4, <1>5 DEF Aligned

\* A multiple of the block size leaves no remainder.
LEMMA OnBlockRemainder ==
  ASSUME NEW n \in Int, OnBlock(n)
  PROVE  n % BlockSize = 0
<1>1. PICK k \in Int : n = k * BlockSize
  BY DEF OnBlock
<1> DEFINE q == n \div BlockSize
<1>2. q \in Int /\ q * BlockSize <= n /\ n < q * BlockSize + BlockSize
  BY DivBounds
<1>3. n % BlockSize = n - q * BlockSize
  OBVIOUS
<1> HIDE DEF q
<1>4. (q + 1) * BlockSize = q * BlockSize + BlockSize /\ q * BlockSize \in Int
  BY <1>2
<1>5. CASE k < q
  <2>1. (k + 1) * BlockSize <= q * BlockSize
    BY <1>2, <1>5, BlockOrder
  <2>2. (k + 1) * BlockSize = k * BlockSize + BlockSize
    OBVIOUS
  <2> QED
    BY <2>1, <2>2, <1>1, <1>2, <1>4
<1>6. CASE q < k
  <2>1. (q + 1) * BlockSize <= k * BlockSize
    BY <1>2, <1>6, BlockOrder
  <2> QED
    BY <2>1, <1>1, <1>2, <1>4
<1>7. CASE k = q
  BY <1>1, <1>3, <1>4, <1>7
<1> QED
  BY <1>2, <1>5, <1>6, <1>7

LEMMA InitBorders == Init => Borders
<1> SUFFICES ASSUME Init PROVE Borders
  OBVIOUS
<1>1. \A s \in UnfinishedSpans(finishedAtStart) : Aligned(s.first, s.last)
  BY BlockAligned DEF UnfinishedSpans
<1>2. LiveRanges = {}
  BY DEF Init, LiveRanges
<1> QED
  BY <1>1, <1>2 DEF Init, Borders

LEMMA SplitBorders == TypeOK /\ Borders /\ SplitLargest => Borders'
<1> SUFFICES ASSUME TypeOK, Borders, SplitLargest PROVE Borders'
  OBVIOUS
<1>1. PICK s \in spans :
        spans' = (spans \ {s}) \cup
                   {[first |-> s.first, last |-> SpanMidpoint(s) - 1],
                    [first |-> SpanMidpoint(s), last |-> s.last]}
  BY DEF SplitLargest, Largest
<1>2. s.first \in Int /\ SpanLength(s) \in Int
  BY DEF TypeOK, Spans, Bytes, SpanLength
<1>3. SpanMidpoint(s) \in Int /\ OnBlock(SpanMidpoint(s))
  BY <1>2, RoundingTyped, RoundedOnBlock DEF SpanMidpoint
<1>4. Aligned(s.first, s.last)
  BY DEF Borders, SplitLargest
<1>5. (SpanMidpoint(s) - 1) + 1 = SpanMidpoint(s)
  BY <1>3
<1>6. Aligned(s.first, SpanMidpoint(s) - 1) /\ Aligned(SpanMidpoint(s), s.last)
  BY <1>3, <1>4, <1>5 DEF Aligned
<1>7. \A t \in spans' : Aligned(t.first, t.last)
  BY <1>1, <1>6 DEF Borders, SplitLargest
<1>8. \A r \in LiveRanges' : Aligned(start_offset'[r], end_offset'[r])
  BY DEF Borders, SplitLargest, rangeVars, LiveRanges
<1> QED
  BY <1>7, <1>8 DEF Borders, Aligned, OnBlock

LEMMA BuildBorders == TypeOK /\ Borders /\ BuildRanges => Borders'
<1> SUFFICES ASSUME TypeOK, Borders, BuildRanges PROVE Borders'
  OBVIOUS
<1>1. PICK n \in 1 .. MaxRanges : \E f \in [0 .. (n - 1) -> spans] :
        /\ next_range_id' = n
        /\ start_offset' = [r \in RangeIds |-> IF r < n THEN f[r].first ELSE 0]
        /\ end_offset' = [r \in RangeIds |-> IF r < n THEN f[r].last ELSE 0]
  BY DEF BuildRanges
<1>2. PICK f \in [0 .. (n - 1) -> spans] :
        /\ start_offset' = [r \in RangeIds |-> IF r < n THEN f[r].first ELSE 0]
        /\ end_offset' = [r \in RangeIds |-> IF r < n THEN f[r].last ELSE 0]
  BY <1>1
<1>3. ASSUME NEW r \in LiveRanges'
      PROVE  Aligned(start_offset'[r], end_offset'[r])
  <2>1. r \in 0 .. (n - 1) /\ r \in RangeIds /\ r < n
    BY <1>1, <1>3 DEF LiveRanges, RangeIds
  <2>2. start_offset'[r] = f[r].first /\ end_offset'[r] = f[r].last
    BY <1>2, <2>1
  <2>3. f[r] \in spans
    BY <2>1
  <2> QED
    BY <2>2, <2>3 DEF Borders, BuildRanges
<1>4. phase' # "split"
  BY DEF BuildRanges
<1> QED
  BY <1>3, <1>4 DEF Borders, Aligned, OnBlock

LEMMA StealBorders == TypeOK /\ Borders /\ Steal => Borders'
<1> SUFFICES ASSUME TypeOK, Borders, Steal PROVE Borders'
  OBVIOUS
<1> DEFINE id == next_range_id
<1>1. PICK d \in LiveRanges :
        /\ end_offset' = [end_offset EXCEPT ![id] = end_offset[d],
                                           ![d] = StealMidpoint(d) - 1]
        /\ start_offset' = [start_offset EXCEPT ![id] = StealMidpoint(d)]
  BY DEF Steal
<1>2. id \in RangeIds /\ d \in RangeIds /\ id # d
  BY DEF Steal, TypeOK, RangeIds, LiveRanges
<1>3. StealMidpoint(d) \in Int /\ OnBlock(StealMidpoint(d))
  <2>1. current_offset[d] \in Int /\ Remaining(d) \in Int
    BY <1>2, RangeTyped DEF Remaining
  <2> QED
    BY <2>1, RoundingTyped, RoundedOnBlock DEF StealMidpoint
<1>4. (StealMidpoint(d) - 1) + 1 = StealMidpoint(d)
  BY <1>3
<1>5. start_offset \in [RangeIds -> Bytes] /\ end_offset \in [RangeIds -> Bytes]
  BY DEF TypeOK
<1>6. Aligned(start_offset[d], end_offset[d])
  BY DEF Borders
<1>7. Aligned(start_offset'[d], end_offset'[d])
  <2>1. start_offset'[d] = start_offset[d] /\ end_offset'[d] = StealMidpoint(d) - 1
    BY <1>1, <1>2, <1>5
  <2> QED
    BY <2>1, <1>3, <1>4, <1>6 DEF Aligned
<1>8. Aligned(start_offset'[id], end_offset'[id])
  <2>1. start_offset'[id] = StealMidpoint(d) /\ end_offset'[id] = end_offset[d]
    BY <1>1, <1>2, <1>5
  <2> QED
    BY <2>1, <1>3, <1>6 DEF Aligned
<1>9. ASSUME NEW r \in LiveRanges', r # d, r # id
      PROVE  Aligned(start_offset'[r], end_offset'[r])
  <2>1. r \in LiveRanges /\ r \in RangeIds
    BY <1>9 DEF Steal, LiveRanges, TypeOK, RangeIds
  <2>2. start_offset'[r] = start_offset[r] /\ end_offset'[r] = end_offset[r]
    BY <1>1, <1>5, <1>9, <2>1
  <2> QED
    BY <2>1, <2>2 DEF Borders
<1>10. phase' # "split"
  BY DEF Steal
<1> QED
  BY <1>7, <1>8, <1>9, <1>10 DEF Borders, Aligned, OnBlock

\* After the planning no other step moves a border.
LEMMA NextBorders == TypeOK /\ Borders /\ [Next]_vars => Borders'
<1> SUFFICES ASSUME TypeOK, Borders, [Next]_vars PROVE Borders'
  OBVIOUS
<1>1. CASE UNCHANGED rangeVars /\ UNCHANGED spans /\ (phase' = "split" => phase = "split")
  BY <1>1 DEF Borders, rangeVars, LiveRanges, Aligned, OnBlock
<1>2. CASE \E h \in Handles : HandleStep(h)
  BY <1>1, <1>2 DEF HandleStep, Dispatch, DispatchFails, Receive, FinishOk,
                    FinishFailed, StopHandle
<1>3. CASE PersistRangeComplete \/ LoopFails \/ NetworkDrained \/ AbandonHandles \/ Stop
  BY <1>1, <1>3 DEF PersistRangeComplete, LoopFails, NetworkDrained, AbandonHandles, Stop
<1>4. CASE UNCHANGED vars
  BY <1>1, <1>4 DEF vars
<1> QED
  BY <1>2, <1>3, <1>4, SplitBorders, BuildBorders, StealBorders DEF Next

\* Whatever is split or stolen, and whether or not the server honours Range
\* requests, a range begins on a block and ends on one or with the file, so that
\* no block is shared by two ranges.
THEOREM BordersCorrect == Spec => []RangesAlignedToBlocks
<1>1. TypeOK /\ Borders => RangesAlignedToBlocks
  <2> SUFFICES ASSUME TypeOK, Borders, NEW r \in LiveRanges
               PROVE  /\ start_offset[r] % BlockSize = 0
                      /\ \/ (end_offset[r] + 1) % BlockSize = 0
                         \/ end_offset[r] + 1 = TotalSize
    BY DEF RangesAlignedToBlocks
  <2>1. start_offset[r] \in Int /\ end_offset[r] + 1 \in Int
    BY RangeTyped
  <2>2. Aligned(start_offset[r], end_offset[r])
    BY DEF Borders
  <2> QED
    BY <2>1, <2>2, OnBlockRemainder DEF Aligned
<1>2. Init => TypeOK /\ Borders
  BY InitTyped, InitBorders
<1>3. TypeOK /\ Borders /\ [Next]_vars => (TypeOK /\ Borders)'
  BY NextTyped, NextBorders
<1> QED
  BY <1>1, <1>2, <1>3, PTL DEF Spec

-----------------------------------------------------------------------------
(***************************************************************************)
(* The scheduler implements WorkPool: splitting, building and stealing only*)
(* rearrange the work, a dispatch leases a window, a finished request has  *)
(* nothing left to lease, and a rollback gives back what did not arrive.   *)
(***************************************************************************)

\* The mapping, point by point.
LEMMA UnleasedPoints ==
  ASSUME TypeOK, phase # "split"
  PROVE  \A x : x \in Unleased <=>
           /\ x \in Int
           /\ \E r \in LiveRanges : current_offset[r] <= x /\ x <= end_offset[r]
<1>1. \A r \in LiveRanges : current_offset[r] \in Int /\ end_offset[r] \in Int
  BY RangeTyped
<1>2. \A x : x \in Unleased <=> \E r \in LiveRanges : x \in current_offset[r] .. end_offset[r]
  BY DEF Unleased
<1> QED
  BY <1>1, <1>2

LEMMA UpdateOf ==
  ASSUME NEW S, NEW f, NEW g, NEW s \in S, NEW v,
         f = [x \in S |-> f[x]], g = [x \in S |-> g[x]],
         g[s] = v, \A x \in S \ {s} : g[x] = f[x]
  PROVE  g = [f EXCEPT ![s] = v]
OBVIOUS

LEMMA LeasedByHandle ==
  /\ Leased = [h \in Handles |-> Leased[h]]
  /\ \A h \in Handles : /\ Idle(h) => Leased[h] = {}
                        /\ ~Idle(h) => Leased[h] = next_offset[h] .. (current_offset[range[h]] - 1)
BY DEF Leased

\* The same of the next state.
LEMMA LeasedByHandleNext ==
  /\ Leased' = [h \in Handles |-> Leased'[h]]
  /\ \A h \in Handles :
       /\ range'[h] = NoRange => Leased'[h] = {}
       /\ range'[h] # NoRange => Leased'[h] = next_offset'[h] .. (current_offset'[range'[h]] - 1)
BY DEF Leased, Idle

\* The lease of a handle that keeps its request on a range whose cursor stays is kept.
LEMMA LeaseKept ==
  ASSUME NEW g \in Handles, range'[g] = range[g], next_offset'[g] = next_offset[g],
         range[g] # NoRange => current_offset'[range[g]] = current_offset[range[g]]
  PROVE  Leased'[g] = Leased[g]
BY LeasedByHandle, LeasedByHandleNext DEF Idle

LEMMA LeasesKept ==
  ASSUME \A g \in Handles : Leased'[g] = Leased[g]
  PROVE  Leased' = Leased
<1>1. Leased = [h \in Handles |-> Leased[h]] /\ Leased' = [h \in Handles |-> Leased'[h]]
  BY LeasedByHandle, LeasedByHandleNext
<1> QED
  BY <1>1

LEMMA PoolStutters ==
  ASSUME UNCHANGED <<fetched, failure>>, phase' = "done" <=> phase = "done",
         Unleased' = Unleased, Leased' = Leased
  PROVE  UNCHANGED Pool!vars
<1>1. (phase = "done")' = (phase = "done")
  BY Zenon
<1> QED
  BY <1>1 DEF Pool!vars

LEMMA PoolInit == Init => Pool!Init
<1> SUFFICES ASSUME Init PROVE Pool!Init
  OBVIOUS
<1>1. \A h \in Handles : Idle(h)
  BY DEF Init, Idle
<1>2. Leased = [h \in Handles |-> {}]
  BY <1>1 DEF Leased
<1>3. Unleased \in SUBSET Bytes
  <2>1. Unleased = UNION {s.first .. s.last : s \in spans}
    BY DEF Init, Unleased
  <2>2. \A s \in spans : s.first .. s.last \subseteq Bytes
    BY InitTyped DEF TypeOK, Spans, Bytes
  <2> QED
    BY <2>1, <2>2
<1>4. phase # "done" /\ fetched = {} /\ failure = FALSE
  BY DEF Init
<1>5. (phase = "done") = FALSE
  BY <1>4, Zenon
<1> QED
  BY <1>2, <1>3, <1>4, <1>5 DEF Pool!Init

LEMMA SplitPool == IInv /\ SplitLargest => UNCHANGED Pool!vars
<1> SUFFICES ASSUME IInv, SplitLargest PROVE UNCHANGED Pool!vars
  OBVIOUS
<1>1. PICK s \in Largest(spans) :
        /\ CanSplit(s)
        /\ spans' = (spans \ {s}) \cup
                      {[first |-> s.first, last |-> SpanMidpoint(s) - 1],
                       [first |-> SpanMidpoint(s), last |-> s.last]}
  BY DEF SplitLargest
<1>2. s \in spans /\ s.first \in Int /\ s.last \in Int
  BY DEF Largest, IInv, TypeOK, Spans, Bytes
<1>3. SpanMidpoint(s) \in Int
  <2>1. SpanLength(s) \in Int
    BY <1>2 DEF SpanLength
  <2> QED
    BY <1>2, <2>1, RoundingTyped DEF SpanMidpoint
<1>4. PICK m \in Int : m = SpanMidpoint(s)
  BY <1>3
<1>5. s.first < m /\ m <= s.last
  BY <1>1, <1>4 DEF CanSplit
<1>6. phase = "split" /\ phase' = "split"
      /\ UNCHANGED <<fetched, failure, range, next_offset, current_offset>>
  BY DEF SplitLargest, handleVars
<1>7. Unleased' = Unleased
  <2>1. /\ Unleased = UNION {t.first .. t.last : t \in spans}
        /\ Unleased' = UNION {t.first .. t.last : t \in spans'}
    BY <1>6 DEF Unleased
  <2>2. PICK a, b : /\ spans' = (spans \ {s}) \cup {a, b}
                    /\ a = [first |-> s.first, last |-> m - 1]
                    /\ b = [first |-> m, last |-> s.last]
    BY <1>1, <1>4
  <2>3. \A x : x \in s.first .. s.last <=> x \in s.first .. (m - 1) \/ x \in m .. s.last
    BY <1>2, <1>5
  <2>4. ASSUME NEW x
        PROVE  (\E t \in spans' : x \in t.first .. t.last)
                 <=> (\E t \in spans : x \in t.first .. t.last)
    <3>1. (\E t \in spans' : x \in t.first .. t.last)
            <=> \/ \E t \in spans \ {s} : x \in t.first .. t.last
                \/ x \in s.first .. (m - 1)
                \/ x \in m .. s.last
      <4>1. a.first = s.first /\ a.last = m - 1 /\ b.first = m /\ b.last = s.last
        BY <2>2
      <4>2. (\E t \in spans' : x \in t.first .. t.last)
              <=> \/ \E t \in spans \ {s} : x \in t.first .. t.last
                  \/ x \in a.first .. a.last
                  \/ x \in b.first .. b.last
        BY <2>2, Zenon
      <4> QED
        BY <4>1, <4>2
    <3>2. (\E t \in spans : x \in t.first .. t.last)
            <=> (\E t \in spans \ {s} : x \in t.first .. t.last) \/ x \in s.first .. s.last
      BY <1>2
    <3> QED
      BY <2>3, <3>1, <3>2
  <2> QED
    BY <2>1, <2>4
<1>8. Leased' = Leased
  BY <1>6, LeaseKept, LeasesKept
<1> QED
  BY <1>6, <1>7, <1>8, PoolStutters

LEMMA BuildPool == IInv /\ BuildRanges => UNCHANGED Pool!vars
<1> SUFFICES ASSUME IInv, BuildRanges PROVE UNCHANGED Pool!vars
  OBVIOUS
<1>1. PICK n \in 1 .. MaxRanges : \E f \in [0 .. (n - 1) -> spans] :
        /\ SortedEnumeration(f, n)
        /\ next_range_id' = n
        /\ end_offset' = [r \in RangeIds |-> IF r < n THEN f[r].last ELSE 0]
        /\ current_offset' = [r \in RangeIds |-> IF r < n THEN f[r].first ELSE 0]
  BY DEF BuildRanges
<1>2. PICK f \in [0 .. (n - 1) -> spans] :
        /\ SortedEnumeration(f, n)
        /\ end_offset' = [r \in RangeIds |-> IF r < n THEN f[r].last ELSE 0]
        /\ current_offset' = [r \in RangeIds |-> IF r < n THEN f[r].first ELSE 0]
  BY <1>1
<1>3. LiveRanges' = 0 .. (n - 1)
  BY <1>1 DEF LiveRanges
<1>4. \A r \in 0 .. (n - 1) : /\ f[r] \in spans
                              /\ end_offset'[r] = f[r].last
                              /\ current_offset'[r] = f[r].first
  <2>1. \A r \in 0 .. (n - 1) : r \in RangeIds /\ r < n
    BY DEF RangeIds
  <2> QED
    BY <1>2, <2>1
<1>5. \A t \in spans : \E r \in 0 .. (n - 1) : f[r] = t
  BY <1>2 DEF SortedEnumeration
<1>6. phase = "split" /\ phase' = "run" /\ UNCHANGED <<fetched, failure, range>>
      /\ \A h \in Handles : range[h] = NoRange
  BY DEF BuildRanges, handleVars, IInv, Planning
<1>7. Unleased' = Unleased
  <2>1. /\ Unleased = UNION {t.first .. t.last : t \in spans}
        /\ Unleased' = UNION {current_offset'[r] .. end_offset'[r] : r \in 0 .. (n - 1)}
    BY <1>3, <1>6 DEF Unleased
  <2> QED
    BY <2>1, <1>4, <1>5
<1>8. Leased' = Leased
  BY <1>6, LeasedByHandle, LeasedByHandleNext, LeasesKept DEF Idle
<1> QED
  BY <1>6, <1>7, <1>8, PoolStutters

\* The tail that is stolen was not leased, and is not leased afterwards.
LEMMA StealPool == IInv /\ Steal => UNCHANGED Pool!vars
<1> SUFFICES ASSUME IInv, Steal PROVE UNCHANGED Pool!vars
  OBVIOUS
<1>1. PICK d \in LiveRanges :
        /\ CanSteal(d)
        /\ end_offset' = [end_offset EXCEPT ![next_range_id] = end_offset[d],
                                           ![d] = StealMidpoint(d) - 1]
        /\ current_offset' = [current_offset EXCEPT ![next_range_id] = StealMidpoint(d)]
  BY DEF Steal
<1>2. PICK id \in RangeIds : id = next_range_id
  BY DEF Steal, IInv, TypeOK, RangeIds
<1>3. d \in RangeIds /\ id # d /\ id \notin LiveRanges /\ LiveRanges \subseteq RangeIds
      /\ LiveRanges' = LiveRanges \cup {id}
  BY <1>2 DEF Steal, IInv, TypeOK, RangeIds, LiveRanges
<1>4. \A r \in RangeIds : current_offset[r] \in Int /\ end_offset[r] \in Int
  BY RangeTyped DEF IInv
<1>5. PICK m \in Int : m = StealMidpoint(d)
  <2>1. current_offset[d] \in Int /\ Remaining(d) \in Int
    BY <1>3, <1>4 DEF Remaining
  <2> QED
    BY <2>1, RoundingTyped DEF StealMidpoint
<1>6. current_offset[d] < m /\ m <= end_offset[d]
  BY <1>1, <1>5 DEF CanSteal
<1>7. /\ current_offset'[id] = m /\ end_offset'[id] = end_offset[d] /\ end_offset'[d] = m - 1
      /\ \A r \in LiveRanges : /\ current_offset'[r] = current_offset[r]
                               /\ r # d => end_offset'[r] = end_offset[r]
  <2>1. current_offset \in [RangeIds -> 0 .. TotalSize] /\ end_offset \in [RangeIds -> Bytes]
    BY DEF IInv, TypeOK
  <2> QED
    BY <2>1, <1>1, <1>2, <1>3, <1>5
<1>8. phase = "run" /\ phase' = "run" /\ UNCHANGED <<fetched, failure, range, next_offset>>
  BY DEF Steal, handleVars
<1>9. Unleased' = Unleased
  <2>1. TypeOK /\ TypeOK'
    BY StealTyped DEF IInv
  <2>2. \A x : x \in Unleased' <=>
          /\ x \in Int
          /\ \E r \in LiveRanges \cup {id} : current_offset'[r] <= x /\ x <= end_offset'[r]
    <3>1. \A r \in LiveRanges' : current_offset'[r] \in Int /\ end_offset'[r] \in Int
      BY <1>3, <1>4, <1>5, <1>7
    <3>2. Unleased' = UNION {current_offset'[r] .. end_offset'[r] : r \in LiveRanges'}
      BY <1>8 DEF Unleased
    <3> QED
      BY <3>1, <3>2, <1>3
  <2>3. \A x : x \in Unleased <=>
          /\ x \in Int
          /\ \E r \in LiveRanges : current_offset[r] <= x /\ x <= end_offset[r]
    BY <2>1, <1>8, UnleasedPoints
  <2>4. ASSUME NEW x \in Int
        PROVE  (\E r \in LiveRanges \cup {id} : current_offset'[r] <= x /\ x <= end_offset'[r])
                 <=> (\E r \in LiveRanges : current_offset[r] <= x /\ x <= end_offset[r])
    <3>1. ASSUME NEW r \in LiveRanges, r # d
          PROVE  (current_offset'[r] <= x /\ x <= end_offset'[r])
                   <=> (current_offset[r] <= x /\ x <= end_offset[r])
      BY <3>1, <1>7
    <3>2. (\/ (current_offset'[d] <= x /\ x <= end_offset'[d])
           \/ (current_offset'[id] <= x /\ x <= end_offset'[id]))
            <=> (current_offset[d] <= x /\ x <= end_offset[d])
      BY <1>3, <1>4, <1>6, <1>7
    <3> QED
      BY <3>1, <3>2
  <2> QED
    BY <2>2, <2>3, <2>4
<1>10. Leased' = Leased
  <2>1. \A g \in Handles : range[g] # NoRange => range[g] \in LiveRanges
    BY HeldLease DEF Idle
  <2> QED
    BY <2>1, <1>7, <1>8, LeaseKept, LeasesKept
<1> QED
  BY <1>8, <1>9, <1>10, PoolStutters

\* Of a range of which nothing is leased before, a dispatch takes the window off the front.
LEMMA WindowTaken ==
  ASSUME AcceptRanges, IInv, NEW r \in LiveRanges, current_offset[r] <= end_offset[r],
         phase = "run", phase' # "split", UNCHANGED <<next_range_id, end_offset>>,
         current_offset' = [current_offset EXCEPT ![r] = Window(r).last + 1]
  PROVE  /\ Unleased' \in SUBSET Unleased
         /\ Unleased \ Unleased' = current_offset[r] .. Window(r).last
<1>1. r \in RangeIds /\ LiveRanges \subseteq RangeIds /\ LiveRanges' = LiveRanges
  BY RangeTyped DEF IInv, LiveRanges
<1>2. \A q \in RangeIds : /\ start_offset[q] \in Int /\ end_offset[q] \in Int
                          /\ current_offset[q] \in Int
  BY RangeTyped DEF IInv
<1>3. PICK w \in Int : w = Window(r).last /\ current_offset[r] <= w /\ w <= end_offset[r]
  BY <1>1, WindowTyped DEF IInv, Bytes
<1>4. /\ current_offset'[r] = w + 1
      /\ \A q \in LiveRanges \ {r} : current_offset'[q] = current_offset[q]
  BY <1>1, <1>3 DEF IInv, TypeOK
<1>5. \A x : x \in Unleased <=>
        /\ x \in Int
        /\ \E q \in LiveRanges : current_offset[q] <= x /\ x <= end_offset[q]
  BY UnleasedPoints DEF IInv
<1>6. \A x : x \in Unleased' <=>
        /\ x \in Int
        /\ \E q \in LiveRanges : current_offset'[q] <= x /\ x <= end_offset[q]
  <2>1. \A q \in LiveRanges : current_offset'[q] \in Int /\ end_offset[q] \in Int
    BY <1>1, <1>2, <1>3, <1>4
  <2>2. Unleased' = UNION {current_offset'[q] .. end_offset[q] : q \in LiveRanges}
    BY <1>1 DEF Unleased
  <2> QED
    BY <2>1, <2>2
<1>7. ASSUME NEW x \in Unleased' PROVE x \in Unleased /\ ~(x \in current_offset[r] .. w)
  <2>1. PICK q \in LiveRanges : current_offset'[q] <= x /\ x <= end_offset[q]
    BY <1>6
  <2>2. x \in Int
    BY <1>6
  <2>3. CASE q = r
    BY <2>1, <2>2, <2>3, <1>1, <1>2, <1>3, <1>4, <1>5
  <2>4. CASE q # r
    <3>1. end_offset[q] < start_offset[r] \/ end_offset[r] < start_offset[q]
      BY <2>4 DEF IInv, Partition
    <3>2. start_offset[r] <= current_offset[r] /\ start_offset[q] <= current_offset[q]
      BY DEF IInv, Cursors
    <3> QED
      BY <2>1, <2>2, <2>4, <3>1, <3>2, <1>1, <1>2, <1>3, <1>4, <1>5
  <2> QED
    BY <2>3, <2>4
<1>8. ASSUME NEW x \in Unleased, x \notin Unleased' PROVE x \in current_offset[r] .. w
  <2>1. PICK q \in LiveRanges : current_offset[q] <= x /\ x <= end_offset[q]
    BY <1>5
  <2>2. x \in Int
    BY <1>5
  <2>3. q = r
    BY <2>1, <2>2, <1>4, <1>6, <1>8
  <2> QED
    BY <2>1, <2>2, <2>3, <1>1, <1>2, <1>3, <1>4, <1>6, <1>8
<1>9. \A x \in current_offset[r] .. w : x \in Unleased
  BY <1>1, <1>2, <1>3, <1>5
<1> QED
  BY <1>3, <1>7, <1>8, <1>9

LEMMA DispatchPool ==
  ASSUME AcceptRanges, IInv, NEW h \in Handles, Dispatch(h)
  PROVE  Pool!Lease(h)
<1>1. phase = "run" /\ phase' = "run" /\ Idle(h) /\ pending_ranges # <<>>
      /\ UNCHANGED <<fetched, failure, next_range_id, end_offset>>
  BY DEF Dispatch, rangeVars
<1>2. PICK r \in LiveRanges : r = Head(pending_ranges)
  BY <1>1, HeadOfDeque
<1>3. /\ r \in RangeIds /\ r # NoRange
      /\ r \notin marked_finished /\ current_offset[r] <= end_offset[r]
      /\ \A g \in Handles : range[g] # r
  BY <1>1, <1>2, HeadOfDeque, RangeTyped DEF IInv
<1>4. Arm(h, r)
  <2>1. HasUnleased(r)
    BY <1>3 DEF HasUnleased
  <2> QED
    BY <1>2, <1>3, <2>1 DEF Dispatch
<1>5. /\ Unleased' \in SUBSET Unleased
      /\ Unleased \ Unleased' = current_offset[r] .. Window(r).last
  BY <1>1, <1>3, <1>4, WindowTaken DEF Arm
<1>6. PICK w \in Int : w = Window(r).last
  BY <1>3, WindowTyped DEF IInv, Bytes
<1>7. /\ range'[h] = r /\ next_offset'[h] = current_offset[r] /\ current_offset'[r] = w + 1
      /\ \A g \in Handles \ {h} : range'[g] = range[g] /\ next_offset'[g] = next_offset[g]
      /\ \A q \in RangeIds \ {r} : current_offset'[q] = current_offset[q]
  <2>1. Window(r).first = current_offset[r]
    BY <1>3, WindowTyped DEF IInv
  <2> QED
    BY <1>3, <1>4, <1>6, <2>1 DEF Arm, IInv, TypeOK
<1>8. Leased'[h] = Unleased \ Unleased'
  <2>1. Leased'[h] = current_offset[r] .. ((w + 1) - 1)
    BY <1>3, <1>7, LeasedByHandleNext
  <2> QED
    BY <2>1, <1>5, <1>6
<1>9. \A g \in Handles \ {h} : Leased'[g] = Leased[g]
  <2>1. \A g \in Handles : range[g] # NoRange => range[g] \in RangeIds \ {r}
    BY <1>3, RangeTyped DEF IInv
  <2> QED
    BY <2>1, <1>7, LeaseKept
<1>10. Leased' = [Leased EXCEPT ![h] = Unleased \ Unleased']
  <2>1. Leased = [g \in Handles |-> Leased[g]] /\ Leased' = [g \in Handles |-> Leased'[g]]
    BY LeasedByHandle, LeasedByHandleNext
  <2> QED
    BY <2>1, <1>8, <1>9, UpdateOf
<1>11. Leased[h] = {}
  BY <1>1, LeasedByHandle
<1>12. ~failure /\ phase # "done" /\ (phase = "done")' = (phase = "done")
  BY <1>1 DEF IInv, Ended
<1> QED
  BY <1>1, <1>5, <1>10, <1>11, <1>12 DEF Pool!Lease

LEMMA ReceivePool ==
  ASSUME IInv, NEW h \in Handles, NEW n \in 1 .. WindowBytes, Receive(h, n)
  PROVE  Pool!Deliver(h)
<1>1. /\ phase = "run" /\ phase' = "run" /\ ~Idle(h)
      /\ next_offset[h] + n - 1 <= request_end[h]
      /\ fetched' = fetched \cup (next_offset[h] .. (next_offset[h] + n - 1))
      /\ next_offset' = [next_offset EXCEPT ![h] = @ + n]
      /\ UNCHANGED <<failure, next_range_id, end_offset, current_offset, range>>
  BY DEF Receive, rangeVars
<1>2. PICK r \in RangeIds : /\ r = range[h] /\ r # NoRange
                            /\ current_offset[r] \in Int /\ next_offset[h] \in Int
                            /\ request_end[h] \in Int
                            /\ current_offset[r] = request_end[h] + 1
  BY <1>1, HeldLease DEF LeaseOk
<1>3. PICK part : part = next_offset[h] .. (next_offset[h] + n - 1)
  OBVIOUS
<1>4. next_offset'[h] = next_offset[h] + n
      /\ \A g \in Handles \ {h} : next_offset'[g] = next_offset[g]
  BY <1>1 DEF IInv, TypeOK
<1>5. Leased[h] = next_offset[h] .. (current_offset[r] - 1)
      /\ Leased'[h] = (next_offset[h] + n) .. (current_offset[r] - 1)
  BY <1>1, <1>2, <1>4, LeasedByHandle, LeasedByHandleNext
<1>6. part \in SUBSET Leased[h] /\ Leased'[h] = Leased[h] \ part
  BY <1>1, <1>2, <1>3, <1>5
<1>7. \A g \in Handles \ {h} : Leased'[g] = Leased[g]
  BY <1>1, <1>4, LeaseKept
<1>8. Leased' = [Leased EXCEPT ![h] = Leased[h] \ part]
  <2>1. Leased = [g \in Handles |-> Leased[g]] /\ Leased' = [g \in Handles |-> Leased'[g]]
    BY LeasedByHandle, LeasedByHandleNext
  <2> QED
    BY <2>1, <1>6, <1>7, UpdateOf
<1>9. Leased' = [Leased EXCEPT ![h] = @ \ part] /\ fetched' = fetched \cup part
  BY <1>1, <1>3, <1>8
<1>10. Unleased' = Unleased
  BY <1>1 DEF Unleased, LiveRanges
<1>11. ~failure /\ phase # "done" /\ (phase = "done")' = (phase = "done")
  BY <1>1 DEF IInv, Ended
<1> QED
  BY <1>1, <1>6, <1>9, <1>10, <1>11 DEF Pool!Deliver

\* A request that has all of its lease gives nothing back.
LEMMA FinishOkPool ==
  ASSUME IInv, NEW h \in Handles, FinishOk(h)
  PROVE  UNCHANGED Pool!vars
<1>1. /\ phase = "run" /\ phase' = "run" /\ ~Idle(h)
      /\ next_offset[h] > request_end[h]
      /\ range' = [range EXCEPT ![h] = NoRange]
      /\ UNCHANGED <<failure, fetched, next_range_id, end_offset, current_offset, next_offset>>
  BY DEF FinishOk, rangeVars
<1>2. PICK r \in RangeIds : /\ r = range[h]
                            /\ current_offset[r] \in Int /\ next_offset[h] \in Int
                            /\ request_end[h] \in Int
                            /\ current_offset[r] = request_end[h] + 1
  BY <1>1, HeldLease DEF LeaseOk
<1>3. range'[h] = NoRange /\ \A g \in Handles \ {h} : range'[g] = range[g]
  BY <1>1 DEF IInv, TypeOK
<1>4. Leased[h] = {} /\ Leased'[h] = {}
  <2>1. Leased[h] = next_offset[h] .. (current_offset[r] - 1)
    BY <1>1, <1>2, LeasedByHandle
  <2>2. Leased[h] = {}
    BY <2>1, <1>1, <1>2
  <2> QED
    BY <2>2, <1>3, LeasedByHandleNext
<1>5. \A g \in Handles \ {h} : Leased'[g] = Leased[g]
  BY <1>1, <1>3, LeaseKept
<1>6. Leased' = Leased
  BY <1>4, <1>5, LeasesKept
<1>7. Unleased' = Unleased
  BY <1>1 DEF Unleased, LiveRanges
<1> QED
  BY <1>1, <1>6, <1>7, PoolStutters

\* A rollback is a GiveBack, whether the handle keeps its range or not.
LEMMA RollbackPool ==
  ASSUME IInv, NEW h \in Handles, ~Idle(h), Rollback(h), phase' # "split",
         range'[h] \in {range[h], NoRange},
         \A g \in Handles \ {h} : range'[g] = range[g],
         UNCHANGED <<next_range_id, end_offset, next_offset>>
  PROVE  Pool!GiveBack(h)
<1>1. PICK r \in LiveRanges :
        /\ r = range[h] /\ r \in RangeIds /\ r # NoRange
        /\ LeaseOk(h, r)
        /\ \A g \in Handles : range[g] = r => g = h
        /\ end_offset[r] \in Int /\ current_offset[r] \in Int
        /\ next_offset[h] \in Int /\ request_end[h] \in Int
        /\ phase # "split"
  BY HeldLease
<1>2. /\ next_offset[h] <= current_offset[r]
      /\ current_offset[r] <= end_offset[r] + 1
  BY <1>1 DEF LeaseOk, IInv, Cursors
<1>3. /\ current_offset'[r] = next_offset[h]
      /\ \A q \in LiveRanges \ {r} : current_offset'[q] = current_offset[q]
  BY <1>1, RollbackCursors
<1>4. LiveRanges' = LiveRanges /\ \A q \in LiveRanges : /\ end_offset[q] \in Int
                                                        /\ current_offset[q] \in Int
  BY RangeTyped DEF LiveRanges, IInv
<1>5. Leased[h] = next_offset[h] .. (current_offset[r] - 1)
  BY <1>1, LeasedByHandle
<1>6. Unleased' = Unleased \cup Leased[h]
  <2>1. \A x : x \in Unleased <=>
          /\ x \in Int
          /\ \E q \in LiveRanges : current_offset[q] <= x /\ x <= end_offset[q]
    BY <1>1, UnleasedPoints DEF IInv
  <2>2. \A x : x \in Unleased' <=>
          /\ x \in Int
          /\ \E q \in LiveRanges : current_offset'[q] <= x /\ x <= end_offset[q]
    <3>1. \A q \in LiveRanges : current_offset'[q] \in Int
      BY <1>1, <1>3, <1>4
    <3>2. Unleased' = UNION {current_offset'[q] .. end_offset[q] : q \in LiveRanges}
      BY <1>4 DEF Unleased
    <3> QED
      BY <3>1, <3>2, <1>4
  <2>3. ASSUME NEW x \in Int
        PROVE  (\E q \in LiveRanges : current_offset'[q] <= x /\ x <= end_offset[q])
                 <=> \/ \E q \in LiveRanges : current_offset[q] <= x /\ x <= end_offset[q]
                     \/ x \in Leased[h]
    <3>1. (current_offset'[r] <= x /\ x <= end_offset[r])
            <=> \/ current_offset[r] <= x /\ x <= end_offset[r]
                \/ x \in Leased[h]
      BY <1>1, <1>2, <1>3, <1>5
    <3> QED
      BY <3>1, <1>3
  <2>4. \A x \in Leased[h] : x \in Int
    BY <1>1, <1>5
  <2> QED
    BY <2>1, <2>2, <2>3, <2>4
<1>7. Leased'[h] = {}
  <2>1. CASE range'[h] = NoRange
    BY <2>1, LeasedByHandleNext
  <2>2. CASE range'[h] = r /\ range'[h] # NoRange
    <3>1. Leased'[h] = next_offset[h] .. (next_offset[h] - 1)
      BY <2>2, <1>3, LeasedByHandleNext
    <3> QED
      BY <3>1, <1>1
  <2> QED
    BY <2>1, <2>2, <1>1
<1>8. \A g \in Handles \ {h} : Leased'[g] = Leased[g]
  <2>1. \A g \in Handles \ {h} : range[g] # NoRange => range[g] \in LiveRanges \ {r}
    BY <1>1, HeldLease DEF Idle
  <2> QED
    BY <2>1, <1>3, LeaseKept
<1>9. Leased' = [Leased EXCEPT ![h] = {}]
  <2>1. Leased = [g \in Handles |-> Leased[g]] /\ Leased' = [g \in Handles |-> Leased'[g]]
    BY LeasedByHandle, LeasedByHandleNext
  <2> QED
    BY <2>1, <1>7, <1>8, UpdateOf
<1> QED
  BY <1>6, <1>9 DEF Pool!GiveBack

LEMMA FailuresPool ==
  ASSUME AcceptRanges, IInv, NEW h \in Handles,
         DispatchFails(h) \/ FinishFailed(h) \/ LoopFails
  PROVE  Pool!Fail
<1>1. phase = "run" /\ phase' = "stopping" /\ failure' = TRUE
      /\ UNCHANGED <<fetched, next_range_id, end_offset, range, next_offset>>
  BY DEF DispatchFails, FinishFailed, LoopFails, rangeVars, handleVars
<1>2. ~failure /\ phase # "done"
  BY <1>1 DEF IInv, Ended
<1>3. (phase = "done")' = (phase = "done")
  <2>1. ~(phase = "done") /\ ~(phase' = "done")
    BY <1>1
  <2> QED
    BY <2>1, Zenon
<1>4. CASE DispatchFails(h)
  <2>1. PICK r \in LiveRanges : r = Head(pending_ranges)
    BY <1>4, HeadOfDeque DEF DispatchFails
  <2>2. /\ r \in RangeIds /\ current_offset[r] <= end_offset[r]
        /\ \A g \in Handles : range[g] # r
    BY <1>4, <2>1, HeadOfDeque DEF DispatchFails
  <2>3. current_offset' = [current_offset EXCEPT ![r] = Window(r).last + 1]
    BY <1>4, <2>1 DEF DispatchFails
  <2>4. Unleased' \in SUBSET Unleased
    BY <1>1, <2>2, <2>3, WindowTaken
  <2>5. \A q \in RangeIds \ {r} : current_offset'[q] = current_offset[q]
    BY <2>3 DEF IInv, TypeOK
  <2>6. \A g \in Handles : range[g] # NoRange => range[g] \in RangeIds \ {r}
    BY <2>2, RangeTyped DEF IInv
  <2>7. Leased' = Leased
    BY <1>1, <2>5, <2>6, LeaseKept, LeasesKept
  <2> QED
    BY <1>1, <1>2, <1>3, <2>4, <2>7 DEF Pool!Fail
<1>5. CASE FinishFailed(h)
  <2>1. Pool!GiveBack(h)
    BY <1>1, <1>5, RollbackPool DEF FinishFailed
  <2> QED
    BY <1>1, <1>2, <1>3, <2>1 DEF Pool!Fail
<1>6. CASE LoopFails
  <2>1. UNCHANGED current_offset
    BY <1>6 DEF LoopFails
  <2>2. Unleased' = Unleased
    BY <1>1, <2>1 DEF Unleased, LiveRanges
  <2>3. Leased' = Leased
    BY <1>1, <2>1, LeaseKept, LeasesKept
  <2> QED
    BY <1>1, <1>2, <1>3, <2>2, <2>3 DEF Pool!Fail
<1> QED
  BY <1>4, <1>5, <1>6

\* The loop ends well only when no handle holds a range, so a handle that is stopped
\* is stopped because something failed.
LEMMA StopHandlePool ==
  ASSUME IInv, NEW h \in Handles, StopHandle(h)
  PROVE  Pool!Return(h)
<1>1. phase = "stopping" /\ phase' = "stopping" /\ ~Idle(h) /\ Rollback(h)
      /\ range' = [range EXCEPT ![h] = NoRange]
      /\ UNCHANGED <<fetched, failure, next_range_id, end_offset, next_offset>>
  BY DEF StopHandle, rangeVars
<1>2. range'[h] = NoRange /\ \A g \in Handles \ {h} : range'[g] = range[g]
  BY <1>1 DEF IInv, TypeOK
<1>3. Pool!GiveBack(h)
  BY <1>1, <1>2, RollbackPool
<1>4. failure /\ phase # "done"
  BY <1>1 DEF IInv, Ended, Idle
<1>5. (phase = "done")' = (phase = "done")
  BY <1>1, Zenon
<1> QED
  BY <1>1, <1>3, <1>4, <1>5 DEF Pool!Return

\* Without a failure every range was announced, and an announced range is all leased.
LEMMA EndPool ==
  ASSUME IInv, AbandonHandles \/ Stop
  PROVE  Pool!End
<1>1. phase = "stopping" /\ phase' = "done"
      /\ UNCHANGED <<fetched, failure, next_range_id, end_offset, current_offset, range, next_offset>>
  BY DEF AbandonHandles, Stop, rangeVars, handleVars
<1>2. Unleased' = Unleased
  BY <1>1 DEF Unleased, LiveRanges
<1>3. Leased' = Leased
  BY <1>1, LeaseKept, LeasesKept
<1>4. ASSUME ~failure PROVE Unleased = {} /\ \A h \in Handles : Leased[h] = {}
  <2>1. (\A h \in Handles : range[h] = NoRange) /\ LiveRanges \subseteq completion_notified
    BY <1>1, <1>4 DEF IInv, Ended
  <2>2. \A r \in LiveRanges : current_offset[r] = end_offset[r] + 1 /\ end_offset[r] \in Int
    BY <2>1, RangeTyped DEF IInv, Completion
  <2>3. \A r \in LiveRanges : current_offset[r] .. end_offset[r] = {}
    BY <2>2
  <2>4. Unleased = {}
    BY <1>1, <2>3 DEF Unleased
  <2> QED
    BY <2>1, <2>4, LeasedByHandle DEF Idle
<1>5. ~(phase = "done") /\ (phase = "done")' = TRUE
  <2>1. phase # "done" /\ phase' = "done"
    BY <1>1
  <2> QED
    BY <2>1, Zenon
<1> QED
  BY <1>1, <1>2, <1>3, <1>4, <1>5 DEF Pool!End

\* What is left does not touch a range: the packet that finishes one, the end of the loop.
LEMMA UnchangedPool ==
  ASSUME UNCHANGED <<failure, spans, next_range_id, end_offset, current_offset, range,
                     next_offset, fetched>>,
         phase' = "split" <=> phase = "split", phase' = "done" <=> phase = "done"
  PROVE  UNCHANGED Pool!vars
<1>1. Unleased' = Unleased
  BY DEF Unleased, LiveRanges
<1>2. Leased' = Leased
  BY LeaseKept, LeasesKept
<1> QED
  BY <1>1, <1>2, PoolStutters

LEMMA PoolStep ==
  ASSUME AcceptRanges, IInv, [Next]_vars
  PROVE  [Pool!Next]_Pool!vars
<1> SUFFICES Pool!Next \/ UNCHANGED Pool!vars
  OBVIOUS
<1>1. CASE UNCHANGED vars
  BY <1>1, UnchangedPool DEF vars, rangeVars, handleVars
<1>2. CASE PersistRangeComplete \/ NetworkDrained
  BY <1>2, UnchangedPool DEF PersistRangeComplete, NetworkDrained, rangeVars, handleVars
<1>3. ASSUME NEW h \in Handles, HandleStep(h) PROVE Pool!Next \/ UNCHANGED Pool!vars
  <2>1. CASE Dispatch(h)
    BY <2>1, DispatchPool DEF Pool!Next
  <2>2. CASE DispatchFails(h) \/ FinishFailed(h)
    BY <2>2, FailuresPool DEF Pool!Next
  <2>3. ASSUME NEW n \in 1 .. WindowBytes, Receive(h, n) PROVE Pool!Next
    BY <2>3, ReceivePool DEF Pool!Next
  <2>4. CASE FinishOk(h)
    BY <2>4, FinishOkPool
  <2>5. CASE StopHandle(h)
    BY <2>5, StopHandlePool DEF Pool!Next
  <2> QED
    BY <1>3, <2>1, <2>2, <2>3, <2>4, <2>5 DEF HandleStep
<1>4. CASE LoopFails
  <2>1. 1 \in Handles
    BY DEF Handles
  <2> QED
    BY <1>4, <2>1, FailuresPool DEF Pool!Next
<1>5. CASE AbandonHandles \/ Stop
  BY <1>5, EndPool DEF Pool!Next
<1> QED
  BY <1>1, <1>2, <1>3, <1>4, <1>5, SplitPool, BuildPool, StealPool DEF Next

\* Whatever ranges the file is cut into and however they are split, stolen, requeued and
\* rolled back, every byte is asked for by one handle at a time and fetched once, a failed
\* or stopped request gives back exactly what it did not deliver, and a network phase
\* without failure ends with nothing left.
THEOREM WorkDistributed ==
  ASSUME AcceptRanges
  PROVE  Spec => DistributesWork
BY PoolInit, PoolStep, SchedulerInvariant, PTL DEF Spec, DistributesWork, Pool!Spec
=============================================================================
