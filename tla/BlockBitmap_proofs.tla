-------------------------- MODULE BlockBitmap_proofs --------------------------
(***************************************************************************)
(* Proofs about BlockBitmap, for any file, any blocks and any calls: the   *)
(* loops compute Geometry's operators, a finished block stays finished, and*)
(* a scan that runs beside the marks returns the VDL of one moment.        *)
(***************************************************************************)
EXTENDS BlockBitmap, Geometry_proofs

USE GeometryAssumption

-----------------------------------------------------------------------------
(***************************************************************************)
(* The inductive invariant.                                                *)
(***************************************************************************)
TypeOK ==
  /\ states \in Bitmaps
  /\ expected \in Bitmaps
  /\ call \in Calls \cup {NoCall}
  /\ index \in Nat
  /\ scanning \in BOOLEAN
  /\ position \in Nat
  /\ finished_bytes \in Nat
  /\ answer \in 0 .. TotalSize

\* The blocks before the loop variable have what they shall have, those from it on
\* would get it if the rest of the call were one step.
MarkingOk ==
  /\ call = NoCall => states = expected
  /\ call # NoCall =>
       /\ call.from < call.upto
       /\ call.from \div BlockSize <= index
       /\ \A b \in Blocks :
            expected[b] = IF b < index THEN states[b] ELSE Effect(call, states)[b]

\* What a scan has counted: finished blocks, and not yet all of the file.
ScanningOk ==
  scanning =>
    /\ position < BlockCount
    /\ finished_bytes = position * BlockSize
    /\ finished_bytes < TotalSize
    /\ \A b \in Blocks : b < position => states[b] = "finished"

IInv == TypeOK /\ MarkingOk /\ ScanningOk

-----------------------------------------------------------------------------
(***************************************************************************)
(* The geometry of the loops.                                              *)
(***************************************************************************)

\* The block of an offset by division: not after a block that begins at or before it ...
LEMMA BlockOfOffset ==
  ASSUME NEW x \in Bytes, NEW b \in Blocks
  PROVE  /\ x \div BlockSize \in Nat
         /\ x \div BlockSize <= b <=> x < BlockEnd(b)
         /\ b <= x \div BlockSize <=> BlockBegin(b) <= x
<1>1. PICK q \in Int : q = x \div BlockSize /\ q * BlockSize <= x /\ x < q * BlockSize + BlockSize
  BY DivBounds DEF Bytes
<1>2. x \in Nat /\ x < TotalSize
  BY DEF Bytes
<1>3. q \in Nat
  <2>1. CASE q < 0
    <3>1. (q + 1) * BlockSize <= 0 * BlockSize
      BY <2>1, BlockOrder
    <3>2. (q + 1) * BlockSize = q * BlockSize + BlockSize /\ 0 * BlockSize = 0
      OBVIOUS
    <3> QED
      BY <3>1, <3>2, <1>1, <1>2
  <2> QED
    BY <2>1
<1>4. PICK qs \in Int, bs \in Int :
        /\ qs = q * BlockSize /\ (q + 1) * BlockSize = qs + BlockSize
        /\ bs = b * BlockSize /\ (b + 1) * BlockSize = bs + BlockSize
  BY <1>3, BlockInFile
<1>5. b \in Nat /\ (b < q => bs + BlockSize <= qs) /\ (q < b => qs + BlockSize <= bs)
      /\ (b = q => bs = qs)
  BY <1>3, <1>4, BlockOrder, BlockInFile
<1>6. BlockBegin(b) = bs /\ BlockEnd(b) = Min2(bs + BlockSize, TotalSize)
  BY <1>4 DEF BlockBegin, BlockEnd
<1> QED
  BY <1>1, <1>2, <1>3, <1>4, <1>5, <1>6 DEF Min2

\* The loop visits the blocks the interval meets.
LEMMA VisitedBlocks ==
  ASSUME NEW c \in Calls, c.from < c.upto, NEW b \in Blocks
  PROVE  /\ c.from \div BlockSize \in Nat /\ LastBlock(c.upto) \in Nat
         /\ c.from \div BlockSize <= b /\ b <= LastBlock(c.upto)
              <=> Max2(c.from, BlockBegin(b)) < Min2(c.upto, BlockEnd(b))
<1>1. c.from \in Bytes /\ c.upto \in 1 .. TotalSize
  BY DEF Calls
<1>2. PICK last \in Bytes : last = c.upto - 1
  BY <1>1 DEF Bytes
<1>3. /\ c.from \div BlockSize \in Nat
      /\ c.from \div BlockSize <= b <=> c.from < BlockEnd(b)
      /\ last \div BlockSize \in Nat
      /\ b <= last \div BlockSize <=> BlockBegin(b) <= last
  BY <1>1, <1>2, BlockOfOffset
<1>4. LastBlock(c.upto) = last \div BlockSize
  BY <1>2 DEF LastBlock
<1>5. BlockBegin(b) \in Int /\ BlockEnd(b) \in Int /\ BlockBegin(b) < BlockEnd(b)
  BY BlockInFile DEF Bytes
<1> QED
  BY <1>1, <1>2, <1>3, <1>4, <1>5 DEF Max2, Min2, Bytes

\* A call has no effect on the blocks it does not visit.
LEMMA EffectOutside ==
  ASSUME NEW c \in Calls, c.from < c.upto, NEW bitmap \in Bitmaps, NEW b \in Blocks,
         b < c.from \div BlockSize \/ b > LastBlock(c.upto)
  PROVE  Effect(c, bitmap)[b] = bitmap[b]
<1>1. ~(Max2(c.from, BlockBegin(b)) < Min2(c.upto, BlockEnd(b)))
  BY VisitedBlocks, BlockInFile
<1>2. BlockBegin(b) \in Int /\ BlockEnd(b) \in Int /\ BlockBegin(b) < BlockEnd(b)
      /\ c.from \in Int /\ c.upto \in Int
  BY BlockInFile DEF Bytes, Calls
<1>3. ~Covers(c.from, c.upto, b)
  BY <1>1, <1>2 DEF Covers, Max2, Min2
<1> QED
  BY <1>1, <1>3 DEF Effect, MarkDownloading, MarkFinished

LEMMA EffectTyped ==
  ASSUME NEW c \in Calls, NEW bitmap \in Bitmaps
  PROVE  Effect(c, bitmap) \in Bitmaps
BY DEF Effect, MarkDownloading, MarkFinished, Bitmaps, BlockState

\* The prefix is where the first block is that is not finished.
LEMMA PrefixIs ==
  ASSUME NEW bitmap, NEW n \in 0 .. BlockCount,
         \A b \in Blocks : b < n => bitmap[b] = "finished",
         n < BlockCount => bitmap[n] # "finished"
  PROVE  FinishedPrefix(bitmap) = n
<1> DEFINE P(m) == /\ \A b \in 0 .. (m - 1) : bitmap[b] = "finished"
                   /\ m < BlockCount => bitmap[m] # "finished"
<1>1. BlockCount \in Nat
  BY CountCovers
<1>2. P(n)
  BY <1>1 DEF Blocks
<1>3. ASSUME NEW m \in 0 .. BlockCount, P(m) PROVE m = n
  <2>1. CASE m < n
    BY <2>1, <1>1, <1>2, <1>3
  <2>2. CASE n < m
    BY <2>2, <1>1, <1>2, <1>3
  <2> QED
    BY <2>1, <2>2, <1>1
<1>4. FinishedPrefix(bitmap) = CHOOSE m \in 0 .. BlockCount : P(m)
  BY DEF FinishedPrefix
<1> HIDE DEF P
<1>5. FinishedPrefix(bitmap) \in 0 .. BlockCount /\ P(FinishedPrefix(bitmap))
  BY <1>2, <1>4
<1> QED
  BY <1>3, <1>5

-----------------------------------------------------------------------------
(***************************************************************************)
(* The steps.                                                              *)
(***************************************************************************)
LEMMA SizeTyped == TotalSize \in Nat /\ 0 \in 0 .. TotalSize /\ TotalSize \in 0 .. TotalSize
OBVIOUS

LEMMA InitIInv == Init => IInv
<1> SUFFICES ASSUME Init PROVE IInv
  OBVIOUS
<1>1. states \in Bitmaps
  BY DEF Init, Bitmaps, BlockState
<1>2. TypeOK
  <2>1. call \in Calls \cup {NoCall}
    BY DEF Init
  <2> QED
    BY <1>1, <2>1, SizeTyped DEF Init, TypeOK
<1>3. MarkingOk
  BY DEF Init, MarkingOk
<1>4. ScanningOk
  BY DEF Init, ScanningOk
<1> QED
  BY <1>2, <1>3, <1>4 DEF IInv

\* A call is not NoCall, and its arguments are offsets.
LEMMA CallTyped ==
  ASSUME TypeOK, call # NoCall
  PROVE  call \in Calls
BY DEF TypeOK

LEMMA MarkIInv ==
  ASSUME IInv, NEW c \in Calls, Mark(c)
  PROVE  IInv'
<1>1. /\ call = NoCall /\ c.from < c.upto /\ call' = c
      /\ index' = c.from \div BlockSize /\ expected' = Effect(c, expected)
      /\ UNCHANGED <<states, scanning, position, finished_bytes, answer>>
  BY DEF Mark
<1>2. states \in Bitmaps /\ states = expected
  BY <1>1 DEF IInv, TypeOK, MarkingOk
<1>3. c.from \div BlockSize \in Nat
  <2>1. c.from \in Bytes /\ c.upto \in 1 .. TotalSize
    BY DEF Calls
  <2>2. \E b \in Blocks : c.from \in BlockBytes(b)
    BY <2>1, ByteHasBlock
  <2> QED
    BY <2>1, <2>2, BlockOfOffset
<1>4. TypeOK'
  BY <1>1, <1>2, <1>3, EffectTyped DEF IInv, TypeOK
<1>5. c # NoCall
  BY DEF Calls, NoCall
<1>6. ASSUME NEW b \in Blocks, b < index' PROVE expected'[b] = states[b]
  BY <1>1, <1>2, <1>6, EffectOutside
<1>7. MarkingOk'
  BY <1>1, <1>2, <1>5, <1>6 DEF MarkingOk
<1>8. ScanningOk'
  BY <1>1 DEF IInv, ScanningOk
<1> QED
  BY <1>4, <1>7, <1>8 DEF IInv

\* One turn of the writer's loop, as a step of one block.
LEMMA MarkBlockIs ==
  ASSUME IInv, MarkBlock
  PROVE  /\ index \in Blocks
         /\ states'[index] = Effect(call, states)[index]
         /\ \A b \in Blocks \ {index} : states'[b] = states[b]
         /\ states' \in Bitmaps
<1>1. call # NoCall /\ Looping /\ call \in Calls
  BY CallTyped DEF MarkBlock, IInv
<1>2. index \in Blocks /\ states \in Bitmaps
  BY <1>1, CountCovers DEF IInv, TypeOK, Looping, Blocks
<1>3. call.from < call.upto
  BY <1>1 DEF IInv, MarkingOk
<1>4. states' = [states EXCEPT ![index] =
                   IF call.op = "downloading" THEN Exchanged(states[index])
                   ELSE IF Covers(call.from, call.upto, index) THEN "finished"
                   ELSE states[index]]
  BY DEF MarkBlock
<1>5. /\ states'[index] = (IF call.op = "downloading" THEN Exchanged(states[index])
                          ELSE IF Covers(call.from, call.upto, index) THEN "finished"
                          ELSE states[index])
      /\ \A b \in Blocks \ {index} : states'[b] = states[b]
  BY <1>2, <1>4 DEF Bitmaps
<1>6. states[index] \in BlockState
  BY <1>2 DEF Bitmaps
<1>7. states'[index] \in BlockState
  BY <1>5, <1>6 DEF BlockState, Exchanged
<1>8. states' \in Bitmaps
  <2>1. PICK v \in BlockState : states' = [states EXCEPT ![index] = v]
    <3>1. states' = [states EXCEPT ![index] = states'[index]]
      BY <1>2, <1>4, <1>5 DEF Bitmaps
    <3> QED
      BY <1>7, <3>1
  <2> QED
    BY <1>2, <2>1 DEF Bitmaps
<1>9. Max2(call.from, BlockBegin(index)) < Min2(call.upto, BlockEnd(index))
  BY <1>1, <1>2, <1>3, VisitedBlocks DEF Looping, IInv, MarkingOk
<1>10. Effect(call, states)[index] =
         IF call.op = "downloading" THEN Exchanged(states[index])
         ELSE IF Covers(call.from, call.upto, index) THEN "finished"
         ELSE states[index]
  BY <1>2, <1>9 DEF Effect, MarkDownloading, MarkFinished, Exchanged
<1> QED
  BY <1>2, <1>5, <1>8, <1>10

LEMMA MarkBlockIInv ==
  ASSUME IInv, MarkBlock
  PROVE  IInv'
<1>1. /\ index \in Blocks
      /\ states'[index] = Effect(call, states)[index]
      /\ \A b \in Blocks \ {index} : states'[b] = states[b]
      /\ states' \in Bitmaps
  BY MarkBlockIs
<1>2. /\ call # NoCall /\ index' = index + 1
      /\ UNCHANGED <<call, scanning, position, finished_bytes, answer, expected>>
  BY DEF MarkBlock
<1>3. TypeOK'
  BY <1>1, <1>2 DEF IInv, TypeOK
<1>4. MarkingOk'
  <2>1. ASSUME NEW b \in Blocks
        PROVE  expected[b] = IF b < index + 1 THEN states'[b] ELSE Effect(call, states')[b]
    <3>1. expected[b] = IF b < index THEN states[b] ELSE Effect(call, states)[b]
      BY <1>2 DEF IInv, MarkingOk
    <3>2. b \in Int /\ index \in Int
      BY <1>1, BlockInFile
    <3>3. CASE b = index
      BY <3>1, <3>2, <3>3, <1>1
    <3>4. CASE b # index
      <4>1. Effect(call, states')[b] = Effect(call, states)[b]
        BY <1>1, <3>4 DEF Effect, MarkDownloading, MarkFinished
      <4> QED
        BY <3>1, <3>2, <3>4, <4>1, <1>1
    <3> QED
      BY <3>3, <3>4
  <2>2. call.from < call.upto /\ call.from \div BlockSize <= index + 1
    <3>1. call.from < call.upto /\ call.from \div BlockSize <= index
      BY <1>2 DEF IInv, MarkingOk
    <3>2. call.from \div BlockSize \in Int /\ index \in Int
      BY <1>1, <1>2, <3>1, CallTyped, VisitedBlocks, BlockInFile DEF IInv
    <3> QED
      BY <3>1, <3>2
  <2> QED
    BY <1>2, <2>1, <2>2 DEF MarkingOk
<1>5. ScanningOk'
  <2>1. \A b \in Blocks : states[b] = "finished" => states'[b] = "finished"
    BY <1>1 DEF Effect, MarkDownloading, MarkFinished
  <2> QED
    BY <1>2, <2>1 DEF IInv, ScanningOk
<1> QED
  BY <1>3, <1>4, <1>5 DEF IInv

\* The loop is over: no block from the loop variable on is met by the interval.
LEMMA MarkReturnsIInv ==
  ASSUME IInv, MarkReturns
  PROVE  IInv'
<1>1. /\ call # NoCall /\ ~Looping /\ call' = NoCall /\ index' = 0
      /\ UNCHANGED <<states, scanning, position, finished_bytes, answer, expected>>
  BY DEF MarkReturns
<1>2. call \in Calls /\ call.from < call.upto /\ index \in Nat
      /\ states \in Bitmaps /\ expected \in Bitmaps
  BY <1>1, CallTyped DEF IInv, MarkingOk, TypeOK
<1>3. ASSUME NEW b \in Blocks PROVE expected[b] = states[b]
  <2>1. expected[b] = IF b < index THEN states[b] ELSE Effect(call, states)[b]
    BY <1>1 DEF IInv, MarkingOk
  <2>2. CASE b < index
    BY <2>1, <2>2
  <2>3. CASE ~(b < index)
    <3>1. b \in Nat /\ b < BlockCount /\ BlockCount \in Nat
      BY CountCovers DEF Blocks
    <3>2. LastBlock(call.upto) \in Nat
      BY <1>2, VisitedBlocks
    <3>3. b > LastBlock(call.upto)
      BY <1>1, <1>2, <2>3, <3>1, <3>2 DEF Looping
    <3> QED
      BY <1>2, <2>1, <2>3, <3>3, EffectOutside
  <2> QED
    BY <2>2, <2>3
<1>4. states = expected
  BY <1>2, <1>3 DEF Bitmaps
<1>5. TypeOK' /\ MarkingOk' /\ ScanningOk'
  BY <1>1, <1>2, <1>4 DEF IInv, TypeOK, MarkingOk, ScanningOk
<1> QED
  BY <1>5 DEF IInv

\* What a scan returns, and that it goes on only while the file does.
LEMMA ScanBlockIs ==
  ASSUME IInv, ScanBlock
  PROVE  /\ position' \in Nat /\ finished_bytes' = position' * BlockSize /\ finished_bytes' \in Nat
         /\ \A b \in Blocks : b < position' => states[b] = "finished"
         /\ finished_bytes' < TotalSize => position' < BlockCount
         /\ finished_bytes' >= TotalSize => ContiguousFinished(states) = TotalSize
<1>1. /\ scanning /\ position < BlockCount /\ states[position] = "finished"
      /\ position' = position + 1 /\ finished_bytes' = finished_bytes + BlockSize
  BY DEF ScanBlock
<1>2. /\ finished_bytes = position * BlockSize /\ position \in Nat
      /\ \A b \in Blocks : b < position => states[b] = "finished"
  BY <1>1 DEF IInv, TypeOK, ScanningOk
<1>3. /\ BlockCount \in Nat /\ BlockCount * BlockSize \in Nat
      /\ BlockCount * BlockSize >= TotalSize
  BY CountCovers
<1>4. position' \in Nat /\ finished_bytes' = position' * BlockSize /\ finished_bytes' \in Nat
  BY <1>1, <1>2
<1>5. \A b \in Blocks : b < position' => states[b] = "finished"
  BY <1>1, <1>2, BlockInFile
<1>6. position' <= BlockCount
  BY <1>1, <1>2, <1>3
<1>7. ASSUME finished_bytes' < TotalSize PROVE position' < BlockCount
  <2>1. CASE position' = BlockCount
    <3>1. finished_bytes' = BlockCount * BlockSize
      BY <2>1, <1>4
    <3> QED
      BY <3>1, <1>3, <1>4, <1>7
  <2> QED
    BY <2>1, <1>3, <1>4, <1>6
<1>8. ASSUME finished_bytes' >= TotalSize PROVE ContiguousFinished(states) = TotalSize
  <2>1. ~(position' < BlockCount)
    <3>1. ASSUME position' < BlockCount PROVE FALSE
      <4>1. position' \in Blocks
        BY <1>4, <3>1, <1>3 DEF Blocks
      <4>2. BlockBegin(position') < TotalSize
        BY <4>1, BlockInFile DEF Bytes
      <4>3. BlockBegin(position') = finished_bytes'
        BY <1>4 DEF BlockBegin
      <4>4. finished_bytes' \in Nat
        BY <1>4
      <4> QED
        BY <4>2, <4>3, <4>4, <1>8, SizeTyped
    <3> QED
      BY <3>1
  <2>2. position' = BlockCount
    BY <2>1, <1>3, <1>4, <1>6
  <2>3. FinishedPrefix(states) = BlockCount
    BY <2>2, <1>3, <1>5, PrefixIs
  <2> QED
    BY <2>3, <1>3 DEF ContiguousFinished, Min2
<1> QED
  BY <1>4, <1>5, <1>7, <1>8

LEMMA ScanStopsIs ==
  ASSUME IInv, ScanStops
  PROVE  finished_bytes = ContiguousFinished(states) /\ finished_bytes \in 0 .. TotalSize
<1>1. scanning /\ (position < BlockCount => states[position] # "finished")
  BY DEF ScanStops
<1>2. /\ position < BlockCount /\ finished_bytes = position * BlockSize /\ finished_bytes < TotalSize
      /\ \A b \in Blocks : b < position => states[b] = "finished"
      /\ position \in Nat /\ finished_bytes \in Nat
  BY <1>1 DEF IInv, TypeOK, ScanningOk
<1>3. FinishedPrefix(states) = position
  BY <1>1, <1>2, CountCovers, PrefixIs
<1> QED
  BY <1>2, <1>3 DEF ContiguousFinished, Min2

LEMMA ScanIInv ==
  ASSUME IInv, BeginScan \/ ScanBlock \/ ScanStops
  PROVE  IInv'
<1>1. UNCHANGED <<states, call, index, expected>>
  BY DEF BeginScan, ScanBlock, ScanStops
<1>2. MarkingOk'
  BY <1>1 DEF IInv, MarkingOk
<1>3. CASE BeginScan
  <2>1. /\ scanning' = TRUE /\ position' = 0 /\ finished_bytes' = 0 /\ answer' = answer
    BY <1>3 DEF BeginScan
  <2>2. 0 < BlockCount
    <3>1. CASE BlockCount = 0
      BY <3>1, CountCovers
    <3> QED
      BY <3>1, CountCovers
  <2> QED
    BY <1>1, <1>2, <2>1, <2>2, BlockInFile DEF IInv, TypeOK, ScanningOk
<1>4. CASE ScanBlock
  <2>1. /\ position' \in Nat /\ finished_bytes' = position' * BlockSize /\ finished_bytes' \in Nat
        /\ \A b \in Blocks : b < position' => states[b] = "finished"
        /\ finished_bytes' < TotalSize => position' < BlockCount
    BY <1>4, ScanBlockIs
  <2>2. CASE finished_bytes' >= TotalSize
    <3>1. answer' = TotalSize /\ scanning' = FALSE
      BY <1>4, <2>2 DEF ScanBlock
    <3> QED
      <4>1. TypeOK'
        BY <1>1, <2>1, <3>1, SizeTyped DEF IInv, TypeOK
      <4>2. ScanningOk'
        BY <3>1 DEF ScanningOk
      <4> QED
        BY <1>2, <4>1, <4>2 DEF IInv
  <2>3. CASE ~(finished_bytes' >= TotalSize)
    <3>1. answer' = answer /\ scanning' = scanning
      BY <1>4, <2>3 DEF ScanBlock
    <3>2. finished_bytes' < TotalSize
      <4>1. finished_bytes' \in Nat
        BY <2>1
      <4> QED
        BY <4>1, <2>3
    <3>3. TypeOK'
      BY <1>1, <2>1, <3>1 DEF IInv, TypeOK
    <3>4. ScanningOk'
      BY <1>1, <2>1, <3>1, <3>2 DEF ScanningOk
    <3> QED
      BY <1>2, <3>3, <3>4 DEF IInv
  <2> QED
    BY <2>2, <2>3
<1>5. CASE ScanStops
  <2>1. answer' \in 0 .. TotalSize /\ scanning' = FALSE /\ UNCHANGED <<position, finished_bytes>>
    BY <1>5, ScanStopsIs DEF ScanStops
  <2> QED
    BY <1>1, <1>2, <2>1 DEF IInv, TypeOK, ScanningOk
<1> QED
  BY <1>3, <1>4, <1>5

LEMMA NextIInv ==
  ASSUME IInv, [Next]_vars
  PROVE  IInv'
<1>1. CASE UNCHANGED vars
  BY <1>1 DEF vars, IInv, TypeOK, MarkingOk, ScanningOk
<1> QED
  BY <1>1, MarkIInv, MarkBlockIInv, MarkReturnsIInv, ScanIInv DEF Next

THEOREM BitmapInvariant == Spec => []IInv
BY InitIInv, NextIInv, PTL DEF Spec

\* A call that returned has marked what Geometry's operator marks: that the other modules
\* take it for one step loses nothing to the thread that makes it.
COROLLARY MarksCorrect == Spec => []MarksComputed
<1>1. IInv => MarksComputed
  BY DEF IInv, MarkingOk, MarksComputed
<1> QED
  BY <1>1, BitmapInvariant, PTL

\* Neither call ever takes a finished block back, not even a mark_downloading_range that
\* comes late, as flush_tail's does for a tail that was counted as persisted before.
FinishedStays == [][\A b \in Blocks : states[b] = "finished" => states'[b] = "finished"]_vars

THEOREM FinishedBlocksStay == Spec => FinishedStays
<1>1. ASSUME IInv, [Next]_vars
      PROVE  [\A b \in Blocks : states[b] = "finished" => states'[b] = "finished"]_vars
  <2>1. CASE MarkBlock
    BY <1>1, <2>1, MarkBlockIs DEF Effect, MarkDownloading, MarkFinished
  <2>2. CASE UNCHANGED states
    BY <2>2
  <2> QED
    BY <1>1, <2>1, <2>2 DEF Next, Mark, MarkReturns, BeginScan, ScanBlock, ScanStops, vars
<1> QED
  BY <1>1, BitmapInvariant, PTL DEF Spec, FinishedStays

\* The flush task's VDL is exact for the bitmap at the last load of its scan, however the
\* persistence thread's marks fall between the loads.
THEOREM VdlCorrect == Spec => VdlOfOneMoment
<1>1. ASSUME IInv, [Next]_vars
      PROVE  [scanning /\ ~scanning' => answer' = ContiguousFinished(states)]_vars
  <2>1. CASE ScanBlock
    <3>1. CASE finished_bytes' >= TotalSize
      BY <1>1, <2>1, <3>1, ScanBlockIs DEF ScanBlock
    <3>2. CASE ~(finished_bytes' >= TotalSize)
      BY <2>1, <3>2 DEF ScanBlock
    <3> QED
      BY <3>1, <3>2
  <2>2. CASE ScanStops
    BY <1>1, <2>2, ScanStopsIs DEF ScanStops
  <2>3. CASE BeginScan
    BY <2>3 DEF BeginScan
  <2>4. CASE UNCHANGED scanning
    BY <2>4
  <2> QED
    BY <1>1, <2>1, <2>2, <2>3, <2>4 DEF Next, Mark, MarkBlock, MarkReturns, vars
<1> QED
  BY <1>1, BitmapInvariant, PTL DEF Spec, VdlOfOneMoment
=============================================================================
