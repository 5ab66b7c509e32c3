----------------------- MODULE PersistenceThread_proofs -----------------------
(***************************************************************************)
(* Proofs about PersistenceThread, for any file, ranges and packets: its   *)
(* typing; that no packet is stranded, no gap flag is stale and saved      *)
(* metadata only grows; and, where ranges are made of whole blocks and     *)
(* blocks of whole units of io_alignment, that what the bitmap and the     *)
(* metadata vouch for is in the file.                                      *)
(***************************************************************************)
EXTENDS PersistenceThread, Geometry_proofs

\* The server supports Range requests, so the packets of a range are its bytes: what
\* RangeScheduler!FetchedIsAccounted says of the requests.
ASSUME RangeRequests ==
  \A r \in RangeIds :
    RangeBytes(r) = UNION {PacketBytes(p) : p \in {q \in Packets : q.range = r}}

-----------------------------------------------------------------------------
(***************************************************************************)
(* The inductive invariant: the way of the packets.                        *)
(***************************************************************************)
Unsent == {DataPacket(p) : p \in unsent}
InHand(p) == pc = "publish" /\ packet = p
Pending(p) ==
  p \in Unsent \/ p \in QueuedPackets \/ p \in out_of_order_queue[p.range] \/ InHand(p)

\* The thread is in the middle of advancing range r.
Advancing(r) == pc \in {"publish", "drain"} /\ packet.range = r

\* What the thread holds at each step, and that it gives up after an error.
HandOk ==
  /\ pc \in {"publish", "drain"} => packet \in DataPackets
  /\ pc = "publish" => packet.offset = persisted_offset[packet.range]
  /\ pc = "finish" => packet \in ControlPackets
  /\ pc \in {"idle", "publish", "drain", "finish", "schedule"} => ~error
  /\ \A r \in RangeIds : \A p \in out_of_order_queue[r] : p.range = r

\* A packet is in one place.
OnePlace ==
  /\ \A p \in DataPackets :
       /\ p \in Unsent =>
            p \notin QueuedPackets /\ p \notin out_of_order_queue[p.range] /\ ~InHand(p)
       /\ p \in QueuedPackets => p \notin out_of_order_queue[p.range] /\ ~InHand(p)
       /\ p \in out_of_order_queue[p.range] => ~InHand(p)
  /\ \A i, j \in 1 .. Len(data_queue) :
       data_queue[i] \in DataPackets /\ data_queue[i] = data_queue[j] => i = j

\* The frontier is behind every packet that is under way, and past all others.
FrontierOk ==
  /\ \A r \in RangeIds : persisted_offset[r] \in RangeFirst[r] .. (RangeLast[r] + 1)
  /\ \A p \in DataPackets :
       /\ Pending(p) => persisted_offset[p.range] <= p.offset
       /\ ~error => Pending(p) \/ PacketEnd(p) <= persisted_offset[p.range]
       /\ p \in out_of_order_queue[p.range] /\ ~error =>
            persisted_offset[p.range] < p.offset \/ Advancing(p.range)

\* How far range r was appended, its tail buffer included.
Appended(r) ==
  IF pc = "publish" /\ packet.range = r THEN PacketEnd(packet) ELSE persisted_offset[r]
TailsOk ==
  \A r \in RangeIds : tail_buffer[r].length > 0 => TailEnd(tail_buffer[r]) = Appended(r)

\* range_complete is behind every packet of its range, and nothing follows it.
Completing(r) == r \in marked_finished \/ (pc = "finish" /\ packet.range = r)
CompletionOk ==
  /\ \A p \in Unsent : p.range \in uncompleted
  /\ \A i \in 1 .. Len(data_queue) : data_queue[i] \in ControlPackets =>
       /\ data_queue[i].range \notin uncompleted
       /\ \A j \in (i + 1) .. Len(data_queue) :
            data_queue[j] \in DataPackets => data_queue[j].range # data_queue[i].range
  /\ \A r \in RangeIds : Completing(r) =>
       tail_buffer[r].length = 0 /\ persisted_offset[r] = RangeLast[r] + 1

GapOk ==
  ~error => \A r \in pause_for_gap : Gap(r, out_of_order_queue[r]) \/ Advancing(r)

\* What is saved was finished when the next snapshot is taken.
SavedOk ==
  /\ FinishedBlocks(metadata.bitmap) \subseteq FinishedBlocks(SnapshotBitmap)
  /\ metadata.vdl <= ContiguousFinished(bitmap)
  /\ FlushRunning =>
       /\ FinishedBlocks(metadata.bitmap) \subseteq FinishedBlocks(snapshot.bitmap)
       /\ FinishedBlocks(snapshot.bitmap) \subseteq FinishedBlocks(SnapshotBitmap)
  /\ pending_flush \in {"sampling", "saving"} =>
       /\ metadata.vdl <= snapshot.vdl
       /\ snapshot.vdl <= ContiguousFinished(bitmap)

Flow == HandOk /\ OnePlace /\ FrontierOk /\ TailsOk /\ CompletionOk /\ GapOk

IInv == TypeOK /\ Flow /\ SavedOk

-----------------------------------------------------------------------------
(***************************************************************************)
(* And what is in the file.                                                *)
(***************************************************************************)
\* Ranges are made of whole blocks (RangeScheduler!RangesAlignedToBlocks) and blocks of
\* whole units.
Units(n) == \E k \in 0 .. n : n = k * IoAlignment
AlignedRanges ==
  /\ \E k \in Nat : BlockSize = k * IoAlignment
  /\ \A r \in RangeIds :
       /\ \E b \in Blocks : RangeFirst[r] = BlockBegin(b)
       /\ \E b \in Blocks : RangeLast[r] + 1 = BlockEnd(b)

\* Up to here range r is in the file.
Cut(r) == Appended(r) - tail_buffer[r].length

WrittenOk ==
  /\ ResumedBytes \subseteq written
  /\ durable \subseteq written
  /\ \A r \in RangeIds :
       /\ Units(Cut(r) - RangeFirst[r]) \/ Cut(r) = RangeLast[r] + 1
       /\ RangeFirst[r] .. (Cut(r) - 1) \subseteq written

\* The bitmap vouches for what was resumed and for what the frontiers passed.
Vouched(b) ==
  \/ BlockBytes(b) \subseteq ResumedBytes
  \/ \E r \in RangeIds : Covers(RangeFirst[r], persisted_offset[r], b)
BitmapOk ==
  /\ \A b \in FinishedBlocks(bitmap) : Vouched(b)
  /\ \A r \in marked_finished : RangeBytes(r) \subseteq FinishedBytes(bitmap)

AlignedIInv == WrittenOk /\ BitmapOk

\* And what is on stable storage, up to the last whole unit of the file.
WholeIn(state, bytes) == \A b \in FinishedBlocks(state.bitmap) : UnitBytes(b) \subseteq bytes
SamplesWhole(state) == \A s \in state.samples : UnitBytes(s.block) \subseteq s.content
SafeOk ==
  /\ WholeIn(metadata, durable) /\ SamplesWhole(metadata)
  /\ FlushRunning => WholeIn(snapshot, written)
  /\ pending_flush \in {"reading_vdl", "sampling", "saving"} => WholeIn(snapshot, durable)
  /\ pending_flush = "saving" => SamplesWhole(snapshot)

-----------------------------------------------------------------------------
(***************************************************************************)
(* Packets, units and bitmaps.                                             *)
(***************************************************************************)
LEMMA Sizes ==
  /\ IoAlignment \in Nat \ {0} /\ MaxGapBytes \in Nat /\ TotalSize \in Nat \ {0}
  /\ \A r \in RangeIds :
       /\ RangeFirst[r] \in Nat /\ RangeLast[r] \in Nat
       /\ RangeFirst[r] <= RangeLast[r] /\ RangeLast[r] < TotalSize
BY PersistenceAssumption, GeometryAssumption DEF Bytes

\* A packet lies in its range.
LEMMA PacketFields ==
  ASSUME NEW p \in Packets
  PROVE  /\ p.range \in RangeIds /\ p.offset \in Nat /\ p.size \in Nat \ {0}
         /\ p.offset \in PacketBytes(p) /\ PacketEnd(p) - 1 \in PacketBytes(p)
         /\ PacketBytes(p) \subseteq RangeBytes(p.range)
         /\ RangeFirst[p.range] <= p.offset /\ PacketEnd(p) <= RangeLast[p.range] + 1
<1>1. p.range \in RangeIds /\ p.offset \in Bytes /\ p.size \in 1 .. TotalSize
  BY PersistenceAssumption
<1>2. p.offset \in Nat /\ p.size \in Nat \ {0}
  BY <1>1, GeometryAssumption DEF Bytes
<1>3. p.offset \in PacketBytes(p) /\ PacketEnd(p) - 1 \in PacketBytes(p)
  BY <1>2 DEF PacketBytes, PacketEnd
<1>4. PacketBytes(p) \subseteq RangeBytes(p.range)
  <2>1. RangeBytes(p.range) = UNION {PacketBytes(q) : q \in {o \in Packets : o.range = p.range}}
    BY <1>1, RangeRequests
  <2>2. p \in {o \in Packets : o.range = p.range}
    OBVIOUS
  <2> QED
    BY <2>1, <2>2
<1>5. RangeFirst[p.range] <= p.offset /\ PacketEnd(p) - 1 <= RangeLast[p.range]
  BY <1>1, <1>3, <1>4, Sizes DEF RangeBytes
<1>6. PacketEnd(p) <= RangeLast[p.range] + 1
  BY <1>1, <1>2, <1>5, Sizes DEF PacketEnd
<1> QED
  BY <1>1, <1>2, <1>3, <1>4, <1>5, <1>6

LEMMA DataFields ==
  ASSUME NEW d \in DataPackets
  PROVE  /\ d.kind = "data" /\ d.range \in RangeIds /\ d.offset \in Nat /\ d.size \in Nat \ {0}
         /\ RangeFirst[d.range] <= d.offset /\ PacketEnd(d) <= RangeLast[d.range] + 1
         /\ PacketEnd(d) \in Nat /\ PacketEnd(d) > d.offset /\ PacketEnd(d) <= TotalSize
<1>1. PICK p \in Packets : d = DataPacket(p)
  BY DEF DataPackets
<1>2. d.kind = "data" /\ d.range = p.range /\ d.offset = p.offset /\ d.size = p.size
  BY <1>1 DEF DataPacket
<1>3. PacketEnd(d) = PacketEnd(p)
  BY <1>2 DEF PacketEnd
<1>4. PacketEnd(d) \in Nat /\ PacketEnd(d) > d.offset
  BY <1>2, PacketFields DEF PacketEnd
<1> QED
  BY <1>2, <1>3, <1>4, PacketFields, Sizes

LEMMA SamePacket ==
  ASSUME NEW p \in Packets, NEW q \in Packets, DataPacket(p) = DataPacket(q)
  PROVE  p = q
<1>1. p.range = q.range /\ p.offset = q.offset /\ p.size = q.size
  BY DEF DataPacket
<1>2. /\ p \in [range : RangeIds, offset : Bytes, size : 1 .. TotalSize]
      /\ q \in [range : RangeIds, offset : Bytes, size : 1 .. TotalSize]
  BY PersistenceAssumption
<1> QED
  BY <1>1, <1>2

\* Of two packets one is before the other.
LEMMA Disjoint ==
  ASSUME NEW d \in DataPackets, NEW e \in DataPackets, d # e
  PROVE  PacketEnd(d) <= e.offset \/ PacketEnd(e) <= d.offset
<1>1. PICK p \in Packets : d = DataPacket(p)
  BY DEF DataPackets
<1>2. PICK q \in Packets : e = DataPacket(q)
  BY DEF DataPackets
<1>3. PacketBytes(p) \cap PacketBytes(q) = {}
  BY <1>1, <1>2, PersistenceAssumption
<1>4. d.offset = p.offset /\ d.size = p.size /\ e.offset = q.offset /\ e.size = q.size
  BY <1>1, <1>2 DEF DataPacket
<1>5. /\ p.offset \in Nat /\ p.size \in Nat \ {0} /\ q.offset \in Nat /\ q.size \in Nat \ {0}
  BY PacketFields
<1>6. \A x \in Int : ~(p.offset <= x /\ x < p.offset + p.size
                       /\ q.offset <= x /\ x < q.offset + q.size)
  BY <1>3, <1>5 DEF PacketBytes, PacketEnd
<1>7. ~(q.offset <= p.offset /\ p.offset < q.offset + q.size)
  BY <1>5, <1>6
<1>8. ~(p.offset <= q.offset /\ q.offset < p.offset + p.size)
  BY <1>5, <1>6
<1> QED
  BY <1>4, <1>5, <1>7, <1>8 DEF PacketEnd

\* Every byte of a range is in a packet.
LEMMA Covered ==
  ASSUME NEW r \in RangeIds, NEW x \in RangeBytes(r)
  PROVE  \E d \in DataPackets : d.range = r /\ d.offset <= x /\ x < PacketEnd(d)
<1>1. PICK p \in Packets : p.range = r /\ x \in PacketBytes(p)
  BY RangeRequests
<1>2. DataPacket(p) \in DataPackets
  BY DEF DataPackets
<1>3. p.offset <= x /\ x < PacketEnd(p)
  BY <1>1, PacketFields DEF PacketBytes, PacketEnd
<1>4. /\ DataPacket(p).range = p.range /\ DataPacket(p).offset = p.offset
      /\ PacketEnd(DataPacket(p)) = PacketEnd(p)
  BY DEF DataPacket, PacketEnd
<1> QED
  BY <1>1, <1>2, <1>3, <1>4

LEMMA ControlFields ==
  /\ \A c \in ControlPackets : c.kind = "range_complete" /\ c.range \in RangeIds
  /\ \A c \in ControlPackets : c \notin DataPackets
  /\ \A r \in RangeIds : RangeComplete(r) \in ControlPackets /\ RangeComplete(r).range = r
  /\ NoPacket.kind = "none" /\ ShutdownPacket.kind = "shutdown"
<1>1. \A c \in ControlPackets : c.kind = "range_complete" /\ c.range \in RangeIds
  BY DEF ControlPackets, RangeComplete
<1>2. \A c \in ControlPackets : c \notin DataPackets
  BY <1>1, DataFields
<1> QED
  BY <1>1, <1>2 DEF ControlPackets, RangeComplete, NoPacket, ShutdownPacket

\* What is left behind whole units is less than one.
LEMMA UnitsBounds ==
  ASSUME NEW from \in Nat, NEW upto \in Nat, from <= upto
  PROVE  /\ WholeUnits(from, upto) \in Nat
         /\ from <= WholeUnits(from, upto) /\ WholeUnits(from, upto) <= upto
         /\ upto - WholeUnits(from, upto) < IoAlignment
         /\ \E k \in Nat : WholeUnits(from, upto) = from + k * IoAlignment
<1> DEFINE k == (upto - from) \div IoAlignment
<1>1. /\ k \in Int /\ k * IoAlignment <= upto - from /\ upto - from < k * IoAlignment + IoAlignment
  BY DivBounds, Sizes
<1>2. k >= 0
  BY <1>1, Sizes
<1>3. k * IoAlignment \in Nat
  BY <1>1, <1>2, Sizes
<1>4. WholeUnits(from, upto) = from + k * IoAlignment
  BY DEF WholeUnits
<1>5. k \in Nat
  BY <1>1, <1>2
<1>6. \E n \in Nat : WholeUnits(from, upto) = from + n * IoAlignment
  BY <1>4, <1>5
<1> DEFINE units == k * IoAlignment
<1>7. /\ units \in Nat /\ units <= upto - from /\ upto - from < units + IoAlignment
      /\ WholeUnits(from, upto) = from + units
  BY <1>1, <1>3, <1>4
<1> HIDE DEF units, k
<1>8. IoAlignment \in Nat
  BY Sizes
<1> QED
  BY <1>6, <1>7, <1>8

LEMMA MarkFacts ==
  ASSUME NEW bm \in Bitmaps, NEW from, NEW upto
  PROVE  /\ MarkDownloading(bm, from, upto) \in Bitmaps
         /\ FinishedBlocks(MarkDownloading(bm, from, upto)) = FinishedBlocks(bm)
         /\ MarkFinished(bm, from, upto) \in Bitmaps
         /\ FinishedBlocks(bm) \subseteq FinishedBlocks(MarkFinished(bm, from, upto))
         /\ \A b \in FinishedBlocks(MarkFinished(bm, from, upto)) :
              b \in FinishedBlocks(bm) \/ Covers(from, upto, b)
BY DEF Bitmaps, BlockState, MarkDownloading, MarkFinished, FinishedBlocks

\* The VDL is well defined and grows with the finished blocks.
LEMMA PrefixDefined ==
  ASSUME NEW bm \in Bitmaps
  PROVE  /\ FinishedPrefix(bm) \in 0 .. BlockCount
         /\ \A b \in 0 .. (FinishedPrefix(bm) - 1) : bm[b] = "finished"
         /\ FinishedPrefix(bm) < BlockCount => bm[FinishedPrefix(bm)] # "finished"
         /\ ContiguousFinished(bm) \in 0 .. TotalSize
<1> DEFINE Stops == {n \in 0 .. BlockCount : n < BlockCount => bm[n] # "finished"}
<1>1. BlockCount \in Nat
  BY CountCovers
<1>2. Stops \in SUBSET Nat /\ BlockCount \in Stops
  BY <1>1
<1>3. PICK n \in Stops : \A m \in Stops : n <= m
  BY <1>2, SmallestOf
<1>4. \A b \in 0 .. (n - 1) : bm[b] = "finished"
  BY <1>1, <1>3
<1>5. /\ FinishedPrefix(bm) \in 0 .. BlockCount
      /\ \A b \in 0 .. (FinishedPrefix(bm) - 1) : bm[b] = "finished"
      /\ FinishedPrefix(bm) < BlockCount => bm[FinishedPrefix(bm)] # "finished"
  BY <1>3, <1>4 DEF FinishedPrefix
<1>6. FinishedPrefix(bm) * BlockSize \in Nat
  BY <1>1, <1>5, GeometryAssumption
<1> QED
  BY <1>5, <1>6, GeometryAssumption DEF ContiguousFinished, Min2

LEMMA VdlGrows ==
  ASSUME NEW bm \in Bitmaps, NEW later \in Bitmaps,
         FinishedBlocks(bm) \subseteq FinishedBlocks(later)
  PROVE  ContiguousFinished(bm) <= ContiguousFinished(later)
<1> DEFINE m == FinishedPrefix(bm)
           n == FinishedPrefix(later)
<1>1. BlockCount \in Nat /\ m \in 0 .. BlockCount /\ n \in 0 .. BlockCount
  BY CountCovers, PrefixDefined
<1>2. m <= n
  <2> SUFFICES ASSUME n < m PROVE FALSE
    BY <1>1
  <2>1. n \in Blocks /\ bm[n] = "finished"
    BY <1>1, PrefixDefined DEF Blocks
  <2>2. later[n] = "finished"
    BY <2>1 DEF FinishedBlocks
  <2> QED
    BY <1>1, <2>2, PrefixDefined
<1> HIDE DEF m, n
<1>3. m * BlockSize <= n * BlockSize /\ m * BlockSize \in Nat /\ n * BlockSize \in Nat
  BY <1>1, <1>2, GeometryAssumption
<1> QED
  BY <1>3, GeometryAssumption DEF ContiguousFinished, Min2, m, n

-----------------------------------------------------------------------------
(***************************************************************************)
(* Writing.                                                                *)
(***************************************************************************)
TailBuffers == [offset : Bytes, length : 0 .. (IoAlignment - 1)]

LEMMA TailFields ==
  ASSUME TypeOK, NEW r \in RangeIds
  PROVE  /\ tail_buffer[r] \in TailBuffers
         /\ tail_buffer[r].offset \in Nat /\ tail_buffer[r].length \in Nat
         /\ tail_buffer[r].length < IoAlignment
         /\ TailEnd(tail_buffer[r]) = tail_buffer[r].offset + tail_buffer[r].length
BY Sizes DEF TypeOK, TailBuffers, Bytes, TailEnd

LEMMA NoTailTyped == NoTail \in TailBuffers /\ NoTail.length = 0
BY Sizes DEF NoTail, TailBuffers, Bytes

LEMMA IntervalInFile ==
  ASSUME NEW from \in Nat, NEW upto \in Int, upto <= TotalSize
  PROVE  from .. (upto - 1) \subseteq Bytes
BY Sizes DEF Bytes

\* Where an append begins, and how far it writes.
LEMMA AppendBounds ==
  ASSUME TypeOK, NEW p \in DataPackets,
         tail_buffer[p.range].length > 0 => TailEnd(tail_buffer[p.range]) = p.offset
  PROVE  LET from == AppendFrom(p.range, p)
             upto == PacketEnd(p)
             cut == WriteUpto(p.range, from, upto)
         IN /\ from = p.offset - tail_buffer[p.range].length
            /\ from \in Nat /\ upto \in Nat /\ from < upto /\ upto <= TotalSize
            /\ cut \in Nat /\ from <= cut /\ cut <= upto /\ upto - cut < IoAlignment
            /\ cut = upto \/ cut = WholeUnits(from, upto)
<1> DEFINE r == p.range
           from == AppendFrom(r, p)
           upto == PacketEnd(p)
           cut == WriteUpto(r, from, upto)
<1>1. r \in RangeIds /\ p.offset \in Nat /\ upto \in Nat /\ p.offset < upto /\ upto <= TotalSize
  BY DataFields
<1>2. /\ tail_buffer[r].offset \in Nat /\ tail_buffer[r].length \in Nat
      /\ TailEnd(tail_buffer[r]) = tail_buffer[r].offset + tail_buffer[r].length
  BY <1>1, TailFields
<1>3. from = p.offset - tail_buffer[r].length /\ from \in Nat /\ from <= p.offset
  BY <1>1, <1>2 DEF AppendFrom
<1>4. from < upto
  BY <1>1, <1>3
<1> HIDE DEF from, upto, r
<1>5. /\ WholeUnits(from, upto) \in Nat
      /\ from <= WholeUnits(from, upto) /\ WholeUnits(from, upto) <= upto
      /\ upto - WholeUnits(from, upto) < IoAlignment
  BY <1>1, <1>3, <1>4, UnitsBounds
<1>6. cut = upto \/ cut = WholeUnits(from, upto)
  BY DEF WriteUpto
<1>7. cut \in Nat /\ from <= cut /\ cut <= upto /\ upto - cut < IoAlignment
  BY <1>1, <1>3, <1>4, <1>5, <1>6, Sizes
<1> QED
  BY <1>1, <1>3, <1>4, <1>6, <1>7 DEF from, upto, r

\* What append_bytes leaves, when it succeeds and when it fails.
Appends(p) ==
  /\ pc' = "publish" /\ error' = error
  /\ LET from == AppendFrom(p.range, p)
         cut == WriteUpto(p.range, from, PacketEnd(p))
     IN /\ written' = written \cup (from .. (cut - 1))
        /\ tail_buffer' = [tail_buffer EXCEPT ![p.range] = TailBuffer(cut, PacketEnd(p))]
Fails(p) ==
  pc' = "poll" /\ error' = TRUE /\ tail_buffer' = tail_buffer /\ written \subseteq written'

LEMMA AppendOk ==
  ASSUME TypeOK, NEW p \in DataPackets,
         tail_buffer[p.range].length > 0 => TailEnd(tail_buffer[p.range]) = p.offset,
         AppendPacket(p.range, p)
  PROVE  /\ packet' = p
         /\ written' \in SUBSET Bytes /\ bitmap' \in Bitmaps
         /\ FinishedBlocks(bitmap') = FinishedBlocks(bitmap)
         /\ tail_buffer' \in [RangeIds -> TailBuffers]
         /\ Appends(p) \/ Fails(p)
<1> DEFINE r == p.range
           from == AppendFrom(r, p)
           upto == PacketEnd(p)
           cut == WriteUpto(r, from, upto)
<1>1. /\ from \in Nat /\ upto \in Nat /\ from < upto /\ upto <= TotalSize
      /\ cut \in Nat /\ from <= cut /\ cut <= upto /\ upto - cut < IoAlignment
  BY AppendBounds
<1>2. r \in RangeIds /\ bitmap \in Bitmaps /\ written \subseteq Bytes
      /\ tail_buffer \in [RangeIds -> TailBuffers]
  BY DataFields DEF TypeOK, TailBuffers
<1>3. packet' = p
  BY DEF AppendPacket
<1>4. CASE AppendBytes(r, p) /\ pc' = "publish"
  <2>1. /\ written' = written \cup (from .. (cut - 1))
        /\ bitmap' = MarkDownloading(bitmap, from, cut)
        /\ tail_buffer' = [tail_buffer EXCEPT ![r] = TailBuffer(cut, upto)]
        /\ error' = error
    BY <1>4 DEF AppendBytes
  <2>2. TailBuffer(cut, upto) \in TailBuffers
    BY <1>1, NoTailTyped, Sizes DEF TailBuffer, TailBuffers, Bytes
  <2>3. written' \subseteq Bytes
    <3>1. cut \in Int /\ cut <= TotalSize
      BY <1>1, Sizes
    <3>2. from .. (cut - 1) \subseteq Bytes
      BY <1>1, <3>1, IntervalInFile
    <3> QED
      BY <1>2, <2>1, <3>2
  <2>4. Appends(p)
    BY <1>4, <2>1 DEF Appends
  <2> QED
    BY <1>2, <1>3, <2>1, <2>2, <2>3, <2>4, MarkFacts
<1>5. CASE AppendFails(r, p) /\ pc' = "poll"
  <2>1. PICK n \in 0 .. ((upto - from) \div IoAlignment) :
          /\ written' = written \cup (from .. (from + n * IoAlignment - 1))
          /\ bitmap' = MarkDownloading(bitmap, from, from + n * IoAlignment)
    BY <1>5 DEF AppendFails
  <2>2. (upto - from) \div IoAlignment \in Int /\ n \in Nat
    BY <1>1, DivBounds, Sizes
  <2>3. PICK k \in Int : k * IoAlignment <= upto - from /\ n <= k
    <3> DEFINE quotient == (upto - from) \div IoAlignment
    <3>1. quotient * IoAlignment <= upto - from /\ quotient \in Int
      BY <1>1, DivBounds, Sizes
    <3>2. n <= quotient
      BY <2>2
    <3> HIDE DEF quotient
    <3> QED
      BY <3>1, <3>2
  <2>4. n * IoAlignment <= k * IoAlignment /\ n * IoAlignment \in Int /\ k * IoAlignment \in Int
    BY <2>2, <2>3, Sizes
  <2>5. n * IoAlignment <= upto - from /\ n * IoAlignment \in Int
    BY <1>1, <2>3, <2>4
  <2> HIDE DEF from, upto, cut
  <2>6. PICK size \in Int : size = n * IoAlignment
    BY <2>5
  <2>7. /\ written' = written \cup (from .. (from + size - 1))
        /\ bitmap' = MarkDownloading(bitmap, from, from + size)
    BY <2>1, <2>6
  <2>8. from + size \in Int /\ from + size <= TotalSize
    BY <1>1, <2>5, <2>6, Sizes
  <2>9. written' \subseteq Bytes /\ written \subseteq written'
    BY <1>1, <1>2, <2>7, <2>8, IntervalInFile
  <2>10. error' = TRUE /\ tail_buffer' = tail_buffer
    BY <1>5 DEF AppendFails
  <2> QED
    BY <1>2, <1>3, <1>5, <2>7, <2>9, <2>10, MarkFacts DEF Fails
<1> QED
  BY <1>4, <1>5 DEF AppendPacket

LEMMA FlushTailOk ==
  ASSUME TypeOK, NEW r \in RangeIds, FlushTail(r),
         tail_buffer[r].length > 0 => TailEnd(tail_buffer[r]) <= TotalSize
  PROVE  /\ written' \in SUBSET Bytes /\ durable' \in SUBSET Bytes /\ bitmap' \in Bitmaps
         /\ FinishedBlocks(bitmap') = FinishedBlocks(bitmap)
         /\ tail_buffer' \in [RangeIds -> TailBuffers]
         /\ tail_buffer'[r].length = 0
         /\ \A q \in RangeIds \ {r} : tail_buffer'[q] = tail_buffer[q]
<1>1. /\ bitmap \in Bitmaps /\ written \subseteq Bytes /\ durable \subseteq Bytes
      /\ tail_buffer \in [RangeIds -> TailBuffers]
  BY DEF TypeOK, TailBuffers
<1>2. CASE tail_buffer[r].length = 0
  BY <1>1, <1>2 DEF FlushTail
<1>3. CASE tail_buffer[r].length # 0
  <2> DEFINE t == tail_buffer[r]
             upto == Min2(t.offset + IoAlignment, TotalSize)
             zeros == TailEnd(t) .. (upto - 1)
  <2>1. /\ written' = (written \cup TailBytes(t)) \ zeros
        /\ durable' = durable \ zeros
        /\ bitmap' = MarkDownloading(bitmap, t.offset, upto)
        /\ tail_buffer' = [tail_buffer EXCEPT ![r] = NoTail]
    BY <1>3 DEF FlushTail
  <2>2. tail_buffer' \in [RangeIds -> TailBuffers] /\ tail_buffer'[r].length = 0
    BY <1>1, <2>1, NoTailTyped
  <2>3. /\ t.offset \in Nat /\ t.length \in Nat /\ TailEnd(t) \in Int /\ TailEnd(t) <= TotalSize
    BY <1>3, TailFields
  <2>4. TailBytes(t) \subseteq Bytes
    BY <2>3, IntervalInFile DEF TailBytes
  <2>5. written' \subseteq Bytes /\ durable' \subseteq Bytes
    BY <1>1, <2>1, <2>4
  <2>6. bitmap' \in Bitmaps /\ FinishedBlocks(bitmap') = FinishedBlocks(bitmap)
    BY <1>1, <2>1, MarkFacts
  <2>7. \A q \in RangeIds \ {r} : tail_buffer'[q] = tail_buffer[q]
    BY <1>1, <2>1
  <2> QED
    BY <2>2, <2>5, <2>6, <2>7
<1> QED
  BY <1>2, <1>3

-----------------------------------------------------------------------------
(***************************************************************************)
(* The initial states.                                                     *)
(***************************************************************************)
LEMMA BlockBytesInFile ==
  ASSUME NEW b \in Blocks
  PROVE  BlockBytes(b) \subseteq Bytes
<1>1. BlockBegin(b) \in Nat /\ BlockEnd(b) \in Int /\ BlockEnd(b) <= TotalSize
  BY BlockInFile, Sizes DEF Bytes
<1> QED
  BY <1>1, IntervalInFile DEF BlockBytes

LEMMA StatesTyped == NoMetadata \in Metadata /\ ResumedMetadata \in Metadata /\ ResumedBitmap \in Bitmaps
<1>1. EmptyBitmap \in Bitmaps /\ ResumedBitmap \in Bitmaps
  BY DEF EmptyBitmap, ResumedBitmap, Bitmaps, BlockState
<1>2. NoMetadata \in Metadata
  BY <1>1, Sizes DEF NoMetadata, Metadata
<1>3. ContiguousFinished(ResumedBitmap) \in 0 .. TotalSize
  BY <1>1, PrefixDefined
<1>4. {[block |-> b, content |-> BlockBytes(b)] :
         b \in {c \in FinishedBlocks(ResumedBitmap) :
                  BlockBegin(c) >= ContiguousFinished(ResumedBitmap)}}
        \subseteq [block : Blocks, content : SUBSET Bytes]
  BY BlockBytesInFile DEF FinishedBlocks
<1> QED
  BY <1>1, <1>2, <1>3, <1>4 DEF ResumedMetadata, Metadata

LEMMA InitTyped == Init => TypeOK
<1> SUFFICES ASSUME Init PROVE TypeOK
  OBVIOUS
<1>1. /\ unsent \in SUBSET Packets /\ uncompleted \in SUBSET RangeIds
      /\ data_queue \in Seq(DataPackets \cup ControlPackets)
      /\ packet \in DataPackets \cup ControlPackets \cup {NoPacket, ShutdownPacket}
      /\ pause_for_gap \in SUBSET RangeIds /\ marked_finished \in SUBSET RangeIds
  BY DEF Init
<1>9. stopping \in BOOLEAN /\ error \in BOOLEAN /\ flush_failed \in BOOLEAN
  BY DEF Init
<1>2. pc \in {"idle", "publish", "drain", "finish", "schedule", "poll", "housekeep",
              "exit", "stopped"}
  BY DEF Init
<1>3. persisted_offset \in [RangeIds -> 0 .. TotalSize]
  <2>1. RangeFirst \in [RangeIds -> Bytes]
    BY PersistenceAssumption
  <2>2. \A r \in RangeIds : RangeFirst[r] \in 0 .. TotalSize
    BY Sizes
  <2> QED
    BY <2>1, <2>2 DEF Init
<1>4. tail_buffer \in [RangeIds -> [offset : Bytes, length : 0 .. (IoAlignment - 1)]]
  BY NoTailTyped DEF Init, TailBuffers
<1>5. out_of_order_queue \in [RangeIds -> SUBSET DataPackets]
  BY DEF Init
<1>6. bitmap \in Bitmaps /\ snapshot \in Metadata /\ metadata \in Metadata
      /\ vdl_offset \in 0 .. TotalSize
  BY StatesTyped, PrefixDefined DEF Init
<1>7. pending_flush \in {"none", "flushing", "reading_vdl", "sampling", "saving",
                         "done", "failed"}
  BY DEF Init
<1>8. written \in SUBSET Bytes /\ durable \in SUBSET Bytes
  BY DEF Init, ResumedBytes
<1> QED
  BY <1>1, <1>2, <1>3, <1>4, <1>5, <1>6, <1>7, <1>8, <1>9 DEF TypeOK

LEMMA InitFlow == Init => Flow
<1> SUFFICES ASSUME Init PROVE Flow
  OBVIOUS
<1>1. QueuedPackets = {} /\ Len(data_queue) = 0
  BY DEF Init, QueuedPackets
<1>2. Unsent = DataPackets
  BY DEF Init, Unsent, DataPackets
<1>3. /\ pc = "idle" /\ ~error /\ persisted_offset = RangeFirst /\ marked_finished = {}
      /\ pause_for_gap = {} /\ uncompleted = RangeIds
      /\ \A r \in RangeIds : out_of_order_queue[r] = {} /\ tail_buffer[r].length = 0
  BY NoTailTyped DEF Init
<1>4. HandOk
  BY <1>3 DEF HandOk
<1>5. OnePlace
  BY <1>1, <1>3, DataFields DEF OnePlace, InHand
<1>6. FrontierOk
  BY <1>2, <1>3, DataFields, Sizes DEF FrontierOk, Pending
<1>7. TailsOk /\ CompletionOk /\ GapOk
  BY <1>1, <1>2, <1>3, DataFields DEF TailsOk, CompletionOk, Completing, GapOk
<1> QED
  BY <1>4, <1>5, <1>6, <1>7 DEF Flow

LEMMA InitSaved == Init => SavedOk
<1> SUFFICES ASSUME Init PROVE SavedOk
  OBVIOUS
<1>1. /\ metadata.bitmap = bitmap /\ metadata.vdl = ContiguousFinished(bitmap)
      /\ pending_flush = "none" /\ bitmap \in Bitmaps
  BY StatesTyped DEF Init, ResumedMetadata
<1>2. FinishedBlocks(bitmap) \subseteq FinishedBlocks(SnapshotBitmap)
  BY DEF FinishedBlocks, SnapshotBitmap
<1>3. ContiguousFinished(bitmap) \in Int
  BY <1>1, PrefixDefined
<1> QED
  BY <1>1, <1>2, <1>3 DEF SavedOk, FlushRunning

-----------------------------------------------------------------------------
(***************************************************************************)
(* Steps that move no packet.                                              *)
(***************************************************************************)
\* The thread stands still; gap flags may be taken down.
LEMMA FlowFrame ==
  ASSUME Flow,
         UNCHANGED <<unsent, uncompleted, data_queue, pc, packet, persisted_offset, tail_buffer,
                     out_of_order_queue, marked_finished, error>>,
         pause_for_gap' \subseteq pause_for_gap
  PROVE  Flow'
<1>1. HandOk' /\ OnePlace'
  BY DEF Flow, HandOk, OnePlace, QueuedPackets, Unsent, InHand
<1>2. FrontierOk' /\ TailsOk'
  BY DEF Flow, FrontierOk, TailsOk, QueuedPackets, Unsent, InHand, Pending, Advancing, Appended
<1>3. CompletionOk' /\ GapOk'
  BY DEF Flow, CompletionOk, GapOk, Unsent, Completing, Advancing, Gap
<1> QED
  BY <1>1, <1>2, <1>3 DEF Flow

\* The thread goes on with its housekeeping.
Elsewhere == pc \notin {"publish", "drain", "finish"}
LEMMA FlowQuiet ==
  ASSUME Flow, Elsewhere, Elsewhere',
         UNCHANGED <<unsent, uncompleted, data_queue, rangeVars, marked_finished>>,
         error => error', pc' \in {"idle", "schedule"} => ~error'
  PROVE  Flow'
<1>1. HandOk' /\ OnePlace'
  BY DEF Flow, Elsewhere, rangeVars, HandOk, OnePlace, QueuedPackets, Unsent, InHand
<1>2. FrontierOk' /\ TailsOk'
  BY DEF Flow, Elsewhere, rangeVars, FrontierOk, TailsOk, QueuedPackets, Unsent, InHand, Pending,
         Advancing, Appended
<1>3. CompletionOk' /\ GapOk'
  BY DEF Flow, Elsewhere, rangeVars, CompletionOk, GapOk, Unsent, Completing, Advancing, Gap
<1> QED
  BY <1>1, <1>2, <1>3 DEF Flow

\* StopThread, RequestEnds and the flush task.
LEMMA BackgroundFlow ==
  ASSUME Flow, StopThread \/ (\E r \in RangeIds : RequestEnds(r)) \/ FlushTask
  PROVE  Flow'
<1>1. /\ UNCHANGED <<unsent, uncompleted, data_queue, pc, packet, persisted_offset, tail_buffer,
                     out_of_order_queue, marked_finished, error>>
      /\ pause_for_gap' \subseteq pause_for_gap
  BY DEF StopThread, RequestEnds, FlushTask, FlushFile, ReadVdl, BuildCrcSamples, SaveMetadata,
         TaskUnchanged, networkVars, rangeVars
<1> QED
  BY <1>1, FlowFrame

LEMMA HousekeepingFlow ==
  ASSUME TypeOK, Flow,
         \/ DequeueShutdown \/ DequeueTimesOut \/ Schedule \/ PollPendingFlush
         \/ HousekeepFlushes \/ HousekeepSkips \/ WaitPendingFlush
  PROVE  Flow'
<1>1. UNCHANGED <<unsent, uncompleted, data_queue, rangeVars, marked_finished>>
  BY DEF DequeueShutdown, DequeueTimesOut, Schedule, PollPendingFlush, HousekeepFlushes,
         HousekeepSkips, HousekeepWith, WaitPendingFlush, networkVars
<1>2. Elsewhere /\ Elsewhere'
  BY DEF DequeueShutdown, DequeueTimesOut, Schedule, PollPendingFlush, HousekeepFlushes,
         HousekeepSkips, HousekeepWith, WaitPendingFlush, Elsewhere
<1>3. error => error'
  BY DEF DequeueShutdown, DequeueTimesOut, Schedule, PollPendingFlush, HousekeepFlushes,
         HousekeepSkips, HousekeepWith, WaitPendingFlush, TakeFlushResult
<1>4. pc' \in {"idle", "schedule"} => ~error'
  BY DEF DequeueShutdown, DequeueTimesOut, Schedule, PollPendingFlush, HousekeepFlushes,
         HousekeepSkips, HousekeepWith, WaitPendingFlush, Flow, HandOk
<1> QED
  BY <1>1, <1>2, <1>3, <1>4, FlowQuiet

-----------------------------------------------------------------------------
(***************************************************************************)
(* The network.                                                            *)
(***************************************************************************)
\* The queue after something was put at its end.
LEMMA Appending ==
  ASSUME TypeOK, NEW p \in DataPackets \cup ControlPackets,
         data_queue' = Append(data_queue, p)
  PROVE  /\ data_queue' \in Seq(DataPackets \cup ControlPackets)
         /\ Len(data_queue) \in Nat /\ Len(data_queue') = Len(data_queue) + 1
         /\ \A i \in 1 .. Len(data_queue) : data_queue'[i] = data_queue[i]
         /\ data_queue'[Len(data_queue')] = p
         /\ QueuedPackets' = QueuedPackets \cup {p}
<1>1. data_queue \in Seq(DataPackets \cup ControlPackets)
  BY DEF TypeOK
<1>2. /\ data_queue' \in Seq(DataPackets \cup ControlPackets)
      /\ Len(data_queue) \in Nat /\ Len(data_queue') = Len(data_queue) + 1
      /\ \A i \in 1 .. Len(data_queue) : data_queue'[i] = data_queue[i]
      /\ data_queue'[Len(data_queue) + 1] = p
  BY <1>1
<1>3. QueuedPackets' = QueuedPackets \cup {p}
  <2>1. \A i \in 1 .. Len(data_queue) + 1 : i = Len(data_queue) + 1 \/ i \in 1 .. Len(data_queue)
    BY <1>2
  <2> QED
    BY <1>2, <2>1 DEF QueuedPackets
<1> QED
  BY <1>2, <1>3

LEMMA EnqueueDataFlow ==
  ASSUME TypeOK, Flow, NEW p \in Packets, EnqueueData(p)
  PROVE  Flow'
<1> DEFINE d == DataPacket(p)
<1>1. /\ p \in unsent /\ unsent' = unsent \ {p} /\ data_queue' = Append(data_queue, d)
      /\ UNCHANGED <<uncompleted, pc, packet, persisted_offset, tail_buffer, out_of_order_queue,
                     pause_for_gap, marked_finished, error>>
  BY DEF EnqueueData, rangeVars
<1>2. d \in DataPackets /\ d \in Unsent
  BY <1>1 DEF DataPackets, Unsent
<1>3. Unsent' = Unsent \ {d}
  <2>1. \A q \in unsent : DataPacket(q) = d => q = p
    BY <1>1, SamePacket DEF TypeOK
  <2> QED
    BY <1>1, <2>1 DEF Unsent
<1>4. /\ Len(data_queue) \in Nat /\ Len(data_queue') = Len(data_queue) + 1
      /\ \A i \in 1 .. Len(data_queue) : data_queue'[i] = data_queue[i]
      /\ data_queue'[Len(data_queue')] = d
      /\ QueuedPackets' = QueuedPackets \cup {d}
  BY <1>1, <1>2, Appending
<1>5. /\ d \notin QueuedPackets /\ d \notin out_of_order_queue[d.range] /\ ~InHand(d)
      /\ d.range \in uncompleted
  BY <1>2 DEF Flow, OnePlace, CompletionOk
<1> HIDE DEF d
<1>6. HandOk'
  BY <1>1 DEF Flow, HandOk
<1>7. OnePlace'
  <2>1. \A q \in DataPackets : InHand(q)' = InHand(q)
    BY <1>1 DEF InHand
  <2>2. \A q \in DataPackets :
          /\ q \in Unsent' =>
               q \notin QueuedPackets' /\ q \notin out_of_order_queue'[q.range] /\ ~InHand(q)'
          /\ q \in QueuedPackets' => q \notin out_of_order_queue'[q.range] /\ ~InHand(q)'
          /\ q \in out_of_order_queue'[q.range] => ~InHand(q)'
    BY <1>1, <1>3, <1>4, <1>5, <2>1 DEF Flow, OnePlace
  <2>3. \A i \in 1 .. Len(data_queue) : data_queue[i] # d
    BY <1>5 DEF QueuedPackets
  <2>4. ASSUME NEW i \in 1 .. Len(data_queue'), NEW j \in 1 .. Len(data_queue'),
               data_queue'[i] \in DataPackets, data_queue'[i] = data_queue'[j]
        PROVE  i = j
    <3>1. \A n \in 1 .. Len(data_queue') : n = Len(data_queue') \/ n \in 1 .. Len(data_queue)
      BY <1>4
    <3> QED
      BY <1>4, <2>3, <2>4, <3>1 DEF Flow, OnePlace
  <2> QED
    BY <2>2, <2>4 DEF OnePlace
<1>8. FrontierOk'
  <2>1. \A q \in DataPackets : Pending(q)' <=> Pending(q)
    BY <1>1, <1>2, <1>3, <1>4 DEF Pending, InHand
  <2>2. \A r \in RangeIds : Advancing(r)' <=> Advancing(r)
    BY <1>1 DEF Advancing
  <2> QED
    BY <1>1, <2>1, <2>2, DataFields DEF Flow, FrontierOk
<1>9. TailsOk' /\ GapOk'
  BY <1>1 DEF Flow, TailsOk, GapOk, Appended, Gap, Advancing
<1>10. CompletionOk'
  <2>1. \A q \in Unsent' : q.range \in uncompleted'
    BY <1>1, <1>3 DEF Flow, CompletionOk
  <2>2. ASSUME NEW i \in 1 .. Len(data_queue'), data_queue'[i] \in ControlPackets
        PROVE  /\ data_queue'[i].range \notin uncompleted'
               /\ \A j \in (i + 1) .. Len(data_queue') :
                    data_queue'[j] \in DataPackets => data_queue'[j].range # data_queue'[i].range
    <3>1. i \in 1 .. Len(data_queue)
      BY <1>2, <1>4, <2>2, ControlFields
    <3>2. \A j \in (i + 1) .. Len(data_queue') :
            j = Len(data_queue') \/ j \in (i + 1) .. Len(data_queue)
      BY <1>4, <3>1
    <3>3. data_queue[i] \in ControlPackets /\ data_queue[i].range \notin uncompleted
      BY <1>4, <2>2, <3>1 DEF Flow, CompletionOk
    <3> QED
      BY <1>1, <1>4, <1>5, <3>1, <3>2, <3>3 DEF Flow, CompletionOk
  <2>3. \A r \in RangeIds : Completing(r)' =>
          tail_buffer'[r].length = 0 /\ persisted_offset'[r] = RangeLast[r] + 1
    BY <1>1 DEF Flow, CompletionOk, Completing
  <2> QED
    BY <2>1, <2>2, <2>3 DEF CompletionOk
<1> QED
  BY <1>6, <1>7, <1>8, <1>9, <1>10 DEF Flow

LEMMA EnqueueCompleteFlow ==
  ASSUME TypeOK, Flow, NEW r \in RangeIds, EnqueueComplete(r)
  PROVE  Flow'
<1> DEFINE c == RangeComplete(r)
<1>1. /\ r \in uncompleted /\ \A p \in unsent : p.range # r
      /\ uncompleted' = uncompleted \ {r} /\ data_queue' = Append(data_queue, c)
      /\ pause_for_gap' \subseteq pause_for_gap
      /\ UNCHANGED <<unsent, pc, packet, persisted_offset, tail_buffer, out_of_order_queue,
                     marked_finished, error>>
  BY DEF EnqueueComplete
<1>2. c \in ControlPackets /\ c.range = r /\ c \notin DataPackets
  BY ControlFields
<1>3. \A q \in Unsent : q.range # r
  BY <1>1 DEF Unsent, DataPacket
<1>4. /\ Len(data_queue) \in Nat /\ Len(data_queue') = Len(data_queue) + 1
      /\ \A i \in 1 .. Len(data_queue) : data_queue'[i] = data_queue[i]
      /\ data_queue'[Len(data_queue')] = c
      /\ QueuedPackets' = QueuedPackets \cup {c}
  BY <1>1, <1>2, Appending
<1>5. \A n \in 1 .. Len(data_queue') : n = Len(data_queue') \/ n \in 1 .. Len(data_queue)
  BY <1>4
<1> HIDE DEF c
<1>6. Unsent' = Unsent /\ \A q \in DataPackets : q \in QueuedPackets' <=> q \in QueuedPackets
  BY <1>1, <1>2, <1>4 DEF Unsent
<1>7. HandOk'
  BY <1>1 DEF Flow, HandOk
<1>8. OnePlace'
  <2>1. \A q \in DataPackets : InHand(q)' <=> InHand(q)
    BY <1>1 DEF InHand
  <2>2. \A i, j \in 1 .. Len(data_queue') :
          data_queue'[i] \in DataPackets /\ data_queue'[i] = data_queue'[j] => i = j
    BY <1>2, <1>4, <1>5 DEF Flow, OnePlace
  <2> QED
    BY <1>1, <1>6, <2>1, <2>2 DEF Flow, OnePlace
<1>9. FrontierOk'
  <2>1. \A q \in DataPackets : Pending(q)' <=> Pending(q)
    BY <1>1, <1>6 DEF Pending, InHand
  <2>2. \A q \in RangeIds : Advancing(q)' <=> Advancing(q)
    BY <1>1 DEF Advancing
  <2> QED
    BY <1>1, <2>1, <2>2, DataFields DEF Flow, FrontierOk
<1>10. TailsOk' /\ GapOk'
  BY <1>1 DEF Flow, TailsOk, GapOk, Appended, Gap, Advancing
<1>11. CompletionOk'
  <2>1. \A q \in Unsent' : q.range \in uncompleted'
    BY <1>1, <1>3, <1>6 DEF Flow, CompletionOk
  <2>2. ASSUME NEW i \in 1 .. Len(data_queue'), data_queue'[i] \in ControlPackets
        PROVE  /\ data_queue'[i].range \notin uncompleted'
               /\ \A j \in (i + 1) .. Len(data_queue') :
                    data_queue'[j] \in DataPackets => data_queue'[j].range # data_queue'[i].range
    <3>1. CASE i = Len(data_queue')
      BY <1>1, <1>2, <1>4, <3>1
    <3>2. CASE i \in 1 .. Len(data_queue)
      <4>1. data_queue[i] \in ControlPackets /\ data_queue[i].range \notin uncompleted
        BY <1>4, <2>2, <3>2 DEF Flow, CompletionOk
      <4>2. \A j \in (i + 1) .. Len(data_queue') :
              j = Len(data_queue') \/ j \in (i + 1) .. Len(data_queue)
        BY <1>4, <3>2
      <4> QED
        BY <1>1, <1>2, <1>4, <3>2, <4>1, <4>2 DEF Flow, CompletionOk
    <3> QED
      BY <1>5, <3>1, <3>2
  <2>3. \A q \in RangeIds : Completing(q)' =>
          tail_buffer'[q].length = 0 /\ persisted_offset'[q] = RangeLast[q] + 1
    BY <1>1 DEF Flow, CompletionOk, Completing
  <2> QED
    BY <2>1, <2>2, <2>3 DEF CompletionOk
<1> QED
  BY <1>7, <1>8, <1>9, <1>10, <1>11 DEF Flow

-----------------------------------------------------------------------------
(***************************************************************************)
(* The thread takes, appends and publishes packets.                        *)
(***************************************************************************)
\* The queue after its first packet was taken.
LEMMA Taking ==
  ASSUME TypeOK, data_queue # <<>>, data_queue' = Tail(data_queue)
  PROVE  /\ data_queue' \in Seq(DataPackets \cup ControlPackets)
         /\ Len(data_queue) \in Nat \ {0} /\ Len(data_queue') = Len(data_queue) - 1
         /\ \A i \in 1 .. Len(data_queue') :
              i + 1 \in 1 .. Len(data_queue) /\ data_queue'[i] = data_queue[i + 1]
         /\ Head(data_queue) = data_queue[1] /\ 1 \in 1 .. Len(data_queue)
         /\ Head(data_queue) \in DataPackets \cup ControlPackets
         /\ QueuedPackets = QueuedPackets' \cup {Head(data_queue)}
<1>1. data_queue \in Seq(DataPackets \cup ControlPackets)
  BY DEF TypeOK
<1>2. /\ data_queue' \in Seq(DataPackets \cup ControlPackets)
      /\ Len(data_queue) \in Nat \ {0} /\ Len(data_queue') = Len(data_queue) - 1
      /\ \A i \in 1 .. Len(data_queue') : data_queue'[i] = data_queue[i + 1]
      /\ Head(data_queue) = data_queue[1]
      /\ Head(data_queue) \in DataPackets \cup ControlPackets
  BY <1>1
<1>3. QueuedPackets = QueuedPackets' \cup {Head(data_queue)}
  <2>1. \A i \in 1 .. Len(data_queue) : i = 1 \/ i - 1 \in 1 .. Len(data_queue')
    BY <1>2
  <2>2. \A i \in 1 .. Len(data_queue) :
          data_queue[i] = Head(data_queue) \/ data_queue[i] \in QueuedPackets'
    <3> SUFFICES ASSUME NEW i \in 1 .. Len(data_queue), i # 1
                 PROVE  data_queue[i] \in QueuedPackets'
      BY <1>2
    <3>1. i - 1 \in 1 .. Len(data_queue') /\ data_queue'[i - 1] = data_queue[(i - 1) + 1]
      BY <1>2, <2>1
    <3>2. (i - 1) + 1 = i
      BY <1>2
    <3> QED
      BY <3>1, <3>2 DEF QueuedPackets
  <2>3. \A i \in 1 .. Len(data_queue') : data_queue'[i] \in QueuedPackets
    <3>1. \A i \in 1 .. Len(data_queue') : i + 1 \in 1 .. Len(data_queue)
      BY <1>2
    <3> QED
      BY <1>2, <3>1 DEF QueuedPackets
  <2>4. 1 \in 1 .. Len(data_queue)
    BY <1>2
  <2> QED
    BY <1>2, <2>2, <2>3, <2>4 DEF QueuedPackets
<1> QED
  BY <1>2, <1>3

\* The conditions on the queue alone.
QueueOk ==
  /\ \A i, j \in 1 .. Len(data_queue) :
       data_queue[i] \in DataPackets /\ data_queue[i] = data_queue[j] => i = j
  /\ \A i \in 1 .. Len(data_queue) : data_queue[i] \in ControlPackets =>
       /\ data_queue[i].range \notin uncompleted
       /\ \A j \in (i + 1) .. Len(data_queue) :
            data_queue[j] \in DataPackets => data_queue[j].range # data_queue[i].range

LEMMA TakingOk ==
  ASSUME TypeOK, Flow, data_queue # <<>>, data_queue' = Tail(data_queue),
         uncompleted' = uncompleted
  PROVE  /\ QueueOk'
         /\ Head(data_queue) \in DataPackets => Head(data_queue) \notin QueuedPackets'
<1>1. QueueOk
  BY DEF Flow, OnePlace, CompletionOk, QueueOk
<1>2. /\ Len(data_queue) \in Nat \ {0} /\ Len(data_queue') = Len(data_queue) - 1
      /\ \A i \in 1 .. Len(data_queue') :
           i + 1 \in 1 .. Len(data_queue) /\ data_queue'[i] = data_queue[i + 1]
      /\ Head(data_queue) = data_queue[1] /\ 1 \in 1 .. Len(data_queue)
  BY Taking
<1>3. ASSUME NEW i \in 1 .. Len(data_queue'), NEW j \in 1 .. Len(data_queue'),
             data_queue'[i] \in DataPackets, data_queue'[i] = data_queue'[j]
      PROVE  i = j
  <2>1. i + 1 = j + 1
    BY <1>1, <1>2, <1>3 DEF QueueOk
  <2> QED
    BY <2>1
<1>4. ASSUME NEW i \in 1 .. Len(data_queue'), data_queue'[i] \in ControlPackets
      PROVE  /\ data_queue'[i].range \notin uncompleted'
             /\ \A j \in (i + 1) .. Len(data_queue') :
                  data_queue'[j] \in DataPackets => data_queue'[j].range # data_queue'[i].range
  <2>1. i + 1 \in 1 .. Len(data_queue) /\ data_queue'[i] = data_queue[i + 1]
    BY <1>2
  <2>2. \A j \in (i + 1) .. Len(data_queue') :
          /\ j \in 1 .. Len(data_queue') /\ j + 1 \in ((i + 1) + 1) .. Len(data_queue)
          /\ data_queue'[j] = data_queue[j + 1]
    BY <1>2
  <2> QED
    BY <1>1, <1>4, <2>1, <2>2 DEF QueueOk
<1>5. ASSUME Head(data_queue) \in DataPackets, Head(data_queue) \in QueuedPackets'
      PROVE  FALSE
  <2>1. PICK i \in 1 .. Len(data_queue') : data_queue'[i] = Head(data_queue)
    BY <1>5 DEF QueuedPackets
  <2>2. i + 1 \in 1 .. Len(data_queue) /\ data_queue[i + 1] = data_queue[1]
    BY <1>2, <2>1
  <2>3. i + 1 = 1
    BY <1>1, <1>2, <1>5, <2>2 DEF QueueOk
  <2> QED
    BY <2>3
<1> QED
  BY <1>3, <1>4, <1>5 DEF QueueOk

\* Packet p, which is the next of its range, is appended; it came from the queue or
\* from the packets put aside.
Leaves(p) ==
  /\ \A q \in DataPackets \ {p} :
       /\ q \in QueuedPackets' <=> q \in QueuedPackets
       /\ q \in out_of_order_queue'[q.range] <=> q \in out_of_order_queue[q.range]
  /\ p \notin QueuedPackets' /\ p \notin out_of_order_queue'[p.range]
  /\ \A r \in RangeIds :
       /\ out_of_order_queue'[r] \subseteq out_of_order_queue[r]
       /\ r # p.range => out_of_order_queue'[r] = out_of_order_queue[r]
  /\ QueueOk'

LEMMA AdvanceFlow ==
  ASSUME TypeOK, Flow, NEW p \in DataPackets,
         pc = "idle" \/ (pc = "drain" /\ packet.range = p.range),
         p \in QueuedPackets \/ p \in out_of_order_queue[p.range],
         p.offset = persisted_offset[p.range],
         Leaves(p), AppendPacket(p.range, p),
         UNCHANGED <<unsent, uncompleted, persisted_offset, marked_finished, pause_for_gap>>
  PROVE  Flow'
<1> DEFINE r == p.range
<1>1. /\ r \in RangeIds /\ p.offset < PacketEnd(p) /\ PacketEnd(p) <= RangeLast[r] + 1
      /\ p.offset \in Nat /\ PacketEnd(p) \in Nat
  BY DataFields
<1>2. tail_buffer[r].length > 0 => TailEnd(tail_buffer[r]) = p.offset
  BY <1>1 DEF Flow, TailsOk, Appended
<1>3. packet' = p /\ (Appends(p) \/ Fails(p))
  BY <1>2, AppendOk
<1>4. pc' \in {"publish", "poll"} /\ (error' <=> pc' = "poll") /\ ~error
  BY <1>3 DEF Appends, Fails, Flow, HandOk
<1>5. Unsent' = Unsent /\ p \notin Unsent
  BY <1>1 DEF Unsent, Flow, OnePlace
<1>6. \A q \in DataPackets : ~InHand(q) /\ (InHand(q)' <=> q = p /\ pc' = "publish")
  BY <1>3, <1>4 DEF InHand
<1>7. HandOk'
  BY <1>1, <1>3, <1>4 DEF Flow, HandOk, Leaves
<1>8. OnePlace'
  <2>1. \A q \in DataPackets :
          /\ q \in Unsent' =>
               q \notin QueuedPackets' /\ q \notin out_of_order_queue'[q.range] /\ ~InHand(q)'
          /\ q \in QueuedPackets' => q \notin out_of_order_queue'[q.range] /\ ~InHand(q)'
          /\ q \in out_of_order_queue'[q.range] => ~InHand(q)'
    BY <1>5, <1>6 DEF Flow, OnePlace, Leaves
  <2> QED
    BY <2>1 DEF OnePlace, Leaves, QueueOk
<1>9. FrontierOk'
  <2>1. \A q \in RangeIds : persisted_offset'[q] \in RangeFirst[q] .. (RangeLast[q] + 1)
    BY DEF Flow, FrontierOk
  <2>2. ASSUME NEW q \in DataPackets
        PROVE  /\ Pending(q)' => persisted_offset'[q.range] <= q.offset
               /\ ~error' => Pending(q)' \/ PacketEnd(q) <= persisted_offset'[q.range]
               /\ q \in out_of_order_queue'[q.range] /\ ~error' =>
                    persisted_offset'[q.range] < q.offset \/ Advancing(q.range)'
    <3>1. CASE q = p
      BY <1>1, <1>4, <1>5, <1>6, <3>1 DEF Pending, Leaves
    <3>2. CASE q # p
      <4>1. Pending(q)' <=> Pending(q)
        BY <1>5, <1>6, <3>2 DEF Pending, Leaves
      <4>2. q \in out_of_order_queue'[q.range] <=> q \in out_of_order_queue[q.range]
        BY <3>2 DEF Leaves
      <4>3. Advancing(q.range) => q.range = r
        BY DEF Advancing
      <4>4. ~error' => (q.range = r => Advancing(q.range)')
        BY <1>3, <1>4 DEF Advancing
      <4> QED
        BY <1>4, <4>1, <4>2, <4>3, <4>4 DEF Flow, FrontierOk
    <3> QED
      BY <3>1, <3>2
  <2> QED
    BY <2>1, <2>2 DEF FrontierOk
<1>10. TailsOk'
  <2>1. CASE Appends(p)
    <3> DEFINE cut == WriteUpto(r, AppendFrom(r, p), PacketEnd(p))
    <3>1. cut \in Nat /\ cut <= PacketEnd(p)
      BY <1>2, AppendBounds
    <3>2. tail_buffer' = [tail_buffer EXCEPT ![r] = TailBuffer(cut, PacketEnd(p))]
      BY <2>1 DEF Appends
    <3>3. tail_buffer \in [RangeIds -> TailBuffers]
      BY DEF TypeOK, TailBuffers
    <3> HIDE DEF cut
    <3>4. TailBuffer(cut, PacketEnd(p)).length > 0 =>
            TailEnd(TailBuffer(cut, PacketEnd(p))) = PacketEnd(p)
      BY <1>1, <3>1, NoTailTyped DEF TailBuffer, TailEnd
    <3>5. Appended(r)' = PacketEnd(p)
      BY <1>3, <2>1 DEF Appended, Appends, PacketEnd
    <3>6. \A q \in RangeIds \ {r} : Appended(q)' = Appended(q) /\ tail_buffer'[q] = tail_buffer[q]
      BY <1>3, <3>2, <3>3 DEF Appended
    <3>7. tail_buffer'[r] = TailBuffer(cut, PacketEnd(p))
      BY <1>1, <3>2, <3>3
    <3> HIDE DEF r
    <3> QED
      BY <3>4, <3>5, <3>6, <3>7 DEF Flow, TailsOk
  <2>2. CASE Fails(p)
    BY <2>2 DEF Flow, TailsOk, Appended, Fails
  <2> QED
    BY <1>3, <2>1, <2>2
<1>11. CompletionOk'
  <2>1. r \notin marked_finished
    BY <1>1, Sizes DEF Flow, CompletionOk, Completing
  <2>2. \A q \in RangeIds : Completing(q)' => Completing(q) /\ q # r
    BY <1>4, <2>1 DEF Completing
  <2>3. \A q \in RangeIds : q # r => tail_buffer'[q] = tail_buffer[q]
    <3>1. tail_buffer \in [RangeIds -> TailBuffers]
      BY DEF TypeOK, TailBuffers
    <3> QED
      BY <1>3, <3>1 DEF Appends, Fails
  <2> QED
    BY <1>5, <2>2, <2>3 DEF Flow, CompletionOk, Leaves, QueueOk
<1>12. GapOk'
  <2>1. ~error' => Advancing(r)'
    BY <1>3, <1>4 DEF Advancing
  <2>2. \A q \in RangeIds : q # r => ~Advancing(q)
    BY DEF Advancing
  <2>3. ASSUME NEW q \in RangeIds, q # r, Gap(q, out_of_order_queue[q])
        PROVE  Gap(q, out_of_order_queue[q])'
    BY <2>3 DEF Leaves, Gap
  <2>4. pause_for_gap \subseteq RangeIds
    BY DEF TypeOK
  <2> QED
    BY <1>4, <2>1, <2>2, <2>3, <2>4 DEF Flow, GapOk
<1> QED
  BY <1>7, <1>8, <1>9, <1>10, <1>11, <1>12 DEF Flow

LEMMA DequeueDataFlow ==
  ASSUME TypeOK, Flow, DequeueData
  PROVE  Flow'
<1> DEFINE p == Head(data_queue)
           r == p.range
           waiting == out_of_order_queue[r] \cup {p}
<1>1. /\ pc = "idle" /\ data_queue # <<>> /\ data_queue' = Tail(data_queue) /\ p.kind = "data"
      /\ UNCHANGED <<unsent, uncompleted, persisted_offset, marked_finished>>
  BY DEF DequeueData, networkVars
<1>2. p \in DataPackets /\ p \in QueuedPackets
  BY <1>1, Taking, ControlFields
<1>3. QueueOk' /\ p \notin QueuedPackets'
  BY <1>1, <1>2, TakingOk
<1>4. \A q \in DataPackets \ {p} : q \in QueuedPackets' <=> q \in QueuedPackets
  BY <1>1, Taking
<1>5. /\ r \in RangeIds /\ p \notin Unsent /\ p \notin out_of_order_queue[r]
      /\ persisted_offset[r] <= p.offset /\ p.offset \in Nat /\ ~error
  BY <1>1, <1>2, DataFields DEF Flow, OnePlace, FrontierOk, Pending, HandOk
<1>6. CASE p.offset = persisted_offset[r]
  <2>1. AppendPacket(r, p) /\ UNCHANGED <<out_of_order_queue, pause_for_gap>>
    BY <1>6 DEF DequeueData
  <2>2. Leaves(p)
    BY <1>3, <1>4, <1>5, <2>1 DEF Leaves
  <2> QED
    BY <1>1, <1>2, <1>6, <2>1, <2>2, AdvanceFlow
<1>7. CASE p.offset # persisted_offset[r]
  <2>1. /\ out_of_order_queue' = [out_of_order_queue EXCEPT ![r] = waiting]
        /\ UpdateGapFlag(r, waiting) /\ packet' = p /\ pc' = "schedule"
        /\ UNCHANGED <<tail_buffer, error>>
    BY <1>7 DEF DequeueData
  <2>2. persisted_offset[r] < p.offset
    <3>1. persisted_offset[r] \in Nat
      BY <1>5 DEF TypeOK
    <3> QED
      BY <1>5, <1>7, <3>1
  <2> HIDE DEF p
  <2>3. /\ out_of_order_queue'[r] = waiting
        /\ \A q \in RangeIds : q # r => out_of_order_queue'[q] = out_of_order_queue[q]
    BY <1>5, <2>1 DEF TypeOK
  <2>4. Unsent' = Unsent /\ \A q \in DataPackets : ~InHand(q) /\ ~InHand(q)'
    BY <1>1, <2>1 DEF Unsent, InHand
  <2>5. \A q \in DataPackets \ {p} :
          q \in out_of_order_queue'[q.range] <=> q \in out_of_order_queue[q.range]
    BY <2>3, DataFields
  <2>6. HandOk'
    BY <1>1, <1>5, <2>1, <2>3 DEF Flow, HandOk
  <2>7. OnePlace'
    <3>1. \A q \in DataPackets :
            /\ q \in Unsent' =>
                 q \notin QueuedPackets' /\ q \notin out_of_order_queue'[q.range] /\ ~InHand(q)'
            /\ q \in QueuedPackets' => q \notin out_of_order_queue'[q.range] /\ ~InHand(q)'
            /\ q \in out_of_order_queue'[q.range] => ~InHand(q)'
      BY <1>3, <1>4, <1>5, <2>4, <2>5 DEF Flow, OnePlace
    <3> QED
      BY <1>3, <3>1 DEF OnePlace, QueueOk
  <2>8. FrontierOk'
    <3>1. \A q \in RangeIds : persisted_offset'[q] \in RangeFirst[q] .. (RangeLast[q] + 1)
      BY <1>1 DEF Flow, FrontierOk
    <3>2. ASSUME NEW q \in DataPackets
          PROVE  /\ Pending(q)' => persisted_offset'[q.range] <= q.offset
                 /\ ~error' => Pending(q)' \/ PacketEnd(q) <= persisted_offset'[q.range]
                 /\ q \in out_of_order_queue'[q.range] /\ ~error' =>
                      persisted_offset'[q.range] < q.offset \/ Advancing(q.range)'
      <4>1. CASE q = p
        BY <1>1, <1>5, <2>2, <2>3, <4>1 DEF Pending
      <4>2. CASE q # p
        <5>1. Pending(q)' <=> Pending(q)
          BY <1>4, <2>4, <2>5, <4>2 DEF Pending
        <5>2. ~Advancing(q.range)
          BY <1>1 DEF Advancing
        <5> QED
          BY <1>1, <2>1, <2>5, <4>2, <5>1, <5>2 DEF Flow, FrontierOk
      <4> QED
        BY <4>1, <4>2
    <3> QED
      BY <3>1, <3>2 DEF FrontierOk
  <2>9. TailsOk'
    BY <1>1, <2>1 DEF Flow, TailsOk, Appended
  <2>10. CompletionOk'
    <3>1. \A q \in RangeIds : Completing(q)' => Completing(q)
      BY <1>1, <2>1 DEF Completing
    <3> QED
      BY <1>1, <1>3, <2>1, <2>4, <3>1 DEF Flow, CompletionOk, QueueOk
  <2>11. GapOk'
    <3>1. \A q \in pause_for_gap' : q = r => Gap(r, waiting)
      BY <2>1 DEF UpdateGapFlag
    <3>2. \A q \in pause_for_gap' : q # r => q \in pause_for_gap /\ q \in RangeIds
      BY <2>1 DEF UpdateGapFlag, TypeOK
    <3>3. \A q \in RangeIds : ~Advancing(q)
      BY <1>1 DEF Advancing
    <3>4. \A q \in pause_for_gap' : Gap(q, out_of_order_queue[q])'
      <4> SUFFICES ASSUME NEW q \in pause_for_gap' PROVE Gap(q, out_of_order_queue[q])'
        OBVIOUS
      <4>1. CASE q = r
        BY <1>1, <2>3, <3>1, <4>1 DEF Gap
      <4>2. CASE q # r
        BY <1>1, <1>5, <2>3, <3>2, <3>3, <4>2 DEF Flow, GapOk, Gap
      <4> QED
        BY <4>1, <4>2
    <3> QED
      BY <3>4 DEF GapOk
  <2> QED
    BY <2>6, <2>7, <2>8, <2>9, <2>10, <2>11 DEF Flow
<1> QED
  BY <1>6, <1>7

\* The frontier passes the packet; the others of its range are beyond.
LEMMA PublishFlow ==
  ASSUME TypeOK, Flow, Publish
  PROVE  Flow'
<1> DEFINE p == packet
           r == p.range
<1>1. /\ pc = "publish" /\ pc' = "drain" /\ packet' = p
      /\ persisted_offset' = [persisted_offset EXCEPT ![r] = @ + p.size]
      /\ UNCHANGED <<unsent, uncompleted, data_queue, tail_buffer, out_of_order_queue,
                     pause_for_gap, marked_finished, error>>
  BY DEF Publish, networkVars
<1>2. p \in DataPackets /\ p.offset = persisted_offset[r] /\ ~error
  BY <1>1 DEF Flow, HandOk
<1>3. /\ r \in RangeIds /\ p.offset \in Nat /\ p.size \in Nat \ {0}
      /\ RangeFirst[r] <= p.offset /\ PacketEnd(p) <= RangeLast[r] + 1 /\ PacketEnd(p) \in Nat
      /\ p.offset < PacketEnd(p)
  BY <1>2, DataFields
<1>4. /\ persisted_offset'[r] = PacketEnd(p)
      /\ \A q \in RangeIds : q # r => persisted_offset'[q] = persisted_offset[q]
  BY <1>1, <1>2, <1>3 DEF TypeOK, PacketEnd
<1> HIDE DEF p
<1>5. /\ InHand(p) /\ p \notin Unsent /\ p \notin QueuedPackets /\ p \notin out_of_order_queue[r]
      /\ \A q \in DataPackets : (InHand(q) => q = p) /\ ~InHand(q)'
  BY <1>1, <1>2 DEF InHand, Flow, OnePlace, p
<1>6. Unsent' = Unsent /\ QueuedPackets' = QueuedPackets
  BY <1>1 DEF Unsent, QueuedPackets
<1>7. HandOk' /\ OnePlace'
  BY <1>1, <1>2, <1>5, <1>6 DEF Flow, HandOk, OnePlace
<1>8. FrontierOk'
  <2>1. \A q \in RangeIds : persisted_offset'[q] \in RangeFirst[q] .. (RangeLast[q] + 1)
    <3>1. PacketEnd(p) \in RangeFirst[r] .. (RangeLast[r] + 1)
      BY <1>3, Sizes
    <3> QED
      BY <1>4, <3>1 DEF Flow, FrontierOk
  <2>2. ASSUME NEW q \in DataPackets
        PROVE  /\ Pending(q)' => persisted_offset'[q.range] <= q.offset
               /\ ~error' => Pending(q)' \/ PacketEnd(q) <= persisted_offset'[q.range]
               /\ q \in out_of_order_queue'[q.range] /\ ~error' =>
                    persisted_offset'[q.range] < q.offset \/ Advancing(q.range)'
    <3>1. CASE q = p
      BY <1>1, <1>3, <1>4, <1>5, <1>6, <3>1 DEF Pending
    <3>2. CASE q # p
      <4>1. Pending(q)' <=> Pending(q)
        BY <1>1, <1>5, <1>6, <3>2 DEF Pending
      <4>2. Advancing(q.range) => q.range = r
        BY DEF Advancing, p
      <4>3. q.range = r => Advancing(q.range)'
        BY <1>1 DEF Advancing
      <4>4. PacketEnd(q) > q.offset /\ q.offset \in Nat /\ PacketEnd(q) \in Nat /\ q.range \in RangeIds
        BY DataFields
      <4>5. PacketEnd(p) <= q.offset \/ PacketEnd(q) <= p.offset
        BY <1>2, <3>2, Disjoint
      <4>6. /\ Pending(q) => persisted_offset[q.range] <= q.offset
            /\ Pending(q) \/ PacketEnd(q) <= persisted_offset[q.range]
            /\ q \in out_of_order_queue[q.range] =>
                 persisted_offset[q.range] < q.offset \/ Advancing(q.range)
        BY <1>2 DEF Flow, FrontierOk
      <4>7. CASE q.range = r
        BY <1>1, <1>2, <1>3, <1>4, <4>1, <4>3, <4>4, <4>5, <4>6, <4>7
      <4>8. CASE q.range # r
        BY <1>1, <1>4, <4>1, <4>2, <4>4, <4>6, <4>8
      <4> QED
        BY <4>7, <4>8
    <3> QED
      BY <3>1, <3>2
  <2> QED
    BY <2>1, <2>2 DEF FrontierOk
<1>9. TailsOk'
  <2>1. \A q \in RangeIds : Appended(q)' = Appended(q)
    BY <1>1, <1>4 DEF Appended, p
  <2> QED
    BY <1>1, <2>1 DEF Flow, TailsOk
<1>10. CompletionOk'
  <2>1. r \notin marked_finished
    BY <1>2, <1>3, Sizes DEF Flow, CompletionOk, Completing
  <2>2. \A q \in RangeIds : Completing(q)' => Completing(q) /\ q # r
    BY <1>1, <2>1 DEF Completing
  <2> QED
    BY <1>1, <1>4, <1>6, <2>2 DEF Flow, CompletionOk
<1>11. GapOk'
  <2>1. \A q \in RangeIds : q # r => ~Advancing(q)
    BY DEF Advancing, p
  <2>2. \A q \in RangeIds : q = r => Advancing(q)'
    BY <1>1 DEF Advancing
  <2>3. ASSUME NEW q \in RangeIds, q # r, Gap(q, out_of_order_queue[q])
        PROVE  Gap(q, out_of_order_queue[q])'
    BY <1>1, <1>4, <2>3 DEF Gap
  <2>4. pause_for_gap \subseteq RangeIds
    BY DEF TypeOK
  <2> QED
    BY <1>1, <1>2, <2>1, <2>2, <2>3, <2>4 DEF Flow, GapOk
<1> QED
  BY <1>7, <1>8, <1>9, <1>10, <1>11 DEF Flow

LEMMA DrainFlow ==
  ASSUME TypeOK, Flow, Drain
  PROVE  Flow'
<1> DEFINE r == packet.range
           next == NextInOrder(r)
<1>1. /\ pc = "drain"
      /\ UNCHANGED <<unsent, uncompleted, data_queue, persisted_offset, marked_finished>>
  BY DEF Drain, networkVars
<1>2. r \in RangeIds /\ ~error /\ QueuedPackets' = QueuedPackets /\ Unsent' = Unsent
  BY <1>1, DataFields DEF Flow, HandOk, QueuedPackets, Unsent
<1>3. /\ out_of_order_queue[r] \subseteq DataPackets
      /\ \A q \in out_of_order_queue[r] : q.range = r
  BY <1>2 DEF TypeOK, Flow, HandOk
<1>4. CASE next # {}
  <2>1. PICK p \in next : AppendPacket(r, p)
    BY <1>4 DEF Drain
  <2>2. /\ out_of_order_queue' = [out_of_order_queue EXCEPT ![r] = @ \ next]
        /\ pause_for_gap' = pause_for_gap
    BY <1>4 DEF Drain
  <2>3. p \in DataPackets /\ p.range = r /\ p \in out_of_order_queue[r] /\ p.offset = persisted_offset[r]
    BY <1>3 DEF NextInOrder
  <2>4. \A q \in next : q = p
    <3> SUFFICES ASSUME NEW q \in next, q # p PROVE FALSE
      OBVIOUS
    <3>1. q \in DataPackets /\ q.offset = p.offset
      BY <1>3, <2>3 DEF NextInOrder
    <3>2. PacketEnd(p) <= q.offset \/ PacketEnd(q) <= p.offset
      BY <2>3, <3>1, Disjoint
    <3> QED
      BY <2>3, <3>1, <3>2, DataFields
  <2> HIDE DEF next
  <2>5. /\ out_of_order_queue'[r] = out_of_order_queue[r] \ {p}
        /\ \A q \in RangeIds : q # r => out_of_order_queue'[q] = out_of_order_queue[q]
    BY <1>2, <2>2, <2>4 DEF TypeOK
  <2>6. \A q \in DataPackets \ {p} :
          q \in out_of_order_queue'[q.range] <=> q \in out_of_order_queue[q.range]
    BY <2>5, DataFields
  <2>7. QueueOk'
    BY <1>1 DEF Flow, OnePlace, CompletionOk, QueueOk
  <2>8. p \notin QueuedPackets
    BY <2>3 DEF Flow, OnePlace
  <2>9. Leaves(p)
    BY <1>2, <2>3, <2>5, <2>6, <2>7, <2>8 DEF Leaves
  <2> QED
    BY <1>1, <2>1, <2>2, <2>3, <2>9, AdvanceFlow
<1>5. CASE next = {}
  <2>1. /\ UpdateGapFlag(r, out_of_order_queue[r]) /\ pc' = "schedule"
        /\ UNCHANGED <<packet, tail_buffer, out_of_order_queue, error>>
    BY <1>5 DEF Drain
  <2>2. \A q \in DataPackets : ~InHand(q) /\ ~InHand(q)'
    BY <1>1, <2>1 DEF InHand
  <2>3. HandOk' /\ OnePlace'
    BY <1>1, <1>2, <2>1, <2>2 DEF Flow, HandOk, OnePlace
  <2>4. FrontierOk'
    <3>1. \A q \in RangeIds : persisted_offset'[q] \in RangeFirst[q] .. (RangeLast[q] + 1)
      BY <1>1 DEF Flow, FrontierOk
    <3>2. ASSUME NEW q \in DataPackets
          PROVE  /\ Pending(q)' => persisted_offset'[q.range] <= q.offset
                 /\ ~error' => Pending(q)' \/ PacketEnd(q) <= persisted_offset'[q.range]
                 /\ q \in out_of_order_queue'[q.range] /\ ~error' =>
                      persisted_offset'[q.range] < q.offset \/ Advancing(q.range)'
      <4>1. Pending(q)' <=> Pending(q)
        BY <1>2, <2>1, <2>2 DEF Pending
      <4>2. q.range \in RangeIds /\ q.offset \in Nat /\ persisted_offset[q.range] \in Nat
        BY DataFields DEF TypeOK
      <4>3. q \in out_of_order_queue[q.range] => persisted_offset[q.range] < q.offset
        <5>1. CASE q.range = r
          <6>1. \A p \in out_of_order_queue[r] : p.offset \in Nat /\ persisted_offset[r] <= p.offset
            BY <1>3, DataFields DEF Flow, FrontierOk, Pending
          <6> QED
            BY <1>5, <4>2, <5>1, <6>1 DEF NextInOrder
        <5>2. CASE q.range # r
          BY <1>2, <5>2 DEF Flow, FrontierOk, Advancing
        <5> QED
          BY <5>1, <5>2
      <4> QED
        BY <1>1, <2>1, <4>1, <4>3 DEF Flow, FrontierOk
    <3> QED
      BY <3>1, <3>2 DEF FrontierOk
  <2>5. TailsOk'
    BY <1>1, <2>1 DEF Flow, TailsOk, Appended
  <2>6. CompletionOk'
    <3>1. \A q \in RangeIds : Completing(q)' => Completing(q)
      BY <1>1, <2>1 DEF Completing
    <3> QED
      BY <1>1, <1>2, <2>1, <3>1 DEF Flow, CompletionOk
  <2>7. GapOk'
    <3> SUFFICES ASSUME NEW q \in pause_for_gap' PROVE Gap(q, out_of_order_queue[q])'
      BY DEF GapOk
    <3>1. CASE q = r
      BY <1>1, <2>1, <3>1 DEF Gap, UpdateGapFlag
    <3>2. CASE q # r
      <4>1. q \in pause_for_gap /\ ~Advancing(q)
        BY <2>1, <3>2 DEF UpdateGapFlag, Advancing
      <4> QED
        BY <1>1, <1>2, <2>1, <4>1 DEF Flow, GapOk, Gap
    <3> QED
      BY <3>1, <3>2
  <2> QED
    BY <2>3, <2>4, <2>5, <2>6, <2>7 DEF Flow
<1> QED
  BY <1>4, <1>5

\* A range whose range_complete is next was appended to its end.
LEMMA AtTheEnd ==
  ASSUME TypeOK, Flow, pc = "idle", data_queue # <<>>, Head(data_queue) \in ControlPackets
  PROVE  persisted_offset[Head(data_queue).range] = RangeLast[Head(data_queue).range] + 1
<1> DEFINE r == Head(data_queue).range
<1>1. /\ r \in RangeIds /\ ~error /\ persisted_offset[r] \in RangeFirst[r] .. (RangeLast[r] + 1)
  BY ControlFields DEF Flow, HandOk, FrontierOk
<1>2. \A q \in Unsent : q.range # r
  <2>1. Len(data_queue) \in Nat \ {0} /\ Head(data_queue) = data_queue[1] /\ 1 \in 1 .. Len(data_queue)
    <3>1. data_queue \in Seq(DataPackets \cup ControlPackets)
      BY DEF TypeOK
    <3> QED
      BY <3>1
  <2> QED
    BY <2>1 DEF Flow, CompletionOk
<1>3. \A q \in QueuedPackets : q \in DataPackets => q.range # r
  <2>1. Len(data_queue) \in Nat \ {0} /\ Head(data_queue) = data_queue[1] /\ 1 \in 1 .. Len(data_queue)
    <3>1. data_queue \in Seq(DataPackets \cup ControlPackets)
      BY DEF TypeOK
    <3> QED
      BY <3>1
  <2>2. \A j \in (1 + 1) .. Len(data_queue) :
          data_queue[j] \in DataPackets => data_queue[j].range # r
    BY <2>1 DEF Flow, CompletionOk
  <2>3. \A j \in 1 .. Len(data_queue) : j = 1 \/ j \in (1 + 1) .. Len(data_queue)
    BY <2>1
  <2> QED
    BY <2>1, <2>2, <2>3, ControlFields DEF QueuedPackets
<1>4. ASSUME persisted_offset[r] # RangeLast[r] + 1
      PROVE  FALSE
  <2>1. persisted_offset[r] \in RangeBytes(r)
    BY <1>1, <1>4, Sizes DEF RangeBytes
  <2>2. PICK q \in DataPackets :
          q.range = r /\ q.offset <= persisted_offset[r] /\ persisted_offset[r] < PacketEnd(q)
    BY <1>1, <2>1, Covered
  <2>3. /\ PacketEnd(q) \in Nat /\ q.offset \in Nat /\ persisted_offset[r] \in Nat
    BY <1>1, DataFields DEF TypeOK
  <2>4. Pending(q)
    BY <1>1, <2>2, <2>3 DEF Flow, FrontierOk
  <2>5. q \in out_of_order_queue[r]
    BY <1>2, <1>3, <2>2, <2>4 DEF Pending, InHand
  <2>6. persisted_offset[r] < q.offset
    BY <1>1, <2>2, <2>5 DEF Flow, FrontierOk, Advancing
  <2> QED
    BY <2>2, <2>3, <2>6
<1> QED
  BY <1>4

\* A tail ends in the file.
LEMMA TailInFile ==
  ASSUME TypeOK, Flow, pc # "publish", NEW r \in RangeIds, tail_buffer[r].length > 0
  PROVE  /\ TailEnd(tail_buffer[r]) = persisted_offset[r]
         /\ TailEnd(tail_buffer[r]) <= TotalSize
BY Sizes DEF Flow, TailsOk, Appended, TypeOK

LEMMA DequeueCompleteFlow ==
  ASSUME TypeOK, Flow, DequeueComplete
  PROVE  Flow'
<1> DEFINE c == Head(data_queue)
           r == c.range
<1>1. /\ pc = "idle" /\ data_queue # <<>> /\ data_queue' = Tail(data_queue)
      /\ c.kind = "range_complete" /\ packet' = c
      /\ UNCHANGED <<unsent, uncompleted, persisted_offset, out_of_order_queue, pause_for_gap,
                     marked_finished>>
  BY DEF DequeueComplete, networkVars
<1>2. c \in ControlPackets /\ c \notin DataPackets
  BY <1>1, Taking, ControlFields, DataFields
<1>3. QueueOk' /\ \A q \in DataPackets : q \in QueuedPackets' <=> q \in QueuedPackets
  BY <1>1, <1>2, Taking, TakingOk
<1>4. r \in RangeIds /\ ~error
  BY <1>1, <1>2, ControlFields DEF Flow, HandOk
<1>5. persisted_offset[r] = RangeLast[r] + 1
  BY <1>1, <1>2, AtTheEnd
<1>6. \/ /\ FlushTail(r) /\ pc' = "finish" /\ error' = error
      \/ /\ pc' = "poll" /\ error' = TRUE /\ tail_buffer' = tail_buffer
  BY <1>1 DEF DequeueComplete
<1>7. /\ \A q \in RangeIds : tail_buffer'[q] = tail_buffer[q] \/ tail_buffer'[q].length = 0
      /\ pc' = "finish" => tail_buffer'[r].length = 0
  BY <1>1, <1>4, <1>6, FlushTailOk, TailInFile
<1> HIDE DEF c
<1>8. /\ Unsent' = Unsent /\ pc' \in {"finish", "poll"} /\ (pc' = "finish" => ~error')
      /\ \A q \in DataPackets : ~InHand(q) /\ ~InHand(q)'
      /\ \A q \in RangeIds : ~Advancing(q)
  BY <1>1, <1>4, <1>6 DEF Unsent, InHand, Advancing
<1>9. HandOk'
  BY <1>1, <1>2, <1>8 DEF Flow, HandOk
<1>10. OnePlace'
  BY <1>1, <1>3, <1>8 DEF Flow, OnePlace, QueueOk
<1>11. FrontierOk'
  <2>1. \A q \in DataPackets : Pending(q)' <=> Pending(q)
    BY <1>1, <1>3, <1>8 DEF Pending
  <2> QED
    BY <1>1, <1>4, <1>8, <2>1, DataFields DEF Flow, FrontierOk
<1>12. TailsOk'
  <2>1. \A q \in RangeIds : Appended(q)' = Appended(q)
    BY <1>1, <1>8 DEF Appended
  <2>2. 0 \in Int /\ ~(0 > 0)
    OBVIOUS
  <2> QED
    BY <1>7, <2>1, <2>2 DEF Flow, TailsOk
<1>13. CompletionOk'
  <2>1. \A q \in RangeIds : Completing(q)' => Completing(q) \/ (q = r /\ pc' = "finish")
    BY <1>1, <1>8 DEF Completing
  <2> QED
    BY <1>1, <1>3, <1>5, <1>7, <1>8, <2>1 DEF Flow, CompletionOk, QueueOk
<1>14. GapOk'
  BY <1>1, <1>4, <1>8 DEF Flow, GapOk, Gap, TypeOK
<1> QED
  BY <1>9, <1>10, <1>11, <1>12, <1>13, <1>14 DEF Flow

LEMMA FinishRangeFlow ==
  ASSUME TypeOK, Flow, FinishRange
  PROVE  Flow'
<1>1. /\ pc = "finish" /\ pc' = "schedule" /\ marked_finished' = marked_finished \cup {packet.range}
      /\ UNCHANGED <<unsent, uncompleted, data_queue, packet, persisted_offset, tail_buffer,
                     out_of_order_queue, pause_for_gap, error>>
  BY DEF FinishRange, networkVars, rangeVars
<1>2. /\ Unsent' = Unsent /\ QueuedPackets' = QueuedPackets
      /\ \A q \in DataPackets : ~InHand(q) /\ ~InHand(q)'
      /\ \A q \in RangeIds : ~Advancing(q) /\ ~Advancing(q)'
  BY <1>1 DEF Unsent, QueuedPackets, InHand, Advancing
<1>3. HandOk' /\ OnePlace'
  BY <1>1, <1>2 DEF Flow, HandOk, OnePlace
<1>4. FrontierOk' /\ TailsOk'
  BY <1>1, <1>2, DataFields DEF Flow, FrontierOk, Pending, TailsOk, Appended
<1>5. CompletionOk'
  <2>1. \A q \in RangeIds : Completing(q)' => Completing(q)
    BY <1>1 DEF Completing
  <2> QED
    BY <1>1, <1>2, <2>1 DEF Flow, CompletionOk
<1>6. GapOk'
  BY <1>1, <1>2 DEF Flow, GapOk, Gap, TypeOK
<1> QED
  BY <1>3, <1>4, <1>5, <1>6 DEF Flow

-----------------------------------------------------------------------------
(***************************************************************************)
(* Typing.                                                                 *)
(***************************************************************************)
LEMMA NetworkTyped ==
  ASSUME TypeOK, Network
  PROVE  TypeOK'
<1>1. ASSUME NEW p \in Packets, EnqueueData(p)
      PROVE  TypeOK'
  <2>1. /\ unsent' = unsent \ {p} /\ data_queue' = Append(data_queue, DataPacket(p))
        /\ UNCHANGED <<uncompleted, stopping, pc, packet, rangeVars, marked_finished, bitmap, error,
                       flushVars, vdl_offset, written, durable, metadata, flush_failed>>
    BY <1>1 DEF EnqueueData
  <2>2. DataPacket(p) \in DataPackets
    BY DEF DataPackets
  <2>3. data_queue' \in Seq(DataPackets \cup ControlPackets)
    BY <2>1, <2>2, Appending
  <2> QED
    BY <2>1, <2>3 DEF TypeOK, rangeVars, flushVars
<1>2. ASSUME NEW r \in RangeIds, EnqueueComplete(r)
      PROVE  TypeOK'
  <2>1. /\ pause_for_gap' = pause_for_gap \ {r} /\ uncompleted' = uncompleted \ {r}
        /\ data_queue' = Append(data_queue, RangeComplete(r))
        /\ UNCHANGED <<unsent, stopping, pc, packet, persisted_offset, tail_buffer,
                       out_of_order_queue, marked_finished, bitmap, error, flushVars, vdl_offset,
                       written, durable, metadata, flush_failed>>
    BY <1>2 DEF EnqueueComplete
  <2>2. data_queue' \in Seq(DataPackets \cup ControlPackets)
    BY <2>1, Appending, ControlFields
  <2> QED
    BY <2>1, <2>2 DEF TypeOK, flushVars
<1>3. ASSUME NEW r \in RangeIds, RequestEnds(r)
      PROVE  TypeOK'
  <2>1. /\ pause_for_gap' = pause_for_gap \ {r}
        /\ UNCHANGED <<networkVars, data_queue, stopping, pc, packet, persisted_offset,
                       tail_buffer, out_of_order_queue, marked_finished, bitmap, error, flushVars,
                       vdl_offset, written, durable, metadata, flush_failed>>
    BY <1>3 DEF RequestEnds
  <2> QED
    BY <2>1 DEF TypeOK, networkVars, flushVars
<1>4. CASE StopThread
  BY <1>4 DEF StopThread, TypeOK, networkVars, rangeVars, flushVars
<1> QED
  BY <1>1, <1>2, <1>3, <1>4 DEF Network

\* The step of a packet that is taken and appended.
LEMMA AppendTyped ==
  ASSUME TypeOK, Flow, NEW p \in DataPackets, pc # "publish", p.offset = persisted_offset[p.range],
         AppendPacket(p.range, p)
  PROVE  /\ packet' \in DataPackets /\ pc' \in {"publish", "poll"}
         /\ error' \in BOOLEAN
         /\ written' \in SUBSET Bytes /\ bitmap' \in Bitmaps
         /\ FinishedBlocks(bitmap') = FinishedBlocks(bitmap)
         /\ tail_buffer' \in [RangeIds -> TailBuffers]
<1>1. p.range \in RangeIds
  BY DataFields
<1>2. tail_buffer[p.range].length > 0 => TailEnd(tail_buffer[p.range]) = p.offset
  BY <1>1 DEF Flow, TailsOk, Appended
<1>3. /\ packet' = p
      /\ written' \in SUBSET Bytes /\ bitmap' \in Bitmaps
      /\ FinishedBlocks(bitmap') = FinishedBlocks(bitmap)
      /\ tail_buffer' \in [RangeIds -> TailBuffers]
      /\ Appends(p) \/ Fails(p)
  BY <1>2, AppendOk
<1>4. pc' \in {"publish", "poll"}
  BY <1>3 DEF Appends, Fails
<1>5. error' \in BOOLEAN
  BY <1>3 DEF Appends, Fails, TypeOK
<1> QED
  BY <1>3, <1>4, <1>5

LEMMA DequeueDataTyped ==
  ASSUME TypeOK, Flow, DequeueData
  PROVE  TypeOK' /\ FinishedBlocks(bitmap') = FinishedBlocks(bitmap)
<1> DEFINE p == Head(data_queue)
           r == p.range
           waiting == out_of_order_queue[r] \cup {p}
<1>1. /\ pc = "idle" /\ data_queue # <<>> /\ data_queue' = Tail(data_queue) /\ p.kind = "data"
      /\ UNCHANGED <<networkVars, stopping, persisted_offset, marked_finished, flushVars,
                     vdl_offset, durable, metadata, flush_failed>>
  BY DEF DequeueData
<1>2. p \in DataPackets /\ data_queue' \in Seq(DataPackets \cup ControlPackets)
  BY <1>1, Taking, ControlFields
<1>3. r \in RangeIds
  BY <1>2, DataFields
<1>4. CASE p.offset = persisted_offset[r]
  <2>1. AppendPacket(r, p) /\ UNCHANGED <<out_of_order_queue, pause_for_gap>>
    BY <1>4 DEF DequeueData
  <2>2. /\ packet' \in DataPackets /\ pc' \in {"publish", "poll"}
        /\ error' \in BOOLEAN
        /\ written' \in SUBSET Bytes /\ bitmap' \in Bitmaps
        /\ FinishedBlocks(bitmap') = FinishedBlocks(bitmap)
        /\ tail_buffer' \in [RangeIds -> TailBuffers]
    BY <1>1, <1>2, <1>4, <2>1, AppendTyped
  <2> QED
    BY <1>1, <1>2, <2>1, <2>2 DEF TypeOK, networkVars, flushVars, TailBuffers
<1>5. CASE p.offset # persisted_offset[r]
  <2>1. /\ out_of_order_queue' = [out_of_order_queue EXCEPT ![r] = waiting]
        /\ UpdateGapFlag(r, waiting) /\ packet' = p /\ pc' = "schedule"
        /\ UNCHANGED <<tail_buffer, written, bitmap, error>>
    BY <1>5 DEF DequeueData
  <2>2. waiting \in SUBSET DataPackets
    BY <1>2, <1>3 DEF TypeOK
  <2> HIDE DEF p, waiting
  <2>3. out_of_order_queue' \in [RangeIds -> SUBSET DataPackets]
    BY <1>3, <2>1, <2>2 DEF TypeOK
  <2>4. pause_for_gap' \in SUBSET RangeIds
    BY <1>3, <2>1 DEF UpdateGapFlag, TypeOK
  <2> QED
    BY <1>1, <1>2, <2>1, <2>3, <2>4 DEF TypeOK, networkVars, flushVars
<1> QED
  BY <1>4, <1>5

LEMMA PublishTyped ==
  ASSUME TypeOK, Flow, Publish
  PROVE  /\ TypeOK' /\ FinishedBlocks(bitmap) \subseteq FinishedBlocks(bitmap')
         /\ \A q \in RangeIds : persisted_offset[q] <= persisted_offset'[q]
<1> DEFINE p == packet
           r == p.range
<1>1. /\ pc = "publish" /\ pc' = "drain"
      /\ persisted_offset' = [persisted_offset EXCEPT ![r] = @ + p.size]
      /\ bitmap' = MarkFinished(bitmap, RangeFirst[r], persisted_offset'[r])
      /\ UNCHANGED <<networkVars, data_queue, stopping, packet, tail_buffer, out_of_order_queue,
                     pause_for_gap, marked_finished, error, flushVars, vdl_offset, written,
                     durable, metadata, flush_failed>>
  BY DEF Publish
<1>2. p \in DataPackets /\ p.offset = persisted_offset[r]
  BY <1>1 DEF Flow, HandOk
<1>3. /\ r \in RangeIds /\ p.offset \in Nat /\ p.size \in Nat \ {0}
      /\ persisted_offset[r] + p.size <= TotalSize
  BY <1>2, DataFields DEF PacketEnd
<1>4. bitmap' \in Bitmaps /\ FinishedBlocks(bitmap) \subseteq FinishedBlocks(bitmap')
  BY <1>1, MarkFacts DEF TypeOK
<1> HIDE DEF p
<1>5. persisted_offset' \in [RangeIds -> 0 .. TotalSize]
  <2>1. persisted_offset[r] + p.size \in 0 .. TotalSize
    BY <1>2, <1>3
  <2> QED
    BY <1>1, <1>3, <2>1 DEF TypeOK
<1>6. \A q \in RangeIds : persisted_offset[q] <= persisted_offset'[q]
  BY <1>1, <1>3 DEF TypeOK
<1>7. TypeOK'
  BY <1>1, <1>4, <1>5 DEF TypeOK, networkVars, flushVars
<1> QED
  BY <1>4, <1>6, <1>7

LEMMA DrainTyped ==
  ASSUME TypeOK, Flow, Drain
  PROVE  TypeOK' /\ FinishedBlocks(bitmap') = FinishedBlocks(bitmap)
<1> DEFINE r == packet.range
           next == NextInOrder(r)
<1>1. /\ pc = "drain"
      /\ UNCHANGED <<networkVars, data_queue, stopping, persisted_offset, marked_finished,
                     flushVars, vdl_offset, durable, metadata, flush_failed>>
  BY DEF Drain
<1>2. r \in RangeIds
  BY <1>1, DataFields DEF Flow, HandOk
<1>3. CASE next # {}
  <2>1. PICK p \in next : AppendPacket(r, p)
    BY <1>3 DEF Drain
  <2>2. /\ out_of_order_queue' = [out_of_order_queue EXCEPT ![r] = @ \ next]
        /\ pause_for_gap' = pause_for_gap
    BY <1>3 DEF Drain
  <2>3. p \in DataPackets /\ p.range = r /\ p.offset = persisted_offset[r]
    BY <1>2 DEF NextInOrder, TypeOK, Flow, HandOk
  <2>4. /\ packet' \in DataPackets /\ pc' \in {"publish", "poll"}
        /\ error' \in BOOLEAN
        /\ written' \in SUBSET Bytes /\ bitmap' \in Bitmaps
        /\ FinishedBlocks(bitmap') = FinishedBlocks(bitmap)
        /\ tail_buffer' \in [RangeIds -> TailBuffers]
    BY <1>1, <2>1, <2>3, AppendTyped
  <2> HIDE DEF next
  <2>5. out_of_order_queue' \in [RangeIds -> SUBSET DataPackets]
    BY <2>2 DEF TypeOK
  <2> QED
    BY <1>1, <2>2, <2>4, <2>5 DEF TypeOK, networkVars, flushVars, TailBuffers
<1>4. CASE next = {}
  <2>1. /\ UpdateGapFlag(r, out_of_order_queue[r]) /\ pc' = "schedule"
        /\ UNCHANGED <<packet, tail_buffer, out_of_order_queue, written, bitmap, error>>
    BY <1>4 DEF Drain
  <2>2. pause_for_gap' \in SUBSET RangeIds
    BY <1>2, <2>1 DEF UpdateGapFlag, TypeOK
  <2> QED
    BY <1>1, <2>1, <2>2 DEF TypeOK, networkVars, flushVars
<1> QED
  BY <1>3, <1>4

LEMMA DequeueCompleteTyped ==
  ASSUME TypeOK, Flow, DequeueComplete
  PROVE  TypeOK' /\ FinishedBlocks(bitmap') = FinishedBlocks(bitmap)
<1> DEFINE c == Head(data_queue)
           r == c.range
<1>1. /\ pc = "idle" /\ data_queue # <<>> /\ data_queue' = Tail(data_queue)
      /\ c.kind = "range_complete" /\ packet' = c
      /\ UNCHANGED <<networkVars, stopping, persisted_offset, out_of_order_queue, pause_for_gap,
                     marked_finished, flushVars, vdl_offset, metadata, flush_failed>>
  BY DEF DequeueComplete
<1>2. c \in ControlPackets /\ data_queue' \in Seq(DataPackets \cup ControlPackets)
  BY <1>1, Taking, DataFields
<1>3. r \in RangeIds
  BY <1>2, ControlFields
<1>4. \/ /\ FlushTail(r) /\ pc' = "finish" /\ error' = error
      \/ /\ pc' = "poll" /\ error' = TRUE
         /\ UNCHANGED <<written, durable, bitmap, tail_buffer>>
  BY <1>1 DEF DequeueComplete
<1>5. /\ written' \in SUBSET Bytes /\ durable' \in SUBSET Bytes /\ bitmap' \in Bitmaps
      /\ FinishedBlocks(bitmap') = FinishedBlocks(bitmap)
      /\ tail_buffer' \in [RangeIds -> TailBuffers]
  <2>1. CASE FlushTail(r)
    BY <1>1, <1>3, <2>1, FlushTailOk, TailInFile
  <2>2. CASE UNCHANGED <<written, durable, bitmap, tail_buffer>>
    BY <2>2 DEF TypeOK, TailBuffers
  <2> QED
    BY <1>4, <2>1, <2>2
<1>6. pc' \in {"finish", "poll"}
  BY <1>4
<1>7. error' \in BOOLEAN
  BY <1>4 DEF TypeOK
<1> HIDE DEF c
<1> QED
  BY <1>1, <1>2, <1>5, <1>6, <1>7 DEF TypeOK, networkVars, flushVars, TailBuffers

LEMMA FinishRangeTyped ==
  ASSUME TypeOK, Flow, FinishRange
  PROVE  TypeOK' /\ FinishedBlocks(bitmap) \subseteq FinishedBlocks(bitmap')
<1>1. /\ pc = "finish" /\ pc' = "schedule" /\ marked_finished' = marked_finished \cup {packet.range}
      /\ bitmap' = MarkFinished(bitmap, RangeFirst[packet.range], persisted_offset[packet.range])
      /\ UNCHANGED <<networkVars, data_queue, stopping, packet, rangeVars, error, flushVars,
                     vdl_offset, written, durable, metadata, flush_failed>>
  BY DEF FinishRange
<1>2. packet.range \in RangeIds
  BY <1>1, ControlFields DEF Flow, HandOk
<1>3. bitmap' \in Bitmaps /\ FinishedBlocks(bitmap) \subseteq FinishedBlocks(bitmap')
  BY <1>1, MarkFacts DEF TypeOK
<1> QED
  BY <1>1, <1>2, <1>3 DEF TypeOK, networkVars, rangeVars, flushVars

-----------------------------------------------------------------------------
(***************************************************************************)
(* Snapshots and what is saved of them.                                    *)
(***************************************************************************)
LEMMA SnapshotTyped ==
  ASSUME TypeOK
  PROVE  /\ SnapshotBitmap \in Bitmaps /\ BuildMetadataState \in Metadata
         /\ FinishedBlocks(bitmap) \subseteq FinishedBlocks(SnapshotBitmap)
         /\ BuildMetadataState.bitmap = SnapshotBitmap
         /\ ContiguousFinished(bitmap) \in 0 .. TotalSize
<1>1. SnapshotBitmap \in Bitmaps
  BY DEF TypeOK, SnapshotBitmap, Bitmaps, BlockState
<1>2. FinishedBlocks(bitmap) \subseteq FinishedBlocks(SnapshotBitmap)
  BY DEF SnapshotBitmap, FinishedBlocks
<1>3. ContiguousFinished(SnapshotBitmap) \in 0 .. TotalSize
  BY <1>1, PrefixDefined
<1>4. ContiguousFinished(bitmap) \in 0 .. TotalSize
  BY PrefixDefined DEF TypeOK
<1> QED
  BY <1>1, <1>2, <1>3, <1>4 DEF BuildMetadataState, Metadata

\* The snapshot taken next vouches for more, the further the frontiers are.
LEMMA SnapshotGrows ==
  ASSUME TypeOK, TypeOK', FinishedBlocks(bitmap) \subseteq FinishedBlocks(bitmap'),
         \A r \in RangeIds : persisted_offset[r] <= persisted_offset'[r]
  PROVE  /\ FinishedBlocks(SnapshotBitmap) \subseteq FinishedBlocks(SnapshotBitmap')
         /\ ContiguousFinished(bitmap) <= ContiguousFinished(bitmap')
<1>1. \A r \in RangeIds, b \in Blocks :
        Covers(RangeFirst[r], persisted_offset[r], b)
          => Covers(RangeFirst[r], persisted_offset'[r], b)
  <2> SUFFICES ASSUME NEW r \in RangeIds, NEW b \in Blocks,
                      BlockEnd(b) <= persisted_offset[r]
               PROVE  BlockEnd(b) <= persisted_offset'[r]
    BY DEF Covers
  <2>1. BlockEnd(b) \in Int /\ persisted_offset[r] \in Int /\ persisted_offset'[r] \in Int
    BY BlockInFile DEF TypeOK
  <2> QED
    BY <2>1
<1>2. FinishedBlocks(SnapshotBitmap) \subseteq FinishedBlocks(SnapshotBitmap')
  BY <1>1 DEF FinishedBlocks, SnapshotBitmap
<1> QED
  BY <1>2, VdlGrows DEF TypeOK

\* A step that neither takes a snapshot nor works on one.
LEMMA SavedFrame ==
  ASSUME TypeOK, TypeOK', SavedOk, UNCHANGED <<metadata, snapshot, pending_flush>>,
         FinishedBlocks(bitmap) \subseteq FinishedBlocks(bitmap'),
         \A r \in RangeIds : persisted_offset[r] <= persisted_offset'[r]
  PROVE  SavedOk'
<1>1. /\ FinishedBlocks(SnapshotBitmap) \subseteq FinishedBlocks(SnapshotBitmap')
      /\ ContiguousFinished(bitmap) <= ContiguousFinished(bitmap')
  BY SnapshotGrows
<1>2. /\ ContiguousFinished(bitmap) \in Nat /\ ContiguousFinished(bitmap') \in Nat
      /\ metadata.vdl \in Nat /\ snapshot.vdl \in Nat
  BY PrefixDefined DEF TypeOK, Metadata
<1>3. FlushRunning' = FlushRunning
  BY DEF FlushRunning
<1>4. FinishedBlocks(SnapshotBitmap)' = FinishedBlocks(SnapshotBitmap')
  OBVIOUS
<1> QED
  BY <1>1, <1>2, <1>3, <1>4 DEF SavedOk

\* Frontiers stand still.
LEMMA FrontiersStay ==
  ASSUME TypeOK, persisted_offset' = persisted_offset
  PROVE  \A r \in RangeIds : persisted_offset[r] <= persisted_offset'[r]
BY DEF TypeOK

\* maybe_schedule_flush.
LEMMA SubmitOk ==
  ASSUME TypeOK, SavedOk, SubmitFlush \/ UNCHANGED flushVars,
         UNCHANGED <<metadata, bitmap, persisted_offset>>
  PROVE  /\ snapshot' \in Metadata
         /\ pending_flush' \in {"none", "flushing", "reading_vdl", "sampling", "saving",
                                "done", "failed"}
         /\ SavedOk'
<1>1. SnapshotBitmap' = SnapshotBitmap /\ ContiguousFinished(bitmap') = ContiguousFinished(bitmap)
  BY DEF SnapshotBitmap
<1>2. CASE SubmitFlush
  BY <1>1, <1>2, SnapshotTyped DEF SubmitFlush, SavedOk, FlushRunning
<1>3. CASE UNCHANGED flushVars
  BY <1>1, <1>3 DEF TypeOK, flushVars, SavedOk, FlushRunning
<1> QED
  BY <1>2, <1>3

\* poll_pending_flush.
LEMMA TakeOk ==
  ASSUME TypeOK, SavedOk, TakeFlushResult,
         UNCHANGED <<metadata, bitmap, persisted_offset, snapshot>>
  PROVE  /\ error' \in BOOLEAN /\ vdl_offset' \in 0 .. TotalSize
         /\ pending_flush' \in {"none", "flushing", "reading_vdl", "sampling", "saving",
                                "done", "failed"}
         /\ SavedOk'
<1>1. SnapshotBitmap' = SnapshotBitmap /\ ContiguousFinished(bitmap') = ContiguousFinished(bitmap)
  BY DEF SnapshotBitmap
<1>2. error' \in BOOLEAN
  BY DEF TakeFlushResult
<1>3. vdl_offset' \in 0 .. TotalSize
  BY SnapshotTyped DEF TakeFlushResult, TypeOK
<1>4. pending_flush' = pending_flush \/ pending_flush' = "none"
  BY DEF TakeFlushResult
<1>5. SavedOk'
  BY <1>1, <1>4 DEF SavedOk, FlushRunning
<1> QED
  BY <1>2, <1>3, <1>4, <1>5 DEF TypeOK

LEMMA HousekeepingSaved ==
  ASSUME TypeOK, SavedOk,
         \/ DequeueShutdown \/ DequeueTimesOut \/ Schedule \/ PollPendingFlush
         \/ HousekeepFlushes \/ HousekeepSkips \/ WaitPendingFlush
  PROVE  TypeOK' /\ SavedOk'
<1>1. CASE DequeueShutdown \/ DequeueTimesOut
  <2>1. /\ packet' \in {NoPacket, ShutdownPacket} /\ pc' \in {"schedule", "poll"}
        /\ UNCHANGED <<networkVars, data_queue, stopping, rangeVars, marked_finished, bitmap,
                       error, flushVars, vdl_offset, written, durable, metadata, flush_failed>>
    BY <1>1 DEF DequeueShutdown, DequeueTimesOut
  <2>2. TypeOK'
    BY <2>1 DEF TypeOK, networkVars, rangeVars, flushVars
  <2>3. UNCHANGED <<metadata, snapshot, pending_flush, bitmap, persisted_offset>>
    BY <2>1 DEF rangeVars, flushVars
  <2> QED
    BY <2>2, <2>3, SavedFrame, FrontiersStay
<1>2. CASE Schedule \/ HousekeepFlushes \/ HousekeepSkips
  <2>1. /\ SubmitFlush \/ UNCHANGED flushVars
        /\ pc' \in {"exit", "poll", "idle"}
        /\ UNCHANGED <<networkVars, data_queue, stopping, packet, rangeVars, marked_finished,
                       bitmap, error, vdl_offset, written, durable, metadata, flush_failed>>
    BY <1>2 DEF Schedule, HousekeepFlushes, HousekeepSkips, HousekeepWith, SkipFlush
  <2>2. /\ snapshot' \in Metadata
        /\ pending_flush' \in {"none", "flushing", "reading_vdl", "sampling", "saving",
                               "done", "failed"}
        /\ SavedOk'
    BY <2>1, SubmitOk DEF rangeVars
  <2> QED
    BY <2>1, <2>2 DEF TypeOK, networkVars, rangeVars
<1>3. CASE PollPendingFlush \/ WaitPendingFlush
  <2>1. /\ TakeFlushResult /\ pc' \in {"housekeep", "stopped"}
        /\ UNCHANGED <<networkVars, data_queue, stopping, packet, rangeVars, marked_finished,
                       bitmap, snapshot, written, durable, metadata, flush_failed>>
    BY <1>3 DEF PollPendingFlush, WaitPendingFlush
  <2>2. /\ error' \in BOOLEAN /\ vdl_offset' \in 0 .. TotalSize
        /\ pending_flush' \in {"none", "flushing", "reading_vdl", "sampling", "saving",
                               "done", "failed"}
        /\ SavedOk'
    BY <2>1, TakeOk DEF rangeVars
  <2> QED
    BY <2>1, <2>2 DEF TypeOK, networkVars, rangeVars
<1> QED
  BY <1>1, <1>2, <1>3

\* The flush task saves a state it captured, or nothing at all.
LEMMA FlushTaskSaved ==
  ASSUME TypeOK, SavedOk, FlushTask
  PROVE  TypeOK' /\ SavedOk'
<1>1. /\ UNCHANGED <<unsent, uncompleted, data_queue, stopping, pc, packet, rangeVars,
                     marked_finished, bitmap, error, vdl_offset, written>>
      /\ SnapshotBitmap' = SnapshotBitmap
      /\ ContiguousFinished(bitmap') = ContiguousFinished(bitmap)
  <2>1. UNCHANGED <<unsent, uncompleted, data_queue, stopping, pc, packet, rangeVars,
                    marked_finished, bitmap, error, vdl_offset, written>>
    BY DEF FlushTask, FlushFile, ReadVdl, BuildCrcSamples, SaveMetadata, TaskUnchanged, networkVars
  <2> QED
    BY <2>1 DEF SnapshotBitmap, rangeVars
<1>2. ASSUME snapshot' \in Metadata, metadata' \in Metadata, durable' \in SUBSET Bytes,
             flush_failed' \in BOOLEAN,
             pending_flush' \in {"none", "flushing", "reading_vdl", "sampling", "saving",
                                "done", "failed"}
      PROVE  TypeOK'
  BY <1>1, <1>2 DEF TypeOK, rangeVars
<1>3. CASE FlushFile
  <2>1. /\ pending_flush = "flushing" /\ pending_flush' \in {"reading_vdl", "failed"}
        /\ UNCHANGED <<snapshot, metadata>> /\ durable' \in {written, durable}
    BY <1>3 DEF FlushFile, TaskFails
  <2>2. flush_failed' \in BOOLEAN
    BY <1>3 DEF FlushFile, TaskFails, TypeOK
  <2>3. SavedOk'
    BY <1>1, <2>1 DEF SavedOk, FlushRunning
  <2> QED
    BY <1>2, <2>1, <2>2, <2>3 DEF TypeOK
<1>4. CASE ReadVdl
  <2>1. /\ pending_flush = "reading_vdl" /\ pending_flush' = "sampling"
        /\ snapshot' = [snapshot EXCEPT !.vdl = ContiguousFinished(bitmap)]
        /\ UNCHANGED <<durable, metadata, flush_failed>>
    BY <1>4 DEF ReadVdl, SnapshotWithVdl
  <2>2. ContiguousFinished(bitmap) \in 0 .. TotalSize /\ snapshot \in Metadata
    BY SnapshotTyped DEF TypeOK
  <2>3. /\ snapshot' \in Metadata /\ snapshot'.bitmap = snapshot.bitmap
        /\ snapshot'.vdl = ContiguousFinished(bitmap)
    BY <2>1, <2>2 DEF Metadata
  <2>4. SavedOk'
    BY <1>1, <2>1, <2>2, <2>3 DEF SavedOk, FlushRunning
  <2> QED
    BY <1>2, <2>1, <2>3, <2>4 DEF TypeOK
<1>5. CASE BuildCrcSamples
  <2> DEFINE beyond == {b \in FinishedBlocks(snapshot.bitmap) : BlockBegin(b) >= snapshot.vdl}
             SamplesOf(read) == {[block |-> b, content |-> BlockBytes(b) \cap written] : b \in read}
  <2>1. /\ pending_flush = "sampling" /\ pending_flush' = "saving"
        /\ UNCHANGED <<durable, metadata, flush_failed>>
    BY <1>5 DEF BuildCrcSamples
  <2>2. PICK read \in SUBSET beyond : snapshot' = [snapshot EXCEPT !.samples = SamplesOf(read)]
    BY <1>5 DEF BuildCrcSamples
  <2>3. SamplesOf(read) \subseteq [block : Blocks, content : SUBSET Bytes]
    BY BlockBytesInFile DEF FinishedBlocks
  <2> HIDE DEF beyond, SamplesOf
  <2>4. snapshot' \in Metadata /\ snapshot'.bitmap = snapshot.bitmap /\ snapshot'.vdl = snapshot.vdl
    BY <2>2, <2>3 DEF TypeOK, Metadata
  <2>5. SavedOk'
    BY <1>1, <2>1, <2>4 DEF SavedOk, FlushRunning
  <2> QED
    BY <1>2, <2>1, <2>4, <2>5 DEF TypeOK
<1>6. CASE SaveMetadata
  <2>1. /\ pending_flush = "saving" /\ UNCHANGED <<durable, snapshot>>
        /\ \/ metadata' = snapshot /\ pending_flush' = "done" /\ flush_failed' = flush_failed
           \/ /\ pending_flush' = "failed" /\ flush_failed' = TRUE
              /\ metadata' \in {metadata, NoMetadata}
    BY <1>6 DEF SaveMetadata, TaskFails
  <2>2. flush_failed' \in BOOLEAN
    BY <2>1 DEF TypeOK
  <2>3. FinishedBlocks(NoMetadata.bitmap) = {} /\ NoMetadata.vdl = 0
    BY DEF NoMetadata, EmptyBitmap, FinishedBlocks
  <2>4. ContiguousFinished(bitmap) \in 0 .. TotalSize
    BY SnapshotTyped
  <2>5. CASE metadata' = snapshot /\ pending_flush' = "done"
    BY <1>1, <1>2, <2>1, <2>2, <2>5 DEF SavedOk, FlushRunning, TypeOK
  <2>6. CASE pending_flush' = "failed" /\ metadata' \in {metadata, NoMetadata}
    <3>1. SavedOk'
      BY <1>1, <2>3, <2>4, <2>6 DEF SavedOk, FlushRunning
    <3>2. metadata' \in Metadata
      BY <2>6, StatesTyped DEF TypeOK
    <3> QED
      BY <1>2, <2>1, <2>2, <2>6, <3>1, <3>2 DEF TypeOK
  <2> QED
    BY <2>1, <2>5, <2>6
<1> QED
  BY <1>3, <1>4, <1>5, <1>6 DEF FlushTask

-----------------------------------------------------------------------------
(***************************************************************************)
(* The theorems of any file.                                               *)
(***************************************************************************)
LEMMA NetworkStep ==
  ASSUME IInv, Network
  PROVE  IInv'
<1>1. Flow'
  BY EnqueueDataFlow, EnqueueCompleteFlow, BackgroundFlow DEF IInv, Network
<1>2. TypeOK'
  BY NetworkTyped DEF IInv
<1>3. UNCHANGED <<metadata, snapshot, pending_flush, bitmap, persisted_offset>>
  BY DEF Network, EnqueueData, EnqueueComplete, RequestEnds, StopThread, rangeVars, flushVars
<1>4. SavedOk'
  BY <1>2, <1>3, SavedFrame, FrontiersStay DEF IInv
<1> QED
  BY <1>1, <1>2, <1>4 DEF IInv

LEMMA ThreadStep ==
  ASSUME IInv, Thread
  PROVE  IInv'
<1> USE DEF IInv
<1>1. CASE DequeueData
  <2>1. UNCHANGED <<metadata, snapshot, pending_flush, persisted_offset>>
    BY <1>1 DEF DequeueData, flushVars
  <2> QED
    BY <1>1, <2>1, DequeueDataFlow, DequeueDataTyped, SavedFrame, FrontiersStay
<1>2. CASE Publish
  <2>1. UNCHANGED <<metadata, snapshot, pending_flush>>
    BY <1>2 DEF Publish, flushVars
  <2> QED
    BY <1>2, <2>1, PublishFlow, PublishTyped, SavedFrame
<1>3. CASE Drain
  <2>1. UNCHANGED <<metadata, snapshot, pending_flush, persisted_offset>>
    BY <1>3 DEF Drain, flushVars
  <2> QED
    BY <1>3, <2>1, DrainFlow, DrainTyped, SavedFrame, FrontiersStay
<1>4. CASE DequeueComplete
  <2>1. UNCHANGED <<metadata, snapshot, pending_flush, persisted_offset>>
    BY <1>4 DEF DequeueComplete, flushVars
  <2> QED
    BY <1>4, <2>1, DequeueCompleteFlow, DequeueCompleteTyped, SavedFrame, FrontiersStay
<1>5. CASE FinishRange
  <2>1. UNCHANGED <<metadata, snapshot, pending_flush, persisted_offset>>
    BY <1>5 DEF FinishRange, flushVars, rangeVars
  <2> QED
    BY <1>5, <2>1, FinishRangeFlow, FinishRangeTyped, SavedFrame, FrontiersStay
<1>6. CASE \/ DequeueShutdown \/ DequeueTimesOut \/ Schedule \/ PollPendingFlush
           \/ HousekeepFlushes \/ HousekeepSkips \/ WaitPendingFlush
  BY <1>6, HousekeepingFlow, HousekeepingSaved
<1> QED
  BY <1>1, <1>2, <1>3, <1>4, <1>5, <1>6 DEF Thread

\* In every reachable state of any file, ranges and packets: packets are accounted for,
\* the frontier of a range is behind everything still under way, and snapshots only
\* gain finished blocks.
THEOREM PersistenceInvariant == Spec => []IInv
<1>1. Init => IInv
  BY InitTyped, InitFlow, InitSaved DEF IInv
<1>2. IInv /\ [Next]_vars => IInv'
  <2> SUFFICES ASSUME IInv, [Next]_vars PROVE IInv'
    OBVIOUS
  <2>1. CASE Network
    BY <2>1, NetworkStep
  <2>2. CASE Thread
    BY <2>2, ThreadStep
  <2>3. CASE FlushTask
    BY <2>3, BackgroundFlow, FlushTaskSaved DEF IInv
  <2>4. CASE UNCHANGED vars
    <3>1. /\ UNCHANGED <<unsent, uncompleted, data_queue, pc, packet, persisted_offset, tail_buffer,
                         out_of_order_queue, marked_finished, error, pause_for_gap>>
          /\ UNCHANGED <<metadata, snapshot, pending_flush, bitmap>>
          /\ UNCHANGED <<stopping, vdl_offset, written, durable, flush_failed>>
      BY <2>4 DEF vars, networkVars, rangeVars, flushVars
    <3>2. TypeOK'
      BY <3>1 DEF IInv, TypeOK
    <3>3. Flow'
      BY <3>1, FlowFrame DEF IInv
    <3>4. SavedOk'
      BY <3>1, <3>2, SavedFrame, FrontiersStay DEF IInv
    <3> QED
      BY <3>2, <3>3, <3>4 DEF IInv
  <2> QED
    BY <2>1, <2>2, <2>3, <2>4 DEF Next
<1> QED
  BY <1>1, <1>2, PTL DEF Spec

\* The variables hold values the program's types allow: a tail is always shorter than a
\* unit, a frontier never leaves the file.
THEOREM PersistenceTypeCorrect == Spec => []TypeOK
<1>1. IInv => TypeOK
  BY DEF IInv
<1> QED
  BY <1>1, PersistenceInvariant, PTL

\* Between two packets, a packet that was taken from the queue is either part of the
\* frontier or waits strictly beyond it: drain_ordered_packets strands none.
THEOREM NoneStranded == Spec => []NoPacketStranded
<1>1. IInv => NoPacketStranded
  <2> SUFFICES ASSUME IInv, pc = "idle", NEW p \in Packets
               PROVE  \/ p \in unsent
                      \/ DataPacket(p) \in QueuedPackets
                      \/ PacketEnd(p) <= persisted_offset[p.range]
                      \/ /\ DataPacket(p) \in out_of_order_queue[p.range]
                         /\ persisted_offset[p.range] < p.offset
    BY DEF NoPacketStranded
  <2> DEFINE d == DataPacket(p)
  <2>1. d \in DataPackets /\ d.range = p.range /\ d.offset = p.offset /\ PacketEnd(d) = PacketEnd(p)
    BY DEF DataPackets, DataPacket, PacketEnd
  <2>2. d \in Unsent => p \in unsent
    BY SamePacket DEF IInv, TypeOK, Unsent
  <2> HIDE DEF d
  <2>3. ~error /\ ~InHand(d) /\ ~Advancing(d.range)
    BY DEF IInv, Flow, HandOk, InHand, Advancing
  <2>4. /\ Pending(d) \/ PacketEnd(d) <= persisted_offset[d.range]
        /\ d \in out_of_order_queue[d.range] => persisted_offset[d.range] < d.offset
    BY <2>1, <2>3 DEF IInv, Flow, FrontierOk
  <2> QED
    BY <2>1, <2>2, <2>3, <2>4 DEF Pending, d
<1> QED
  BY <1>1, PersistenceInvariant, PTL

\* A gap flag the orchestrator would pause a handle for is never left over from a hole
\* that was filled.
THEOREM GapFlagCorrect == Spec => []GapFlagSound
<1>1. IInv => GapFlagSound
  BY DEF IInv, TypeOK, Flow, GapOk, Advancing, GapFlagSound
<1> QED
  BY <1>1, PersistenceInvariant, PTL

\* What was saved once is saved again, whatever lies between two saves: a snapshot is
\* never older than the metadata it replaces.
THEOREM SavesCorrect == Spec => MetadataOnlyGrows
<1> DEFINE Grows == \/ pending_flush' = "failed" /\ metadata' = NoMetadata
                    \/ /\ FinishedBlocks(metadata.bitmap) \subseteq FinishedBlocks(metadata'.bitmap)
                       /\ metadata.vdl <= metadata'.vdl
<1>1. IInv /\ [Next]_vars => [Grows]_metadata
  <2> SUFFICES ASSUME IInv, [Next]_vars, metadata' # metadata PROVE Grows
    OBVIOUS
  <2>1. SaveMetadata
    BY DEF Next, vars, Network, EnqueueData, EnqueueComplete, RequestEnds, StopThread,
           Thread, DequeueData, Publish, Drain, DequeueComplete, FinishRange, DequeueShutdown,
           DequeueTimesOut, Schedule, PollPendingFlush, HousekeepFlushes, HousekeepSkips,
           HousekeepWith, WaitPendingFlush, FlushTask, FlushFile, ReadVdl, BuildCrcSamples
  <2>2. /\ pending_flush = "saving"
        /\ \/ metadata' = snapshot
           \/ pending_flush' = "failed" /\ metadata' = NoMetadata
    BY <2>1 DEF SaveMetadata, TaskFails
  <2> QED
    BY <2>2 DEF IInv, SavedOk, FlushRunning
<1>2. Spec => [][Grows]_metadata
  BY <1>1, PersistenceInvariant, PTL DEF Spec
<1> QED
  BY <1>2 DEF MetadataOnlyGrows

-----------------------------------------------------------------------------
(***************************************************************************)
(* Units of io_alignment.                                                  *)
(***************************************************************************)
LEMMA UnitsAre ==
  ASSUME NEW n \in Nat, NEW k \in Int, n = k * IoAlignment
  PROVE  Units(n)
<1>1. IoAlignment \in Nat \ {0}
  BY Sizes
<1>2. k >= 0
  <2> SUFFICES ASSUME k <= -1 PROVE FALSE
    OBVIOUS
  <2>1. k * IoAlignment <= (-1) * IoAlignment
    BY <1>1
  <2> QED
    BY <1>1, <2>1
<1>3. k * 1 <= k * IoAlignment
  BY <1>1, <1>2
<1> QED
  BY <1>2, <1>3 DEF Units

LEMMA UnitsSum ==
  ASSUME NEW m \in Nat, NEW n \in Nat, Units(m), Units(n)
  PROVE  Units(m + n) /\ (m < n => m + IoAlignment <= n)
<1>1. PICK j \in Int : m = j * IoAlignment
  BY DEF Units
<1>2. PICK k \in Int : n = k * IoAlignment
  BY DEF Units
<1>3. IoAlignment \in Nat \ {0}
  BY Sizes
<1>4. m + n = (j + k) * IoAlignment /\ j + k \in Int
  BY <1>1, <1>2, <1>3
<1>5. Units(m + n)
  BY <1>4, UnitsAre
<1>6. ASSUME m < n
      PROVE  m + IoAlignment <= n
  <2>1. j < k
    <3> SUFFICES ASSUME k <= j PROVE FALSE
      OBVIOUS
    <3>1. k * IoAlignment <= j * IoAlignment
      BY <1>3
    <3> QED
      BY <1>1, <1>2, <1>6, <3>1
  <2>2. (j + 1) * IoAlignment <= k * IoAlignment
    BY <1>3, <2>1
  <2>3. (j + 1) * IoAlignment = j * IoAlignment + IoAlignment
    BY <1>3
  <2> QED
    BY <1>1, <1>2, <1>3, <2>2, <2>3
<1> QED
  BY <1>5, <1>6

\* Blocks begin and end on units, but for the end of the file.
LEMMA BlockUnits ==
  ASSUME AlignedRanges, NEW b \in Blocks
  PROVE  /\ Units(BlockBegin(b))
         /\ Units(BlockEnd(b)) \/ BlockEnd(b) = TotalSize
<1>1. b \in Nat
  BY BlockInFile
<1>2. PICK k \in Nat : BlockSize = k * IoAlignment
  BY DEF AlignedRanges
<1>3. IoAlignment \in Nat \ {0} /\ BlockSize \in Nat
  BY Sizes, GeometryAssumption
<1>4. ASSUME NEW c \in Nat
      PROVE  Units(c * BlockSize)
  <2>1. c * (k * IoAlignment) = (c * k) * IoAlignment
    BY <1>3
  <2>2. c * BlockSize \in Nat /\ c * k \in Int
    BY <1>3
  <2>3. c * BlockSize = (c * k) * IoAlignment
    BY <1>2, <2>1
  <2> QED
    BY <2>2, <2>3, UnitsAre
<1>5. Units((b + 1) * BlockSize)
  <2>1. b + 1 \in Nat
    BY <1>1
  <2> QED
    BY <2>1, <1>4
<1> QED
  BY <1>1, <1>4, <1>5 DEF BlockBegin, BlockEnd, Min2

\* What is whole units behind the first byte of a range is on a unit.
LEMMA RangeUnits ==
  ASSUME AlignedRanges, NEW r \in RangeIds, NEW n \in Int, Units(n - RangeFirst[r])
  PROVE  n \in Nat /\ Units(n) /\ RangeFirst[r] <= n
<1>1. RangeFirst[r] \in Nat
  BY Sizes
<1>2. Units(RangeFirst[r])
  BY BlockUnits DEF AlignedRanges
<1>3. n - RangeFirst[r] >= 0
  BY <1>1 DEF Units
<1> DEFINE d == n - RangeFirst[r]
<1>4. d \in Nat /\ n = RangeFirst[r] + d /\ Units(d)
  BY <1>1, <1>3
<1> HIDE DEF d
<1>5. Units(RangeFirst[r] + d)
  BY <1>1, <1>2, <1>4, UnitsSum
<1>6. RangeFirst[r] + d \in Nat /\ RangeFirst[r] <= RangeFirst[r] + d
  BY <1>1, <1>4
<1> QED
  BY <1>4, <1>5, <1>6

-----------------------------------------------------------------------------
(***************************************************************************)
(* What is written.                                                        *)
(***************************************************************************)
\* A tail is what is between the cut of its range and its frontier.
LEMMA CutFacts ==
  ASSUME TypeOK, Flow, NEW r \in RangeIds
  PROVE  /\ Appended(r) \in Nat /\ Appended(r) <= RangeLast[r] + 1
         /\ persisted_offset[r] <= Appended(r)
         /\ Cut(r) \in Int /\ Cut(r) <= Appended(r) /\ Appended(r) - Cut(r) < IoAlignment
         /\ tail_buffer[r].length = 0 => Cut(r) = Appended(r)
         /\ tail_buffer[r].length > 0 =>
              tail_buffer[r].offset = Cut(r) /\ TailEnd(tail_buffer[r]) = Appended(r)
         /\ Cut(r) .. (Appended(r) - 1) \subseteq TailBytes(tail_buffer[r])
         /\ pc # "publish" => Appended(r) = persisted_offset[r]
<1>1. /\ persisted_offset[r] \in Nat /\ persisted_offset[r] <= RangeLast[r] + 1
  BY Sizes DEF TypeOK, Flow, FrontierOk
<1>2. /\ Appended(r) \in Nat /\ Appended(r) <= RangeLast[r] + 1 /\ persisted_offset[r] <= Appended(r)
  <2>1. CASE pc = "publish" /\ packet.range = r
    <3>1. packet \in DataPackets /\ packet.offset = persisted_offset[r]
      BY <2>1 DEF Flow, HandOk
    <3>2. Appended(r) = PacketEnd(packet)
      BY <2>1 DEF Appended
    <3> QED
      BY <1>1, <2>1, <3>1, <3>2, DataFields
  <2>2. CASE ~(pc = "publish" /\ packet.range = r)
    BY <1>1, <2>2 DEF Appended
  <2> QED
    BY <2>1, <2>2
<1>3. /\ tail_buffer[r].offset \in Nat /\ tail_buffer[r].length \in Nat
      /\ tail_buffer[r].length < IoAlignment /\ IoAlignment \in Nat
      /\ TailEnd(tail_buffer[r]) = tail_buffer[r].offset + tail_buffer[r].length
  BY TailFields, Sizes
<1>4. tail_buffer[r].length > 0 => TailEnd(tail_buffer[r]) = Appended(r)
  BY DEF Flow, TailsOk
<1>5. /\ Cut(r) \in Int /\ Cut(r) <= Appended(r) /\ Appended(r) - Cut(r) < IoAlignment
      /\ tail_buffer[r].length = 0 => Cut(r) = Appended(r)
      /\ tail_buffer[r].length > 0 =>
           tail_buffer[r].offset = Cut(r) /\ TailEnd(tail_buffer[r]) = Appended(r)
  BY <1>2, <1>3, <1>4 DEF Cut
<1>6. Cut(r) .. (Appended(r) - 1) \subseteq TailBytes(tail_buffer[r])
  <2>1. CASE tail_buffer[r].length = 0
    BY <1>2, <1>5, <2>1
  <2>2. CASE tail_buffer[r].length > 0
    BY <1>5, <2>2 DEF TailBytes
  <2> QED
    BY <1>3, <2>1, <2>2
<1>7. pc # "publish" => Appended(r) = persisted_offset[r]
  BY DEF Appended
<1> QED
  BY <1>2, <1>5, <1>6, <1>7

LEMMA WrittenFrame ==
  ASSUME WrittenOk, written \subseteq written', durable' \subseteq written',
         \A r \in RangeIds : Cut(r)' = Cut(r)
  PROVE  WrittenOk'
BY DEF WrittenOk

\* Up to the cut a range stays written; a unit that is written joins it.
LEMMA AppendWritten ==
  ASSUME TypeOK, Flow, WrittenOk, NEW p \in DataPackets, pc # "publish",
         p.offset = persisted_offset[p.range], AppendPacket(p.range, p),
         persisted_offset' = persisted_offset, durable' = durable
  PROVE  WrittenOk' /\ written \subseteq written'
<1> DEFINE r == p.range
           from == AppendFrom(r, p)
           upto == PacketEnd(p)
           cut == WriteUpto(r, from, upto)
<1>1. /\ r \in RangeIds /\ p.offset \in Nat /\ p.offset < PacketEnd(p)
      /\ PacketEnd(p) <= RangeLast[r] + 1 /\ PacketEnd(p) <= TotalSize
  BY DataFields
<1>2. tail_buffer[r].length > 0 => TailEnd(tail_buffer[r]) = p.offset
  BY <1>1 DEF Flow, TailsOk, Appended
<1>3. packet' = p /\ (Appends(p) \/ Fails(p))
  BY <1>2, AppendOk
<1>4. CASE Fails(p)
  <2>1. \A q \in RangeIds : Cut(q)' = Cut(q)
    BY <1>4 DEF Cut, Appended, Fails
  <2> QED
    BY <1>4, <2>1, WrittenFrame DEF Fails, WrittenOk
<1>5. CASE Appends(p)
  <2>1. /\ pc' = "publish" /\ written' = written \cup (from .. (cut - 1))
        /\ tail_buffer' = [tail_buffer EXCEPT ![r] = TailBuffer(cut, upto)]
    BY <1>5 DEF Appends
  <2>2. /\ from = p.offset - tail_buffer[r].length
        /\ from \in Nat /\ upto \in Nat /\ from < upto
        /\ cut \in Nat /\ from <= cut /\ cut <= upto
    BY <1>2, AppendBounds
  <2>3. cut = WholeUnits(from, upto) \/ (cut = upto /\ upto = TotalSize)
    BY DEF WriteUpto, FlushesAtEof
  <2>4. \E k \in Nat : WholeUnits(from, upto) = from + k * IoAlignment
    BY <2>2, UnitsBounds
  <2>5. Cut(r) = from /\ from < RangeLast[r] + 1
    <3>1. tail_buffer[r].length \in Nat /\ RangeLast[r] \in Nat
      BY <1>1, TailFields, Sizes
    <3>2. Appended(r) = p.offset
      BY DEF Appended
    <3> QED
      BY <1>1, <2>2, <3>1, <3>2 DEF Cut
  <2> HIDE DEF from, upto, cut
  <2>6. tail_buffer'[r] = TailBuffer(cut, upto)
    BY <1>1, <2>1 DEF TypeOK
  <2>7. TailBuffer(cut, upto).length = upto - cut
    BY <2>2, NoTailTyped DEF TailBuffer
  <2>8. Cut(r)' = cut
    <3>1. Appended(r)' = upto
      BY <1>3, <2>1 DEF Appended, upto, PacketEnd
    <3> QED
      BY <2>2, <2>6, <2>7, <3>1 DEF Cut
  <2>9. \A q \in RangeIds : q # r => Cut(q)' = Cut(q)
    <3>1. \A q \in RangeIds : q # r => tail_buffer'[q] = tail_buffer[q]
      BY <2>1 DEF TypeOK
    <3> QED
      BY <1>3, <3>1 DEF Cut, Appended
  <2>10. Units(from - RangeFirst[r]) /\ RangeFirst[r] .. (from - 1) \subseteq written
    BY <1>1, <2>2, <2>5, Sizes DEF WrittenOk
  <2>11. Units(cut - RangeFirst[r]) \/ cut = RangeLast[r] + 1
    <3>1. CASE cut = upto /\ upto = TotalSize
      BY <1>1, <2>2, <3>1, Sizes DEF upto
    <3>2. CASE cut = WholeUnits(from, upto)
      <4>1. PICK k \in Nat : cut = from + k * IoAlignment
        BY <2>4, <3>2
      <4> DEFINE d == from - RangeFirst[r]
                 e == k * IoAlignment
      <4>2. RangeFirst[r] \in Nat /\ d \in Nat
        BY <1>1, <2>2, <2>10, Sizes DEF Units
      <4>3. e \in Nat
        BY Sizes
      <4>4. Units(e)
        BY <4>3, UnitsAre
      <4>5. Units(d)
        BY <2>10
      <4>6. cut - RangeFirst[r] = d + e
        BY <2>2, <4>1, <4>2, <4>3
      <4> HIDE DEF d, e
      <4>7. Units(d + e)
        BY <4>2, <4>3, <4>4, <4>5, UnitsSum
      <4> QED
        BY <4>6, <4>7
    <3> QED
      BY <2>3, <3>1, <3>2
  <2>12. RangeFirst[r] .. (cut - 1) \subseteq written'
    BY <1>1, <2>1, <2>2, <2>10, Sizes
  <2>13. ResumedBytes \subseteq written' /\ durable' \subseteq written'
    BY <2>1 DEF WrittenOk
  <2>14. ASSUME NEW q \in RangeIds
         PROVE  /\ Units(Cut(q)' - RangeFirst[q]) \/ Cut(q)' = RangeLast[q] + 1
                /\ RangeFirst[q] .. (Cut(q)' - 1) \subseteq written'
    <3>1. CASE q = r
      BY <2>8, <2>11, <2>12, <3>1
    <3>2. CASE q # r
      BY <2>1, <2>9, <3>2 DEF WrittenOk
    <3> QED
      BY <3>1, <3>2
  <2> QED
    BY <2>1, <2>13, <2>14 DEF WrittenOk
<1> QED
  BY <1>3, <1>4, <1>5

\* The tail of a range that is complete ends its unit or the file: it needs no padding.
LEMMA TailWritten ==
  ASSUME AlignedRanges, TypeOK, Flow, WrittenOk, pc # "publish", pc' = "finish",
         NEW r \in RangeIds, persisted_offset[r] = RangeLast[r] + 1, FlushTail(r),
         persisted_offset' = persisted_offset
  PROVE  WrittenOk' /\ written \subseteq written' /\ durable' = durable
<1>1. /\ Appended(r) = persisted_offset[r] /\ Cut(r) \in Int /\ Cut(r) <= Appended(r)
      /\ tail_buffer[r].length = 0 => Cut(r) = Appended(r)
      /\ tail_buffer[r].length > 0 =>
           tail_buffer[r].offset = Cut(r) /\ TailEnd(tail_buffer[r]) = Appended(r)
      /\ Cut(r) .. (Appended(r) - 1) \subseteq TailBytes(tail_buffer[r])
  BY CutFacts
<1>2. \A q \in RangeIds : Appended(q)' = Appended(q)
  BY DEF Appended
<1>3. CASE tail_buffer[r].length = 0
  <2>1. UNCHANGED <<written, durable, tail_buffer>>
    BY <1>3 DEF FlushTail
  <2>2. \A q \in RangeIds : Cut(q)' = Cut(q)
    BY <1>2, <2>1 DEF Cut
  <2> QED
    BY <2>1, <2>2, WrittenFrame DEF WrittenOk
<1>4. CASE tail_buffer[r].length # 0
  <2> DEFINE t == tail_buffer[r]
             upto == Min2(t.offset + IoAlignment, TotalSize)
             zeros == TailEnd(t) .. (upto - 1)
  <2>1. /\ written' = (written \cup TailBytes(t)) \ zeros /\ durable' = durable \ zeros
        /\ tail_buffer' = [tail_buffer EXCEPT ![r] = NoTail]
    BY <1>4 DEF FlushTail
  <2>2. /\ t.offset \in Nat /\ t.length \in Nat /\ t.length > 0 /\ TailEnd(t) = t.offset + t.length
        /\ RangeFirst[r] \in Nat /\ RangeLast[r] \in Nat
    BY <1>4, TailFields, Sizes
  <2>3. /\ t.offset = Cut(r) /\ TailEnd(t) = RangeLast[r] + 1 /\ t.offset < TailEnd(t)
    BY <1>1, <2>2
  <2>4. Units(t.offset)
    <3>1. Units(Cut(r) - RangeFirst[r])
      BY <2>2, <2>3 DEF WrittenOk
    <3> HIDE DEF t
    <3> QED
      BY <1>1, <2>3, <3>1, RangeUnits
  <2>5. Units(RangeLast[r] + 1) \/ RangeLast[r] + 1 = TotalSize
    BY BlockUnits DEF AlignedRanges
  <2>6. zeros = {}
    <3> HIDE DEF t
    <3>1. upto <= TailEnd(t) /\ upto \in Int /\ TailEnd(t) \in Int
      <4>1. CASE RangeLast[r] + 1 = TotalSize
        BY <2>2, <2>3, <4>1, Sizes DEF Min2
      <4>2. CASE Units(RangeLast[r] + 1)
        <5>1. t.offset + IoAlignment <= RangeLast[r] + 1
          <6>1. RangeLast[r] + 1 \in Nat /\ t.offset \in Nat /\ t.offset < RangeLast[r] + 1
            BY <2>2, <2>3
          <6> QED
            BY <2>4, <4>2, <6>1, UnitsSum
        <5> QED
          BY <2>2, <2>3, <5>1, Sizes DEF Min2
      <4> QED
        BY <2>5, <4>1, <4>2
    <3> HIDE DEF upto
    <3> QED
      BY <3>1
  <2>7. written' = written \cup TailBytes(t) /\ durable' = durable
    BY <2>1, <2>6
  <2>8. tail_buffer'[r] = NoTail /\ \A q \in RangeIds : q # r => tail_buffer'[q] = tail_buffer[q]
    BY <2>1 DEF TypeOK
  <2> HIDE DEF t
  <2>9. Cut(r)' = RangeLast[r] + 1
    BY <1>1, <1>2, <2>2, <2>8, NoTailTyped DEF Cut
  <2>10. \A q \in RangeIds : q # r => Cut(q)' = Cut(q)
    BY <1>2, <2>8 DEF Cut
  <2>11. RangeFirst[r] .. (Cut(r)' - 1) \subseteq written'
    <3>1. RangeFirst[r] .. (Cut(r) - 1) \subseteq written
      BY DEF WrittenOk
    <3>2. Cut(r) .. (Appended(r) - 1) \subseteq TailBytes(t)
      BY <1>1 DEF t
    <3> QED
      BY <1>1, <2>2, <2>7, <2>9, <3>1, <3>2
  <2>12. ASSUME NEW q \in RangeIds
         PROVE  /\ Units(Cut(q)' - RangeFirst[q]) \/ Cut(q)' = RangeLast[q] + 1
                /\ RangeFirst[q] .. (Cut(q)' - 1) \subseteq written'
    <3>1. CASE q = r
      BY <2>9, <2>11, <3>1
    <3>2. CASE q # r
      BY <2>7, <2>10, <3>2 DEF WrittenOk
    <3> QED
      BY <3>1, <3>2
  <2>13. ResumedBytes \subseteq written' /\ durable' \subseteq written'
    BY <2>7 DEF WrittenOk
  <2> QED
    BY <2>7, <2>12, <2>13 DEF WrittenOk
<1> QED
  BY <1>3, <1>4

\* What the bitmap vouches for it vouches for ever.
LEMMA BitmapFrame ==
  ASSUME TypeOK, TypeOK', BitmapOk, FinishedBlocks(bitmap) \subseteq FinishedBlocks(bitmap'),
         \A r \in RangeIds : persisted_offset[r] <= persisted_offset'[r],
         \A b \in FinishedBlocks(bitmap') :
           \/ b \in FinishedBlocks(bitmap)
           \/ \E r \in RangeIds : Covers(RangeFirst[r], persisted_offset'[r], b),
         \A r \in marked_finished' :
           r \in marked_finished \/ RangeBytes(r) \subseteq FinishedBytes(bitmap')
  PROVE  BitmapOk'
<1>1. ASSUME NEW b \in FinishedBlocks(bitmap')
      PROVE  Vouched(b)'
  <2>1. CASE b \in FinishedBlocks(bitmap)
    <3>1. CASE BlockBytes(b) \subseteq ResumedBytes
      BY <3>1 DEF Vouched
    <3>2. ASSUME NEW r \in RangeIds, Covers(RangeFirst[r], persisted_offset[r], b)
          PROVE  Vouched(b)'
      <4>1. b \in Blocks
        BY DEF FinishedBlocks
      <4>2. BlockEnd(b) \in Int
        BY <4>1, BlockInFile
      <4>3. persisted_offset[r] \in Int /\ persisted_offset'[r] \in Int
        BY DEF TypeOK
      <4>4. BlockEnd(b) <= persisted_offset'[r]
        BY <3>2, <4>2, <4>3 DEF Covers
      <4> QED
        BY <3>2, <4>4 DEF Covers, Vouched
    <3> QED
      BY <2>1, <3>1, <3>2 DEF BitmapOk, Vouched
  <2>2. CASE \E r \in RangeIds : Covers(RangeFirst[r], persisted_offset'[r], b)
    BY <2>2 DEF Vouched
  <2> QED
    BY <2>1, <2>2
<1>2. FinishedBytes(bitmap) \subseteq FinishedBytes(bitmap')
  BY DEF FinishedBytes
<1>3. \A r \in marked_finished' : RangeBytes(r) \subseteq FinishedBytes(bitmap')
  BY <1>2 DEF BitmapOk
<1> QED
  BY <1>1, <1>3 DEF BitmapOk

\* A range of whole blocks is in the blocks it covers.
LEMMA WholeRange ==
  ASSUME AlignedRanges, NEW r \in RangeIds, NEW bm,
         \A b \in Blocks : Covers(RangeFirst[r], RangeLast[r] + 1, b) => bm[b] = "finished"
  PROVE  RangeBytes(r) \subseteq FinishedBytes(bm)
<1> SUFFICES ASSUME NEW x \in RangeBytes(r) PROVE x \in FinishedBytes(bm)
  OBVIOUS
<1>1. x \in Bytes /\ x \in Int /\ RangeFirst[r] <= x /\ x < RangeLast[r] + 1
  BY Sizes DEF RangeBytes, Bytes
<1>2. PICK b \in Blocks : x \in BlockBytes(b)
  BY <1>1, ByteHasBlock
<1>3. PICK first \in Blocks : RangeFirst[r] = BlockBegin(first)
  BY DEF AlignedRanges
<1>4. PICK last \in Blocks : RangeLast[r] + 1 = BlockEnd(last)
  BY DEF AlignedRanges
<1>5. \A c \in Blocks : BlockBegin(c) \in Int /\ BlockEnd(c) \in Int /\ c \in Int
  BY BlockInFile, Sizes DEF Bytes
<1>6. BlockBegin(b) <= x /\ x < BlockEnd(b)
  BY <1>2, <1>5 DEF BlockBytes
<1>7. ~(b < first)
  BY <1>1, <1>3, <1>5, <1>6, BlockSequence
<1>8. ~(last < b)
  BY <1>1, <1>4, <1>5, <1>6, BlockSequence
<1>9. BlockBegin(first) <= BlockBegin(b)
  <2>1. CASE b = first
    BY <1>5, <2>1
  <2>2. CASE first < b
    <3>1. BlockEnd(first) <= BlockBegin(b) /\ BlockBegin(first) < BlockEnd(first)
      BY <2>2, BlockSequence, BlockInFile
    <3> QED
      BY <1>5, <3>1
  <2> QED
    BY <1>5, <1>7, <2>1, <2>2
<1>10. BlockEnd(b) <= BlockEnd(last)
  <2>1. CASE b = last
    BY <1>5, <2>1
  <2>2. CASE b < last
    BY <2>2, BlockSequence
  <2> QED
    BY <1>5, <1>8, <2>1, <2>2
<1>11. bm[b] = "finished"
  BY <1>3, <1>4, <1>9, <1>10 DEF Covers
<1> QED
  BY <1>2, <1>11 DEF FinishedBytes, FinishedBlocks

-----------------------------------------------------------------------------
(***************************************************************************)
(* The file and the bitmap, step by step.                                  *)
(***************************************************************************)
LEMMA ThreadWritten ==
  ASSUME AlignedRanges, IInv, WrittenOk, Thread
  PROVE  WrittenOk' /\ written \subseteq written' /\ durable' = durable
<1> USE DEF IInv
<1>1. CASE DequeueData
  <2> DEFINE p == Head(data_queue)
  <2>1. /\ pc = "idle" /\ data_queue # <<>> /\ p.kind = "data"
        /\ UNCHANGED <<persisted_offset, durable>>
    BY <1>1 DEF DequeueData
  <2>2. p \in DataPackets
    <3>1. p \in DataPackets \cup ControlPackets
      BY <2>1 DEF TypeOK
    <3> QED
      BY <2>1, <3>1, ControlFields
  <2>3. CASE p.offset = persisted_offset[p.range]
    <3>1. AppendPacket(p.range, p)
      BY <1>1, <2>3 DEF DequeueData
    <3> QED
      BY <2>1, <2>2, <2>3, <3>1, AppendWritten
  <2>4. CASE p.offset # persisted_offset[p.range]
    <3>1. pc' = "schedule" /\ UNCHANGED <<tail_buffer, written>>
      BY <1>1, <2>4 DEF DequeueData
    <3>2. \A r \in RangeIds : Cut(r)' = Cut(r)
      BY <2>1, <3>1 DEF Cut, Appended
    <3> QED
      BY <2>1, <3>1, <3>2, WrittenFrame DEF WrittenOk
  <2> QED
    BY <2>3, <2>4
<1>2. CASE Publish
  <2>1. /\ pc = "publish" /\ pc' = "drain" /\ UNCHANGED <<packet, tail_buffer, written, durable>>
        /\ persisted_offset' = [persisted_offset EXCEPT ![packet.range] = @ + packet.size]
    BY <1>2 DEF Publish
  <2>2. packet \in DataPackets /\ packet.offset = persisted_offset[packet.range]
    BY <2>1 DEF Flow, HandOk
  <2>3. \A r \in RangeIds : Appended(r)' = Appended(r)
    BY <2>1, <2>2, DataFields DEF Appended, TypeOK, PacketEnd
  <2>4. \A r \in RangeIds : Cut(r)' = Cut(r)
    BY <2>1, <2>3 DEF Cut
  <2> QED
    BY <2>1, <2>4, WrittenFrame DEF WrittenOk
<1>3. CASE Drain
  <2> DEFINE r == packet.range
             next == NextInOrder(r)
  <2>1. pc = "drain" /\ UNCHANGED <<persisted_offset, durable>>
    BY <1>3 DEF Drain
  <2>2. r \in RangeIds
    BY <2>1, DataFields DEF Flow, HandOk
  <2>3. CASE next # {}
    <3>1. PICK p \in next : AppendPacket(r, p)
      BY <1>3, <2>3 DEF Drain
    <3>2. p \in DataPackets /\ p.range = r /\ p.offset = persisted_offset[r]
      BY <2>2 DEF NextInOrder, TypeOK, Flow, HandOk
    <3> HIDE DEF next
    <3> QED
      BY <2>1, <3>1, <3>2, AppendWritten
  <2>4. CASE next = {}
    <3>1. pc' = "schedule" /\ UNCHANGED <<tail_buffer, written>>
      BY <1>3, <2>4 DEF Drain
    <3>2. \A q \in RangeIds : Cut(q)' = Cut(q)
      BY <2>1, <3>1 DEF Cut, Appended
    <3> QED
      BY <2>1, <3>1, <3>2, WrittenFrame DEF WrittenOk
  <2> QED
    BY <2>3, <2>4
<1>4. CASE DequeueComplete
  <2> DEFINE c == Head(data_queue)
             r == c.range
  <2>1. /\ pc = "idle" /\ data_queue # <<>> /\ c.kind = "range_complete" /\ packet' = c
        /\ persisted_offset' = persisted_offset
    BY <1>4 DEF DequeueComplete
  <2>2. c \in ControlPackets /\ r \in RangeIds
    <3>1. c \in DataPackets \cup ControlPackets
      BY <2>1 DEF TypeOK
    <3> QED
      BY <2>1, <3>1, ControlFields, DataFields
  <2>3. persisted_offset[r] = RangeLast[r] + 1
    BY <2>1, <2>2, AtTheEnd
  <2>4. CASE FlushTail(r) /\ pc' = "finish"
    BY <2>1, <2>2, <2>3, <2>4, TailWritten
  <2>5. CASE pc' = "poll" /\ UNCHANGED <<written, durable, tail_buffer>>
    <3>1. \A q \in RangeIds : Cut(q)' = Cut(q)
      BY <2>1, <2>5 DEF Cut, Appended
    <3> QED
      BY <2>5, <3>1, WrittenFrame DEF WrittenOk
  <2> QED
    BY <1>4, <2>1, <2>4, <2>5 DEF DequeueComplete
<1>5. CASE \/ FinishRange \/ DequeueShutdown \/ DequeueTimesOut \/ Schedule \/ PollPendingFlush
           \/ HousekeepFlushes \/ HousekeepSkips \/ WaitPendingFlush
  <2>1. UNCHANGED <<written, durable, rangeVars>> /\ pc # "publish" /\ pc' # "publish"
    BY <1>5 DEF FinishRange, DequeueShutdown, DequeueTimesOut, Schedule, PollPendingFlush,
       HousekeepFlushes, HousekeepSkips, HousekeepWith, WaitPendingFlush
  <2>2. \A q \in RangeIds : Cut(q)' = Cut(q)
    BY <2>1 DEF Cut, Appended, rangeVars
  <2> QED
    BY <2>1, <2>2, WrittenFrame DEF WrittenOk
<1> QED
  BY <1>1, <1>2, <1>3, <1>4, <1>5 DEF Thread

LEMMA ThreadBitmap ==
  ASSUME AlignedRanges, IInv, IInv', BitmapOk, Thread
  PROVE  BitmapOk'
<1> USE DEF IInv
<1>1. CASE DequeueData \/ Drain \/ DequeueComplete
  <2>1. FinishedBlocks(bitmap') = FinishedBlocks(bitmap)
    BY <1>1, DequeueDataTyped, DrainTyped, DequeueCompleteTyped
  <2>2. UNCHANGED <<persisted_offset, marked_finished>>
    BY <1>1 DEF DequeueData, Drain, DequeueComplete
  <2> QED
    BY <2>1, <2>2, BitmapFrame, FrontiersStay
<1>2. CASE Publish
  <2>1. /\ pc = "publish" /\ marked_finished' = marked_finished
        /\ bitmap' = MarkFinished(bitmap, RangeFirst[packet.range], persisted_offset'[packet.range])
    BY <1>2 DEF Publish
  <2>2. packet.range \in RangeIds
    BY <2>1, DataFields DEF Flow, HandOk
  <2>3. /\ FinishedBlocks(bitmap) \subseteq FinishedBlocks(bitmap')
        /\ \A q \in RangeIds : persisted_offset[q] <= persisted_offset'[q]
    BY <1>2, PublishTyped
  <2>4. \A b \in FinishedBlocks(bitmap') :
          \/ b \in FinishedBlocks(bitmap)
          \/ \E r \in RangeIds : Covers(RangeFirst[r], persisted_offset'[r], b)
    BY <2>1, <2>2, MarkFacts DEF TypeOK
  <2> QED
    BY <2>1, <2>3, <2>4, BitmapFrame
<1>3. CASE FinishRange
  <2> DEFINE r == packet.range
  <2>1. /\ pc = "finish" /\ marked_finished' = marked_finished \cup {r}
        /\ persisted_offset' = persisted_offset
        /\ bitmap' = MarkFinished(bitmap, RangeFirst[r], persisted_offset[r])
    BY <1>3 DEF FinishRange, rangeVars
  <2>2. r \in RangeIds /\ persisted_offset[r] = RangeLast[r] + 1
    BY <2>1, ControlFields DEF Flow, HandOk, CompletionOk, Completing
  <2>3. FinishedBlocks(bitmap) \subseteq FinishedBlocks(bitmap')
    BY <1>3, FinishRangeTyped
  <2>4. \A b \in FinishedBlocks(bitmap') :
          \/ b \in FinishedBlocks(bitmap)
          \/ \E q \in RangeIds : Covers(RangeFirst[q], persisted_offset'[q], b)
    BY <2>1, <2>2, MarkFacts DEF TypeOK
  <2>5. \A b \in Blocks : Covers(RangeFirst[r], RangeLast[r] + 1, b) => bitmap'[b] = "finished"
    BY <2>1, <2>2 DEF MarkFinished
  <2>6. RangeBytes(r) \subseteq FinishedBytes(bitmap')
    BY <2>2, <2>5, WholeRange
  <2> QED
    BY <2>1, <2>3, <2>4, <2>6, BitmapFrame, FrontiersStay
<1>4. CASE \/ DequeueShutdown \/ DequeueTimesOut \/ Schedule \/ PollPendingFlush
           \/ HousekeepFlushes \/ HousekeepSkips \/ WaitPendingFlush
  <2>1. UNCHANGED <<bitmap, persisted_offset, marked_finished>>
    BY <1>4 DEF DequeueShutdown, DequeueTimesOut, Schedule, PollPendingFlush,
       HousekeepFlushes, HousekeepSkips, HousekeepWith, WaitPendingFlush, rangeVars
  <2> QED
    BY <2>1, BitmapFrame, FrontiersStay
<1> QED
  BY <1>1, <1>2, <1>3, <1>4 DEF Thread

\* The other steps leave the ranges alone; a flush makes durable what is written.
LEMMA OthersAligned ==
  ASSUME IInv, IInv', AlignedIInv, Network \/ FlushTask \/ UNCHANGED vars
  PROVE  /\ AlignedIInv' /\ written' = written
         /\ durable' = durable \/ (FlushFile /\ durable' = written)
<1>1. UNCHANGED <<pc, packet, persisted_offset, tail_buffer, bitmap, marked_finished, written>>
  BY DEF Network, EnqueueData, EnqueueComplete, RequestEnds, StopThread, FlushTask, FlushFile,
         ReadVdl, BuildCrcSamples, SaveMetadata, TaskUnchanged, rangeVars, vars
<1>2. durable' = durable \/ (FlushFile /\ durable' = written)
  BY DEF Network, EnqueueData, EnqueueComplete, RequestEnds, StopThread, FlushTask, FlushFile,
         ReadVdl, BuildCrcSamples, SaveMetadata, vars
<1>3. \A q \in RangeIds : Cut(q)' = Cut(q)
  BY <1>1 DEF Cut, Appended
<1>4. WrittenOk'
  BY <1>1, <1>2, <1>3, WrittenFrame DEF AlignedIInv, WrittenOk
<1>5. BitmapOk'
  BY <1>1, BitmapFrame, FrontiersStay DEF IInv, AlignedIInv
<1> QED
  BY <1>1, <1>2, <1>4, <1>5 DEF AlignedIInv

LEMMA InitAligned ==
  ASSUME Init
  PROVE  AlignedIInv
<1>1. /\ pc = "idle" /\ persisted_offset = RangeFirst /\ written = ResumedBytes
      /\ durable = ResumedBytes /\ marked_finished = {} /\ bitmap = ResumedBitmap
      /\ \A r \in RangeIds : tail_buffer[r] = NoTail
  BY DEF Init
<1>2. \A r \in RangeIds : Cut(r) = RangeFirst[r]
  BY <1>1, NoTailTyped, Sizes DEF Cut, Appended
<1>3. Units(0)
  BY UnitsAre, Sizes
<1>4. \A r \in RangeIds : Units(Cut(r) - RangeFirst[r])
  <2>1. \A r \in RangeIds : Cut(r) - RangeFirst[r] = 0
    BY <1>2, Sizes
  <2> QED
    BY <1>3, <2>1
<1>5. \A r \in RangeIds : RangeFirst[r] .. (Cut(r) - 1) = {}
  BY <1>2, Sizes
<1>6. WrittenOk
  BY <1>1, <1>4, <1>5 DEF WrittenOk
<1>7. BitmapOk
  BY <1>1 DEF BitmapOk, Vouched, FinishedBlocks, ResumedBitmap
<1> QED
  BY <1>6, <1>7 DEF AlignedIInv

-----------------------------------------------------------------------------
(***************************************************************************)
(* The theorems where ranges are made of whole blocks.                     *)
(***************************************************************************)
LEMMA AlignedStep ==
  ASSUME AlignedRanges, IInv, IInv', AlignedIInv, [Next]_vars
  PROVE  /\ AlignedIInv' /\ written \subseteq written'
         /\ durable' = durable \/ (FlushFile /\ durable' = written)
<1>1. CASE Thread
  BY <1>1, ThreadWritten, ThreadBitmap DEF AlignedIInv
<1>2. CASE Network \/ FlushTask \/ UNCHANGED vars
  BY <1>2, OthersAligned
<1> QED
  BY <1>1, <1>2 DEF Next

\* Up to its cut every range is in the file, nothing is durable that was not written, and
\* the bitmap vouches for what was resumed and what the frontiers passed, not for more.
THEOREM FileInvariant ==
  ASSUME AlignedRanges
  PROVE  Spec => [](IInv /\ AlignedIInv)
<1>1. Init => AlignedIInv
  BY InitAligned
<1>2. IInv /\ IInv' /\ AlignedIInv /\ [Next]_vars => AlignedIInv'
  BY AlignedStep
<1> QED
  BY <1>1, <1>2, PersistenceInvariant, PTL DEF Spec

\* A byte of a finished block is in the file or in a tail buffer, nowhere else.
THEOREM FinishedBytesHeld ==
  ASSUME AlignedRanges
  PROVE  Spec => []FinishedBytesAreHeld
<1>1. IInv /\ AlignedIInv => FinishedBytesAreHeld
  <2> SUFFICES ASSUME IInv, AlignedIInv, NEW b \in FinishedBlocks(bitmap), NEW x \in BlockBytes(b)
               PROVE  \/ x \in written
                      \/ \E r \in RangeIds : x \in TailBytes(tail_buffer[r])
    BY DEF FinishedBytesAreHeld, FinishedBytes
  <2>1. CASE BlockBytes(b) \subseteq ResumedBytes
    BY <2>1 DEF AlignedIInv, WrittenOk
  <2>2. ASSUME NEW r \in RangeIds, Covers(RangeFirst[r], persisted_offset[r], b)
        PROVE  x \in written \/ x \in TailBytes(tail_buffer[r])
    <3>1. /\ BlockBegin(b) \in Int /\ BlockEnd(b) \in Int /\ x \in Int
          /\ BlockBegin(b) <= x /\ x < BlockEnd(b)
      BY BlockInFile, Sizes DEF FinishedBlocks, BlockBytes, Bytes
    <3>2. /\ Appended(r) \in Int /\ persisted_offset[r] <= Appended(r) /\ Cut(r) \in Int
          /\ Cut(r) .. (Appended(r) - 1) \subseteq TailBytes(tail_buffer[r])
      BY CutFacts DEF IInv
    <3>3. persisted_offset[r] \in Int /\ RangeFirst[r] \in Int
      BY Sizes DEF IInv, TypeOK
    <3>4. RangeFirst[r] <= x /\ x <= Appended(r) - 1
      BY <2>2, <3>1, <3>2, <3>3 DEF Covers
    <3>5. RangeFirst[r] .. (Cut(r) - 1) \subseteq written
      BY DEF AlignedIInv, WrittenOk
    <3>6. CASE x < Cut(r)
      <4>1. x \in RangeFirst[r] .. (Cut(r) - 1)
        BY <3>1, <3>2, <3>3, <3>4, <3>6
      <4> QED
        BY <3>5, <4>1
    <3>7. CASE x >= Cut(r)
      <4>1. x \in Cut(r) .. (Appended(r) - 1)
        BY <3>1, <3>2, <3>4, <3>7
      <4> QED
        BY <3>2, <4>1
    <3> QED
      BY <3>1, <3>2, <3>6, <3>7
  <2> QED
    BY <2>1, <2>2 DEF AlignedIInv, BitmapOk, Vouched
<1> QED
  BY <1>1, FileInvariant, PTL

\* handle_range_complete announces a range only when the network delivered all of it, it
\* is in the file, its tail without padding that reaches a neighbour, and its blocks are
\* finished.
THEOREM FinishedRangesCorrect ==
  ASSUME AlignedRanges
  PROVE  Spec => []FinishedRangesComplete
<1>1. IInv /\ AlignedIInv => FinishedRangesComplete
  <2> SUFFICES ASSUME IInv, AlignedIInv, NEW r \in marked_finished
               PROVE  /\ persisted_offset[r] = RangeLast[r] + 1
                      /\ RangeBytes(r) \subseteq written
                      /\ RangeBytes(r) \subseteq FinishedBytes(bitmap)
    BY DEF FinishedRangesComplete
  <2>1. r \in RangeIds
    BY DEF IInv, TypeOK
  <2>2. tail_buffer[r].length = 0 /\ persisted_offset[r] = RangeLast[r] + 1
    BY <2>1 DEF IInv, Flow, CompletionOk, Completing
  <2>3. /\ Appended(r) \in Int /\ Appended(r) <= RangeLast[r] + 1
        /\ persisted_offset[r] <= Appended(r) /\ Cut(r) = Appended(r)
    BY <2>1, <2>2, CutFacts DEF IInv
  <2>4. Cut(r) = RangeLast[r] + 1
    BY <2>1, <2>2, <2>3, Sizes
  <2>5. RangeFirst[r] .. (Cut(r) - 1) \subseteq written
    BY <2>1 DEF AlignedIInv, WrittenOk
  <2>6. RangeBytes(r) = RangeFirst[r] .. (Cut(r) - 1)
    BY <2>1, <2>4, Sizes DEF RangeBytes
  <2> QED
    BY <2>2, <2>5, <2>6 DEF AlignedIInv, BitmapOk
<1> QED
  BY <1>1, FileInvariant, PTL

-----------------------------------------------------------------------------
(***************************************************************************)
(* The theorems about what is saved, up to the last whole unit of the file. *)
(***************************************************************************)
\* A whole unit ends where whole units of the file end, or before.
LEMMA UnitBytesEnd ==
  ASSUME AlignedRanges, NEW b \in Blocks, NEW x \in UnitBytes(b)
  PROVE  \E e \in Nat : Units(e) /\ x < e /\ e <= BlockEnd(b)
<1> DEFINE last == AlignDown(TotalSize, IoAlignment)
           k == TotalSize \div IoAlignment
<1>1. IoAlignment \in Nat \ {0} /\ TotalSize \in Nat
  BY Sizes
<1>2. /\ k \in Int /\ k * IoAlignment <= TotalSize /\ TotalSize < k * IoAlignment + IoAlignment
  BY <1>1, DivBounds
<1>3. last = k * IoAlignment
  BY DEF AlignDown
<1>4. x \in BlockBytes(b) /\ x < last
  BY DEF UnitBytes
<1>5. /\ BlockBegin(b) \in Nat /\ BlockEnd(b) \in Nat /\ BlockEnd(b) <= TotalSize
      /\ x \in Int /\ BlockBegin(b) <= x /\ x < BlockEnd(b)
  BY <1>4, BlockInFile, Sizes DEF BlockBytes, Bytes
<1> HIDE DEF k
<1>6. last \in Nat
  BY <1>1, <1>2, <1>3, <1>4, <1>5
<1> HIDE DEF last
<1>7. Units(last)
  BY <1>2, <1>3, <1>6, UnitsAre
<1>8. CASE Units(BlockEnd(b))
  BY <1>5, <1>8
<1>9. CASE BlockEnd(b) = TotalSize
  BY <1>1, <1>2, <1>3, <1>4, <1>6, <1>7, <1>9
<1> QED
  BY <1>8, <1>9, BlockUnits

\* Of a block that a frontier passed, a tail buffer holds less than a unit, the file's last.
LEMMA SnapshotWhole ==
  ASSUME AlignedRanges, IInv, AlignedIInv, NEW b \in FinishedBlocks(SnapshotBitmap)
  PROVE  UnitBytes(b) \subseteq written
<1>1. b \in Blocks /\ UnitBytes(b) \subseteq BlockBytes(b)
  BY DEF FinishedBlocks, UnitBytes
<1>2. ASSUME NEW r \in RangeIds, Covers(RangeFirst[r], persisted_offset[r], b),
             NEW x \in UnitBytes(b)
      PROVE  x \in written
  <2>1. /\ Appended(r) \in Nat /\ Appended(r) <= RangeLast[r] + 1
        /\ persisted_offset[r] <= Appended(r)
        /\ Cut(r) \in Int /\ Appended(r) - Cut(r) < IoAlignment
    BY CutFacts DEF IInv
  <2>2. /\ BlockBegin(b) \in Int /\ BlockEnd(b) \in Nat /\ RangeFirst[r] \in Int
        /\ persisted_offset[r] \in Int /\ RangeLast[r] \in Int /\ IoAlignment \in Nat
    BY <1>1, BlockInFile, Sizes DEF Bytes, IInv, TypeOK
  <2>3. x \in Int /\ BlockBegin(b) <= x /\ x < BlockEnd(b)
    BY <1>1, <2>2 DEF BlockBytes
  <2>4. PICK e \in Nat : Units(e) /\ x < e /\ e <= BlockEnd(b)
    BY <1>1, UnitBytesEnd
  <2>5. Units(Cut(r) - RangeFirst[r]) \/ Cut(r) = RangeLast[r] + 1
    BY DEF AlignedIInv, WrittenOk
  <2>6. BlockEnd(b) <= Appended(r) /\ RangeFirst[r] <= BlockBegin(b)
    BY <1>2, <2>1, <2>2 DEF Covers
  <2>7. e <= Cut(r)
    <3>1. CASE Cut(r) = RangeLast[r] + 1
      BY <2>1, <2>2, <2>4, <2>6, <3>1
    <3>2. CASE Units(Cut(r) - RangeFirst[r])
      <4>1. Cut(r) \in Nat /\ Units(Cut(r))
        BY <2>1, <3>2, RangeUnits
      <4>2. Cut(r) < e => Cut(r) + IoAlignment <= e
        BY <2>4, <4>1, UnitsSum
      <4> QED
        BY <2>1, <2>2, <2>4, <2>6, <4>1, <4>2
    <3> QED
      BY <2>5, <3>1, <3>2
  <2>8. x \in RangeFirst[r] .. (Cut(r) - 1)
    BY <2>1, <2>2, <2>3, <2>4, <2>6, <2>7
  <2> QED
    BY <2>8 DEF AlignedIInv, WrittenOk
<1>3. CASE BlockBytes(b) \subseteq ResumedBytes
  BY <1>1, <1>3 DEF AlignedIInv, WrittenOk
<1>4. Vouched(b)
  <2>1. CASE \E r \in RangeIds : Covers(RangeFirst[r], persisted_offset[r], b)
    BY <2>1 DEF Vouched
  <2>2. CASE ~(\E r \in RangeIds : Covers(RangeFirst[r], persisted_offset[r], b))
    <3>1. b \in FinishedBlocks(bitmap)
      BY <2>2 DEF FinishedBlocks, SnapshotBitmap
    <3> QED
      BY <3>1 DEF AlignedIInv, BitmapOk
  <2> QED
    BY <2>1, <2>2
<1> QED
  BY <1>2, <1>3, <1>4 DEF Vouched

LEMMA InitSafe ==
  ASSUME Init
  PROVE  SafeOk
<1>1. /\ metadata = ResumedMetadata /\ durable = ResumedBytes /\ pending_flush = "none"
  BY DEF Init
<1>2. WholeIn(metadata, durable)
  BY <1>1 DEF WholeIn, UnitBytes, ResumedMetadata, FinishedBlocks, ResumedBitmap
<1>3. SamplesWhole(metadata)
  BY <1>1 DEF SamplesWhole, UnitBytes, ResumedMetadata
<1> QED
  BY <1>1, <1>2, <1>3 DEF SafeOk, FlushRunning

LEMMA SafeStep ==
  ASSUME AlignedRanges, IInv, IInv', AlignedIInv, SafeOk, [Next]_vars
  PROVE  SafeOk'
<1>1. /\ written \subseteq written' /\ durable \subseteq written
      /\ durable' = durable \/ (FlushFile /\ durable' = written)
  BY AlignedStep DEF AlignedIInv, WrittenOk
<1>2. durable \subseteq durable'
  BY <1>1
<1>3. ASSUME UNCHANGED <<metadata, snapshot, pending_flush>>
      PROVE  SafeOk'
  BY <1>1, <1>2, <1>3 DEF SafeOk, WholeIn, SamplesWhole, FlushRunning
<1>4. ASSUME SubmitFlush, metadata' = metadata
      PROVE  SafeOk'
  <2>1. snapshot'.bitmap = SnapshotBitmap /\ pending_flush' = "flushing"
    BY <1>4 DEF SubmitFlush, BuildMetadataState
  <2>2. WholeIn(snapshot', written')
    BY <1>1, <2>1, SnapshotWhole DEF WholeIn
  <2> QED
    BY <1>2, <1>4, <2>1, <2>2 DEF SafeOk, WholeIn, SamplesWhole, FlushRunning
<1>5. ASSUME TakeFlushResult, UNCHANGED <<metadata, snapshot>>
      PROVE  SafeOk'
  <2>1. pending_flush' = pending_flush \/ pending_flush' = "none"
    BY <1>5 DEF TakeFlushResult
  <2> QED
    BY <1>1, <1>2, <1>5, <2>1 DEF SafeOk, WholeIn, SamplesWhole, FlushRunning
<1>6. CASE Thread
  <2>1. CASE \/ DequeueData \/ Publish \/ Drain \/ DequeueComplete \/ FinishRange
             \/ DequeueShutdown \/ DequeueTimesOut
    BY <1>3, <2>1 DEF DequeueData, Publish, Drain, DequeueComplete, FinishRange, DequeueShutdown,
       DequeueTimesOut, flushVars
  <2>2. CASE Schedule \/ HousekeepFlushes \/ HousekeepSkips
    BY <1>3, <1>4, <2>2 DEF Schedule, HousekeepFlushes, HousekeepSkips, HousekeepWith, SkipFlush,
       flushVars
  <2>3. CASE PollPendingFlush \/ WaitPendingFlush
    BY <1>5, <2>3 DEF PollPendingFlush, WaitPendingFlush
  <2> QED
    BY <1>6, <2>1, <2>2, <2>3 DEF Thread
<1>7. CASE Network \/ UNCHANGED vars
  BY <1>3, <1>7 DEF Network, EnqueueData, EnqueueComplete, RequestEnds, StopThread, flushVars, vars
<1>8. CASE FlushFile
  <2>1. /\ pending_flush = "flushing" /\ UNCHANGED <<snapshot, metadata, written>>
        /\ \/ durable' = written /\ pending_flush' = "reading_vdl"
           \/ pending_flush' = "failed"
    BY <1>8 DEF FlushFile, TaskFails, TaskUnchanged
  <2> QED
    BY <1>2, <2>1 DEF SafeOk, WholeIn, SamplesWhole, FlushRunning
<1>9. CASE ReadVdl
  <2>1. /\ pending_flush = "reading_vdl" /\ pending_flush' = "sampling"
        /\ snapshot' = [snapshot EXCEPT !.vdl = ContiguousFinished(bitmap)]
        /\ UNCHANGED <<written, durable, metadata>>
    BY <1>9 DEF ReadVdl, SnapshotWithVdl, TaskUnchanged
  <2>2. snapshot'.bitmap = snapshot.bitmap
    BY <2>1 DEF IInv, TypeOK, Metadata
  <2> QED
    BY <2>1, <2>2 DEF SafeOk, WholeIn, SamplesWhole, FlushRunning
<1>10. CASE BuildCrcSamples
  <2> DEFINE beyond == {b \in FinishedBlocks(snapshot.bitmap) : BlockBegin(b) >= snapshot.vdl}
             SamplesOf(read) == {[block |-> b, content |-> BlockBytes(b) \cap written] : b \in read}
  <2>1. /\ pending_flush = "sampling" /\ pending_flush' = "saving"
        /\ UNCHANGED <<durable, metadata, written>>
    BY <1>10 DEF BuildCrcSamples, TaskUnchanged
  <2>2. PICK read \in SUBSET beyond : snapshot' = [snapshot EXCEPT !.samples = SamplesOf(read)]
    BY <1>10 DEF BuildCrcSamples
  <2>3. WholeIn(snapshot, written)
    BY <2>1 DEF SafeOk, FlushRunning
  <2>4. \A s \in SamplesOf(read) : UnitBytes(s.block) \subseteq s.content
    <3>1. \A b \in read : UnitBytes(b) \subseteq BlockBytes(b) \cap written
      BY <2>2, <2>3 DEF WholeIn, UnitBytes
    <3> QED
      BY <3>1
  <2> HIDE DEF SamplesOf, beyond
  <2>5. snapshot'.bitmap = snapshot.bitmap /\ snapshot'.samples = SamplesOf(read)
    BY <2>2 DEF IInv, TypeOK, Metadata
  <2> QED
    BY <2>1, <2>4, <2>5 DEF SafeOk, WholeIn, SamplesWhole, FlushRunning
<1>11. CASE SaveMetadata
  <2>1. /\ pending_flush = "saving" /\ pending_flush' \in {"done", "failed"}
        /\ metadata' \in {snapshot, metadata, NoMetadata}
    BY <1>11 DEF SaveMetadata, TaskFails
  <2>2. /\ FinishedBlocks(NoMetadata.bitmap) = {} /\ NoMetadata.samples = {}
    BY DEF NoMetadata, EmptyBitmap, FinishedBlocks
  <2> QED
    BY <1>2, <2>1, <2>2 DEF SafeOk, WholeIn, SamplesWhole, FlushRunning
<1> QED
  BY <1>6, <1>7, <1>8, <1>9, <1>10, <1>11 DEF Next, FlushTask

\* Up to the last whole unit of the file: a flush makes durable what the snapshot it works on
\* vouches for, whatever the thread writes in the meantime, and every sample is of content
\* that is all there.
THEOREM SafetyInvariant ==
  ASSUME AlignedRanges
  PROVE  Spec => []SafeOk
<1>1. Init => SafeOk
  BY InitSafe
<1>2. IInv /\ AlignedIInv /\ IInv' /\ SafeOk /\ [Next]_vars => SafeOk'
  BY SafeStep
<1>3. Spec => [](IInv /\ AlignedIInv)
  BY FileInvariant
<1> QED
  BY <1>1, <1>2, <1>3, PTL DEF Spec

\* For every file, also one that ends inside a unit of io_alignment: a crash at any moment
\* leaves metadata whose trusted blocks are on stable storage, and whose samples were complete,
\* up to the last whole unit of the file.
THEOREM RecoveryCorrect ==
  ASSUME AlignedRanges
  PROVE  Spec => []RecoverySafe
<1>1. SafeOk => RecoverySafe
  BY DEF SafeOk, WholeIn, SamplesWhole, RecoverySafe
<1> QED
  BY <1>1, SafetyInvariant, PTL

=============================================================================
