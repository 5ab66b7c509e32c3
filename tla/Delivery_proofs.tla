--------------------------- MODULE Delivery_proofs ---------------------------
(***************************************************************************)
(* Proofs about what Transfer delivers: the memory accounting is exact,    *)
(* the packets of a range reach the persistence thread in order and        *)
(* without a gap, and a download that ends without an error is complete.   *)
(***************************************************************************)
EXTENDS Transfer_proofs, Sums_proofs

-----------------------------------------------------------------------------
(***************************************************************************)
(* The inductive invariant.                                                *)
(***************************************************************************)
\* A buffer that holds something ends where its handle has got to; one that does not
\* is not accounted for.
BufferOk(r) ==
  IF r.buffer.size = 0 THEN r.buffer.accounted = 0
                       ELSE r.buffer.offset + r.buffer.size = r.next_offset
BuffersOk ==
  /\ \A h \in Handles : BufferOk(handle[h])
  /\ pc = "append" => handle[current].buffer.size = 0

\* The persistence thread has a packet in its hands or it waits or is gone; it is gone
\* when it has failed, or when it has seen shutdown: then nothing is queued any more.
ConsumerOk ==
  /\ packet = NoPacket <=> consumer \in {"waiting", "ended"}
  /\ error => consumer = "ended"
  /\ packet = Shutdown \/ (consumer = "ended" /\ ~error) =>
       pc \in {"join", "ended"} /\ Len(data_queue) <= 1
  /\ pc \in {"join", "ended"} => uncounted = 0

PacketsOk ==
  \A i \in DOMAIN Line : Line[i].kind = "data" => Line[i].offset + Line[i].size <= WindowBytes

\* The ranges that were dispatched so far.
Armed(r) == r <= RangeCount - pending_ranges

\* A range that was not dispatched is nowhere; one that was has one handle at most.
RangesOk ==
  /\ persisted \in [Ranges -> Offsets]
  /\ completed \subseteq Ranges
  /\ \A h \in Handles : handle[h].range # NoRange =>
       /\ Armed(handle[h].range)
       /\ \A g \in Handles : handle[g].range = handle[h].range => g = h
  /\ \A i \in DOMAIN Line : Line[i].kind \in {"data", "range_complete"} => Armed(Line[i].range)
  /\ \A r \in Ranges : ~Armed(r) => persisted[r] = 0

\* As long as nothing failed, a dispatched range is with its handle or completed, or its
\* completion is on the way; and what is completed is persisted.
OnItsWay(r) ==
  \/ \E h \in Handles : handle[h].range = r
  \/ \E i \in DOMAIN Line : Line[i] = RangeComplete(r)
  \/ r \in completed
CompletionOk ==
  /\ ~error => \A r \in completed : persisted[r] = WindowBytes
  /\ ~error /\ ~failure => \A r \in Ranges : Armed(r) => OnItsWay(r)

\* The network phase ends without failure when nothing is left to do; the run does so
\* when the persistence thread has not failed either.
EndOk ==
  /\ pc \in {"drain", "join", "ended"} /\ ~failure => NetworkDone
  /\ pc = "ended" => consumer = "ended" /\ (error => failure)
  /\ failure \in BOOLEAN /\ error \in BOOLEAN

DeliveryIInv ==
  /\ TransferIInv
  /\ BuffersOk
  /\ ConsumerOk
  /\ PacketsOk
  /\ RangesOk
  /\ CompletionOk
  /\ EndOk
  /\ seen \in Nat
  /\ MemoryAccounted
  /\ DeliveredInOrder

-----------------------------------------------------------------------------
(***************************************************************************)
(* The accounting and the order in terms of the handles, the line and what *)
(* is persisted; so that one lemma serves a state and its successor.       *)
(***************************************************************************)
Packets == QueuePackets \cup {Shutdown}
AccountedWeight == [p \in Packets |-> AccountedOf(p)]
SizeWeight(r) == [p \in Packets |-> SizeIn(p, r)]

Held(hs) == Sum([h \in Handles |-> hs[h].buffer.accounted], Handles)
Carried(l) == Weight(AccountedWeight, l, Len(l))

\* What was sent of range r with the first n packets of the line.
Sent(r, l, ps, n) == ps[r] + Weight(SizeWeight(r), l, n)
LineInOrder(l, ps) ==
  \A r \in Ranges : \A i \in 1 .. Len(l) :
    /\ l[i].kind = "data" /\ l[i].range = r => l[i].offset = Sent(r, l, ps, i - 1)
    /\ l[i] = RangeComplete(r) => Sent(r, l, ps, i - 1) = WindowBytes
HandlesInOrder(l, hs, ps) ==
  \A h \in Handles : hs[h].range \in Ranges =>
    Sent(hs[h].range, l, ps, Len(l)) + hs[h].buffer.size = hs[h].next_offset

LEMMA PacketFacts ==
  ASSUME NEW p \in Packets
  PROVE  /\ p # NoPacket
         /\ p.kind \in {"data", "range_complete", "shutdown"}
         /\ p.kind = "data" => p \in DataPackets
         /\ p.kind = "range_complete" => p.range \in Ranges /\ p = RangeComplete(p.range)
         /\ p.kind = "shutdown" <=> p = Shutdown
<1>1. CASE p \in DataPackets
  BY <1>1 DEF DataPackets, NoPacket, Shutdown
<1>2. CASE \E r \in Ranges : p = RangeComplete(r)
  BY <1>2 DEF RangeComplete, NoPacket, Shutdown
<1>3. CASE p = Shutdown
  BY <1>3 DEF Shutdown, NoPacket
<1> QED
  BY <1>1, <1>2, <1>3 DEF Packets, QueuePackets

LEMMA DataFacts ==
  ASSUME NEW p \in DataPackets
  PROVE  /\ p.kind = "data" /\ p.range \in Ranges /\ p.offset \in 0 .. WindowBytes
         /\ p.size \in Nat \ {0} /\ p.accounted \in Nat
BY Sizes DEF DataPackets, Offsets, Accounted

LEMMA Weights ==
  /\ \A p \in Packets : AccountedWeight[p] \in Nat /\ AccountedWeight[p] = AccountedOf(p)
  /\ \A r, p : p \in Packets => SizeWeight(r)[p] \in Nat /\ SizeWeight(r)[p] = SizeIn(p, r)
  /\ Shutdown \in Packets /\ AccountedOf(Shutdown) = 0 /\ \A r : SizeIn(Shutdown, r) = 0
<1>1. \A p \in Packets : AccountedOf(p) \in Nat /\ \A r : SizeIn(p, r) \in Nat
  BY PacketFacts, DataFacts DEF AccountedOf, SizeIn
<1>2. Shutdown \in Packets /\ Shutdown.kind = "shutdown"
  BY DEF Packets, Shutdown
<1> QED
  BY <1>1, <1>2 DEF AccountedWeight, SizeWeight, AccountedOf, SizeIn

LEMMA SentNat ==
  ASSUME NEW l \in Seq(Packets), NEW n \in 0 .. Len(l), NEW r
  PROVE  /\ Weight(AccountedWeight, l, n) \in Nat
         /\ Weight(SizeWeight(r), l, n) \in Nat
BY WeightNat, Weights

LEMMA HandlesFinite == IsFiniteSet(Handles)
BY FS_Interval, Sizes DEF Handles

LEMMA HeldNat ==
  ASSUME NEW hs \in [Handles -> TransferHandles]
  PROVE  Held(hs) \in Nat
<1>1. \A h \in Handles : hs[h].buffer.accounted \in Nat
  BY Sizes DEF TransferHandles, Buffers, Accounted
<1> QED
  BY <1>1, HandlesFinite, SumNat DEF Held

\* One handle changes.
LEMMA HeldOne ==
  ASSUME NEW hs \in [Handles -> TransferHandles], NEW ks \in [Handles -> TransferHandles],
         NEW h \in Handles, \A g \in Handles \ {h} : ks[g].buffer = hs[g].buffer
  PROVE  Held(ks) = Held(hs) + ks[h].buffer.accounted - hs[h].buffer.accounted
<1> DEFINE f == [g \in Handles |-> hs[g].buffer.accounted]
           e == [g \in Handles |-> ks[g].buffer.accounted]
<1>1. \A g \in Handles : f[g] \in Int /\ e[g] \in Int
  BY Sizes DEF TransferHandles, Buffers, Accounted
<1>2. \A g \in Handles \ {h} : f[g] = e[g]
  OBVIOUS
<1>3. f[h] = hs[h].buffer.accounted /\ e[h] = ks[h].buffer.accounted
  OBVIOUS
<1> HIDE DEF f, e
<1>4. Sum(e, Handles) = Sum(f, Handles) + e[h] - f[h]
  BY <1>1, <1>2, HandlesFinite, SumUpdate
<1> QED
  BY <1>3, <1>4 DEF Held, f, e

LEMMA HeldSame ==
  ASSUME NEW hs, NEW ks, \A g \in Handles : ks[g].buffer = hs[g].buffer
  PROVE  Held(ks) = Held(hs)
BY HandlesFinite, SumSame DEF Held

-----------------------------------------------------------------------------
(***************************************************************************)
(* A line that grows at its end or shrinks at its head.                    *)
(***************************************************************************)
LEMMA CarriedAppend ==
  ASSUME NEW l \in Seq(Packets), NEW p \in Packets
  PROVE  Carried(Append(l, p)) = Carried(l) + AccountedOf(p)
<1>1. Len(Append(l, p)) = Len(l) + 1
  OBVIOUS
<1> QED
  BY <1>1, Weights, WeightAppend DEF Carried

LEMMA CarriedTail ==
  ASSUME NEW l \in Seq(Packets), l # <<>>
  PROVE  Carried(l) = AccountedOf(l[1]) + Carried(Tail(l))
<1>1. Len(Tail(l)) = Len(l) - 1 /\ Len(l) \in Nat \ {0} /\ l[1] \in Packets
  OBVIOUS
<1>2. Len(l) - 1 \in 0 .. Len(l) - 1 /\ (Len(l) - 1) + 1 = Len(l)
  BY <1>1
<1>3. Weight(AccountedWeight, l, (Len(l) - 1) + 1) =
        AccountedWeight[l[1]] + Weight(AccountedWeight, Tail(l), Len(l) - 1)
  BY <1>2, Weights, WeightTail
<1> QED
  BY <1>1, <1>2, <1>3, Weights DEF Carried

\* What is sent next fits.
LEMMA OrderAppend ==
  ASSUME NEW l \in Seq(Packets), NEW ps, LineInOrder(l, ps), NEW p \in Packets,
         p.kind = "data" => p.offset = Sent(p.range, l, ps, Len(l)),
         \A r \in Ranges : p = RangeComplete(r) => Sent(r, l, ps, Len(l)) = WindowBytes
  PROVE  LineInOrder(Append(l, p), ps)
<1> DEFINE m == Append(l, p)
<1>1. /\ Len(m) = Len(l) + 1 /\ Len(l) \in Nat /\ m[Len(l) + 1] = p
      /\ \A i \in 1 .. Len(l) : m[i] = l[i]
  OBVIOUS
<1>2. \A r : \A n \in 0 .. Len(l) : Weight(SizeWeight(r), m, n) = Weight(SizeWeight(r), l, n)
  BY Weights, WeightAppend
<1> HIDE DEF m
<1>3. ASSUME NEW r \in Ranges, NEW i \in 1 .. Len(m)
      PROVE  /\ m[i].kind = "data" /\ m[i].range = r => m[i].offset = Sent(r, m, ps, i - 1)
             /\ m[i] = RangeComplete(r) => Sent(r, m, ps, i - 1) = WindowBytes
  <2>1. i - 1 \in 0 .. Len(l)
    BY <1>1
  <2>2. Sent(r, m, ps, i - 1) = Sent(r, l, ps, i - 1)
    BY <1>2, <2>1 DEF Sent
  <2>3. CASE i = Len(l) + 1
    <3>1. i - 1 = Len(l) /\ m[i] = p
      BY <1>1, <2>3
    <3> QED
      BY <2>2, <3>1
  <2>4. CASE i # Len(l) + 1
    <3>1. i \in 1 .. Len(l) /\ m[i] = l[i]
      BY <1>1, <2>4
    <3> QED
      BY <2>2, <3>1 DEF LineInOrder
  <2> QED
    BY <2>3, <2>4
<1> QED
  BY <1>3 DEF LineInOrder, m

\* What has been sent of a range when p joined the line.
LEMMA SentAppend ==
  ASSUME NEW l \in Seq(Packets), NEW ps, NEW p \in Packets, NEW r, ps[r] \in Int
  PROVE  Sent(r, Append(l, p), ps, Len(Append(l, p))) = Sent(r, l, ps, Len(l)) + SizeIn(p, r)
<1>1. Len(Append(l, p)) = Len(l) + 1 /\ Len(l) \in 0 .. Len(l)
  OBVIOUS
<1>2. Weight(SizeWeight(r), Append(l, p), Len(l) + 1) =
        Weight(SizeWeight(r), l, Len(l)) + SizeIn(p, r)
  BY Weights, WeightAppend
<1>3. Weight(SizeWeight(r), l, Len(l)) \in Int /\ SizeIn(p, r) \in Int
  BY <1>1, SentNat, Weights
<1> QED
  BY <1>1, <1>2, <1>3 DEF Sent

\* Persisting the first packet of the line leaves what was sent as it is.
LEMMA SentTail ==
  ASSUME NEW l \in Seq(Packets), l # <<>>, NEW ps, NEW qs, NEW r, ps[r] \in Int,
         qs[r] = ps[r] + SizeIn(l[1], r), NEW n \in 0 .. Len(l) - 1
  PROVE  Sent(r, Tail(l), qs, n) = Sent(r, l, ps, n + 1)
<1>1. Weight(SizeWeight(r), l, n + 1) = SizeWeight(r)[l[1]] + Weight(SizeWeight(r), Tail(l), n)
  BY Weights, WeightTail
<1> DEFINE m == Tail(l)
<1>2. l[1] \in Packets /\ m \in Seq(Packets) /\ n \in 0 .. Len(m)
  OBVIOUS
<1>3. Weight(SizeWeight(r), m, n) \in Int /\ SizeIn(l[1], r) \in Int
  <2> HIDE DEF m
  <2>1. Weight(SizeWeight(r), m, n) \in Nat
    BY <1>2, SentNat
  <2>2. SizeWeight(r)[l[1]] \in Nat /\ SizeWeight(r)[l[1]] = SizeIn(l[1], r)
    BY <1>2, Weights
  <2> QED
    BY <2>1, <2>2
<1> QED
  BY <1>1, <1>2, <1>3, Weights DEF Sent

LEMMA OrderTail ==
  ASSUME NEW l \in Seq(Packets), l # <<>>, NEW ps, NEW qs, LineInOrder(l, ps),
         \A r \in Ranges : ps[r] \in Int /\ qs[r] = ps[r] + SizeIn(l[1], r)
  PROVE  /\ LineInOrder(Tail(l), qs)
         /\ \A hs : HandlesInOrder(l, hs, ps) => HandlesInOrder(Tail(l), hs, qs)
<1>1. /\ Len(l) \in Nat \ {0} /\ Len(Tail(l)) = Len(l) - 1
      /\ \A i \in 1 .. Len(l) - 1 : Tail(l)[i] = l[i + 1]
  OBVIOUS
<1>2. ASSUME NEW r \in Ranges, NEW n \in 0 .. Len(l) - 1
      PROVE  Sent(r, Tail(l), qs, n) = Sent(r, l, ps, n + 1)
  BY SentTail
<1>3. ASSUME NEW r \in Ranges, NEW i \in 1 .. Len(Tail(l))
      PROVE  /\ Tail(l)[i].kind = "data" /\ Tail(l)[i].range = r =>
                  Tail(l)[i].offset = Sent(r, Tail(l), qs, i - 1)
             /\ Tail(l)[i] = RangeComplete(r) => Sent(r, Tail(l), qs, i - 1) = WindowBytes
  <2>1. /\ i + 1 \in 1 .. Len(l) /\ Tail(l)[i] = l[i + 1] /\ i - 1 \in 0 .. Len(l) - 1
        /\ (i - 1) + 1 = (i + 1) - 1
    BY <1>1
  <2>2. Sent(r, Tail(l), qs, i - 1) = Sent(r, l, ps, (i + 1) - 1)
    BY <1>2, <2>1
  <2> QED
    BY <2>1, <2>2 DEF LineInOrder
<1>4. ASSUME NEW hs, HandlesInOrder(l, hs, ps), NEW h \in Handles, hs[h].range \in Ranges
      PROVE  Sent(hs[h].range, Tail(l), qs, Len(Tail(l))) + hs[h].buffer.size = hs[h].next_offset
  <2>1. Len(l) - 1 \in 0 .. Len(l) - 1 /\ (Len(l) - 1) + 1 = Len(l)
    BY <1>1
  <2>2. Sent(hs[h].range, Tail(l), qs, Len(Tail(l))) = Sent(hs[h].range, l, ps, Len(l))
    BY <1>1, <1>2, <1>4, <2>1
  <2> QED
    BY <1>4, <2>2 DEF HandlesInOrder
<1> QED
  BY <1>3, <1>4 DEF LineInOrder, HandlesInOrder

\* shutdown steps to the head of the line and weighs nothing.
LEMMA OrderShutdown ==
  ASSUME NEW l \in Seq(Packets), l # <<>>, l[1] = Shutdown, NEW ps, LineInOrder(Tail(l), ps),
         \A r \in Ranges : ps[r] \in Int
  PROVE  /\ LineInOrder(l, ps)
         /\ \A hs : HandlesInOrder(Tail(l), hs, ps) => HandlesInOrder(l, hs, ps)
         /\ Carried(l) = Carried(Tail(l))
<1>1. /\ Len(l) \in Nat \ {0} /\ Len(Tail(l)) = Len(l) - 1 /\ Tail(l) \in Seq(Packets)
      /\ \A i \in 1 .. Len(l) - 1 : Tail(l)[i] = l[i + 1]
  OBVIOUS
<1>2. ASSUME NEW r \in Ranges, NEW n \in 0 .. Len(l) - 1
      PROVE  Sent(r, Tail(l), ps, n) = Sent(r, l, ps, n + 1)
  <2>1. ps[r] = ps[r] + SizeIn(l[1], r)
    BY Weights
  <2> QED
    BY <2>1, SentTail
<1>3. ASSUME NEW r \in Ranges, NEW i \in 1 .. Len(l)
      PROVE  /\ l[i].kind = "data" /\ l[i].range = r => l[i].offset = Sent(r, l, ps, i - 1)
             /\ l[i] = RangeComplete(r) => Sent(r, l, ps, i - 1) = WindowBytes
  <2>1. CASE i = 1
    <3>1. l[i].kind = "shutdown" /\ RangeComplete(r).kind = "range_complete"
      BY <2>1 DEF Shutdown, RangeComplete
    <3> QED
      BY <3>1
  <2>2. CASE i # 1
    <3>1. /\ i - 1 \in 1 .. Len(Tail(l)) /\ Tail(l)[i - 1] = l[i]
          /\ (i - 1) - 1 \in 0 .. Len(l) - 1 /\ ((i - 1) - 1) + 1 = i - 1
      BY <1>1, <2>2
    <3>2. Sent(r, Tail(l), ps, (i - 1) - 1) = Sent(r, l, ps, i - 1)
      BY <1>2, <3>1
    <3> QED
      BY <3>1, <3>2 DEF LineInOrder
  <2> QED
    BY <2>1, <2>2
<1>4. ASSUME NEW hs, HandlesInOrder(Tail(l), hs, ps), NEW h \in Handles, hs[h].range \in Ranges
      PROVE  Sent(hs[h].range, l, ps, Len(l)) + hs[h].buffer.size = hs[h].next_offset
  <2>1. Len(l) - 1 \in 0 .. Len(l) - 1 /\ (Len(l) - 1) + 1 = Len(l)
    BY <1>1
  <2>2. Sent(hs[h].range, Tail(l), ps, Len(Tail(l))) = Sent(hs[h].range, l, ps, Len(l))
    BY <1>1, <1>2, <1>4, <2>1
  <2> QED
    BY <1>4, <2>2 DEF HandlesInOrder
<1>5. Carried(l) = Carried(Tail(l))
  <2>1. Carried(Tail(l)) \in Int
    <3> DEFINE m == Tail(l)
    <3>1. m \in Seq(Packets) /\ Len(m) \in 0 .. Len(m)
      BY <1>1
    <3> HIDE DEF m
    <3>2. Weight(AccountedWeight, m, Len(m)) \in Nat
      BY <3>1, SentNat
    <3> QED
      BY <3>2 DEF Carried, m
  <2> QED
    BY <2>1, CarriedTail, Weights
<1> QED
  BY <1>3, <1>4, <1>5 DEF LineInOrder, HandlesInOrder

-----------------------------------------------------------------------------
(***************************************************************************)
(* The line: the packet in hand, then the queue.                           *)
(***************************************************************************)
LEMMA LineOf ==
  ASSUME NEW p \in Packets \cup {NoPacket}, NEW q \in Seq(Packets),
         NEW l, l = (IF p = NoPacket THEN <<>> ELSE <<p>>) \o q
  PROVE  /\ l \in Seq(Packets)
         /\ p = NoPacket => l = q
         /\ p # NoPacket => l # <<>> /\ l[1] = p /\ Tail(l) = q
<1>1. CASE p = NoPacket
  <2>1. l = q
    BY <1>1
  <2> QED
    BY <1>1, <2>1
<1>2. CASE p # NoPacket
  <2>1. l = <<p>> \o q /\ <<p>> \in Seq(Packets) /\ p \in Packets
    BY <1>2
  <2>2. /\ l \in Seq(Packets) /\ Len(l) = Len(q) + 1 /\ l[1] = p /\ l # <<>>
        /\ \A i \in 1 .. Len(q) : l[i + 1] = q[i]
    BY <2>1
  <2>3. Tail(l) = q
    BY <2>1, <2>2
  <2> QED
    BY <1>2, <2>2, <2>3
<1> QED
  BY <1>1, <1>2

LEMMA LineFacts ==
  ASSUME QueueOk
  PROVE  /\ Line \in Seq(Packets)
         /\ packet = NoPacket => Line = data_queue
         /\ packet # NoPacket => Line # <<>> /\ Line[1] = packet /\ Tail(Line) = data_queue
<1>1. packet \in Packets \cup {NoPacket} /\ data_queue \in Seq(Packets)
  BY DEF QueueOk, Packets
<1> QED
  BY <1>1, LineOf DEF Line, InHand

LEMMA LineFactsNext ==
  ASSUME QueueOk'
  PROVE  /\ Line' \in Seq(Packets)
         /\ packet' = NoPacket => Line' = data_queue'
         /\ packet' # NoPacket => Line' # <<>> /\ Line'[1] = packet' /\ Tail(Line') = data_queue'
<1>1. packet' \in Packets \cup {NoPacket} /\ data_queue' \in Seq(Packets)
  BY DEF QueueOk, Packets
<1> QED
  BY <1>1, LineOf DEF Line, InHand

LEMMA LineSame ==
  ASSUME UNCHANGED <<packet, data_queue>>
  PROVE  Line' = Line
BY DEF Line, InHand

LEMMA LineAppend ==
  ASSUME QueueOk, NEW p \in QueuePackets, Enqueue(p)
  PROVE  Line' = Append(Line, p)
<1>1. packet' = packet /\ data_queue' = Append(data_queue, p)
  BY DEF Enqueue, consumerVars
<1>2. packet \in Packets \cup {NoPacket} /\ data_queue \in Seq(Packets) /\ p \in Packets
  BY DEF QueueOk, Packets
<1>3. CASE packet = NoPacket
  BY <1>1, <1>2, <1>3 DEF Line, InHand
<1>4. CASE packet # NoPacket
  <2>1. <<packet>> \o Append(data_queue, p) = Append(<<packet>> \o data_queue, p)
    BY <1>2, <1>4
  <2> QED
    BY <1>1, <1>4, <2>1 DEF Line, InHand
<1> QED
  BY <1>3, <1>4

-----------------------------------------------------------------------------
(***************************************************************************)
(* What the two properties say, in terms of the definitions above.         *)
(***************************************************************************)
MemoryOk == memory = Held(handle) + Carried(Line)
OrderOk == ~error => LineInOrder(Line, persisted) /\ HandlesInOrder(Line, handle, persisted)

LEMMA MemoryMeaning == QueueOk => (MemoryAccounted <=> MemoryOk)
<1> SUFFICES ASSUME QueueOk PROVE MemoryAccounted <=> MemoryOk
  OBVIOUS
<1>1. Line \in Seq(Packets)
  BY LineFacts
<1>2. DOMAIN Line = 1 .. Len(Line) /\ \A i \in DOMAIN Line : Line[i] \in Packets
  BY <1>1
<1>3. [i \in DOMAIN Line |-> AccountedOf(Line[i])] =
        [i \in 1 .. Len(Line) |-> AccountedWeight[Line[i]]]
  BY <1>2, Weights
<1> QED
  BY <1>2, <1>3 DEF MemoryAccounted, MemoryOk, BufferedMemory, Held, Carried, Weight

LEMMA AheadMeaning ==
  ASSUME QueueOk, NEW r, NEW i \in 1 .. Len(Line) + 1
  PROVE  Ahead(r, i) = Sent(r, Line, persisted, i - 1)
<1>1. Line \in Seq(Packets)
  BY LineFacts
<1>2. \A j \in 1 .. i - 1 : Line[j] \in Packets
  BY <1>1
<1>3. [j \in 1 .. i - 1 |-> SizeIn(Line[j], r)] = [j \in 1 .. i - 1 |-> SizeWeight(r)[Line[j]]]
  BY <1>2, Weights
<1> QED
  BY <1>3 DEF Ahead, Sent, Weight

\* That a buffer starts where its range has got to is a matter of BufferOk.
LEMMA OrderMeaning == QueueOk /\ HandlesOk /\ BuffersOk /\ persisted \in [Ranges -> Offsets] =>
                        (DeliveredInOrder <=> OrderOk)
<1> SUFFICES ASSUME QueueOk, HandlesOk, BuffersOk, persisted \in [Ranges -> Offsets]
             PROVE  DeliveredInOrder <=> OrderOk
  OBVIOUS
<1>1. Line \in Seq(Packets) /\ DOMAIN Line = 1 .. Len(Line) /\ Len(Line) \in Nat
  BY LineFacts
<1>2. /\ \A r : \A i \in 1 .. Len(Line) : Ahead(r, i) = Sent(r, Line, persisted, i - 1)
      /\ \A r : Ahead(r, Len(Line) + 1) = Sent(r, Line, persisted, Len(Line))
  <2>1. \A r : \A i \in 1 .. Len(Line) + 1 : Ahead(r, i) = Sent(r, Line, persisted, i - 1)
    BY AheadMeaning
  <2>2. /\ Len(Line) + 1 \in 1 .. Len(Line) + 1 /\ (Len(Line) + 1) - 1 = Len(Line)
        /\ \A i \in 1 .. Len(Line) : i \in 1 .. Len(Line) + 1
    BY <1>1
  <2> QED
    BY <2>1, <2>2
<1>3. \A r \in Ranges : Sent(r, Line, persisted, Len(Line)) \in Int
  <2> TAKE r \in Ranges
  <2>1. Weight(SizeWeight(r), Line, Len(Line)) \in Nat /\ persisted[r] \in Int
    BY <1>1, SentNat, Sizes DEF Offsets
  <2> QED
    BY <2>1 DEF Sent
<1>4. \A h \in Handles :
        /\ handle[h].buffer.offset \in Int /\ handle[h].buffer.size \in Nat
        /\ handle[h].next_offset \in Int
        /\ handle[h].buffer.size > 0 =>
             handle[h].buffer.offset + handle[h].buffer.size = handle[h].next_offset
  BY Sizes DEF HandlesOk, TransferHandles, Buffers, Offsets, BuffersOk, BufferOk
<1>5. ASSUME NEW r \in Ranges, NEW h \in Handles
      PROVE  (/\ Ahead(r, Len(Line) + 1) + handle[h].buffer.size = handle[h].next_offset
              /\ handle[h].buffer.size > 0 => handle[h].buffer.offset = Ahead(r, Len(Line) + 1))
             <=> Sent(r, Line, persisted, Len(Line)) + handle[h].buffer.size
                   = handle[h].next_offset
  BY <1>2, <1>3, <1>4
<1>6. (\A r \in Ranges : \A h \in Handles : handle[h].range = r =>
         /\ Ahead(r, Len(Line) + 1) + handle[h].buffer.size = handle[h].next_offset
         /\ handle[h].buffer.size > 0 => handle[h].buffer.offset = Ahead(r, Len(Line) + 1))
      <=> HandlesInOrder(Line, handle, persisted)
  BY <1>5 DEF HandlesInOrder
<1>7. (\A r \in Ranges : \A i \in DOMAIN Line :
         /\ IsNext(r, i, Ahead(r, i))
         /\ Line[i] = RangeComplete(r) => Ahead(r, i) = WindowBytes)
      <=> LineInOrder(Line, persisted)
  BY <1>1, <1>2 DEF LineInOrder, IsNext
<1> QED
  BY <1>6, <1>7 DEF DeliveredInOrder, OrderOk

\* The invariant as the proofs use it.
Rest == BuffersOk /\ ConsumerOk /\ PacketsOk /\ RangesOk /\ CompletionOk /\ EndOk /\ seen \in Nat
Working == TransferIInv /\ Rest /\ MemoryOk /\ OrderOk

LEMMA WorkingMeaning == Working <=> DeliveryIInv
<1>1. TransferIInv /\ Rest => QueueOk /\ HandlesOk /\ BuffersOk /\ persisted \in [Ranges -> Offsets]
  BY DEF TransferIInv, Rest, RangesOk
<1> QED
  BY <1>1, MemoryMeaning, OrderMeaning DEF Working, DeliveryIInv, Rest

-----------------------------------------------------------------------------
(***************************************************************************)
(* The steps that touch neither the line nor what the buffers hold.        *)
(***************************************************************************)
SameData(h) ==
  /\ handle'[h].range = handle[h].range
  /\ handle'[h].next_offset = handle[h].next_offset
  /\ handle'[h].buffer = handle[h].buffer

\* Nothing of what the order and the accounting speak of changes.
LEMMA DataSame ==
  ASSUME Working, Line' = Line, UNCHANGED <<persisted, memory>>, error => error',
         \A h \in Handles : SameData(h)
  PROVE  MemoryOk' /\ OrderOk'
<1>1. Held(handle') = Held(handle)
  BY HeldSame DEF SameData
<1>2. HandlesInOrder(Line, handle, persisted) => HandlesInOrder(Line, handle', persisted)
  BY DEF HandlesInOrder, SameData
<1> QED
  BY <1>1, <1>2 DEF Working, MemoryOk, OrderOk

\* The same for the ranges, when no new one is dispatched.
LEMMA RangesSame ==
  ASSUME Working, Line' = Line, UNCHANGED <<persisted, completed, pending_ranges>>,
         error => error', failure => failure',
         \A h \in Handles : handle'[h].range = handle[h].range
  PROVE  RangesOk' /\ CompletionOk' /\ PacketsOk' /\ (NetworkDone => NetworkDone')
<1>1. RangesOk'
  BY DEF Working, Rest, RangesOk, Armed
<1>2. CompletionOk'
  BY DEF Working, Rest, CompletionOk, OnItsWay, Armed
<1>3. PacketsOk'
  BY DEF Working, Rest, PacketsOk
<1>4. NetworkDone => NetworkDone'
  BY DEF NetworkDone
<1> QED
  BY <1>1, <1>2, <1>3, <1>4

LEMMA QuietKeeps ==
  ASSUME Working, TransferIInv', LocalUnchanged, uncounted = 0,
         UNCHANGED <<memory, pending_ranges>>, seen' \in Nat, \A h \in Handles : SameData(h),
         failure' \in BOOLEAN, failure => failure', pc' # "append",
         pc \in {"join", "ended"} => pc' \in {"join", "ended"},
         pc' \in {"drain", "join", "ended"} /\ ~failure' => NetworkDone,
         pc' = "ended" => consumer = "ended" /\ (error => failure')
  PROVE  Working'
<1>1. UNCHANGED <<data_queue, queued_packets, uncounted, consumer, packet, persisted, completed,
                  error>> /\ Line' = Line
  BY LineSame DEF LocalUnchanged, consumerVars
<1>2. BuffersOk'
  BY DEF Working, Rest, BuffersOk, BufferOk, SameData
<1>3. ConsumerOk'
  BY <1>1 DEF Working, Rest, ConsumerOk
<1>4. RangesOk' /\ CompletionOk' /\ PacketsOk' /\ (NetworkDone => NetworkDone')
  BY <1>1, RangesSame DEF SameData
<1>5. EndOk'
  BY <1>1, <1>4 DEF Working, Rest, EndOk
<1>6. MemoryOk' /\ OrderOk'
  BY <1>1, DataSame
<1> QED
  BY <1>2, <1>3, <1>4, <1>5, <1>6 DEF Working, Rest

LEMMA SumsTyped ==
  ASSUME Working
  PROVE  /\ Held(handle) \in Nat /\ Carried(Line) \in Nat
         /\ memory = Held(handle) + Carried(Line) /\ memory \in Nat
         /\ \A r \in Ranges : \A n \in 0 .. Len(Line) : Sent(r, Line, persisted, n) \in Nat
         /\ \A r \in Ranges : Sent(r, Line, persisted, Len(Line)) \in Nat
<1>1. handle \in [Handles -> TransferHandles] /\ Line \in Seq(Packets) /\ Len(Line) \in 0 .. Len(Line)
  BY LineFacts DEF Working, TransferIInv, HandlesOk
<1>2. Held(handle) \in Nat
  BY <1>1, HeldNat
<1>3. Carried(Line) \in Nat
  BY <1>1, SentNat DEF Carried
<1>4. ASSUME NEW r \in Ranges, NEW n \in 0 .. Len(Line)
      PROVE  Sent(r, Line, persisted, n) \in Nat
  <2>1. Weight(SizeWeight(r), Line, n) \in Nat
    BY <1>1, SentNat
  <2>2. persisted[r] \in Nat
    BY Sizes DEF Working, Rest, RangesOk, Offsets
  <2> QED
    BY <2>1, <2>2 DEF Sent
<1> QED
  BY <1>1, <1>2, <1>3, <1>4 DEF Working, MemoryOk

LEMMA MemoryNat == Working => memory \in Nat
BY SumsTyped

\* Of the orchestrator, the steps that do not look at the handles.
LEMMA StepsKeep ==
  ASSUME Working, TransferIInv',
         \/ CheckPersistence \/ AllArmed \/ BeginResume \/ ResumeEnds \/ PerformEnds
         \/ PerformFails \/ MessagesRead \/ RequestFails \/ DrainGivesUp \/ StopPersistence
         \/ JoinPersistence
  PROVE  Working'
<1>1. /\ LocalUnchanged /\ uncounted = 0 /\ UNCHANGED <<memory, pending_ranges, handle>>
      /\ seen' \in {seen, memory, 0} /\ failure' \in {failure, failure \/ error, TRUE}
  BY DEF At, CheckPersistence, AllArmed, BeginResume, ResumeEnds, PerformEnds, PerformFails,
         MessagesRead, RequestFails, DrainGivesUp, StopPersistence, JoinPersistence
<1>2. seen' \in Nat
  BY <1>1, MemoryNat DEF Working, Rest
<1>3. failure' \in BOOLEAN /\ (failure => failure')
  BY <1>1 DEF Working, Rest, EndOk
<1>4. /\ pc' # "append"
      /\ pc \in {"join", "ended"} => pc' \in {"join", "ended"}
      /\ pc' = "ended" => consumer = "ended" /\ (error => failure')
  BY DEF At, CheckPersistence, AllArmed, BeginResume, ResumeEnds, PerformEnds, PerformFails,
         MessagesRead, RequestFails, DrainGivesUp, StopPersistence, JoinPersistence
<1>5. ASSUME pc' \in {"drain", "join", "ended"}, ~failure'
      PROVE  NetworkDone
  <2>1. pc \in {"drain", "join", "ended"} \/ failure' \/ NetworkDone
    BY <1>5 DEF At, CheckPersistence, AllArmed, BeginResume, ResumeEnds, PerformEnds, PerformFails,
           MessagesRead, RequestFails, DrainGivesUp, StopPersistence, JoinPersistence
  <2> QED
    BY <1>3, <1>5, <2>1 DEF Working, Rest, EndOk
<1>6. \A h \in Handles : SameData(h)
  BY <1>1 DEF SameData
<1> QED
  BY <1>1, <1>2, <1>3, <1>4, <1>5, <1>6, QuietKeeps

\* Those that change pauses, results and the like.
LEMMA MarksKeep ==
  ASSUME Working, TransferIInv', LocalUnchanged, uncounted = 0,
         UNCHANGED <<memory, pending_ranges, seen, failure>>, \A h \in Handles : SameData(h),
         \/ pc' \in {"resume", "perform", "finalize"} /\ pc \notin {"join", "ended"}
         \/ pc' = pc /\ pc = "resuming"
  PROVE  Working'
BY QuietKeeps DEF Working, Rest, EndOk

LEMMA PausedData ==
  ASSUME HandlesOk, NEW h \in Handles, NEW why \in {"memory", "queue", "boundary"}
  PROVE  \A g \in Handles : /\ Paused(h, why)[g].range = handle[g].range
                            /\ Paused(h, why)[g].next_offset = handle[g].next_offset
                            /\ Paused(h, why)[g].buffer = handle[g].buffer
<1>1. handle[h] \in TransferHandles
  BY DEF HandlesOk
<1>2. LET r == [handle[h] EXCEPT !.pauses = @ \cup {why}, !.curl_paused = TRUE]
      IN  r.range = handle[h].range /\ r.next_offset = handle[h].next_offset
            /\ r.buffer = handle[h].buffer
  BY <1>1 DEF TransferHandles
<1>3. /\ \A i \in Handles \ {h} : Paused(h, why)[i] = handle[i]
      /\ Paused(h, why)[h] = [handle[h] EXCEPT !.pauses = @ \cup {why}, !.curl_paused = TRUE]
  BY PausedOk
<1> QED
  BY <1>2, <1>3

LEMMA BackpressureKeeps ==
  ASSUME Working, TransferIInv', ApplyMemoryBackpressure
  PROVE  Working'
<1>1. \A h \in Handles : SameData(h)
  <2>1. CASE UNCHANGED handle
    BY <2>1 DEF SameData
  <2>2. CASE \E fastest \in SUBSET Handles :
               handle' = [h \in Handles |->
                 IF h \in fastest THEN Paused(h, "memory")[h] ELSE handle[h]]
    BY <2>2, PausedData DEF SameData, Working, TransferIInv
  <2> QED
    BY <2>1, <2>2 DEF ApplyMemoryBackpressure
<1> QED
  BY <1>1, MarksKeep DEF ApplyMemoryBackpressure, At

\* One handle changes, and not in what it holds.
LEMMA OneMarked ==
  ASSUME HandlesOk, NEW h \in Handles, NEW r, handle' = [handle EXCEPT ![h] = r],
         r.range = handle[h].range, r.next_offset = handle[h].next_offset,
         r.buffer = handle[h].buffer
  PROVE  \A g \in Handles : SameData(g)
BY DEF HandlesOk, SameData

LEMMA ResumeKeeps ==
  ASSUME Working, TransferIInv', ResumeTransfer
  PROVE  Working'
<1> DEFINE old == handle[current].pauses
           new == IF handle[current].in_multi THEN Remaining(old) ELSE old
           go == Continues(old, new)
           r == [handle[current] EXCEPT !.pauses = new, !.curl_paused = @ /\ ~go]
<1>1. current \in Handles /\ HandlesOk
  BY Sizes DEF ResumeTransfer, Working, TransferIInv, NetworkTyped, Handles
<1>2. handle' = [handle EXCEPT ![current] = r]
  BY DEF ResumeTransfer
<1>3. handle[current] \in TransferHandles
  BY <1>1 DEF HandlesOk
<1> HIDE DEF new, go
<1>4. /\ r.range = handle[current].range /\ r.next_offset = handle[current].next_offset
      /\ r.buffer = handle[current].buffer
  BY <1>3 DEF TransferHandles
<1> HIDE DEF r
<1>5. \A g \in Handles : SameData(g)
  BY <1>1, <1>2, <1>4, OneMarked
<1> QED
  BY <1>5, MarksKeep DEF ResumeTransfer, At

LEMMA ReadMessageKeeps ==
  ASSUME Working, TransferIInv', NEW h \in Handles, ReadMessage(h)
  PROVE  Working'
<1> DEFINE r == [handle[h] EXCEPT !.in_multi = FALSE]
<1>1. HandlesOk /\ handle[h] \in TransferHandles
  BY DEF Working, TransferIInv, HandlesOk
<1>2. handle' = [handle EXCEPT ![h] = r]
  BY DEF ReadMessage
<1>3. r.range = handle[h].range /\ r.next_offset = handle[h].next_offset /\ r.buffer = handle[h].buffer
  BY <1>1 DEF TransferHandles
<1> HIDE DEF r
<1>4. \A g \in Handles : SameData(g)
  BY <1>1, <1>2, <1>3, OneMarked
<1> QED
  BY <1>4, MarksKeep DEF ReadMessage, At

LEMMA EndedKeeps ==
  ASSUME Working, TransferIInv', NEW h \in Handles, NEW result, Receiving(h), Ended(h, result)
  PROVE  Working'
<1> DEFINE r == [handle[h] EXCEPT !.result = result]
<1>1. HandlesOk /\ handle[h] \in TransferHandles
  BY DEF Working, TransferIInv, HandlesOk
<1>2. handle' = [handle EXCEPT ![h] = r]
  BY DEF Ended
<1>3. r.range = handle[h].range /\ r.next_offset = handle[h].next_offset /\ r.buffer = handle[h].buffer
  BY <1>1 DEF TransferHandles
<1> HIDE DEF r
<1>4. \A g \in Handles : SameData(g)
  BY <1>1, <1>2, <1>3, OneMarked
<1> QED
  BY <1>4, MarksKeep DEF Ended, CallbackOnly, Receiving, At

LEMMA PauseForQueueKeeps ==
  ASSUME Working, TransferIInv', NEW h \in Handles, Receiving(h), PauseForQueue(h)
  PROVE  Working'
<1>1. HandlesOk /\ "queue" \in {"memory", "queue", "boundary"}
  BY DEF Working, TransferIInv
<1>2. /\ Paused(h, "queue") \in [Handles -> TransferHandles]
      /\ \A g \in Handles : /\ Paused(h, "queue")[g].range = handle[g].range
                            /\ Paused(h, "queue")[g].next_offset = handle[g].next_offset
                            /\ Paused(h, "queue")[g].buffer = handle[g].buffer
  BY <1>1, PausedData, PausedOk
<1> DEFINE r == [Paused(h, "queue")[h] EXCEPT !.pauses = @ \ {"boundary"}]
<1>3. handle' = [Paused(h, "queue") EXCEPT ![h] = r]
  BY DEF PauseForQueue
<1>4. /\ r.range = handle[h].range /\ r.next_offset = handle[h].next_offset
      /\ r.buffer = handle[h].buffer
  BY <1>2 DEF TransferHandles
<1> HIDE DEF r
<1>5. \A g \in Handles : SameData(g)
  BY <1>2, <1>3, <1>4 DEF SameData
<1> QED
  BY <1>5, MarksKeep DEF PauseForQueue, CallbackOnly, Receiving, At

LEMMA BoundaryKeeps ==
  ASSUME Working, TransferIInv', NEW h \in Handles, Receiving(h),
         handle' = Paused(h, "boundary"), CallbackOnly, LocalUnchanged
  PROVE  Working'
<1>1. HandlesOk /\ "boundary" \in {"memory", "queue", "boundary"}
  BY DEF Working, TransferIInv
<1>2. \A g \in Handles : SameData(g)
  BY <1>1, PausedData DEF SameData
<1> QED
  BY <1>2, MarksKeep DEF CallbackOnly, Receiving, At

-----------------------------------------------------------------------------
(***************************************************************************)
(* A chunk is buffered.                                                    *)
(***************************************************************************)
LEMMA TakenKeeps ==
  ASSUME Working, TransferIInv', NEW h \in Handles, NEW n \in Chunks,
         NEW buffered, buffered = handle[h].buffer.size, handle[h].range # NoRange,
         uncounted = 0, pc \in {"perform", "append"}, AppendOrPause(h, buffered, n)
  PROVE  Working'
<1> DEFINE before == IF buffered = 0 THEN 0 ELSE handle[h].buffer.accounted
           projected == buffered + n + Overhead
<1>1. /\ HandlesOk /\ handle[h] \in TransferHandles /\ HandleOk(handle[h])
      /\ BufferOk(handle[h]) /\ n \in Nat \ {0}
  BY Sizes DEF Working, Rest, TransferIInv, HandlesOk, BuffersOk, Chunks
<1>2. /\ LocalUnchanged /\ pc' = "perform" /\ UNCHANGED <<seen, pending_ranges, failure>>
  BY DEF AppendOrPause
<1>3. CASE handle' = Paused(h, "memory") /\ UNCHANGED memory
  <2>1. "memory" \in {"memory", "queue", "boundary"}
    OBVIOUS
  <2>2. \A g \in Handles : SameData(g)
    BY <1>1, <1>3, <2>1, PausedData DEF SameData
  <2> QED
    BY <1>2, <1>3, <2>2, MarksKeep
<1>4. CASE /\ memory' = memory + projected - before
           /\ handle' = [handle EXCEPT
                ![h].buffer = [offset |-> BufferOffset(h, buffered), size |-> buffered + n,
                               accounted |-> projected],
                ![h].next_offset = @ + n]
  <2>1. /\ handle'[h].range = handle[h].range
        /\ handle'[h].next_offset = handle[h].next_offset + n
        /\ handle'[h].buffer.size = handle[h].buffer.size + n
        /\ handle'[h].buffer.accounted = projected
        /\ handle'[h].buffer.offset = BufferOffset(h, buffered)
        /\ \A g \in Handles \ {h} : handle'[g] = handle[g]
    BY <1>1, <1>4 DEF HandlesOk, TransferHandles
  <2>2. UNCHANGED <<data_queue, uncounted, consumer, packet, persisted, completed, error>>
        /\ Line' = Line
    BY <1>2, LineSame DEF LocalUnchanged, consumerVars
  <2>3. /\ handle[h].buffer.size \in Nat /\ handle[h].buffer.accounted \in Nat
        /\ handle[h].buffer.offset \in Nat /\ handle[h].next_offset \in Nat
        /\ before = handle[h].buffer.accounted
    BY <1>1, Sizes DEF TransferHandles, Buffers, Offsets, Accounted, BufferOk
  <2>4. BuffersOk'
    <3>1. BufferOk(handle'[h])
      BY <1>1, <2>1, <2>3 DEF BufferOk, BufferOffset
    <3> QED
      BY <1>2, <2>1, <3>1 DEF Working, Rest, BuffersOk
  <2>5. ConsumerOk' /\ EndOk'
    BY <1>2, <2>2 DEF Working, Rest, ConsumerOk, EndOk
  <2>6. RangesOk' /\ CompletionOk' /\ PacketsOk'
    <3>1. \A g \in Handles : handle'[g].range = handle[g].range
      BY <2>1
    <3> QED
      BY <1>2, <2>2, <3>1, RangesSame
  <2>7. MemoryOk'
    <3>1. Held(handle') = Held(handle) + projected - before
      BY <2>1, <2>3, HeldOne DEF Working, TransferIInv, HandlesOk
    <3>2. Held(handle) \in Nat /\ Carried(Line) \in Nat /\ memory = Held(handle) + Carried(Line)
      BY SumsTyped
    <3>3. projected \in Nat /\ before \in Nat
      BY <1>1, <2>3, Sizes
    <3>4. MemoryOk' <=> memory' = Held(handle') + Carried(Line)
      BY <2>2 DEF MemoryOk
    <3> HIDE DEF before, projected
    <3> QED
      BY <1>4, <3>1, <3>2, <3>3, <3>4
  <2>8. OrderOk'
    <3>1. ASSUME HandlesInOrder(Line, handle, persisted)
          PROVE  HandlesInOrder(Line, handle', persisted)
      <4>1. ASSUME handle[h].range \in Ranges
            PROVE  Sent(handle[h].range, Line, persisted, Len(Line)) + (handle[h].buffer.size + n)
                     = handle[h].next_offset + n
        <5> DEFINE s == Sent(handle[h].range, Line, persisted, Len(Line))
        <5>1. s + handle[h].buffer.size = handle[h].next_offset
          BY <3>1, <4>1 DEF HandlesInOrder
        <5>2. s \in Nat
          BY <4>1, SumsTyped
        <5> HIDE DEF s
        <5>3. s + (handle[h].buffer.size + n) = handle[h].next_offset + n
          BY <1>1, <2>3, <5>1, <5>2
        <5> QED
          BY <5>3 DEF s
      <4> QED
        BY <2>1, <3>1, <4>1 DEF HandlesInOrder
    <3> QED
      BY <2>2, <3>1 DEF Working, OrderOk
  <2> QED
    BY <1>2, <2>4, <2>5, <2>6, <2>7, <2>8 DEF Working, Rest
<1> QED
  BY <1>3, <1>4 DEF AppendOrPause

-----------------------------------------------------------------------------
(***************************************************************************)
(* A range is dispatched.                                                  *)
(***************************************************************************)
LEMMA NothingSent ==
  ASSUME NEW l \in Seq(Packets), NEW r, \A i \in DOMAIN l : SizeIn(l[i], r) = 0
  PROVE  Weight(SizeWeight(r), l, Len(l)) = 0
<1> DEFINE f == [i \in 1 .. Len(l) |-> SizeWeight(r)[l[i]]]
<1>1. \A i \in 1 .. Len(l) : f[i] = 0
  <2>1. \A i \in 1 .. Len(l) : l[i] \in Packets /\ SizeIn(l[i], r) = 0
    OBVIOUS
  <2> QED
    BY <2>1, Weights
<1>2. IsFiniteSet(1 .. Len(l))
  BY FS_Interval
<1> HIDE DEF f
<1>3. Sum(f, 1 .. Len(l)) = 0
  BY <1>1, <1>2, SumZero
<1> QED
  BY <1>3 DEF Weight, f

LEMMA ArmKeeps ==
  ASSUME Working, TransferIInv', NEW h \in Handles, ArmTransfer(h)
  PROVE  Working'
<1> DEFINE Dispatched(r) == r <= RangeCount - pending_ranges'
<1>0. PICK k : k = RangeCount - pending_ranges + 1
  OBVIOUS
<1> DEFINE new == [IdleHandle EXCEPT !.range = k, !.in_multi = TRUE]
<1>1. /\ LocalUnchanged /\ uncounted = 0 /\ pc = "dispatch" /\ pc' = pc
      /\ handle[h].range = NoRange /\ pending_ranges > 0
      /\ handle' = [handle EXCEPT ![h] = new]
      /\ pending_ranges' = pending_ranges - 1 /\ UNCHANGED <<seen, failure, memory>>
  BY <1>0 DEF ArmTransfer, At, Idle
<1>2. /\ new.range = k /\ new.next_offset = 0 /\ new.buffer.size = 0
      /\ new.buffer.accounted = 0
  BY DEF IdleHandle, EmptyBuffer
<1>3. /\ HandlesOk /\ handle[h].buffer.size = 0 /\ handle[h].buffer.accounted = 0
  BY <1>1, Sizes DEF Working, Rest, TransferIInv, HandlesOk, HandleOk, TransferHandles, Buffers,
     BuffersOk, BufferOk
<1>4. /\ handle'[h] = new /\ \A g \in Handles \ {h} : handle'[g] = handle[g]
  BY <1>1, <1>3 DEF HandlesOk
<1>5. /\ k \in Ranges /\ k # NoRange /\ pending_ranges \in Nat
      /\ ~Armed(k) /\ \A r \in Ranges : Dispatched(r) <=> Armed(r) \/ r = k
  <2>1. pending_ranges \in 1 .. RangeCount
    BY <1>1, Sizes DEF Working, TransferIInv, NetworkTyped
  <2> QED
    BY <1>0, <1>1, <2>1, Sizes DEF Ranges, NoRange, Armed
<1> HIDE DEF new, Dispatched
<1>6. UNCHANGED <<data_queue, uncounted, consumer, packet, persisted, completed, error>>
      /\ Line' = Line
  BY <1>1, LineSame DEF LocalUnchanged, consumerVars
<1>7. Line \in Seq(Packets) /\ \A i \in DOMAIN Line : Line[i] \in Packets
  BY LineFacts DEF Working, TransferIInv
<1>8. BuffersOk'
  BY <1>1, <1>2, <1>4 DEF Working, Rest, BuffersOk, BufferOk
<1>9. ConsumerOk' /\ PacketsOk' /\ EndOk'
  BY <1>1, <1>6 DEF Working, Rest, ConsumerOk, PacketsOk, EndOk
<1>10. RangesOk'
  <2>1. \A g \in Handles \ {h} : handle[g].range # NoRange => handle[g].range \in Ranges /\ handle[g].range # k
    BY <1>3, <1>5 DEF HandlesOk, TransferHandles, Working, Rest, RangesOk
  <2>2. \A i \in DOMAIN Line : Line[i].kind \in {"data", "range_complete"} => Line[i].range \in Ranges
    BY <1>7, PacketFacts, DataFacts
  <2>3. \A g \in Handles : handle'[g].range # NoRange =>
          /\ Dispatched(handle'[g].range)
          /\ \A e \in Handles : handle'[e].range = handle'[g].range => e = g
    <3> TAKE g \in Handles
    <3>1. CASE g = h
      BY <1>2, <1>4, <1>5, <2>1, <3>1
    <3>2. CASE g # h
      BY <1>2, <1>4, <1>5, <2>1, <3>2 DEF Working, Rest, RangesOk
    <3> QED
      BY <3>1, <3>2
  <2>4. \A r \in Ranges : ~Dispatched(r) => persisted'[r] = 0
    BY <1>5, <1>6 DEF Working, Rest, RangesOk
  <2>5. \A i \in DOMAIN Line' : Line'[i].kind \in {"data", "range_complete"} => Dispatched(Line'[i].range)
    BY <1>5, <1>6, <2>2 DEF Working, Rest, RangesOk
  <2>6. persisted' \in [Ranges -> Offsets] /\ completed' \subseteq Ranges
    BY <1>6 DEF Working, Rest, RangesOk
  <2> QED
    BY <2>3, <2>4, <2>5, <2>6 DEF RangesOk, Armed, Dispatched
<1>11. CompletionOk'
  <2>1. ASSUME NEW r \in Ranges, OnItsWay(r)
        PROVE  OnItsWay(r)'
    <3>1. CASE \E g \in Handles : handle[g].range = r
      <4>1. r # NoRange
        BY Sizes DEF Ranges, NoRange
      <4> QED
        BY <1>1, <1>4, <3>1, <4>1 DEF OnItsWay
    <3> QED
      BY <1>6, <2>1, <3>1 DEF OnItsWay
  <2>2. OnItsWay(k)'
    BY <1>2, <1>4 DEF OnItsWay
  <2>3. ~error' /\ ~failure' => \A r \in Ranges : Dispatched(r) => OnItsWay(r)'
    BY <1>1, <1>5, <1>6, <2>1, <2>2 DEF Working, Rest, CompletionOk
  <2>4. ~error' => \A r \in completed' : persisted'[r] = WindowBytes
    BY <1>6 DEF Working, Rest, CompletionOk
  <2> QED
    BY <2>3, <2>4 DEF CompletionOk, Armed, Dispatched
<1>12. MemoryOk'
  <2>1. Held(handle') = Held(handle) + 0 - 0
    BY <1>2, <1>3, <1>4, HeldOne DEF HandlesOk, TransferIInv
  <2>2. Held(handle') = Held(handle)
    BY <2>1, SumsTyped
  <2> QED
    BY <1>1, <1>6, <2>2 DEF Working, MemoryOk
<1>13. OrderOk'
  <2>1. Sent(k, Line, persisted, Len(Line)) = 0
    <3>1. \A i \in DOMAIN Line : SizeIn(Line[i], k) = 0
      BY <1>5 DEF SizeIn, Working, Rest, RangesOk
    <3>2. Weight(SizeWeight(k), Line, Len(Line)) = 0 /\ persisted[k] = 0
      BY <1>5, <1>7, <3>1, NothingSent DEF Working, Rest, RangesOk
    <3> QED
      BY <3>2 DEF Sent
  <2>2. HandlesInOrder(Line, handle, persisted) => HandlesInOrder(Line, handle', persisted)
    BY <1>2, <1>4, <2>1 DEF HandlesInOrder
  <2> QED
    BY <1>6, <2>2 DEF Working, OrderOk
<1> QED
  BY <1>1, <1>8, <1>9, <1>10, <1>11, <1>12, <1>13 DEF Working, Rest

-----------------------------------------------------------------------------
(***************************************************************************)
(* A packet is enqueued.                                                   *)
(***************************************************************************)
LEMMA LineGrows ==
  ASSUME Working, NEW p \in QueuePackets, Enqueue(p), UNCHANGED pending_ranges,
         p.kind = "data" => p.offset + p.size <= WindowBytes, Armed(p.range),
         \A g \in Handles : handle'[g].range \in {handle[g].range, NoRange}
  PROVE  /\ Line' = Append(Line, p) /\ Line \in Seq(Packets) /\ p \in Packets
         /\ UNCHANGED <<consumer, packet, persisted, completed, error>>
         /\ PacketsOk' /\ RangesOk'
         /\ \A i \in DOMAIN Line : i \in DOMAIN Line' /\ Line'[i] = Line[i]
         /\ \E i \in DOMAIN Line' : Line'[i] = p
<1>1. Line' = Append(Line, p) /\ Line \in Seq(Packets) /\ p \in Packets
  BY LineAppend, LineFacts DEF Working, TransferIInv, Packets
<1>2. UNCHANGED <<consumer, packet, persisted, completed, error>>
  BY DEF Enqueue, consumerVars
<1> DEFINE l == Line
           m == Append(l, p)
<1>3. /\ \A i \in DOMAIN l : i \in DOMAIN m /\ m[i] = l[i]
      /\ \A i \in DOMAIN m : (i \in DOMAIN l /\ m[i] = l[i]) \/ m[i] = p
      /\ \E i \in DOMAIN m : m[i] = p
  <2>1. l \in Seq(Packets)
    BY <1>1
  <2> HIDE DEF l
  <2>2. /\ Len(m) = Len(l) + 1 /\ Len(l) \in Nat /\ m[Len(l) + 1] = p
        /\ \A i \in 1 .. Len(l) : m[i] = l[i]
        /\ DOMAIN l = 1 .. Len(l) /\ DOMAIN m = 1 .. Len(m)
    BY <1>1, <2>1
  <2>3. Len(l) + 1 \in DOMAIN m /\ \A i \in DOMAIN m : i \in DOMAIN l \/ i = Len(l) + 1
    BY <2>2
  <2> QED
    BY <2>2, <2>3
<1> HIDE DEF m
<1>4. PacketsOk'
  BY <1>1, <1>3 DEF Working, Rest, PacketsOk, m
<1>5. RangesOk'
  BY <1>1, <1>2, <1>3 DEF Working, Rest, RangesOk, Armed, m
<1> QED
  BY <1>1, <1>2, <1>3, <1>4, <1>5 DEF m

\* One buffer is flushed; its memory changes hands.
LEMMA FlushKeeps ==
  ASSUME Working, TransferIInv', NEW h \in Handles, handle[h].buffer.size > 0, FlushBuffer(h),
         handle'[h].buffer = EmptyBuffer, handle'[h].range = handle[h].range,
         handle'[h].next_offset = handle[h].next_offset,
         \A g \in Handles \ {h} : handle'[g] = handle[g],
         pc \notin {"join", "ended", "append"},
         pc' = pc \/ (pc' = "append" /\ current' = h),
         UNCHANGED <<memory, pending_ranges, seen, failure>>
  PROVE  Working'
<1> DEFINE p == Data(h)
<1>1. /\ HandlesOk /\ handle[h] \in TransferHandles /\ handle[h].range \in Ranges
      /\ p \in QueuePackets
  BY Sizes, DataOk DEF Working, TransferIInv, HandlesOk, HandleOk, TransferHandles
<1>2. /\ p.kind = "data" /\ p.range = handle[h].range /\ p.offset = handle[h].buffer.offset
      /\ p.size = handle[h].buffer.size /\ p.accounted = handle[h].buffer.accounted
  BY DEF Data
<1>3. /\ p.size \in Nat /\ p.offset \in Nat /\ p.accounted \in Nat
      /\ handle[h].next_offset \in 0 .. WindowBytes /\ p.offset + p.size = handle[h].next_offset
  BY <1>1, <1>2, Sizes DEF TransferHandles, Buffers, Offsets, Accounted, Working, Rest, BuffersOk,
     BufferOk
<1>4. Armed(p.range) /\ \A g \in Handles \ {h} : handle[g].range # p.range
  <2>1. handle[h].range # NoRange
    BY <1>1, Sizes DEF Ranges, NoRange
  <2> QED
    BY <1>2, <2>1 DEF Working, Rest, RangesOk
<1>5. Enqueue(p)
  BY DEF FlushBuffer
<1>6. \A g \in Handles : handle'[g].range = handle[g].range
  OBVIOUS
<1> HIDE DEF p
<1>7. /\ Line' = Append(Line, p) /\ Line \in Seq(Packets) /\ p \in Packets
      /\ UNCHANGED <<consumer, packet, persisted, completed, error>>
      /\ PacketsOk' /\ RangesOk'
      /\ \A i \in DOMAIN Line : i \in DOMAIN Line' /\ Line'[i] = Line[i]
  <2>1. p.offset + p.size <= WindowBytes
    BY <1>3, Sizes
  <2> QED
    BY <1>1, <1>4, <1>5, <1>6, <2>1, LineGrows
<1>8. BuffersOk'
  <2>1. \A g \in Handles : BufferOk(handle'[g])
    <3>1. BufferOk(handle'[h])
      BY DEF BufferOk, EmptyBuffer
    <3> QED
      BY <3>1 DEF Working, Rest, BuffersOk
  <2>2. pc' = "append" => handle'[current'].buffer.size = 0
    BY DEF EmptyBuffer
  <2> QED
    BY <2>1, <2>2 DEF BuffersOk
<1>9. ConsumerOk'
  BY <1>7 DEF Working, Rest, ConsumerOk
<1>10. EndOk'
  BY <1>6, <1>7 DEF Working, Rest, EndOk, NetworkDone
<1>11. CompletionOk'
  <2>1. \A r \in Ranges : OnItsWay(r) => OnItsWay(r)'
    BY <1>6, <1>7 DEF OnItsWay
  <2> QED
    BY <1>7, <2>1 DEF Working, Rest, CompletionOk, Armed
<1>12. MemoryOk'
  <2>1. Held(handle') = Held(handle) + 0 - p.accounted
    <3>1. handle'[h].buffer.accounted = 0
      BY DEF EmptyBuffer
    <3> QED
      BY <1>1, <1>2, <3>1, HeldOne DEF HandlesOk, TransferIInv
  <2>2. Carried(Line') = Carried(Line) + p.accounted
    BY <1>2, <1>7, CarriedAppend DEF AccountedOf
  <2>3. memory' = Held(handle') + Carried(Line')
    BY <1>3, <2>1, <2>2, SumsTyped
  <2> QED
    BY <2>3 DEF MemoryOk
<1>13. OrderOk'
  <2> SUFFICES ASSUME ~error'
               PROVE  LineInOrder(Line', persisted') /\ HandlesInOrder(Line', handle', persisted')
    BY DEF OrderOk
  <2>1. LineInOrder(Line, persisted) /\ HandlesInOrder(Line, handle, persisted)
    BY <1>7 DEF Working, OrderOk
  <2>2. Sent(p.range, Line, persisted, Len(Line)) = p.offset
    <3>1. Sent(p.range, Line, persisted, Len(Line)) + p.size = handle[h].next_offset
      BY <1>1, <1>2, <2>1 DEF HandlesInOrder
    <3>2. Sent(p.range, Line, persisted, Len(Line)) \in Nat
      BY <1>1, <1>2, SumsTyped
    <3> QED
      BY <1>3, <3>1, <3>2
  <2>3. \A r \in Ranges : p # RangeComplete(r)
    BY <1>2 DEF RangeComplete
  <2>4. LineInOrder(Line', persisted)
    BY <1>7, <2>1, <2>2, <2>3, OrderAppend
  <2>5. \A r \in Ranges : Sent(r, Line', persisted, Len(Line'))
                            = Sent(r, Line, persisted, Len(Line)) + SizeIn(p, r)
    <3> TAKE r \in Ranges
    <3>1. persisted[r] \in Int
      BY Sizes DEF Working, Rest, RangesOk, Offsets
    <3> QED
      BY <1>7, <3>1, SentAppend
  <2>6. HandlesInOrder(Line', handle', persisted)
    <3>1. ASSUME NEW g \in Handles, handle'[g].range \in Ranges
          PROVE  Sent(handle'[g].range, Line', persisted, Len(Line')) + handle'[g].buffer.size
                   = handle'[g].next_offset
      <4>1. CASE g = h
        <5>1. Sent(p.range, Line', persisted, Len(Line')) = p.offset + p.size
          BY <1>1, <1>2, <2>2, <2>5 DEF SizeIn
        <5> QED
          BY <1>2, <1>3, <4>1, <5>1 DEF EmptyBuffer
      <4>2. CASE g # h
        <5>1. handle'[g] = handle[g] /\ SizeIn(p, handle[g].range) = 0
          BY <1>4, <4>2 DEF SizeIn
        <5>2. Sent(handle[g].range, Line', persisted, Len(Line'))
                = Sent(handle[g].range, Line, persisted, Len(Line))
          <6>1. Sent(handle[g].range, Line, persisted, Len(Line)) \in Nat
            BY <3>1, <5>1, SumsTyped
          <6> QED
            BY <2>5, <3>1, <5>1, <6>1
        <5> QED
          BY <2>1, <3>1, <5>1, <5>2 DEF HandlesInOrder
      <4> QED
        BY <4>1, <4>2
    <3> QED
      BY <3>1 DEF HandlesInOrder
  <2> QED
    BY <1>7, <2>4, <2>6
<1> QED
  BY <1>7, <1>8, <1>9, <1>10, <1>11, <1>12, <1>13 DEF Working, Rest

LEMMA DeliverAfterFlushKeeps ==
  ASSUME Working, TransferIInv', NEW h \in Handles, NEW n \in Chunks, DeliverAfterFlush(h, n)
  PROVE  Working'
<1>1. /\ FlushBuffer(h) /\ ~(handle[h].buffer.size + n <= PacketBytes) /\ pc = "perform"
      /\ handle' = [handle EXCEPT ![h].buffer = EmptyBuffer]
      /\ pc' = "append" /\ current' = h
      /\ UNCHANGED <<seen, pending_ranges, failure, memory>>
  BY DEF DeliverAfterFlush, Overflows, Fits, Receiving, At
<1>2. HandlesOk /\ handle[h] \in TransferHandles /\ handle[h].buffer.size \in Nat
  BY Sizes DEF Working, TransferIInv, HandlesOk, TransferHandles, Buffers
<1>3. handle[h].buffer.size > 0
  BY <1>1, <1>2, Sizes DEF Chunks
<1>4. /\ handle'[h].buffer = EmptyBuffer /\ handle'[h].range = handle[h].range
      /\ handle'[h].next_offset = handle[h].next_offset
      /\ \A g \in Handles \ {h} : handle'[g] = handle[g]
  BY <1>1, <1>2 DEF HandlesOk, TransferHandles
<1> QED
  BY <1>1, <1>3, <1>4, FlushKeeps

LEMMA FlushBlockingKeeps ==
  ASSUME Working, TransferIInv', FlushBlocking
  PROVE  Working'
<1>1. /\ FlushBuffer(current) /\ handle[current].buffer.size > 0 /\ pc \in {"finalize", "drain"}
      /\ handle' = [handle EXCEPT ![current].buffer = EmptyBuffer]
      /\ current <= HandleCount
      /\ UNCHANGED <<pc, seen, pending_ranges, failure, memory>>
  BY DEF FlushBlocking, At
<1>2. PICK h : h = current
  OBVIOUS
<1>3. h \in Handles
  BY <1>1, <1>2, Sizes DEF Working, TransferIInv, NetworkTyped, Handles
<1>4. HandlesOk /\ handle[h] \in TransferHandles
  BY <1>3 DEF Working, TransferIInv, HandlesOk
<1>5. /\ handle'[h].buffer = EmptyBuffer /\ handle'[h].range = handle[h].range
      /\ handle'[h].next_offset = handle[h].next_offset
      /\ \A g \in Handles \ {h} : handle'[g] = handle[g]
  BY <1>1, <1>2, <1>3, <1>4 DEF HandlesOk, TransferHandles
<1>6. FlushBuffer(h) /\ handle[h].buffer.size > 0
  BY <1>1, <1>2 DEF FlushBuffer, Data
<1> QED
  BY <1>1, <1>3, <1>5, <1>6, FlushKeeps

LEMMA DeliverBeyondWindowKeeps ==
  ASSUME Working, TransferIInv', NEW h \in Handles, DeliverBeyondWindow(h)
  PROVE  Working'
<1>1. Receiving(h) /\ pc = "perform"
  BY DEF DeliverBeyondWindow, Receiving, At
<1>2. CASE PauseForQueue(h)
  BY <1>1, <1>2, PauseForQueueKeeps
<1>3. CASE /\ handle[h].buffer.size > 0 /\ FlushBuffer(h) /\ CallbackOnly
           /\ handle' = [Paused(h, "boundary") EXCEPT ![h].buffer = EmptyBuffer]
  <2>1. HandlesOk /\ "boundary" \in {"memory", "queue", "boundary"}
    BY DEF Working, TransferIInv
  <2>2. /\ Paused(h, "boundary") \in [Handles -> TransferHandles]
        /\ \A g \in Handles \ {h} : Paused(h, "boundary")[g] = handle[g]
        /\ Paused(h, "boundary")[h].range = handle[h].range
        /\ Paused(h, "boundary")[h].next_offset = handle[h].next_offset
    BY <2>1, PausedOk, PausedData
  <2>3. /\ handle'[h].buffer = EmptyBuffer /\ handle'[h].range = handle[h].range
        /\ handle'[h].next_offset = handle[h].next_offset
        /\ \A g \in Handles \ {h} : handle'[g] = handle[g]
    BY <1>3, <2>2 DEF TransferHandles
  <2>4. FlushBuffer(h) /\ handle[h].buffer.size > 0
    BY <1>3
  <2>5. pc' = pc /\ UNCHANGED <<memory, pending_ranges, seen, failure>>
    BY <1>3 DEF CallbackOnly
  <2> QED
    BY <1>1, <2>3, <2>4, <2>5, FlushKeeps
<1>4. CASE handle' = Paused(h, "boundary") /\ CallbackOnly /\ LocalUnchanged
  BY <1>1, <1>4, BoundaryKeeps
<1> QED
  BY <1>2, <1>3, <1>4 DEF DeliverBeyondWindow

LEMMA DeliverKeeps ==
  ASSUME Working, TransferIInv', NEW h \in Handles, NEW n \in Chunks, Deliver(h, n)
  PROVE  Working'
<1>1. handle[h].range # NoRange
  BY DEF Deliver, Receiving, Working, TransferIInv, HandlesOk, HandleOk
<1>2. /\ uncounted = 0 /\ pc \in {"perform", "append"}
      /\ AppendOrPause(h, handle[h].buffer.size, n)
  BY DEF Deliver, Receiving, At
<1> QED
  BY <1>1, <1>2, TakenKeeps

LEMMA AppendArrivedKeeps ==
  ASSUME Working, TransferIInv', AppendArrived
  PROVE  Working'
<1>1. /\ current \in Handles /\ handle[current].range # NoRange /\ arriving \in Chunks
      /\ uncounted = 0 /\ pc \in {"perform", "append"}
      /\ AppendOrPause(current, 0, arriving)
  BY DEF AppendArrived, At, Working, TransferIInv, StepOk
<1>2. 0 = handle[current].buffer.size
  BY DEF AppendArrived, At, Working, Rest, BuffersOk
<1> QED
  BY <1>1, <1>2, TakenKeeps

LEMMA PerformKeeps ==
  ASSUME Working, TransferIInv', Perform
  PROVE  Working'
<1> PICK h \in Handles :
      \/ Callback(h) \/ TransferDone(h) \/ DeliverBeyondWindow(h) \/ DeliverAcrossWindow(h)
      \/ TransferBreaks(h)
  BY DEF Perform
<1>1. CASE Callback(h)
  <2> PICK n \in Chunks : Deliver(h, n) \/ DeliverAfterFlush(h, n) \/ DeliverToFullQueue(h, n)
    BY <1>1 DEF Callback
  <2>1. CASE DeliverToFullQueue(h, n)
    BY <2>1, PauseForQueueKeeps DEF DeliverToFullQueue, Overflows
  <2> QED
    BY <2>1, DeliverKeeps, DeliverAfterFlushKeeps
<1>2. CASE TransferDone(h) \/ DeliverAcrossWindow(h) \/ TransferBreaks(h)
  <2>1. Receiving(h) /\ \E result \in {"ok", "failed"} : Ended(h, result)
    BY <1>2 DEF TransferDone, DeliverAcrossWindow, TransferBreaks
  <2> QED
    BY <2>1, EndedKeeps
<1> QED
  BY <1>1, <1>2, DeliverBeyondWindowKeeps

-----------------------------------------------------------------------------
(***************************************************************************)
(* The end of a request.                                                   *)
(***************************************************************************)
LEMMA FinishKeeps ==
  ASSUME Working, TransferIInv', FinishRequest
  PROVE  Working'
<1>0. PICK h : h = current
  OBVIOUS
<1>1. /\ pc = "finalize" /\ pc' = "messages" /\ handle[h].buffer.size = 0
      /\ handle[h].next_offset = WindowBytes /\ Enqueue(RangeComplete(handle[h].range))
      /\ handle' = [handle EXCEPT ![h] = IdleHandle]
      /\ UNCHANGED <<seen, pending_ranges, failure, memory>>
  BY <1>0 DEF FinishRequest, At, Flushed, RequestSucceeded
<1>2. /\ h \in Handles /\ HandlesOk /\ handle[h].range \in Ranges /\ handle[h].range # NoRange
  BY <1>0, <1>1, Sizes DEF Working, TransferIInv, StepOk, HandlesOk, TransferHandles
<1>3. PICK q \in Ranges : q = handle[h].range
  BY <1>2
<1> DEFINE p == RangeComplete(q)
<1>4. /\ p \in QueuePackets /\ p.kind = "range_complete" /\ p.range = q
      /\ \A r : SizeIn(p, r) = 0
      /\ AccountedOf(p) = 0
      /\ \A r : p = RangeComplete(r) => r = q
  BY DEF RangeComplete, QueuePackets, SizeIn, AccountedOf
<1>5. /\ handle'[h].range = NoRange /\ handle'[h].buffer.size = 0
      /\ handle'[h].buffer.accounted = 0
      /\ \A g \in Handles \ {h} : handle'[g] = handle[g]
  BY <1>1, <1>2 DEF HandlesOk, IdleHandle, EmptyBuffer
<1>6. handle[h].buffer.accounted = 0
  BY <1>1, <1>2 DEF Working, Rest, BuffersOk, BufferOk
<1> HIDE DEF p
<1>7. /\ Line' = Append(Line, p) /\ Line \in Seq(Packets) /\ p \in Packets
      /\ UNCHANGED <<consumer, packet, persisted, completed, error>>
      /\ PacketsOk' /\ RangesOk'
      /\ \A i \in DOMAIN Line : i \in DOMAIN Line' /\ Line'[i] = Line[i]
      /\ \E i \in DOMAIN Line' : Line'[i] = p
  <2>1. Enqueue(p) /\ Armed(p.range)
    BY <1>1, <1>2, <1>3, <1>4 DEF p, Working, Rest, RangesOk
  <2>2. \A g \in Handles : handle'[g].range \in {handle[g].range, NoRange}
    BY <1>5
  <2> QED
    BY <1>1, <1>4, <2>1, <2>2, LineGrows
<1>8. BuffersOk'
  BY <1>1, <1>5 DEF Working, Rest, BuffersOk, BufferOk
<1>9. ConsumerOk' /\ EndOk'
  BY <1>1, <1>7 DEF Working, Rest, ConsumerOk, EndOk
<1>10. CompletionOk'
  <2>1. ASSUME NEW r \in Ranges, OnItsWay(r)
        PROVE  OnItsWay(r)'
    <3>1. CASE r = q
      BY <1>7, <3>1 DEF OnItsWay, p
    <3>2. CASE r # q
      BY <1>3, <1>5, <1>7, <2>1, <3>2 DEF OnItsWay
    <3> QED
      BY <3>1, <3>2
  <2> QED
    BY <1>1, <1>7, <2>1 DEF Working, Rest, CompletionOk, Armed
<1>11. MemoryOk'
  <2>1. Held(handle') = Held(handle) + 0 - 0
    BY <1>2, <1>5, <1>6, HeldOne DEF HandlesOk, TransferIInv
  <2>2. Carried(Line') = Carried(Line) + 0
    BY <1>4, <1>7, CarriedAppend
  <2>3. memory' = Held(handle') + Carried(Line')
    BY <1>1, <2>1, <2>2, SumsTyped
  <2> QED
    BY <2>3 DEF MemoryOk
<1>12. OrderOk'
  <2> SUFFICES ASSUME ~error'
               PROVE  LineInOrder(Line', persisted') /\ HandlesInOrder(Line', handle', persisted')
    BY DEF OrderOk
  <2>1. LineInOrder(Line, persisted) /\ HandlesInOrder(Line, handle, persisted)
    BY <1>7 DEF Working, OrderOk
  <2>2. Sent(q, Line, persisted, Len(Line)) = WindowBytes
    <3>1. Sent(q, Line, persisted, Len(Line)) + 0 = WindowBytes
      BY <1>1, <1>2, <1>3, <2>1 DEF HandlesInOrder
    <3>2. Sent(q, Line, persisted, Len(Line)) \in Nat
      BY SumsTyped
    <3> QED
      BY <3>1, <3>2
  <2>3. LineInOrder(Line', persisted)
    BY <1>4, <1>7, <2>1, <2>2, OrderAppend
  <2>4. \A r \in Ranges : Sent(r, Line', persisted, Len(Line'))
                            = Sent(r, Line, persisted, Len(Line))
    <3> TAKE r \in Ranges
    <3>1. persisted[r] \in Int
      BY Sizes DEF Working, Rest, RangesOk, Offsets
    <3>2. Sent(r, Line', persisted, Len(Line')) = Sent(r, Line, persisted, Len(Line)) + 0
      BY <1>4, <1>7, <3>1, SentAppend
    <3> QED
      BY <3>2, SumsTyped
  <2>5. HandlesInOrder(Line', handle', persisted)
    <3>1. ASSUME NEW g \in Handles, handle'[g].range \in Ranges
          PROVE  Sent(handle'[g].range, Line', persisted, Len(Line')) + handle'[g].buffer.size
                   = handle'[g].next_offset
      <4>1. g # h
        BY <1>5, <3>1, Sizes DEF Ranges, NoRange
      <4> QED
        BY <1>5, <2>1, <2>4, <3>1, <4>1 DEF HandlesInOrder
    <3> QED
      BY <3>1 DEF HandlesInOrder
  <2> QED
    BY <1>7, <2>3, <2>5
<1> QED
  BY <1>1, <1>7, <1>8, <1>9, <1>10, <1>11, <1>12 DEF Working, Rest

\* The network phase is stopped: a transfer that has nothing to flush is given up.
LEMMA ReleaseKeeps ==
  ASSUME Working, TransferIInv', ReleaseTransfer
  PROVE  Working'
<1>0. PICK h : h = current
  OBVIOUS
<1>1. /\ LocalUnchanged /\ pc = "drain" /\ pc' = pc /\ handle[h].buffer.size = 0
      /\ uncounted = 0
      /\ h <= HandleCount /\ handle' = [handle EXCEPT ![h] = IdleHandle]
      /\ UNCHANGED <<seen, pending_ranges, failure, memory>>
  BY <1>0 DEF ReleaseTransfer, At
<1>2. h \in Handles /\ HandlesOk
  BY <1>0, <1>1, Sizes DEF Working, TransferIInv, NetworkTyped, Handles
<1>3. /\ handle'[h].range = NoRange /\ handle'[h].buffer.size = 0
      /\ handle'[h].buffer.accounted = 0
      /\ \A g \in Handles \ {h} : handle'[g] = handle[g]
  BY <1>1, <1>2 DEF HandlesOk, IdleHandle, EmptyBuffer
<1>4. UNCHANGED <<data_queue, uncounted, consumer, packet, persisted, completed, error>>
      /\ Line' = Line
  BY <1>1, LineSame DEF LocalUnchanged, consumerVars
<1>5. handle[h].buffer.accounted = 0
  BY <1>1, <1>2 DEF Working, Rest, BuffersOk, BufferOk
<1>6. BuffersOk'
  BY <1>1, <1>3 DEF Working, Rest, BuffersOk, BufferOk
<1>7. ConsumerOk' /\ PacketsOk'
  BY <1>1, <1>4 DEF Working, Rest, ConsumerOk, PacketsOk
<1>8. RangesOk'
  BY <1>1, <1>3, <1>4 DEF Working, Rest, RangesOk, Armed
<1>9. EndOk'
  BY <1>1, <1>3, <1>4 DEF Working, Rest, EndOk, NetworkDone
<1>10. CompletionOk'
  <2>1. ~failure => \A r \in Ranges : OnItsWay(r) => OnItsWay(r)'
    <3>1. ~failure => handle[h].range = NoRange
      BY <1>1, <1>2 DEF Working, Rest, EndOk, NetworkDone
    <3>2. \A r \in Ranges : r # NoRange
      BY Sizes DEF Ranges, NoRange
    <3> QED
      BY <1>3, <1>4, <3>1, <3>2 DEF OnItsWay
  <2> QED
    BY <1>1, <1>4, <2>1 DEF Working, Rest, CompletionOk, Armed
<1>11. MemoryOk'
  <2>1. Held(handle') = Held(handle) + 0 - 0
    BY <1>2, <1>3, <1>5, HeldOne DEF HandlesOk, TransferIInv
  <2>2. Held(handle') = Held(handle)
    BY <2>1, SumsTyped
  <2> QED
    BY <1>1, <1>4, <2>2 DEF Working, MemoryOk
<1>12. OrderOk'
  <2>1. NoRange \notin Ranges
    BY Sizes DEF Ranges, NoRange
  <2>2. HandlesInOrder(Line, handle, persisted) => HandlesInOrder(Line, handle', persisted)
    BY <1>3, <2>1 DEF HandlesInOrder
  <2> QED
    BY <1>4, <2>2 DEF Working, OrderOk
<1> QED
  BY <1>1, <1>6, <1>7, <1>8, <1>9, <1>10, <1>11, <1>12 DEF Working, Rest

LEMMA CountEnqueuedKeeps ==
  ASSUME Working, TransferIInv', CountEnqueued
  PROVE  Working'
<1>1. /\ uncounted' = 0 /\ UNCHANGED <<pc, current, seen, pending_ranges, handle, failure,
         data_queue, memory, consumer, packet, persisted, completed, error>> /\ Line' = Line
  BY LineSame DEF CountEnqueued, consumerVars
<1>2. BuffersOk' /\ ConsumerOk' /\ EndOk'
  BY <1>1 DEF Working, Rest, BuffersOk, BufferOk, ConsumerOk, EndOk, NetworkDone
<1>3. RangesOk' /\ CompletionOk' /\ PacketsOk'
  BY <1>1, RangesSame
<1>4. MemoryOk' /\ OrderOk'
  BY <1>1, DataSame DEF SameData
<1> QED
  BY <1>1, <1>2, <1>3, <1>4 DEF Working, Rest

-----------------------------------------------------------------------------
(***************************************************************************)
(* The persistence thread takes a packet.                                  *)
(***************************************************************************)
\* What the network side of the invariant says stays true.
LEMMA NetworkKeeps ==
  ASSUME Working, NetworkUnchanged, consumer # "ended", error' \in BOOLEAN
  PROVE  BuffersOk' /\ EndOk' /\ seen' \in Nat
<1>1. UNCHANGED <<pc, current, seen, pending_ranges, handle, failure>>
  BY DEF NetworkUnchanged
<1>2. pc # "ended"
  BY DEF Working, Rest, EndOk
<1>3. BuffersOk' /\ seen' \in Nat
  BY <1>1 DEF Working, Rest, BuffersOk, BufferOk
<1>4. EndOk'
  BY <1>1, <1>2 DEF Working, Rest, EndOk, NetworkDone
<1> QED
  BY <1>3, <1>4

LEMMA DequeueKeeps ==
  ASSUME Working, TransferIInv', Dequeue
  PROVE  Working'
<1>1. /\ NetworkUnchanged /\ consumer = "waiting" /\ consumer' = "taken"
      /\ data_queue # <<>> /\ packet' = Head(data_queue) /\ data_queue' = Tail(data_queue)
      /\ UNCHANGED <<memory, persisted, completed, error, pending_ranges, handle, failure, pc,
                     uncounted>>
  BY DEF Dequeue, Take, NetworkUnchanged
<1>2. packet = NoPacket /\ ~error /\ error' \in BOOLEAN
  BY <1>1 DEF Working, Rest, ConsumerOk, EndOk
<1>3. packet' \in QueuePackets /\ packet' # Shutdown /\ packet' # NoPacket
  BY <1>1, Kinds DEF Working, TransferIInv, QueueOk
<1>4. Line' = Line
  <2>1. data_queue \in Seq(QueuePackets)
    BY DEF Working, TransferIInv, QueueOk
  <2>2. data_queue = <<Head(data_queue)>> \o Tail(data_queue)
    BY <1>1, <2>1
  <2> QED
    BY <1>1, <1>2, <1>3, <2>1, <2>2 DEF Line, InHand
<1>5. BuffersOk' /\ EndOk' /\ seen' \in Nat
  BY <1>1, <1>2, NetworkKeeps
<1>6. ConsumerOk'
  BY <1>1, <1>2, <1>3 DEF Working, Rest, ConsumerOk
<1>7. RangesOk' /\ CompletionOk' /\ PacketsOk'
  BY <1>1, <1>4, RangesSame
<1>8. MemoryOk' /\ OrderOk'
  BY <1>1, <1>4, DataSame DEF SameData
<1> QED
  BY <1>5, <1>6, <1>7, <1>8 DEF Working, Rest

LEMMA CountDequeuedKeeps ==
  ASSUME Working, TransferIInv', CountDequeued
  PROVE  Working'
<1>1. /\ NetworkUnchanged /\ consumer = "taken" /\ consumer' = "counted" /\ Line' = Line
      /\ UNCHANGED <<data_queue, packet, memory, persisted, completed, error, pending_ranges,
                     handle, failure, pc, uncounted>>
  BY LineSame DEF CountDequeued, NetworkUnchanged
<1>2. ~error /\ error' \in BOOLEAN
  BY <1>1 DEF Working, Rest, ConsumerOk, EndOk
<1>3. BuffersOk' /\ EndOk' /\ seen' \in Nat
  BY <1>1, <1>2, NetworkKeeps
<1>4. ConsumerOk'
  BY <1>1, <1>2 DEF Working, Rest, ConsumerOk
<1>5. RangesOk' /\ CompletionOk' /\ PacketsOk'
  BY <1>1, RangesSame
<1>6. MemoryOk' /\ OrderOk'
  BY <1>1, DataSame DEF SameData
<1> QED
  BY <1>3, <1>4, <1>5, <1>6 DEF Working, Rest

\* shutdown overtakes what is queued.
LEMMA DequeueShutdownKeeps ==
  ASSUME Working, TransferIInv', DequeueShutdown
  PROVE  Working'
<1>1. /\ NetworkUnchanged /\ consumer = "waiting" /\ consumer' = "taken" /\ packet' = Shutdown
      /\ pc = "join" /\ Len(data_queue) <= 1
      /\ UNCHANGED <<data_queue, memory, persisted, completed, error, pending_ranges, handle,
                     failure, pc, uncounted>>
  BY DEF DequeueShutdown, TakesShutdown, Take, NetworkUnchanged
<1>2. packet = NoPacket /\ ~error /\ packet' # NoPacket /\ error' \in BOOLEAN
  BY <1>1, Kinds DEF Working, Rest, ConsumerOk, EndOk
<1>3. /\ Line' \in Seq(Packets) /\ Line' # <<>> /\ Line'[1] = Shutdown /\ Tail(Line') = Line
      /\ Line \in Seq(Packets)
  BY <1>1, <1>2, LineFacts, LineFactsNext DEF Working, TransferIInv
<1> DEFINE l == Line
           m == Line'
<1>4. /\ \A i \in DOMAIN m : m[i] = Shutdown \/ \E j \in DOMAIN l : m[i] = l[j]
      /\ \A j \in DOMAIN l : \E i \in DOMAIN m : m[i] = l[j]
  <2>1. l \in Seq(Packets) /\ m \in Seq(Packets) /\ m # <<>> /\ m[1] = Shutdown /\ Tail(m) = l
    BY <1>3
  <2> HIDE DEF l, m
  <2>2. /\ Len(l) = Len(m) - 1 /\ Len(m) \in Nat \ {0}
        /\ DOMAIN l = 1 .. Len(l) /\ DOMAIN m = 1 .. Len(m)
    BY <2>1
  <2>3. \A j \in 1 .. Len(l) : l[j] = m[j + 1]
    BY <2>1, <2>2
  <2>4. \A i \in DOMAIN m : i = 1 \/ (i - 1 \in DOMAIN l /\ (i - 1) + 1 = i)
    BY <2>2
  <2>5. \A j \in DOMAIN l : j + 1 \in DOMAIN m
    BY <2>2
  <2>6. ASSUME NEW i \in DOMAIN m
        PROVE  m[i] = Shutdown \/ \E j \in DOMAIN l : m[i] = l[j]
    <3>1. CASE i = 1
      BY <2>1, <3>1
    <3>2. CASE i - 1 \in DOMAIN l /\ (i - 1) + 1 = i
      <4>1. l[i - 1] = m[i]
        BY <2>2, <2>3, <3>2
      <4> QED
        BY <3>2, <4>1
    <3> QED
      BY <2>4, <3>1, <3>2
  <2>7. ASSUME NEW j \in DOMAIN l
        PROVE  \E i \in DOMAIN m : m[i] = l[j]
    BY <2>2, <2>3, <2>5
  <2> QED
    BY <2>6, <2>7
<1>5. Shutdown.kind \notin {"data", "range_complete"}
  BY DEF Shutdown
<1>6. BuffersOk' /\ EndOk' /\ seen' \in Nat
  BY <1>1, <1>2, NetworkKeeps
<1>7. ConsumerOk'
  BY <1>1, <1>2 DEF Working, Rest, ConsumerOk
<1>8. PacketsOk'
  BY <1>4, <1>5 DEF Working, Rest, PacketsOk
<1>9. RangesOk'
  BY <1>1, <1>4, <1>5 DEF Working, Rest, RangesOk, Armed
<1>10. CompletionOk'
  <2>1. \A r \in Ranges : OnItsWay(r) => OnItsWay(r)'
    BY <1>1, <1>4 DEF OnItsWay
  <2> QED
    BY <1>1, <2>1 DEF Working, Rest, CompletionOk, Armed
<1>11. \A r \in Ranges : persisted[r] \in Int
  BY Sizes DEF Working, Rest, RangesOk, Offsets
<1>12. MemoryOk'
  <2>1. Carried(m) = Carried(l)
    <3>1. /\ m \in Seq(Packets) /\ m # <<>> /\ m[1] = Shutdown /\ Tail(m) = l
          /\ Carried(l) \in Nat
      BY <1>3, SumsTyped
    <3> HIDE DEF m, l
    <3>2. Carried(m) = AccountedOf(Shutdown) + Carried(l)
      BY <3>1, CarriedTail
    <3> QED
      BY <3>1, <3>2, Weights
  <2> QED
    BY <1>1, <2>1 DEF Working, MemoryOk
<1>13. OrderOk'
  <2>1. LineInOrder(l, persisted) /\ HandlesInOrder(l, handle, persisted)
    BY <1>2 DEF Working, OrderOk
  <2>2. /\ m \in Seq(Packets) /\ m # <<>> /\ m[1] = Shutdown
        /\ LineInOrder(Tail(m), persisted) /\ HandlesInOrder(Tail(m), handle, persisted)
    BY <1>3, <2>1
  <2>3. LineInOrder(m, persisted) /\ HandlesInOrder(m, handle, persisted)
    <3> HIDE DEF m
    <3> QED
      BY <1>11, <2>2, OrderShutdown
  <2> QED
    BY <1>1, <2>3 DEF OrderOk
<1> QED
  BY <1>6, <1>7, <1>8, <1>9, <1>10, <1>12, <1>13 DEF Working, Rest

-----------------------------------------------------------------------------
(***************************************************************************)
(* The persistence thread is done with a packet.                           *)
(***************************************************************************)
LEMMA PacketLeaves ==
  ASSUME Working, TransferIInv', NEW ok \in BOOLEAN, consumer = "counted", PacketHandled(ok)
  PROVE  /\ Line \in Seq(Packets) /\ Line # <<>> /\ Line[1] = packet /\ Line' = Tail(Line)
         /\ packet \in Packets /\ 1 \in DOMAIN Line
         /\ \A i \in DOMAIN Line' : \E j \in DOMAIN Line : Line'[i] = Line[j]
         /\ \A j \in DOMAIN Line : j = 1 \/ \E i \in DOMAIN Line' : Line'[i] = Line[j]
         /\ Carried(Line') = Carried(Line) - AccountedOf(packet)
         /\ ~error /\ error' = ~ok /\ UNCHANGED <<pending_ranges, handle, failure>>
         /\ BuffersOk' /\ ConsumerOk' /\ PacketsOk' /\ EndOk' /\ seen' \in Nat
<1>1. /\ NetworkUnchanged /\ packet' = NoPacket /\ data_queue' = data_queue
      /\ error' = (error \/ ~ok)
      /\ consumer' = (IF packet.kind = "shutdown" \/ ~ok THEN "ended" ELSE "waiting")
      /\ UNCHANGED <<pc, pending_ranges, handle, failure, uncounted>>
  BY DEF PacketHandled, NetworkUnchanged
<1>2. ~error /\ error' = ~ok /\ packet # NoPacket /\ error' \in BOOLEAN
  BY <1>1 DEF Working, Rest, ConsumerOk
<1>3. /\ Line \in Seq(Packets) /\ Line # <<>> /\ Line[1] = packet /\ Line' = Tail(Line)
  BY <1>1, <1>2, LineFacts, LineFactsNext DEF Working, TransferIInv
<1>4. packet \in Packets
  BY <1>2 DEF Working, TransferIInv, QueueOk, Packets
<1> DEFINE l == Line
           m == Line'
<1>5. /\ 1 \in DOMAIN l
      /\ \A i \in DOMAIN m : \E j \in DOMAIN l : m[i] = l[j]
      /\ \A j \in DOMAIN l : j = 1 \/ \E i \in DOMAIN m : m[i] = l[j]
  <2>1. l \in Seq(Packets) /\ l # <<>> /\ m = Tail(l)
    BY <1>3
  <2> HIDE DEF l, m
  <2>2. /\ Len(l) \in Nat \ {0} /\ Len(m) = Len(l) - 1
        /\ DOMAIN l = 1 .. Len(l) /\ DOMAIN m = 1 .. Len(m)
        /\ \A i \in 1 .. Len(m) : m[i] = l[i + 1]
    BY <2>1
  <2>3. \A i \in DOMAIN m : i + 1 \in DOMAIN l
    BY <2>2
  <2>4. \A j \in DOMAIN l : j = 1 \/ (j - 1 \in DOMAIN m /\ (j - 1) + 1 = j)
    BY <2>2
  <2>5. ASSUME NEW j \in DOMAIN l, j # 1
        PROVE  \E i \in DOMAIN m : m[i] = l[j]
    <3>1. j - 1 \in DOMAIN m /\ (j - 1) + 1 = j
      BY <2>4, <2>5
    <3>2. m[j - 1] = l[j]
      BY <2>2, <3>1
    <3> QED
      BY <3>1, <3>2
  <2> QED
    BY <2>2, <2>3, <2>5
<1>6. Carried(Line') = Carried(Line) - AccountedOf(packet)
  <2>1. /\ l \in Seq(Packets) /\ l # <<>> /\ l[1] = packet /\ m = Tail(l)
        /\ Carried(l) \in Nat
    BY <1>3, SumsTyped
  <2>2. AccountedOf(packet) \in Nat
    BY <1>4, Weights
  <2>3. m \in Seq(Packets) /\ Len(m) \in 0 .. Len(m)
    BY <1>3
  <2> HIDE DEF l, m
  <2>4. Carried(m) \in Nat
    BY <2>3, SentNat DEF Carried
  <2>5. Carried(l) = AccountedOf(packet) + Carried(m)
    BY <2>1, CarriedTail
  <2>6. Carried(m) = Carried(l) - AccountedOf(packet)
    BY <2>1, <2>2, <2>4, <2>5
  <2> QED
    BY <2>6 DEF l, m
<1>7. BuffersOk' /\ EndOk' /\ seen' \in Nat
  BY <1>1, <1>2, NetworkKeeps
<1>8. ConsumerOk'
  <2>1. packet.kind = "shutdown" <=> packet = Shutdown
    BY <1>4, PacketFacts
  <2> QED
    BY <1>1, <1>2, <2>1, Kinds DEF Working, Rest, ConsumerOk
<1>9. PacketsOk'
  BY <1>5 DEF Working, Rest, PacketsOk
<1> QED
  BY <1>1, <1>2, <1>3, <1>4, <1>5, <1>6, <1>7, <1>8, <1>9

\* The rest when what is persisted or completed grows.
LEMMA RangesAfter ==
  ASSUME Working, UNCHANGED <<pending_ranges, handle>>,
         \A i \in DOMAIN Line' : \E j \in DOMAIN Line : Line'[i] = Line[j],
         persisted' \in [Ranges -> Offsets], completed' \subseteq Ranges,
         \A r \in Ranges : ~Armed(r) => persisted'[r] = 0
  PROVE  RangesOk'
BY DEF Working, Rest, RangesOk, Armed

LEMMA MemoryAfter ==
  ASSUME Working, UNCHANGED handle, NEW w \in Nat,
         Carried(Line') = Carried(Line) - w, memory' = memory - w
  PROVE  MemoryOk'
<1>1. memory = Held(handle) + Carried(Line) /\ Held(handle) \in Nat /\ Carried(Line) \in Nat
  BY SumsTyped
<1>2. memory' = Held(handle) + Carried(Line')
  BY <1>1
<1> QED
  BY <1>2 DEF MemoryOk

\* The bytes of a packet are persisted where its range has got to.
LEMMA HandleDataKeeps ==
  ASSUME Working, TransferIInv', HandleData
  PROVE  Working'
<1>1. /\ consumer = "counted" /\ PacketHandled(TRUE) /\ packet.kind = "data"
      /\ packet.offset = persisted[packet.range]
      /\ persisted' = [persisted EXCEPT ![packet.range] = @ + packet.size]
      /\ memory' = memory - packet.accounted /\ completed' = completed
  BY DEF HandleData, Released
<1>2. /\ Line \in Seq(Packets) /\ Line # <<>> /\ Line[1] = packet /\ Line' = Tail(Line)
      /\ packet \in Packets /\ 1 \in DOMAIN Line
      /\ \A i \in DOMAIN Line' : \E j \in DOMAIN Line : Line'[i] = Line[j]
      /\ \A j \in DOMAIN Line : j = 1 \/ \E i \in DOMAIN Line' : Line'[i] = Line[j]
      /\ Carried(Line') = Carried(Line) - AccountedOf(packet)
      /\ ~error /\ ~error' /\ UNCHANGED <<pending_ranges, handle, failure>>
      /\ BuffersOk' /\ ConsumerOk' /\ PacketsOk' /\ EndOk' /\ seen' \in Nat
  BY <1>1, PacketLeaves
<1>3. PICK p : p = packet
  OBVIOUS
<1>4. /\ p.kind = "data" /\ p.range \in Ranges /\ p.offset \in 0 .. WindowBytes
      /\ p.size \in Nat \ {0} /\ p.accounted \in Nat
  BY <1>1, <1>2, <1>3, PacketFacts, DataFacts
<1>5. /\ persisted \in [Ranges -> Offsets] /\ persisted[p.range] = p.offset
      /\ persisted' = [persisted EXCEPT ![p.range] = p.offset + p.size]
      /\ p.offset + p.size <= WindowBytes /\ Armed(p.range)
  BY <1>1, <1>2, <1>3 DEF Working, Rest, PacketsOk, RangesOk
<1>6. p.offset + p.size \in Offsets
  BY <1>4, <1>5, Sizes DEF Offsets
<1>7. /\ persisted' \in [Ranges -> Offsets] /\ persisted'[p.range] = p.offset + p.size
      /\ \A r \in Ranges \ {p.range} : persisted'[r] = persisted[r]
  BY <1>4, <1>5, <1>6
<1>8. RangesOk'
  <2>1. \A r \in Ranges : ~Armed(r) => persisted'[r] = 0
    BY <1>5, <1>7 DEF Working, Rest, RangesOk
  <2>2. completed' \subseteq Ranges
    BY <1>1 DEF Working, Rest, RangesOk
  <2> QED
    BY <1>2, <1>7, <2>1, <2>2, RangesAfter
<1>9. CompletionOk'
  <2>1. p.range \notin completed
    <3>1. p.range \in completed => p.offset = WindowBytes
      BY <1>2, <1>5 DEF Working, Rest, CompletionOk
    <3> QED
      BY <1>4, <1>5, <3>1, Sizes
  <2>2. \A r \in completed' : persisted'[r] = WindowBytes
    BY <1>1, <1>2, <1>7, <2>1 DEF Working, Rest, CompletionOk, RangesOk
  <2>3. \A r \in Ranges : OnItsWay(r) => OnItsWay(r)'
    <3>1. \A r : Line[1] # RangeComplete(r)
      BY <1>1, <1>2 DEF RangeComplete
    <3> QED
      BY <1>1, <1>2, <3>1 DEF OnItsWay
  <2> QED
    BY <1>2, <2>2, <2>3 DEF Working, Rest, CompletionOk, Armed
<1>10. MemoryOk'
  <2>1. AccountedOf(packet) = packet.accounted /\ packet.accounted \in Nat
    BY <1>1, <1>3, <1>4 DEF AccountedOf
  <2> QED
    BY <1>1, <1>2, <2>1, MemoryAfter
<1>11. OrderOk'
  <2> DEFINE l == Line
             ps == persisted
             qs == persisted'
  <2>1. LineInOrder(l, ps) /\ HandlesInOrder(l, handle, ps)
    BY <1>2 DEF Working, OrderOk
  <2>2. \A r \in Ranges : ps[r] \in Int /\ qs[r] = ps[r] + SizeIn(l[1], r)
    <3> TAKE r \in Ranges
    <3>1. ps[r] \in Nat
      BY <1>5, Sizes DEF Offsets
    <3>2. SizeIn(l[1], r) = IF p.range = r THEN p.size ELSE 0
      BY <1>2, <1>3, <1>4 DEF SizeIn
    <3> QED
      BY <1>4, <1>5, <1>7, <3>1, <3>2
  <2>3. l \in Seq(Packets) /\ l # <<>>
    BY <1>2
  <2>4. LineInOrder(Tail(l), qs) /\ HandlesInOrder(Tail(l), handle, qs)
    <3> HIDE DEF l, ps, qs
    <3> QED
      BY <2>1, <2>2, <2>3, OrderTail
  <2> QED
    BY <1>2, <2>4 DEF OrderOk
<1> QED
  BY <1>2, <1>8, <1>9, <1>10, <1>11 DEF Working, Rest

\* A packet that persists nothing leaves the line, in the end or to complete a range.
LEMMA HandleOtherKeeps ==
  ASSUME Working, TransferIInv', consumer = "counted", PacketHandled(TRUE),
         packet.kind # "data", UNCHANGED <<memory, persisted>>,
         \/ packet.kind = "range_complete" /\ completed' = completed \cup {packet.range}
         \/ packet.kind = "shutdown" /\ completed' = completed
  PROVE  Working'
<1>1. /\ Line \in Seq(Packets) /\ Line # <<>> /\ Line[1] = packet /\ Line' = Tail(Line)
      /\ packet \in Packets /\ 1 \in DOMAIN Line
      /\ \A i \in DOMAIN Line' : \E j \in DOMAIN Line : Line'[i] = Line[j]
      /\ \A j \in DOMAIN Line : j = 1 \/ \E i \in DOMAIN Line' : Line'[i] = Line[j]
      /\ Carried(Line') = Carried(Line) - AccountedOf(packet)
      /\ ~error /\ ~error' /\ UNCHANGED <<pending_ranges, handle, failure>>
      /\ BuffersOk' /\ ConsumerOk' /\ PacketsOk' /\ EndOk' /\ seen' \in Nat
  BY PacketLeaves
<1>2. packet.kind = "range_complete" => packet.range \in Ranges /\ packet = RangeComplete(packet.range)
  BY <1>1, PacketFacts
<1>3. persisted \in [Ranges -> Offsets] /\ \A r \in Ranges : persisted[r] \in Nat
  BY Sizes DEF Working, Rest, RangesOk, Offsets
<1>4. LineInOrder(Line, persisted) /\ HandlesInOrder(Line, handle, persisted)
  BY <1>1 DEF Working, OrderOk
<1>5. RangesOk'
  BY <1>1, <1>2, <1>3, RangesAfter DEF Working, Rest, RangesOk
<1>6. CompletionOk'
  <2>1. ASSUME packet.kind = "range_complete"
        PROVE  persisted[packet.range] = WindowBytes
    <3>1. PICK q \in Ranges : q = packet.range
      BY <1>2, <2>1
    <3>2. 1 \in 1 .. Len(Line) /\ Line[1] = RangeComplete(q)
      BY <1>1, <1>2, <2>1, <3>1
    <3>3. Sent(q, Line, persisted, 1 - 1) = WindowBytes
      BY <1>4, <3>1, <3>2 DEF LineInOrder
    <3>4. Sent(q, Line, persisted, 0) = persisted[q]
      BY <1>3, WeightZero DEF Sent
    <3> QED
      BY <3>1, <3>3, <3>4
  <2>2. \A r \in completed' : persisted'[r] = WindowBytes
    BY <1>1, <2>1 DEF Working, Rest, CompletionOk
  <2>3. ASSUME NEW r \in Ranges, OnItsWay(r)
        PROVE  OnItsWay(r)'
    <3>1. CASE \E j \in DOMAIN Line : Line[j] = RangeComplete(r)
      <4>1. RangeComplete(r).kind = "range_complete" /\ RangeComplete(r).range = r
        BY DEF RangeComplete
      <4>2. CASE Line[1] = RangeComplete(r)
        <5>1. r \in completed'
          BY <1>1, <4>1, <4>2
        <5> QED
          BY <5>1 DEF OnItsWay
      <4>3. CASE Line[1] # RangeComplete(r)
        BY <1>1, <3>1, <4>3 DEF OnItsWay
      <4> QED
        BY <4>2, <4>3
    <3>2. completed \subseteq completed'
      OBVIOUS
    <3> QED
      BY <1>1, <2>3, <3>1, <3>2 DEF OnItsWay
  <2> QED
    BY <1>1, <2>2, <2>3 DEF Working, Rest, CompletionOk, Armed
<1>7. MemoryOk'
  <2>1. AccountedOf(packet) = 0
    BY DEF AccountedOf
  <2>2. Carried(Line') = Carried(Line) - 0 /\ memory' = memory - 0
    BY <1>1, <2>1, SumsTyped
  <2> QED
    BY <1>1, <2>2, MemoryAfter
<1>8. OrderOk'
  <2> DEFINE l == Line
             ps == persisted
  <2>1. /\ LineInOrder(l, ps) /\ HandlesInOrder(l, handle, ps)
        /\ l \in Seq(Packets) /\ l # <<>>
    BY <1>1, <1>4
  <2>2. \A r \in Ranges : ps[r] \in Int /\ ps[r] = ps[r] + SizeIn(l[1], r)
    BY <1>1, <1>3 DEF SizeIn
  <2>3. LineInOrder(Tail(l), ps) /\ HandlesInOrder(Tail(l), handle, ps)
    <3> HIDE DEF l, ps
    <3> QED
      BY <2>1, <2>2, OrderTail
  <2> QED
    BY <1>1, <2>3 DEF OrderOk
<1> QED
  BY <1>1, <1>5, <1>6, <1>7, <1>8 DEF Working, Rest

\* An error: from now on only the accounting matters.
LEMMA HandleFailsKeeps ==
  ASSUME Working, TransferIInv', HandlePacketFails
  PROVE  Working'
<1>1. /\ consumer = "counted" /\ PacketHandled(FALSE) /\ UNCHANGED <<persisted, completed>>
      /\ memory' = memory - AccountedOf(packet)
  BY DEF HandlePacketFails, Released, AccountedOf
<1>2. /\ packet \in Packets
      /\ \A i \in DOMAIN Line' : \E j \in DOMAIN Line : Line'[i] = Line[j]
      /\ Carried(Line') = Carried(Line) - AccountedOf(packet)
      /\ error' /\ UNCHANGED <<pending_ranges, handle, failure>>
      /\ BuffersOk' /\ ConsumerOk' /\ PacketsOk' /\ EndOk' /\ seen' \in Nat
  BY <1>1, PacketLeaves
<1>3. RangesOk'
  BY <1>1, <1>2, RangesAfter DEF Working, Rest, RangesOk
<1>4. CompletionOk' /\ OrderOk'
  BY <1>2 DEF CompletionOk, OrderOk
<1>5. MemoryOk'
  <2>1. AccountedOf(packet) \in Nat
    BY <1>2, Weights
  <2> QED
    BY <1>1, <1>2, <2>1, MemoryAfter
<1> QED
  BY <1>2, <1>3, <1>4, <1>5 DEF Working, Rest

LEMMA FlushFailsKeeps ==
  ASSUME Working, TransferIInv', FlushFails
  PROVE  Working'
<1>1. /\ consumer = "waiting" /\ consumer' = "ended" /\ error' = TRUE /\ NetworkUnchanged
      /\ Line' = Line
      /\ UNCHANGED <<data_queue, packet, memory, persisted, completed, pending_ranges, handle,
                     failure, pc, uncounted>>
  BY LineSame DEF FlushFails, NetworkUnchanged
<1>2. BuffersOk' /\ EndOk' /\ seen' \in Nat
  BY <1>1, NetworkKeeps
<1>3. ConsumerOk'
  BY <1>1, Kinds DEF Working, Rest, ConsumerOk
<1>4. RangesOk' /\ PacketsOk'
  BY <1>1, RangesSame
<1>5. CompletionOk' /\ OrderOk'
  BY <1>1 DEF CompletionOk, OrderOk
<1>6. MemoryOk'
  BY <1>1 DEF Working, MemoryOk
<1> QED
  BY <1>2, <1>3, <1>4, <1>5, <1>6 DEF Working, Rest

-----------------------------------------------------------------------------
(***************************************************************************)
(* The theorems.                                                           *)
(***************************************************************************)
LEMMA InitWorking == Init => Working
<1> SUFFICES ASSUME Init PROVE Working
  OBVIOUS
<1>1. TransferIInv /\ QueueOk /\ handle \in [Handles -> TransferHandles]
  BY InitOk DEF TransferIInv, HandlesOk
<1>2. /\ pc = "check" /\ pending_ranges = RangeCount /\ uncounted = 0 /\ memory = 0
      /\ seen = 0 /\ failure = FALSE /\ error = FALSE /\ consumer = "waiting"
      /\ packet = NoPacket /\ data_queue = <<>> /\ completed = {}
      /\ persisted = [r \in Ranges |-> 0]
  BY DEF Init
<1>3. \A h \in Handles : /\ handle[h].range = NoRange /\ handle[h].buffer.size = 0
                         /\ handle[h].buffer.accounted = 0
  BY DEF Init, IdleHandle, EmptyBuffer
<1>4. Line \in Seq(Packets) /\ Line = <<>> /\ DOMAIN Line = {} /\ Len(Line) = 0
  <2>1. Line = <<>> /\ Line \in Seq(Packets)
    BY <1>1, <1>2, LineFacts
  <2> QED
    BY <2>1
<1>5. \A r \in Ranges : ~Armed(r) /\ r # NoRange
  BY <1>2, Sizes DEF Armed, Ranges, NoRange
<1>6. BuffersOk /\ ConsumerOk /\ PacketsOk /\ EndOk /\ seen \in Nat
  BY <1>2, <1>3, <1>4, Kinds DEF BuffersOk, BufferOk, ConsumerOk, PacketsOk, EndOk
<1>7. RangesOk
  <2>1. persisted \in [Ranges -> Offsets]
    BY <1>2, Sizes DEF Offsets
  <2> QED
    BY <1>2, <1>3, <1>4, <2>1 DEF RangesOk
<1>8. CompletionOk
  BY <1>2, <1>5 DEF CompletionOk
<1>9. MemoryOk
  <2>1. Held(handle) = 0
    <3> DEFINE f == [h \in Handles |-> handle[h].buffer.accounted]
    <3>1. \A h \in Handles : f[h] = 0
      BY <1>3
    <3> HIDE DEF f
    <3>2. Sum(f, Handles) = 0
      BY <3>1, HandlesFinite, SumZero
    <3> QED
      BY <3>2 DEF Held, f
  <2>2. Carried(Line) = 0
    BY <1>4, WeightZero DEF Carried
  <2> QED
    BY <1>2, <2>1, <2>2 DEF MemoryOk
<1>10. OrderOk
  BY <1>3, <1>4, <1>5 DEF OrderOk, LineInOrder, HandlesInOrder
<1> QED
  BY <1>1, <1>6, <1>7, <1>8, <1>9, <1>10 DEF Working, Rest

LEMMA NextWorking ==
  ASSUME Working, Next
  PROVE  Working'
<1>1. TransferIInv'
  BY NextOk DEF Working
<1>2. CASE Orchestrator
  BY <1>1, <1>2, StepsKeep, ArmKeeps, BackpressureKeeps, ResumeKeeps, AppendArrivedKeeps,
     ReadMessageKeeps, FlushBlockingKeeps, FinishKeeps, ReleaseKeeps, CountEnqueuedKeeps
  DEF Orchestrator
<1>3. CASE Persistence
  <2>1. CASE HandleRangeComplete
    BY <1>1, <2>1, HandleOtherKeeps DEF HandleRangeComplete
  <2>2. CASE HandleShutdown
    BY <1>1, <2>2, HandleOtherKeeps DEF HandleShutdown
  <2> QED
    BY <1>1, <1>3, <2>1, <2>2, DequeueKeeps, DequeueShutdownKeeps, CountDequeuedKeeps,
       HandleDataKeeps
    DEF Persistence
<1>4. CASE PerformFails
  BY <1>1, <1>4, StepsKeep
<1> QED
  BY <1>1, <1>2, <1>3, <1>4, PerformKeeps, HandleFailsKeeps, FlushFailsKeeps DEF Next

LEMMA StutterWorking ==
  ASSUME Working, UNCHANGED vars
  PROVE  Working'
<1>1. /\ UNCHANGED <<pc, current, pending_ranges, handle, failure, uncounted, memory, seen>>
      /\ UNCHANGED <<data_queue, consumer, packet, persisted, completed, error>> /\ Line' = Line
  BY LineSame DEF vars, consumerVars
<1>2. TransferIInv'
  BY StutterOk DEF Working
<1>3. BuffersOk' /\ ConsumerOk' /\ EndOk' /\ seen' \in Nat
  BY <1>1 DEF Working, Rest, BuffersOk, BufferOk, ConsumerOk, EndOk, NetworkDone
<1>4. RangesOk' /\ CompletionOk' /\ PacketsOk'
  BY <1>1, RangesSame
<1>5. MemoryOk' /\ OrderOk'
  BY <1>1, DataSame DEF SameData
<1> QED
  BY <1>2, <1>3, <1>4, <1>5 DEF Working, Rest

\* The inductive invariant of delivery: whatever is sent, fails or waits, every byte
\* is with one holder, in the order of the file.
THEOREM DeliveryInvariant == Spec => []DeliveryIInv
<1>1. Working /\ [Next]_vars => Working'
  BY NextWorking, StutterWorking
<1>2. Spec => []Working
  BY <1>1, InitWorking, PTL DEF Spec
<1> QED
  BY <1>2, WorkingMeaning, PTL

\* MemoryAccounting::current_bytes_ is what the buffers, the queue and the packet in hand
\* hold together: nothing is released twice or forgotten.
COROLLARY MemoryCorrect == Spec => []MemoryAccounted
<1>1. DeliveryIInv => MemoryAccounted
  BY DEF DeliveryIInv
<1> QED
  BY <1>1, DeliveryInvariant, PTL

\* The packets of a range, and its completion after them, reach the persistence thread
\* in order and without a gap, whatever pauses and flushes came between.
COROLLARY OrderCorrect == Spec => []DeliveredInOrder
<1>1. DeliveryIInv => DeliveredInOrder
  BY DEF DeliveryIInv
<1> QED
  BY <1>1, DeliveryInvariant, PTL

\* Every variable holds a value of its type; the accounting in particular never wraps.
COROLLARY TransferTypeCorrect == Spec => []TypeOK
<1>1. Working => TypeOK
  <2> SUFFICES ASSUME Working PROVE TypeOK
    OBVIOUS
  <2>1. /\ watermarks \in Watermarks /\ pc \in Steps /\ current \in 1 .. HandleCount + 1
        /\ arriving \in 0 .. ChunkBytes /\ pending_ranges \in 0 .. RangeCount
        /\ handle \in [Handles -> TransferHandles]
    BY DEF Working, TransferIInv, NetworkTyped, HandlesOk
  <2>2. /\ data_queue \in Seq(QueuePackets) /\ queued_packets \in Int /\ uncounted \in {0, 1}
        /\ consumer \in {"waiting", "taken", "counted", "ended"}
        /\ packet \in QueuePackets \cup {Shutdown, NoPacket}
    BY DEF Working, TransferIInv, QueueOk
  <2>3. /\ seen \in Nat /\ failure \in BOOLEAN /\ error \in BOOLEAN
        /\ persisted \in [Ranges -> Offsets] /\ completed \subseteq Ranges
    BY DEF Working, Rest, EndOk, RangesOk
  <2> QED
    BY <2>1, <2>2, <2>3, MemoryNat DEF TypeOK
<1> QED
  BY <1>1, DeliveryInvariant, WorkingMeaning, PTL

\* When run() ends without an error everything is persisted, completed and given back,
\* but for the one packet that shutdown may overtake.
COROLLARY SuccessCorrect == Spec => []SuccessIsComplete
<1>1. Working => SuccessIsComplete
  <2> SUFFICES ASSUME Working, pc = "ended", ~failure, Len(data_queue) # 1
               PROVE  /\ data_queue = <<>> /\ queued_packets = 0 /\ memory = 0
                      /\ completed = Ranges
                      /\ \A r \in Ranges : persisted[r] = WindowBytes
    BY DEF SuccessIsComplete
  <2>1. /\ consumer = "ended" /\ ~error /\ packet = NoPacket /\ uncounted = 0
        /\ Len(data_queue) <= 1
    BY DEF Working, Rest, EndOk, ConsumerOk
  <2>2. data_queue = <<>>
    <3>1. data_queue \in Seq(QueuePackets) /\ Len(data_queue) \in Nat
      BY DEF Working, TransferIInv, QueueOk
    <3>2. Len(data_queue) = 0
      BY <2>1, <3>1
    <3> QED
      BY <3>1, <3>2
  <2>3. Line = <<>> /\ DOMAIN Line = {} /\ Len(Line) = 0
    <3>1. Line = <<>>
      BY <2>1, <2>2, LineFacts DEF Working, TransferIInv
    <3> QED
      BY <3>1
  <2>4. queued_packets = 0
    BY <2>1, <2>2 DEF Working, TransferIInv, QueueOk, QueuedPacketsExact
  <2>5. pending_ranges = 0 /\ \A h \in Handles : handle[h].range = NoRange
    BY DEF Working, Rest, EndOk, NetworkDone
  <2>6. memory = 0
    <3> DEFINE f == [h \in Handles |-> handle[h].buffer.accounted]
    <3>1. \A h \in Handles : f[h] = 0
      BY <2>5, Sizes DEF Working, Rest, TransferIInv, HandlesOk, HandleOk, TransferHandles,
         Buffers, BuffersOk, BufferOk
    <3> HIDE DEF f
    <3>2. Sum(f, Handles) = 0
      BY <3>1, HandlesFinite, SumZero
    <3>3. Held(handle) = 0
      BY <3>2 DEF Held, f
    <3>4. Carried(Line) = 0
      BY <2>3, WeightZero DEF Carried
    <3> QED
      BY <3>3, <3>4, SumsTyped
  <2>7. Ranges \subseteq completed
    <3>1. \A r \in Ranges : r # NoRange /\ Armed(r)
      BY <2>5, Sizes DEF Ranges, NoRange, Armed
    <3> QED
      BY <2>1, <2>3, <2>5, <3>1 DEF Working, Rest, CompletionOk, OnItsWay
  <2>8. completed = Ranges /\ \A r \in Ranges : persisted[r] = WindowBytes
    BY <2>1, <2>7 DEF Working, Rest, RangesOk, CompletionOk
  <2> QED
    BY <2>2, <2>4, <2>6, <2>8
<1> QED
  BY <1>1, DeliveryInvariant, WorkingMeaning, PTL

\* Nothing is queued and nobody has a packet: the counter is zero, and what is accounted is
\* what the buffers hold.
LEMMA NothingInLine ==
  ASSUME Working, Line = <<>>, uncounted = 0
  PROVE  queued_packets = 0 /\ memory = BufferedMemory
<1>1. packet = NoPacket /\ data_queue = <<>>
  BY LineFacts DEF Working, TransferIInv
<1>2. consumer # "taken"
  BY <1>1 DEF Working, Rest, ConsumerOk
<1>3. queued_packets = 0
  <2>1. Len(data_queue) = 0
    BY <1>1
  <2> QED
    BY <1>2, <2>1 DEF Working, TransferIInv, QueueOk, QueuedPacketsExact
<1>4. Carried(Line) = 0
  <2>1. Len(Line) = 0
    OBVIOUS
  <2> QED
    BY <2>1, WeightZero DEF Carried
<1>5. memory = Held(handle)
  BY <1>4, SumsTyped
<1> QED
  BY <1>3, <1>5 DEF Held, BufferedMemory

\* What resume_paused_transfers leaves when the memory it saw is below the low watermark
\* and the queue has room.
LEMMA AllReleased ==
  ASSUME NEW pauses \in SUBSET {"memory", "queue", "boundary"}, "boundary" \notin pauses,
         QueueReady, ~AboveLow
  PROVE  Remaining(pauses) = {}
BY DEF Remaining

\* A transfer that resume_paused_transfers looks at when the persistence thread has nothing
\* left to do goes on, unless buffers hold more than the low watermark or its server sends
\* more than its window.
COROLLARY ReleaseCorrect == Spec => ResumeReleases
<1>1. ASSUME Working, ResumeTransfer, handle[current].in_multi, Line = <<>>, seen = memory,
             "boundary" \notin handle[current].pauses, ~(BufferedMemory > watermarks.low)
      PROVE  ~handle'[current].curl_paused
  <2>1. current \in Handles /\ uncounted = 0 /\ handle \in [Handles -> TransferHandles]
    BY <1>1, Sizes DEF ResumeTransfer, At, Working, TransferIInv, NetworkTyped, HandlesOk, Handles
  <2> DEFINE old == handle[current].pauses
             new == Remaining(old)
  <2>2. old \in SUBSET {"memory", "queue", "boundary"}
    BY <2>1 DEF TransferHandles
  <2>3. QueueReady /\ ~AboveLow
    BY <1>1, <2>1, NothingInLine, Sizes DEF QueueReady, AboveLow
  <2>4. new = {}
    BY <1>1, <2>2, <2>3, AllReleased
  <2>5. handle'[current].curl_paused = (handle[current].curl_paused /\ ~Continues(old, new))
    BY <1>1, <2>1 DEF ResumeTransfer, TransferHandles
  <2>6. handle[current].curl_paused <=> old # {}
    BY <1>1, <2>1, PausesOk DEF Working, TransferIInv, PausedForAReason
  <2> QED
    BY <2>4, <2>5, <2>6 DEF Continues
<1>2. Working /\ [Next]_vars =>
        [ResumeTransfer /\ handle[current].in_multi /\ Line = <<>> /\ seen = memory
           => \/ "boundary" \in handle[current].pauses
              \/ BufferedMemory > watermarks.low
              \/ ~handle'[current].curl_paused]_vars
  BY <1>1
<1>3. Spec => []Working
  BY DeliveryInvariant, WorkingMeaning, PTL
<1> QED
  BY <1>2, <1>3, PTL DEF Spec, ResumeReleases
=============================================================================
