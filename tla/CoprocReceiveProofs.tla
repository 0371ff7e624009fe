------------------------ MODULE CoprocReceiveProofs ------------------------
(* Proofs about CoprocReceive: its buffers are never overrun, and the       *)
(* queue between the interrupt and the main loop, which no lock guards,     *)
(* never loses the order of the stream.                                     *)
EXTENDS CoprocReceive, TLAPS

-----------------------------------------------------------------------------
(* Indices of the chunk queue *)

LEMMA ModSmall ==
  ASSUME NEW n \in Nat \ {0}, NEW a \in 0 .. n - 1
  PROVE  a % n = a
OBVIOUS

LEMMA ModWrap ==
  ASSUME NEW n \in Nat \ {0}, NEW a \in 0 .. n - 1
  PROVE  (a + n) % n = a
OBVIOUS

(* The index after i. *)
LEMMA NextIndexIs ==
  ASSUME NEW i \in SlotIds
  PROVE  /\ NextIndex(i) = IF i = QueueDepth - 1 THEN 0 ELSE i + 1
         /\ NextIndex(i) \in SlotIds
<1>1. QueueDepth \in Nat \ {0, 1} /\ i \in 0 .. QueueDepth - 1
  BY ReceiveAssumption DEF SlotIds
<1>2. CASE i = QueueDepth - 1
  <2>1. i + 1 = 0 + QueueDepth /\ 0 \in 0 .. QueueDepth - 1
    BY <1>1, <1>2
  <2>. QED
    BY <1>1, <1>2, <2>1, ModWrap DEF NextIndex, SlotIds
<1>3. CASE i # QueueDepth - 1
  <2>1. i + 1 \in 0 .. QueueDepth - 1
    BY <1>1, <1>3
  <2>. QED
    BY <1>1, <1>3, <2>1, ModSmall DEF NextIndex, SlotIds
<1>. QED
  BY <1>2, <1>3

(* How far slot i is behind the slot t. *)
Distance(i, t) == IF i >= t THEN i - t ELSE i + QueueDepth - t

LEMMA DistanceIs ==
  ASSUME NEW i \in SlotIds, NEW t \in SlotIds
  PROVE  (i + QueueDepth - t) % QueueDepth = Distance(i, t)
<1>1. QueueDepth \in Nat \ {0} /\ t \in 0 .. QueueDepth - 1 /\ i \in 0 .. QueueDepth - 1
  BY ReceiveAssumption DEF SlotIds
<1>2. CASE i >= t
  <2>1. i - t \in 0 .. QueueDepth - 1 /\ i + QueueDepth - t = (i - t) + QueueDepth
    BY <1>1, <1>2
  <2>. QED
    BY <1>1, <1>2, <2>1, ModWrap DEF Distance
<1>3. CASE i < t
  <2>1. i + QueueDepth - t \in 0 .. QueueDepth - 1
    BY <1>1, <1>3
  <2>. QED
    BY <1>1, <1>3, <2>1, ModSmall DEF Distance
<1>. QED
  BY <1>1, <1>2, <1>3

(* Releasing the slot at the tail: the others move one place up, and only   *)
(* slots that waited wait.                                                  *)
LEMMA Released ==
  ASSUME head \in SlotIds, tail \in SlotIds, tail # head, tail' = NextIndex(tail), head' = head
  PROVE  /\ Waiting' = Waiting \ {tail}
         /\ \A i, j \in Waiting' : Rank(i)' < Rank(j)' => Rank(i) < Rank(j)
<1>. DEFINE next == NextIndex(tail)
<1>1. /\ QueueDepth \in Nat \ {0, 1} /\ SlotIds = 0 .. QueueDepth - 1
      /\ next = IF tail = QueueDepth - 1 THEN 0 ELSE tail + 1
      /\ next \in SlotIds
  BY NextIndexIs, ReceiveAssumption DEF SlotIds
<1>2. \A i \in SlotIds : Rank(i) = Distance(i, tail)
  BY DistanceIs DEF Rank
<1>3. \A i \in SlotIds : Rank(i)' = Distance(i, next)
  BY <1>1, DistanceIs DEF Rank
<1>4. \A i \in SlotIds \ {tail} : Distance(i, next) = Distance(i, tail) - 1
  BY <1>1 DEF Distance
<1>5. Distance(tail, next) = QueueDepth - 1
  BY <1>1 DEF Distance
<1>6. \A i \in SlotIds : Distance(i, tail) \in 0 .. QueueDepth - 1
  BY <1>1 DEF Distance
<1>7. head \in SlotIds \ {tail} /\ Distance(head, next) = Distance(head, tail) - 1
  BY <1>4
<1>8. ASSUME NEW i \in Waiting' PROVE i \in Waiting \ {tail}
  <2>1. i \in SlotIds /\ Distance(i, next) < Distance(head, next)
    BY <1>3, <1>8 DEF Waiting
  <2>2. i # tail
    BY <1>1, <1>5, <1>6, <1>7, <2>1
  <2>3. Distance(i, tail) < Distance(head, tail)
    BY <1>1, <1>4, <1>6, <1>7, <2>1, <2>2
  <2>. QED
    BY <1>2, <2>1, <2>2, <2>3 DEF Waiting
<1>9. ASSUME NEW i \in Waiting', NEW j \in Waiting', Rank(i)' < Rank(j)'
      PROVE  Rank(i) < Rank(j)
  <2>1. i \in SlotIds \ {tail} /\ j \in SlotIds \ {tail}
    BY <1>8 DEF Waiting
  <2>2. Distance(i, next) < Distance(j, next)
    BY <1>3, <1>9, <2>1
  <2>. QED
    BY <1>1, <1>2, <1>4, <1>6, <2>1, <2>2
<1>10. ASSUME NEW i \in Waiting \ {tail} PROVE i \in Waiting'
  <2>1. i \in SlotIds \ {tail} /\ Distance(i, tail) < Distance(head, tail)
    BY <1>2, <1>10 DEF Waiting
  <2>2. Distance(i, next) < Distance(head, next)
    BY <1>1, <1>4, <1>6, <1>7, <2>1
  <2>. QED
    BY <1>3, <2>1, <2>2 DEF Waiting
<1>. QED
  BY <1>8, <1>9, <1>10

(* Filling the slot at the head, which is not the last free one: it is the  *)
(* only one that joins those that wait, and it is behind all of them.       *)
LEMMA Filled ==
  ASSUME head \in SlotIds, tail \in SlotIds, NextIndex(head) # tail,
         tail' = tail, head' = NextIndex(head)
  PROVE  /\ Waiting' = Waiting \cup {head}
         /\ \A i \in SlotIds : Rank(i)' = Rank(i)
<1>1. /\ QueueDepth \in Nat \ {0, 1} /\ SlotIds = 0 .. QueueDepth - 1
      /\ NextIndex(head) = IF head = QueueDepth - 1 THEN 0 ELSE head + 1
      /\ NextIndex(head) \in SlotIds
  BY NextIndexIs, ReceiveAssumption DEF SlotIds
<1>2. \A i \in SlotIds : Rank(i) = Distance(i, tail)
  BY DistanceIs DEF Rank
<1>3. \A i \in SlotIds : Rank(i)' = Rank(i)
  BY DEF Rank
<1>4. ASSUME NEW i \in Waiting' PROVE i \in Waiting \cup {head}
  <2>1. i \in SlotIds /\ Distance(i, tail) < Distance(NextIndex(head), tail)
    BY <1>1, <1>2, <1>3, <1>4 DEF Waiting, Rank
  <2>2. i = head \/ Distance(i, tail) < Distance(head, tail)
    BY <1>1, <2>1 DEF Distance
  <2>. QED
    BY <1>2, <2>1, <2>2 DEF Waiting
<1>5. ASSUME NEW i \in Waiting \cup {head} PROVE i \in Waiting'
  <2>1. i \in SlotIds /\ (i = head \/ Distance(i, tail) < Distance(head, tail))
    BY <1>1, <1>2, <1>5 DEF Waiting
  <2>2. Distance(i, tail) < Distance(NextIndex(head), tail)
    BY <1>1, <2>1 DEF Distance
  <2>. QED
    BY <1>1, <1>2, <1>3, <2>1, <2>2 DEF Waiting, Rank
<1>. QED
  BY <1>3, <1>4, <1>5

-----------------------------------------------------------------------------
(* Sequences of bytes *)

(* Appending what lies behind, and taking the first byte away. *)
LEMMA JoinRising ==
  ASSUME NEW s \in ByteSeqs, NEW t \in ByteSeqs, Rising(s), Rising(t), Before(s, t)
  PROVE  Rising(s \o t)
<1>1. s \in Seq(Bytes) /\ t \in Seq(Bytes)
  BY DEF ByteSeqs
<1>. SUFFICES ASSUME NEW i \in DOMAIN (s \o t), NEW j \in DOMAIN (s \o t), i < j
              PROVE  (s \o t)[i] < (s \o t)[j]
  BY DEF Rising
<1>2. CASE j \in DOMAIN s
  BY <1>1, <1>2 DEF Rising
<1>3. CASE i \in DOMAIN s /\ j \notin DOMAIN s
  <2>1. j - Len(s) \in DOMAIN t /\ (s \o t)[j] = t[j - Len(s)] /\ (s \o t)[i] = s[i]
    BY <1>1, <1>3
  <2>. QED
    BY <1>3, <2>1 DEF Before
<1>4. CASE i \notin DOMAIN s
  <2>1. /\ i - Len(s) \in DOMAIN t /\ (s \o t)[i] = t[i - Len(s)]
        /\ j - Len(s) \in DOMAIN t /\ (s \o t)[j] = t[j - Len(s)]
        /\ i - Len(s) < j - Len(s)
    BY <1>1, <1>4
  <2>. QED
    BY <2>1 DEF Rising
<1>. QED
  BY <1>2, <1>3, <1>4

LEMMA JoinBefore ==
  ASSUME NEW a \in ByteSeqs, NEW s \in ByteSeqs, NEW t \in ByteSeqs
  PROVE  /\ Before(a, s) /\ Before(a, t) => Before(a, s \o t)
         /\ Before(s, a) /\ Before(t, a) => Before(s \o t, a)
<1>1. \A i \in DOMAIN (s \o t) :
        \/ i \in DOMAIN s /\ (s \o t)[i] = s[i]
        \/ i - Len(s) \in DOMAIN t /\ (s \o t)[i] = t[i - Len(s)]
  BY DEF ByteSeqs
<1>. QED
  BY <1>1 DEF Before

LEMMA Splits ==
  ASSUME NEW s \in ByteSeqs, s # <<>>
  PROVE  /\ <<s[1]>> \in ByteSeqs /\ Tail(s) \in ByteSeqs /\ s[1] \in Bytes
         /\ Rising(s) => Rising(Tail(s)) /\ Before(<<s[1]>>, Tail(s))
         /\ \A t \in ByteSeqs : /\ Before(s, t) => Before(<<s[1]>>, t) /\ Before(Tail(s), t)
                                /\ Before(t, s) => Before(t, <<s[1]>>) /\ Before(t, Tail(s))
<1>1. /\ 1 \in DOMAIN s /\ s[1] \in Bytes /\ Tail(s) \in ByteSeqs /\ Len(Tail(s)) = Len(s) - 1
      /\ DOMAIN <<s[1]>> = {1} /\ <<s[1]>>[1] = s[1] /\ <<s[1]>> \in ByteSeqs
      /\ \A i \in DOMAIN Tail(s) : i \in Nat /\ i + 1 \in DOMAIN s /\ Tail(s)[i] = s[i + 1] /\ 1 < i + 1
  BY DEF ByteSeqs
<1>2. Rising(s) => Rising(Tail(s)) /\ Before(<<s[1]>>, Tail(s))
  <2>. SUFFICES ASSUME Rising(s) PROVE Rising(Tail(s)) /\ Before(<<s[1]>>, Tail(s))
    OBVIOUS
  <2>1. ASSUME NEW i \in DOMAIN Tail(s), NEW j \in DOMAIN Tail(s), i < j
        PROVE  Tail(s)[i] < Tail(s)[j]
    <3>1. i + 1 < j + 1
      BY <1>1, <2>1
    <3>. QED
      BY <1>1, <3>1 DEF Rising
  <2>2. Before(<<s[1]>>, Tail(s))
    BY <1>1 DEF Rising, Before
  <2>. QED
    BY <2>1, <2>2 DEF Rising
<1>3. ASSUME NEW t \in ByteSeqs
      PROVE  /\ Before(s, t) => Before(<<s[1]>>, t) /\ Before(Tail(s), t)
             /\ Before(t, s) => Before(t, <<s[1]>>) /\ Before(t, Tail(s))
  BY <1>1 DEF Before
<1>. QED
  BY <1>1, <1>2, <1>3

(* One byte, and none. *)
LEMMA Short ==
  /\ <<>> \in ByteSeqs /\ Len(<<>>) = 0 /\ Rising(<<>>)
  /\ \A t : Before(<<>>, t) /\ Before(t, <<>>)
  /\ \A b \in Bytes : Rising(<<b>>)
BY DEF ByteSeqs, Rising, Before, Bytes

-----------------------------------------------------------------------------
(* Types *)

(* A chunk in a slot fits the main loop's buffer. *)
SlotsFit == \A i \in SlotIds : Len(slots[i]) <= ChunkSize

(* What arrives with one event: bytes in order, behind all that came before. *)
LEMMA IncomingIs ==
  ASSUME arrived \in 0 .. Total, NEW n \in 1 .. ChunkSize, Arrives(n)
  PROVE  /\ arrived' \in 0 .. Total /\ arrived <= arrived'
         /\ Incoming(n) \in ByteSeqs /\ Len(Incoming(n)) = n
         /\ BytesIn(Incoming(n)) \subseteq Bytes
         /\ Rising(Incoming(n))
         /\ \A i \in DOMAIN Incoming(n) : arrived < Incoming(n)[i] /\ Incoming(n)[i] <= arrived'
<1>1. ChunkSize \in Nat /\ Total \in Nat /\ n \in Nat
  BY ReceiveAssumption DEF Total
<1>2. arrived \in Nat /\ arrived + n <= Total /\ arrived' = arrived + n
  BY <1>1 DEF Arrives
<1>3. DOMAIN Incoming(n) = 1 .. n /\ \A i \in 1 .. n : Incoming(n)[i] = arrived + i
  BY DEF Incoming
<1>4. \A i \in 1 .. n : arrived + i \in 1 .. Total
  BY <1>1, <1>2
<1>5. Incoming(n) \in ByteSeqs /\ Len(Incoming(n)) = n
  <2>1. Incoming(n) \in [1 .. n -> Bytes]
    BY <1>4 DEF Incoming, Bytes
  <2>. QED
    BY <1>1, <2>1 DEF ByteSeqs
<1>6. BytesIn(Incoming(n)) \subseteq Bytes
  BY <1>3, <1>4 DEF BytesIn, Bytes
<1>7. Rising(Incoming(n))
  BY <1>1, <1>2, <1>3 DEF Rising
<1>. QED
  BY <1>1, <1>2, <1>3, <1>5, <1>6, <1>7

(* The bytes of a sequence of bytes. *)
LEMMA BytesInType ==
  ASSUME NEW s \in ByteSeqs
  PROVE  BytesIn(s) \subseteq Bytes
BY DEF ByteSeqs, BytesIn

(* Queueing a chunk, or dropping it. *)
LEMMA EnqueueType ==
  ASSUME TypeOK, SlotsFit, NEW n \in 1 .. ChunkSize, Arrives(n), EnqueueRxChunk(n)
  PROVE  /\ slots' \in [SlotIds -> ByteSeqs] /\ SlotsFit' /\ head' \in SlotIds
         /\ dropped' \subseteq Bytes
<1>1. /\ Incoming(n) \in ByteSeqs /\ Len(Incoming(n)) = n
      /\ BytesIn(Incoming(n)) \subseteq Bytes
      /\ NextIndex(head) \in SlotIds
  BY IncomingIs, NextIndexIs DEF TypeOK
<1>2. n <= ChunkSize
  BY ReceiveAssumption
<1>3. CASE NextIndex(head) = tail
  BY <1>1, <1>3 DEF EnqueueRxChunk, TypeOK, SlotsFit
<1>4. CASE NextIndex(head) # tail
  <2>1. slots' = [slots EXCEPT ![head] = Incoming(n)] /\ head' = NextIndex(head) /\ dropped' = dropped
    BY <1>4 DEF EnqueueRxChunk
  <2>2. slots' \in [SlotIds -> ByteSeqs]
    BY <1>1, <2>1 DEF TypeOK
  <2>3. \A i \in SlotIds : slots'[i] = IF i = head THEN Incoming(n) ELSE slots[i]
    BY <2>1 DEF TypeOK
  <2>. QED
    BY <1>1, <1>2, <2>1, <2>2, <2>3 DEF TypeOK, SlotsFit
<1>. QED
  BY <1>3, <1>4

TypeInv == TypeOK /\ SlotsFit

LEMMA InterruptType ==
  ASSUME TypeInv, Interrupt
  PROVE  TypeInv'
<1>. USE DEF TypeInv
<1>1. ArmRx => armed' \in BOOLEAN
  BY DEF ArmRx
<1>2. CASE RxEvent
  <2>1. PICK n \in 1 .. ChunkSize : Arrives(n) /\ EnqueueRxChunk(n)
    BY <1>2 DEF RxEvent
  <2>2. arrived' \in 0 .. Total
    BY <2>1, IncomingIs DEF TypeOK
  <2>3. /\ slots' \in [SlotIds -> ByteSeqs] /\ SlotsFit' /\ head' \in SlotIds
        /\ dropped' \subseteq Bytes
    BY <2>1, EnqueueType
  <2>. QED
    BY <1>1, <1>2, <2>2, <2>3 DEF RxEvent, TypeOK, frameVars
<1>3. CASE HandleError
  <2>1. PICK n \in 1 .. ChunkSize : Arrives(n) /\ dropped' = dropped \cup BytesIn(Incoming(n))
    BY <1>3 DEF HandleError
  <2>2. arrived' \in 0 .. Total /\ dropped' \subseteq Bytes
    BY <2>1, IncomingIs DEF TypeOK
  <2>. QED
    BY <1>1, <1>3, <2>2 DEF HandleError, TypeOK, SlotsFit, frameVars
<1>4. CASE Deaf
  <2>1. PICK n \in 1 .. ChunkSize : Arrives(n) /\ dropped' = dropped \cup BytesIn(Incoming(n))
    BY <1>4 DEF Deaf
  <2>2. arrived' \in 0 .. Total /\ dropped' \subseteq Bytes
    BY <2>1, IncomingIs DEF TypeOK
  <2>. QED
    BY <1>4, <2>2 DEF Deaf, TypeOK, SlotsFit, frameVars
<1>. QED
  BY <1>2, <1>3, <1>4 DEF Interrupt

(* The free space of the ring is looked at before the chunk goes in. *)
LEMMA IngestType ==
  ASSUME TypeOK, IngestBytes
  PROVE  /\ ring' \in ByteSeqs /\ Len(ring') <= RingSize
         /\ candidate' \in ByteSeqs /\ Len(candidate') <= CandidateSize
         /\ truncated' \in BOOLEAN /\ dropped' \subseteq Bytes
<1>1. ring \in Seq(Bytes) /\ chunk \in Seq(Bytes) /\ candidate \in Seq(Bytes)
  BY DEF TypeOK, ByteSeqs
<1>2. CASE Len(ring) + Len(chunk) > RingSize
  <2>1. ring' = <<>> /\ candidate' = <<>> /\ truncated' = FALSE
    BY <1>2 DEF IngestBytes
  <2>2. dropped' \subseteq Bytes
    BY <1>2, BytesInType DEF IngestBytes, TypeOK
  <2>3. RingSize >= 0 /\ CandidateSize >= 0
    BY ReceiveAssumption
  <2>. QED
    BY <2>1, <2>2, <2>3, Short
<1>3. CASE ~(Len(ring) + Len(chunk) > RingSize)
  <2>1. ring' = ring \o chunk /\ UNCHANGED <<candidate, truncated, dropped>>
    BY <1>3 DEF IngestBytes
  <2>2. ring \o chunk \in Seq(Bytes) /\ Len(ring \o chunk) = Len(ring) + Len(chunk)
    BY <1>1
  <2>. QED
    BY <1>1, <1>3, <2>1, <2>2, ReceiveAssumption DEF TypeOK, ByteSeqs
<1>. QED
  BY <1>2, <1>3

(* One byte of the delimiter search. *)
LEMMA ByteType ==
  ASSUME TypeOK, ring # <<>>, ring' = Tail(ring), EndOfFrame \/ ByteOfFrame, pc = "process"
  PROVE  /\ ring' \in ByteSeqs /\ Len(ring') <= RingSize
         /\ candidate' \in ByteSeqs /\ Len(candidate') <= CandidateSize
         /\ truncated' \in BOOLEAN /\ delivered' \in Seq(1 .. Frames)
         /\ pc' \in {"drain", "process"}
<1>1. ring \in Seq(Bytes) /\ candidate \in Seq(Bytes) /\ ring[1] \in Bytes
  BY DEF TypeOK, ByteSeqs
<1>2. Tail(ring) \in Seq(Bytes) /\ Len(Tail(ring)) <= Len(ring)
  BY <1>1
<1>3. ring' \in ByteSeqs /\ Len(ring') <= RingSize
  BY <1>1, <1>2, ReceiveAssumption DEF TypeOK, ByteSeqs
<1>4. CASE EndOfFrame
  <2>1. candidate' = <<>> /\ truncated' = FALSE
    BY <1>4 DEF EndOfFrame, CandidateAfter
  <2>2. delivered' \in Seq(1 .. Frames) /\ pc' \in {"drain", "process"}
    <3>1. CASE delivered' = delivered /\ pc' = pc
      BY <3>1 DEF TypeOK
    <3>2. ASSUME NEW f \in 1 .. Frames, delivered' = Append(delivered, f),
                 pc' = pc \/ pc' = "drain"
          PROVE  delivered' \in Seq(1 .. Frames) /\ pc' \in {"drain", "process"}
      BY <3>2 DEF TypeOK
    <3>. QED
      BY <1>4, <3>1, <3>2 DEF EndOfFrame, FrameOf
  <2>3. CandidateSize >= 0
    BY ReceiveAssumption
  <2>. QED
    BY <1>3, <2>1, <2>2, <2>3, Short
<1>5. CASE ByteOfFrame
  <2>1. delivered' = delivered /\ pc' = pc
    BY <1>5 DEF ByteOfFrame
  <2>2. \/ truncated' = TRUE /\ candidate' = candidate
        \/ /\ candidate' = Append(candidate, ring[1]) /\ truncated' = truncated
           /\ ~(Len(candidate) >= CandidateSize)
    BY <1>5 DEF ByteOfFrame
  <2>3. Append(candidate, ring[1]) \in Seq(Bytes)
        /\ Len(Append(candidate, ring[1])) = Len(candidate) + 1
    BY <1>1
  <2>4. candidate' \in ByteSeqs /\ Len(candidate') <= CandidateSize
    <3>1. CASE candidate' = candidate
      BY <3>1 DEF TypeOK
    <3>2. CASE candidate' = Append(candidate, ring[1]) /\ ~(Len(candidate) >= CandidateSize)
      <4>1. Len(candidate) \in Nat /\ CandidateSize \in Nat
        BY <1>1, ReceiveAssumption
      <4>2. Len(candidate) + 1 <= CandidateSize
        BY <3>2, <4>1
      <4>. QED
        BY <2>3, <3>2, <4>2 DEF ByteSeqs
    <3>. QED
      BY <2>2, <3>1, <3>2
  <2>. QED
    BY <1>3, <2>1, <2>2, <2>4 DEF TypeOK
<1>. QED
  BY <1>4, <1>5

LEMMA MainLoopType ==
  ASSUME TypeInv, MainLoop
  PROVE  TypeInv'
<1>. USE DEF TypeInv
<1>1. CASE FindChunk
  BY <1>1 DEF FindChunk, TypeOK, SlotsFit, isrVars, frameVars
<1>2. CASE CopyChunk
  <2>1. chunk' \in ByteSeqs /\ Len(chunk') <= ChunkSize
    BY <1>2 DEF CopyChunk, TypeOK, SlotsFit
  <2>. QED
    BY <1>2, <2>1 DEF CopyChunk, TypeOK, SlotsFit, isrVars, frameVars
<1>3. CASE TakeChunk
  <2>1. tail' \in SlotIds
    BY <1>3, NextIndexIs DEF TakeChunk, ReleaseSlot, TypeOK
  <2>2. /\ ring' \in ByteSeqs /\ Len(ring') <= RingSize
        /\ candidate' \in ByteSeqs /\ Len(candidate') <= CandidateSize
        /\ truncated' \in BOOLEAN /\ dropped' \subseteq Bytes
    BY <1>3, IngestType DEF TakeChunk
  <2>3. chunk' \in ByteSeqs /\ Len(chunk') <= ChunkSize
    BY <1>3, Short, ReceiveAssumption DEF TakeChunk
  <2>. QED
    BY <1>3, <2>1, <2>2, <2>3 DEF TakeChunk, TypeOK, SlotsFit, isrVars
<1>4. CASE ProcessByte
  <2>1. /\ ring' \in ByteSeqs /\ Len(ring') <= RingSize
        /\ candidate' \in ByteSeqs /\ Len(candidate') <= CandidateSize
        /\ truncated' \in BOOLEAN /\ delivered' \in Seq(1 .. Frames)
        /\ pc' \in {"drain", "process"}
    BY <1>4, ByteType DEF ProcessByte
  <2>. QED
    BY <1>4, <2>1 DEF ProcessByte, TypeOK, SlotsFit, isrVars
<1>5. CASE RuntimePoll
  BY <1>5 DEF RuntimePoll, TypeOK, SlotsFit, isrVars, frameVars
<1>. QED
  BY <1>1, <1>2, <1>3, <1>4, <1>5 DEF MainLoop

LEMMA TypeInit ==
  ASSUME Init
  PROVE  TypeInv
<1>1. /\ arrived \in 0 .. FrameLength /\ dropped = 1 .. arrived
      /\ armed = TRUE /\ truncated = FALSE /\ pc = "drain" /\ head = 0 /\ tail = 0
  BY Zenon DEF Init
<1>2. chunk = <<>> /\ ring = <<>> /\ candidate = <<>> /\ delivered = <<>>
  BY Zenon DEF Init
<1>3. DOMAIN slots = SlotIds /\ \A i \in SlotIds : slots[i] = <<>>
  BY Zenon DEF Init
<1>4. slots \in [SlotIds -> ByteSeqs] /\ SlotsFit
  <2>1. slots = [i \in SlotIds |-> slots[i]]
    BY Zenon DEF Init
  <2>2. \A i \in SlotIds : slots[i] \in ByteSeqs /\ Len(slots[i]) <= ChunkSize
    BY <1>3, Short, ReceiveAssumption
  <2>. QED
    BY <2>1, <2>2 DEF SlotsFit
<1>5. arrived \in 0 .. Total /\ dropped \subseteq Bytes
  <2>1. FrameLength \in Nat /\ Total \in Nat /\ FrameLength <= Total
    BY ReceiveAssumption DEF Total
  <2>. QED
    BY <1>1, <2>1 DEF Bytes
<1>6. 0 \in SlotIds /\ 0 <= ChunkSize /\ 0 <= RingSize /\ 0 <= CandidateSize
  BY ReceiveAssumption DEF SlotIds
<1>7. /\ chunk \in ByteSeqs /\ Len(chunk) <= ChunkSize
      /\ ring \in ByteSeqs /\ Len(ring) <= RingSize
      /\ candidate \in ByteSeqs /\ Len(candidate) <= CandidateSize
  BY <1>2, <1>6, Short
<1>8. delivered \in Seq(1 .. Frames)
  BY <1>2
<1>9. armed \in BOOLEAN /\ truncated \in BOOLEAN /\ pc \in {"drain", "copy", "ingest", "process"}
  BY <1>1
<1>10. head \in SlotIds /\ tail \in SlotIds
  BY <1>1, <1>6
<1>. QED
  BY Zenon, <1>4, <1>5, <1>7, <1>8, <1>9, <1>10 DEF TypeInv, TypeOK

(* The receive path never overruns its ring, its candidate, or the buffer a *)
(* chunk is copied into, whatever interleaving of interrupt and main loop.  *)
THEOREM BuffersHold == Spec => []TypeOK
<1>1. Init => TypeInv
  BY TypeInit
<1>2. TypeInv /\ [Next]_vars => TypeInv'
  <2>1. TypeInv /\ UNCHANGED vars => TypeInv'
    BY DEF vars, TypeInv, TypeOK, SlotsFit
  <2>. QED
    BY <2>1, InterruptType, MainLoopType DEF Next
<1>3. TypeInv => TypeOK
  BY DEF TypeInv
<1>. QED
  BY <1>1, <1>2, <1>3, PTL DEF Spec

-----------------------------------------------------------------------------
(* The order of the stream *)

(* The waiting slots whose chunk is not copied yet. *)
InHand == IF pc = "ingest" THEN Waiting \ {tail} ELSE Waiting

UpTo(s, b) == \A k \in DOMAIN s : s[k] <= b

(* Nothing is ahead of what has arrived, in no slot either. *)
Seen ==
  /\ UpTo(candidate, arrived) /\ UpTo(ring, arrived) /\ UpTo(chunk, arrived)
  /\ \A i \in SlotIds : UpTo(slots[i], arrived)

(* The main loop only copies and releases a slot that waits. *)
Taking == pc \in {"copy", "ingest"} => tail # head

(* What the main loop holds; unlike StreamInOrder this relates the          *)
(* candidate and the chunk also when the ring between them is empty.        *)
LoopInOrder ==
  /\ Rising(candidate) /\ Rising(ring) /\ Rising(chunk)
  /\ Before(candidate, ring) /\ Before(ring, chunk) /\ Before(candidate, chunk)

Behind(s) == Rising(s) /\ Before(candidate, s) /\ Before(ring, s) /\ Before(chunk, s)

SlotsBehind == \A i \in InHand : Behind(slots[i])
SlotsInOrder == \A i, j \in InHand : Rank(i) < Rank(j) => Before(slots[i], slots[j])

OrderInv == TypeInv /\ Seen /\ Taking /\ LoopInOrder /\ SlotsBehind /\ SlotsInOrder

(* Bytes that arrive later are larger. *)
LEMMA LaterBehind ==
  ASSUME NEW s \in ByteSeqs, NEW t \in ByteSeqs, NEW b \in Nat, UpTo(s, b),
         \A k \in DOMAIN t : b < t[k]
  PROVE  Before(s, t)
<1>1. (\A k \in DOMAIN s : s[k] \in Nat) /\ (\A k \in DOMAIN t : t[k] \in Nat)
  <2>1. (\A k \in DOMAIN s : s[k] \in Bytes) /\ (\A k \in DOMAIN t : t[k] \in Bytes)
    BY DEF ByteSeqs
  <2>2. Bytes \subseteq Nat
    BY ReceiveAssumption DEF Bytes, Total
  <2>. QED
    BY <2>1, <2>2
<1>. QED
  BY <1>1 DEF UpTo, Before

LEMMA UpToGrows ==
  ASSUME NEW s \in ByteSeqs, NEW b \in Nat, NEW c \in Nat, b <= c, UpTo(s, b)
  PROVE  UpTo(s, c)
<1>1. \A k \in DOMAIN s : s[k] \in Nat
  <2>1. \A k \in DOMAIN s : s[k] \in Bytes
    BY DEF ByteSeqs
  <2>2. Bytes \subseteq Nat
    BY ReceiveAssumption DEF Bytes, Total
  <2>. QED
    BY <2>1, <2>2
<1>. QED
  BY <1>1 DEF UpTo

LEMMA JoinUpTo ==
  ASSUME NEW s \in ByteSeqs, NEW t \in ByteSeqs, NEW b, UpTo(s, b), UpTo(t, b)
  PROVE  UpTo(s \o t, b)
<1>1. \A k \in DOMAIN (s \o t) :
        \/ k \in DOMAIN s /\ (s \o t)[k] = s[k]
        \/ k - Len(s) \in DOMAIN t /\ (s \o t)[k] = t[k - Len(s)]
  BY DEF ByteSeqs
<1>. QED
  BY <1>1 DEF UpTo

LEMMA SplitUpTo ==
  ASSUME NEW s \in ByteSeqs, s # <<>>, NEW b, UpTo(s, b)
  PROVE  UpTo(<<s[1]>>, b) /\ UpTo(Tail(s), b)
<1>1. /\ 1 \in DOMAIN s /\ DOMAIN <<s[1]>> = {1} /\ <<s[1]>>[1] = s[1]
      /\ \A k \in DOMAIN Tail(s) : k + 1 \in DOMAIN s /\ Tail(s)[k] = s[k + 1]
  BY DEF ByteSeqs
<1>. QED
  BY <1>1 DEF UpTo

(* The slot at the tail is first in line. *)
LEMMA TailFirst ==
  ASSUME head \in SlotIds, tail \in SlotIds, tail # head
  PROVE  tail \in Waiting /\ \A i \in SlotIds \ {tail} : Rank(tail) < Rank(i)
<1>1. QueueDepth \in Nat \ {0, 1} /\ SlotIds = 0 .. QueueDepth - 1
  BY ReceiveAssumption DEF SlotIds
<1>2. \A i \in SlotIds : Rank(i) = Distance(i, tail)
  BY DistanceIs DEF Rank
<1>3. \A i \in SlotIds \ {tail} : Distance(tail, tail) < Distance(i, tail)
  BY <1>1 DEF Distance
<1>. QED
  BY <1>2, <1>3 DEF Waiting

(* An interrupt that changes no slot. *)
LEMMA IdleInterrupt ==
  ASSUME OrderInv, TypeInv', arrived <= arrived',
         UNCHANGED <<slots, head, tail, pc, chunk, ring, candidate>>
  PROVE  OrderInv'
<1>1. arrived \in Nat /\ arrived' \in Nat
  BY DEF OrderInv, TypeInv, TypeOK
<1>2. /\ candidate \in ByteSeqs /\ ring \in ByteSeqs /\ chunk \in ByteSeqs
      /\ \A i \in SlotIds : slots[i] \in ByteSeqs
  BY DEF OrderInv, TypeInv, TypeOK
<1>3. Seen'
  BY <1>1, <1>2, UpToGrows DEF OrderInv, Seen
<1>4. Waiting' = Waiting /\ \A i : Rank(i)' = Rank(i)
  BY DEF Waiting, Rank
<1>5. InHand' = InHand
  BY <1>4 DEF InHand
<1>. QED
  BY <1>3, <1>4, <1>5 DEF OrderInv, Taking, LoopInOrder, SlotsBehind, Behind, SlotsInOrder

(* An interrupt that fills a slot: the chunk is behind all others, and the  *)
(* slot is none the main loop still reads.                                  *)
LEMMA FillingInterrupt ==
  ASSUME OrderInv, TypeInv', NEW n \in 1 .. ChunkSize, Arrives(n),
         NextIndex(head) # tail,
         slots' = [slots EXCEPT ![head] = Incoming(n)], head' = NextIndex(head),
         UNCHANGED <<tail, pc, chunk, ring, candidate>>
  PROVE  OrderInv'
<1>1. arrived \in 0 .. Total /\ head \in SlotIds /\ tail \in SlotIds /\ tail' = tail
  BY DEF OrderInv, TypeInv, TypeOK
<1>2. /\ candidate \in ByteSeqs /\ ring \in ByteSeqs /\ chunk \in ByteSeqs
      /\ \A i \in SlotIds : slots[i] \in ByteSeqs
  BY DEF OrderInv, TypeInv, TypeOK
<1>3. /\ arrived \in Nat /\ arrived' \in Nat /\ arrived <= arrived'
      /\ Incoming(n) \in ByteSeqs /\ Rising(Incoming(n))
      /\ \A k \in DOMAIN Incoming(n) : arrived < Incoming(n)[k] /\ Incoming(n)[k] <= arrived'
  BY <1>1, IncomingIs
<1>4. slots'[head] = Incoming(n) /\ \A i \in SlotIds \ {head} : slots'[i] = slots[i]
  BY <1>1 DEF OrderInv, TypeInv, TypeOK
<1>5. Waiting' \subseteq Waiting \cup {head} /\ \A i \in SlotIds : Rank(i)' = Rank(i)
  BY <1>1, Filled
<1>6. InHand' \subseteq InHand \cup {head} /\ InHand \subseteq SlotIds
  BY <1>1, <1>5 DEF InHand, Waiting
<1>7. Seen'
  <2>1. UpTo(Incoming(n), arrived')
    BY <1>3 DEF UpTo
  <2>2. \A i \in SlotIds : UpTo(slots'[i], arrived')
    BY <1>2, <1>3, <1>4, <2>1, UpToGrows DEF OrderInv, Seen
  <2>. QED
    BY <1>2, <1>3, <2>2, UpToGrows DEF OrderInv, Seen
<1>8. Taking'
  BY <1>1 DEF OrderInv, Taking
<1>9. SlotsBehind'
  <2>1. Behind(Incoming(n))
    BY <1>2, <1>3, LaterBehind DEF OrderInv, Seen, Behind
  <2>2. \A i \in InHand' : Behind(slots'[i])
    BY <1>4, <1>6, <2>1 DEF OrderInv, SlotsBehind
  <2>. QED
    BY <2>2 DEF SlotsBehind, Behind
<1>10. SlotsInOrder'
  <2>1. ASSUME NEW i \in InHand', NEW j \in InHand', Rank(i)' < Rank(j)'
        PROVE  Before(slots'[i], slots'[j])
    <3>1. i \in SlotIds /\ j \in SlotIds /\ Rank(i) < Rank(j)
      BY <1>1, <1>5, <1>6, <2>1
    <3>2. CASE j = head
      <4>1. i # head
        <5>1. Rank(head) = Distance(head, tail) /\ Distance(head, tail) \in Nat
          <6>1. QueueDepth \in Nat /\ SlotIds = 0 .. QueueDepth - 1
            BY ReceiveAssumption DEF SlotIds
          <6>. QED
            BY <1>1, <6>1, DistanceIs DEF Rank, Distance
        <5>. QED
          BY <3>1, <3>2, <5>1
      <4>2. UpTo(slots[i], arrived) /\ slots'[i] = slots[i] /\ slots'[j] = Incoming(n)
        BY <1>4, <3>1, <3>2, <4>1 DEF OrderInv, Seen
      <4>. QED
        BY <1>2, <1>3, <3>1, <4>2, LaterBehind
    <3>3. CASE j # head
      <4>1. j \in InHand /\ Rank(j) < Rank(head)
        BY <1>6, <2>1, <3>3 DEF InHand, Waiting
      <4>2. i # head
        <5>1. /\ Rank(head) = Distance(head, tail) /\ Distance(head, tail) \in Nat
              /\ Rank(j) = Distance(j, tail) /\ Distance(j, tail) \in Nat
          <6>1. QueueDepth \in Nat /\ SlotIds = 0 .. QueueDepth - 1
            BY ReceiveAssumption DEF SlotIds
          <6>2. \A k \in SlotIds : Rank(k) = Distance(k, tail)
            BY <1>1, DistanceIs DEF Rank
          <6>3. \A k \in SlotIds : Distance(k, tail) \in Nat
            BY <1>1, <6>1 DEF Distance
          <6>. QED
            BY <1>1, <3>1, <6>2, <6>3
        <5>. QED
          BY <3>1, <4>1, <5>1
      <4>3. i \in InHand /\ slots'[i] = slots[i] /\ slots'[j] = slots[j]
        BY <1>4, <1>6, <2>1, <3>1, <3>3, <4>2
      <4>4. Before(slots[i], slots[j])
        BY Zenon, <3>1, <4>1, <4>3 DEF OrderInv, SlotsInOrder
      <4>. QED
        BY <4>3, <4>4
    <3>. QED
      BY <3>2, <3>3
  <2>. QED
    BY <2>1 DEF SlotsInOrder
<1>11. LoopInOrder'
  BY DEF OrderInv, LoopInOrder
<1>. QED
  BY <1>7, <1>8, <1>9, <1>10, <1>11 DEF OrderInv

LEMMA InterruptOrder ==
  ASSUME OrderInv, TypeInv', Interrupt
  PROVE  OrderInv'
<1>1. arrived \in 0 .. Total
  BY DEF OrderInv, TypeInv, TypeOK
<1>2. \A n \in 1 .. ChunkSize : Arrives(n) => arrived <= arrived'
  BY <1>1, IncomingIs
<1>3. CASE RxEvent
  <2>1. PICK n \in 1 .. ChunkSize : Arrives(n) /\ EnqueueRxChunk(n)
    BY <1>3 DEF RxEvent
  <2>2. UNCHANGED <<tail, pc, chunk, ring, candidate>>
    BY <1>3 DEF RxEvent, frameVars
  <2>3. CASE NextIndex(head) = tail
    BY <1>2, <2>1, <2>2, <2>3, IdleInterrupt DEF EnqueueRxChunk
  <2>4. CASE NextIndex(head) # tail
    BY <2>1, <2>2, <2>4, FillingInterrupt DEF EnqueueRxChunk
  <2>. QED
    BY <2>3, <2>4
<1>4. CASE HandleError \/ Deaf
  <2>1. PICK n \in 1 .. ChunkSize : Arrives(n)
    BY <1>4 DEF HandleError, Deaf
  <2>2. UNCHANGED <<slots, head, tail, pc, chunk, ring, candidate>>
    BY <1>4 DEF HandleError, Deaf, frameVars
  <2>. QED
    BY <1>2, <2>1, <2>2, IdleInterrupt
<1>. QED
  BY <1>3, <1>4 DEF Interrupt

(* The main loop copies the slot at the tail, the first in line.            *)
LEMMA CopyOrder ==
  ASSUME OrderInv, CopyChunk
  PROVE  Seen' /\ Taking' /\ LoopInOrder' /\ SlotsBehind' /\ SlotsInOrder'
<1>1. head \in SlotIds /\ tail \in SlotIds /\ tail # head
  BY DEF OrderInv, TypeInv, TypeOK, Taking, CopyChunk
<1>2. /\ pc = "copy" /\ pc' = "ingest" /\ chunk' = slots[tail]
      /\ UNCHANGED <<arrived, slots, head, tail, ring, candidate>>
  BY DEF CopyChunk, isrVars, frameVars
<1>3. tail \in Waiting /\ \A i \in SlotIds \ {tail} : Rank(tail) < Rank(i)
  BY <1>1, TailFirst
<1>4. InHand = Waiting /\ InHand' = Waiting \ {tail} /\ Waiting \subseteq SlotIds
  BY <1>2 DEF InHand, Waiting, Rank
<1>5. Seen'
  BY <1>1, <1>2 DEF OrderInv, Seen
<1>6. Taking'
  BY <1>1, <1>2 DEF Taking
<1>7. LoopInOrder'
  BY <1>2, <1>3, <1>4 DEF OrderInv, LoopInOrder, SlotsBehind, Behind
<1>8. SlotsBehind'
  <2>1. ASSUME NEW i \in Waiting \ {tail}
        PROVE  Behind(slots[i])'
    <3>1. Before(slots[tail], slots[i])
      BY <1>3, <1>4 DEF OrderInv, SlotsInOrder
    <3>. QED
      BY <1>2, <1>4, <3>1 DEF OrderInv, SlotsBehind, Behind
  <2>. QED
    BY <1>2, <1>4, <2>1 DEF SlotsBehind, Behind
<1>9. SlotsInOrder'
  <2>1. \A i \in SlotIds : Rank(i)' = Rank(i)
    BY <1>2 DEF Rank
  <2>. QED
    BY <1>2, <1>4, <2>1 DEF OrderInv, SlotsInOrder
<1>. QED
  BY <1>5, <1>6, <1>7, <1>8, <1>9

(* The chunk joins the ring, or the ring is emptied, and the slot is        *)
(* released.                                                                *)
LEMMA TakeOrder ==
  ASSUME OrderInv, TakeChunk
  PROVE  Seen' /\ Taking' /\ LoopInOrder' /\ SlotsBehind' /\ SlotsInOrder'
<1>1. head \in SlotIds /\ tail \in SlotIds /\ tail # head /\ arrived' = arrived
  BY DEF OrderInv, TypeInv, TypeOK, Taking, TakeChunk, isrVars
<1>2. /\ pc = "ingest" /\ pc' = "drain" /\ chunk' = <<>> /\ tail' = NextIndex(tail)
      /\ slots' = slots /\ head' = head
  BY DEF TakeChunk, ReleaseSlot, isrVars
<1>3. /\ candidate \in ByteSeqs /\ ring \in ByteSeqs /\ chunk \in ByteSeqs
      /\ \A i \in SlotIds : slots[i] \in ByteSeqs
  BY DEF OrderInv, TypeInv, TypeOK
<1>4. /\ InHand = Waiting \ {tail} /\ InHand' = Waiting' /\ Waiting \subseteq SlotIds
      /\ Waiting' \subseteq Waiting \ {tail}
      /\ \A i, j \in Waiting' : Rank(i)' < Rank(j)' => Rank(i) < Rank(j)
  <2>1. /\ Waiting' \subseteq Waiting \ {tail}
        /\ \A i, j \in Waiting' : Rank(i)' < Rank(j)' => Rank(i) < Rank(j)
    BY <1>1, <1>2, Released
  <2>2. InHand = Waiting \ {tail} /\ InHand' = Waiting'
    BY <1>2 DEF InHand
  <2>. QED
    BY <2>1, <2>2 DEF Waiting
<1>5. \/ ring' = <<>> /\ candidate' = <<>>
      \/ ring' = ring \o chunk /\ candidate' = candidate
  BY DEF TakeChunk, IngestBytes
<1>6. /\ Rising(candidate') /\ Rising(ring') /\ Before(candidate', ring')
      /\ UpTo(candidate', arrived) /\ UpTo(ring', arrived)
      /\ \A i \in InHand : Before(candidate', slots[i]) /\ Before(ring', slots[i])
  <2>1. CASE ring' = <<>> /\ candidate' = <<>>
    BY <2>1, Short DEF UpTo
  <2>2. CASE ring' = ring \o chunk /\ candidate' = candidate
    <3>1. Rising(ring \o chunk)
      BY <1>3, JoinRising DEF OrderInv, LoopInOrder
    <3>2. Before(candidate, ring \o chunk)
      BY <1>3, JoinBefore DEF OrderInv, LoopInOrder
    <3>3. ASSUME NEW i \in InHand
          PROVE  Before(candidate, slots[i]) /\ Before(ring \o chunk, slots[i])
      <4>1. Before(candidate, slots[i]) /\ Before(ring, slots[i]) /\ Before(chunk, slots[i])
        BY DEF OrderInv, SlotsBehind, Behind
      <4>2. slots[i] \in ByteSeqs
        BY <1>3, <1>4
      <4>. QED
        BY <1>3, <4>1, <4>2, JoinBefore
    <3>4. UpTo(ring \o chunk, arrived)
      BY <1>3, JoinUpTo DEF OrderInv, Seen
    <3>. QED
      BY <2>2, <3>1, <3>2, <3>3, <3>4 DEF OrderInv, LoopInOrder, Seen
  <2>. QED
    BY <1>5, <2>1, <2>2
<1>7. Seen'
  <2>1. UpTo(<<>>, arrived)
    BY DEF UpTo
  <2>2. \A i \in SlotIds : UpTo(slots[i], arrived)
    BY DEF OrderInv, Seen
  <2>. QED
    BY <1>1, <1>2, <1>6, <2>1, <2>2 DEF Seen
<1>8. Taking'
  BY <1>2 DEF Taking
<1>9. LoopInOrder'
  BY <1>2, <1>6, Short DEF LoopInOrder
<1>10. SlotsBehind'
  <2>1. ASSUME NEW i \in InHand'
        PROVE  Behind(slots[i])'
    <3>1. i \in InHand /\ Rising(slots[i])
      BY <1>4 DEF OrderInv, SlotsBehind, Behind
    <3>. QED
      BY <1>2, <1>6, <3>1, Short DEF Behind
  <2>. QED
    BY <2>1 DEF SlotsBehind, Behind
<1>11. SlotsInOrder'
  <2>1. ASSUME NEW i \in InHand', NEW j \in InHand', Rank(i)' < Rank(j)'
        PROVE  Before(slots[i], slots[j])
    <3>1. i \in InHand /\ j \in InHand /\ Rank(i) < Rank(j)
      BY <1>4, <2>1
    <3>. QED
      BY <3>1 DEF OrderInv, SlotsInOrder
  <2>. QED
    BY <1>2, <2>1 DEF SlotsInOrder
<1>. QED
  BY <1>7, <1>8, <1>9, <1>10, <1>11

(* One byte leaves the ring; it joins the candidate, or the candidate is    *)
(* emptied.                                                                 *)
LEMMA ProcessOrder ==
  ASSUME OrderInv, ProcessByte
  PROVE  Seen' /\ Taking' /\ LoopInOrder' /\ SlotsBehind' /\ SlotsInOrder'
<1>. DEFINE first == <<ring[1]>>
<1>1. /\ pc = "process" /\ ring # <<>> /\ ring' = Tail(ring)
      /\ UNCHANGED <<arrived, slots, head, tail, chunk>>
  BY DEF ProcessByte, isrVars
<1>2. pc' \in {"process", "drain"}
  BY <1>1 DEF ProcessByte, EndOfFrame, ByteOfFrame
<1>3. /\ candidate \in ByteSeqs /\ ring \in ByteSeqs /\ chunk \in ByteSeqs
      /\ \A i \in SlotIds : slots[i] \in ByteSeqs
  BY DEF OrderInv, TypeInv, TypeOK
<1>4. /\ first \in ByteSeqs /\ Tail(ring) \in ByteSeqs /\ ring[1] \in Bytes
      /\ Rising(ring) => Rising(Tail(ring)) /\ Before(first, Tail(ring))
      /\ \A t \in ByteSeqs : /\ Before(ring, t) => Before(first, t) /\ Before(Tail(ring), t)
                             /\ Before(t, ring) => Before(t, first) /\ Before(t, Tail(ring))
  BY <1>1, <1>3, Splits
<1>5. \/ candidate' = <<>>
      \/ candidate' = candidate
      \/ candidate' = candidate \o first
  <2>1. candidate \in Seq(Bytes) /\ ring[1] \in Bytes
    BY <1>3, <1>4 DEF ByteSeqs
  <2>2. Append(candidate, ring[1]) = candidate \o <<ring[1]>>
    BY <2>1
  <2>. QED
    BY <2>2 DEF ProcessByte, EndOfFrame, CandidateAfter, ByteOfFrame
<1>6. UpTo(first, arrived) /\ UpTo(Tail(ring), arrived)
  <2>1. UpTo(ring, arrived)
    BY DEF OrderInv, Seen
  <2>. QED
    BY <1>1, <1>3, <2>1, SplitUpTo
<1>7. InHand = Waiting /\ InHand' = InHand /\ InHand \subseteq SlotIds
      /\ \A i \in SlotIds : Rank(i)' = Rank(i)
  BY <1>1, <1>2 DEF InHand, Waiting, Rank
<1>8. /\ Rising(Tail(ring)) /\ Before(first, Tail(ring)) /\ Rising(first)
      /\ Before(candidate, first) /\ Before(candidate, Tail(ring)) 
  BY <1>3, <1>4, Short DEF OrderInv, LoopInOrder
<1>9. /\ \A i \in InHand : Before(Tail(ring), slots[i]) /\ Before(first, slots[i])
      /\ Before(candidate, chunk) /\ Before(Tail(ring), chunk) /\ Before(first, chunk)
  <2>1. ASSUME NEW i \in InHand
        PROVE  Before(Tail(ring), slots[i]) /\ Before(first, slots[i])
    <3>1. slots[i] \in ByteSeqs /\ Before(ring, slots[i])
      BY <1>3, <1>7 DEF OrderInv, SlotsBehind, Behind
    <3>. QED
      BY <1>4, <3>1
  <2>. QED
    BY <1>3, <1>4, <2>1 DEF OrderInv, LoopInOrder
<1>10. /\ Rising(candidate') /\ UpTo(candidate', arrived)
       /\ Before(candidate', Tail(ring)) /\ Before(candidate', chunk)
       /\ \A i \in InHand : Before(candidate', slots[i])
  <2>1. CASE candidate' = <<>>
    BY <2>1, Short DEF UpTo
  <2>2. CASE candidate' = candidate
    BY <1>8, <2>2 DEF OrderInv, LoopInOrder, SlotsBehind, Behind, Seen
  <2>3. CASE candidate' = candidate \o first
    <3>1. Rising(candidate \o first)
      BY <1>3, <1>4, <1>8, JoinRising DEF OrderInv, LoopInOrder
    <3>2. Before(candidate \o first, Tail(ring))
      BY <1>3, <1>4, <1>8, JoinBefore
    <3>3. Before(candidate \o first, chunk)
      BY <1>3, <1>4, <1>9, JoinBefore
    <3>4. ASSUME NEW i \in InHand
          PROVE  Before(candidate \o first, slots[i])
      <4>1. Before(candidate, slots[i]) /\ slots[i] \in ByteSeqs
        BY <1>3, <1>7 DEF OrderInv, SlotsBehind, Behind
      <4>. QED
        BY <1>3, <1>4, <1>9, <4>1, JoinBefore
    <3>5. UpTo(candidate \o first, arrived)
      BY <1>3, <1>4, <1>6, JoinUpTo DEF OrderInv, Seen
    <3>. QED
      BY <2>3, <3>1, <3>2, <3>3, <3>4, <3>5
  <2>. QED
    BY <1>5, <2>1, <2>2, <2>3
<1>11. Seen'
  BY <1>1, <1>6, <1>10 DEF OrderInv, Seen
<1>12. Taking'
  BY <1>2 DEF Taking
<1>13. LoopInOrder'
  BY <1>1, <1>8, <1>9, <1>10 DEF OrderInv, LoopInOrder
<1>14. SlotsBehind'
  <2>1. ASSUME NEW i \in InHand
        PROVE  Behind(slots[i])'
    BY <1>1, <1>9, <1>10 DEF OrderInv, SlotsBehind, Behind
  <2>. QED
    BY <1>1, <1>7, <2>1 DEF SlotsBehind, Behind
<1>15. SlotsInOrder'
  BY <1>1, <1>7 DEF OrderInv, SlotsInOrder
<1>. QED
  BY <1>11, <1>12, <1>13, <1>14, <1>15

LEMMA MainLoopOrder ==
  ASSUME OrderInv, TypeInv', MainLoop
  PROVE  OrderInv'
<1>1. CASE FindChunk \/ RuntimePoll
  <2>1. UNCHANGED <<arrived, slots, head, tail, chunk, ring, candidate>>
    BY <1>1 DEF FindChunk, RuntimePoll, isrVars, frameVars
  <2>2. pc' = "copy" => tail # head
    BY <1>1 DEF FindChunk, RuntimePoll
  <2>3. pc # "ingest" /\ pc' # "ingest"
    BY <1>1 DEF FindChunk, RuntimePoll
  <2>4. InHand' = InHand /\ InHand \subseteq SlotIds /\ \A i \in SlotIds : Rank(i)' = Rank(i)
    BY <2>1, <2>3 DEF InHand, Waiting, Rank
  <2>5. Seen'
    BY <2>1 DEF OrderInv, Seen
  <2>6. Taking'
    BY <2>1, <2>2, <2>3 DEF Taking
  <2>7. LoopInOrder'
    BY <2>1 DEF OrderInv, LoopInOrder
  <2>8. SlotsBehind' /\ SlotsInOrder'
    BY <2>1, <2>4 DEF OrderInv, SlotsBehind, SlotsInOrder, Behind
  <2>. QED
    BY <2>5, <2>6, <2>7, <2>8 DEF OrderInv
<1>. QED
  BY <1>1, CopyOrder, TakeOrder, ProcessOrder DEF MainLoop, OrderInv

LEMMA NothingWaits ==
  ASSUME tail \in SlotIds, head = tail, pc = "drain"
  PROVE  InHand = {}
<1>1. \A i \in SlotIds : ~(Rank(i) < Rank(head))
  <2>1. \A i \in SlotIds : Rank(i) = Distance(i, tail)
    BY DistanceIs DEF Rank
  <2>. QED
    BY <2>1, ReceiveAssumption DEF Distance, SlotIds
<1>. QED
  BY <1>1 DEF InHand, Waiting

LEMMA OrderInit ==
  ASSUME Init
  PROVE  OrderInv
<1>1. TypeInv
  BY TypeInit
<1>2. /\ pc = "drain" /\ head = 0 /\ tail = 0
      /\ chunk = <<>> /\ ring = <<>> /\ candidate = <<>>
  BY Zenon DEF Init
<1>3. \A i \in SlotIds : slots[i] = <<>>
  BY Zenon DEF Init
<1>4. InHand = {}
  <2>1. tail \in SlotIds
    BY <1>1 DEF TypeInv, TypeOK
  <2>. QED
    BY <1>2, <2>1, NothingWaits
<1>5. \A b : UpTo(<<>>, b)
  BY DEF UpTo
<1>6. Seen
  BY Zenon, <1>2, <1>3, <1>5 DEF Seen
<1>7. Taking /\ SlotsBehind /\ SlotsInOrder
  BY <1>2, <1>4 DEF Taking, SlotsBehind, SlotsInOrder
<1>8. LoopInOrder
  BY Zenon, <1>2, Short DEF LoopInOrder
<1>. QED
  BY <1>1, <1>6, <1>7, <1>8 DEF OrderInv

LEMMA OrderStep ==
  ASSUME OrderInv, [Next]_vars
  PROVE  OrderInv'
<1>1. CASE UNCHANGED vars
  <2>1. UNCHANGED <<arrived, slots, head, tail, pc, chunk, ring, candidate>> /\ TypeInv'
    BY <1>1 DEF vars, OrderInv, TypeInv, TypeOK, SlotsFit
  <2>2. arrived <= arrived'
    BY <2>1 DEF OrderInv, TypeInv, TypeOK
  <2>. QED
    BY <2>1, <2>2, IdleInterrupt
<1>2. CASE Next
  <2>1. TypeInv'
    BY <1>2, InterruptType, MainLoopType DEF Next, OrderInv
  <2>. QED
    BY <1>2, <2>1, InterruptOrder, MainLoopOrder DEF Next
<1>. QED
  BY <1>1, <1>2

(* Whatever the interrupt interrupts, the queue, the ring and the candidate *)
(* hold the stream in its order and nothing twice, without a lock.          *)
THEOREM StreamStaysInOrder == Spec => []StreamInOrder
<1>1. Init => OrderInv
  BY OrderInit
<1>2. OrderInv /\ [Next]_vars => OrderInv'
  BY OrderStep
<1>3. OrderInv => StreamInOrder
  BY DEF OrderInv, LoopInOrder, SlotsBehind, SlotsInOrder, Behind, InHand, StreamInOrder
<1>. QED
  BY <1>1, <1>2, <1>3, PTL DEF Spec

=============================================================================
