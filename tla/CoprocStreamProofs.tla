------------------------ MODULE CoprocStreamProofs ------------------------
(* Proof that the receive path of CoprocReceive implements FrameStream:     *)
(* whatever is lost on the way, frames are dispatched in order, once, and   *)
(* only a hurt one is missing.                                              *)
EXTENDS CoprocReceiveProofs

-----------------------------------------------------------------------------
(* The inductive invariant *)

(* The bytes that wait for the delimiter search. *)
Queued  == UNION {BytesIn(slots[i]) : i \in InHand}
Pending == BytesIn(ring) \cup BytesIn(chunk) \cup Queued

(* A copy is in hand only while it is ingested. *)
ChunkUsed == pc # "ingest" => chunk = <<>>

(* Every byte that arrived is lost, waits, or was searched before all that  *)
(* wait.                                                                    *)
Accounted ==
  \A b \in 1 .. arrived : b \in dropped \/ b \in Pending \/ \A w \in Pending : b < w

(* A frame whose delimiter was searched is hurt or delivered. *)
Settled ==
  \A g \in 1 .. Frames : \/ g \in HurtFrames \/ EndOf(g) > arrived
                         \/ EndOf(g) \in Pending \/ g \in BytesIn(delivered)

(* A frame that is not hurt and whose bytes are being searched: the         *)
(* delimiter in front of it was searched, its own was not.                  *)
Open(g) ==
  /\ g \notin HurtFrames
  /\ EndOf(g - 1) <= arrived /\ EndOf(g - 1) \notin Pending
  /\ EndOf(g) \in Pending \/ EndOf(g) > arrived

(* The candidate is what was searched of it, the rest waits. *)
Prefix(g) ==
  /\ Len(candidate) <= FrameLength
  /\ \A i \in 1 .. Len(candidate) : candidate[i] = EndOf(g - 1) + i
  /\ \A b \in EndOf(g - 1) + Len(candidate) + 1 .. EndOf(g) : b <= arrived => b \in Pending

Current == \A g \in 1 .. Frames : Open(g) => ~truncated /\ Prefix(g)

(* What is delivered is behind the search. *)
Ahead ==
  /\ Rising(delivered)
  /\ \A f \in BytesIn(delivered) :
       /\ EndOf(f) <= arrived
       /\ \A b \in BytesIn(candidate) \cup Pending : EndOf(f) < b

StreamParts == Accounted /\ Settled /\ Current /\ Ahead

StreamInv == OrderInv /\ ChunkUsed /\ StreamParts

-----------------------------------------------------------------------------
(* Frames and their delimiters *)

LEMMA Ends ==
  /\ EndOf(0) = 0 /\ Total = EndOf(Frames)
  /\ \A g \in Nat : EndOf(g) \in Nat
  /\ \A g \in Nat \ {0} : EndOf(g) = EndOf(g - 1) + FrameLength + 1
  /\ \A g, h \in Nat : g < h => EndOf(g) + FrameLength + 1 <= EndOf(h)
<1>. DEFINE Unit == FrameLength + 1
<1>1. Unit \in Nat \ {0} /\ Frames \in Nat
  BY ReceiveAssumption
<1>2. \A g \in Nat : EndOf(g) = g * Unit
  BY DEF EndOf
<1>. HIDE DEF Unit
<1>3. EndOf(0) = 0 /\ \A g \in Nat : EndOf(g) \in Nat
  BY <1>1, <1>2
<1>4. ASSUME NEW g \in Nat \ {0} PROVE EndOf(g) = EndOf(g - 1) + Unit
  BY <1>1, <1>2
<1>5. ASSUME NEW g \in Nat, NEW h \in Nat, g < h PROVE EndOf(g) + Unit <= EndOf(h)
  <2>1. g * Unit + Unit <= h * Unit
    BY <1>1, <1>5
  <2>. QED
    BY <1>2, <2>1
<1>6. Total = EndOf(Frames)
  BY DEF Total, EndOf
<1>7. Unit = FrameLength + 1 /\ FrameLength \in Nat
  BY ReceiveAssumption DEF Unit
<1>8. ASSUME NEW g \in Nat \ {0} PROVE EndOf(g) = EndOf(g - 1) + FrameLength + 1
  <2>1. g - 1 \in Nat /\ EndOf(g - 1) \in Nat
    BY <1>3
  <2>. QED
    BY <1>4, <1>7, <2>1
<1>9. ASSUME NEW g \in Nat, NEW h \in Nat, g < h PROVE EndOf(g) + FrameLength + 1 <= EndOf(h)
  BY <1>3, <1>5, <1>7, <1>9
<1>. QED
  BY Zenon, <1>3, <1>6, <1>8, <1>9

LEMMA Order ==
  ASSUME NEW g \in Nat, NEW h \in Nat
  PROVE  (EndOf(g) < EndOf(h) => g < h) /\ (EndOf(g) = EndOf(h) => g = h)
<1>1. EndOf(g) \in Nat /\ EndOf(h) \in Nat
  BY Ends
<1>2. h < g => EndOf(h) + FrameLength + 1 <= EndOf(g)
  BY Ends
<1>3. g < h => EndOf(g) + FrameLength + 1 <= EndOf(h)
  BY Ends
<1>. QED
  BY <1>1, <1>2, <1>3, ReceiveAssumption

LEMMA DelimiterIs ==
  ASSUME NEW b \in Bytes
  PROVE  IsDelimiter(b) <=> \E g \in 1 .. Frames : b = EndOf(g)
<1>. DEFINE Unit == FrameLength + 1
<1>1. Unit \in Nat \ {0} /\ Frames \in Nat /\ b \in Nat /\ 1 <= b /\ b <= Frames * Unit
  BY ReceiveAssumption DEF Bytes, Total
<1>2. IsDelimiter(b) <=> b % Unit = 0
  BY DEF IsDelimiter
<1>3. \A g \in Nat : EndOf(g) = g * Unit
  BY DEF EndOf
<1>. HIDE DEF Unit
<1>4. ASSUME NEW g \in 1 .. Frames, b = EndOf(g) PROVE b % Unit = 0
  <2>1. (g * Unit) % Unit = 0
    BY <1>1
  <2>2. b = g * Unit
    BY <1>1, <1>3, <1>4
  <2>. QED
    BY <2>1, <2>2
<1>5. ASSUME b % Unit = 0 PROVE \E g \in 1 .. Frames : b = EndOf(g)
  <2>. DEFINE g == b \div Unit
  <2>1. b = Unit * g + (b % Unit) /\ g \in Nat
    BY <1>1
  <2>. HIDE DEF g
  <2>2. b = g * Unit
    BY <1>1, <1>5, <2>1
  <2>3. 1 <= g
    BY <1>1, <2>1, <2>2
  <2>4. g <= Frames
    <3>1. Frames < g => Frames * Unit + Unit <= g * Unit
      BY <1>1, <2>1
    <3>. QED
      BY <1>1, <2>1, <2>2, <3>1
  <2>5. g \in 1 .. Frames /\ b = EndOf(g)
    BY <1>1, <1>3, <2>1, <2>2, <2>3, <2>4
  <2>. QED
    BY <2>5
<1>. QED
  BY <1>2, <1>4, <1>5

(* A frame all of whose bytes, and the delimiter in front, are there. *)
LEMMA Whole ==
  ASSUME NEW g \in 1 .. Frames, g \notin HurtFrames, NEW b \in EndOf(g - 1) .. EndOf(g)
  PROVE  b \notin dropped
BY DEF HurtFrames

LEMMA HurtGrows ==
  ASSUME dropped \subseteq dropped'
  PROVE  HurtFrames \subseteq HurtFrames'
BY DEF HurtFrames

(* The ends of a frame, as the proofs below use them. *)
LEMMA EndsOf ==
  ASSUME NEW g \in 1 .. Frames
  PROVE  /\ g \in Nat /\ g - 1 \in Nat /\ EndOf(g - 1) \in Nat /\ EndOf(g) \in Nat
         /\ EndOf(g) = EndOf(g - 1) + FrameLength + 1 /\ FrameLength \in Nat \ {0}
<1>1. g \in Nat \ {0} /\ g - 1 \in Nat
  BY ReceiveAssumption
<1>. QED
  BY <1>1, Ends, ReceiveAssumption

LEMMA DeliveredEnds ==
  ASSUME delivered \in Seq(1 .. Frames)
  PROVE  \A f \in BytesIn(delivered) : f \in 1 .. Frames /\ EndOf(f) \in Nat
<1>1. \A k \in DOMAIN delivered : delivered[k] \in 1 .. Frames
  <2>. DEFINE Sent == 1 .. Frames
  <2>1. delivered \in Seq(Sent)
    OBVIOUS
  <2>. HIDE DEF Sent
  <2>2. \A k \in DOMAIN delivered : delivered[k] \in Sent
    BY <2>1
  <2>. QED
    BY <2>2 DEF Sent
<1>2. \A f \in BytesIn(delivered) : f \in 1 .. Frames
  BY Zenon, <1>1 DEF BytesIn
<1>3. \A f \in 1 .. Frames : EndOf(f) \in Nat
  BY EndsOf
<1>. QED
  BY <1>2, <1>3

-----------------------------------------------------------------------------
(* Steps that search no byte: bytes arrive, are lost, or move on. *)

LEMMA Moves ==
  ASSUME StreamParts, arrived \in Nat, arrived' \in Nat, arrived <= arrived',
         Pending \subseteq Nat, candidate \in ByteSeqs, candidate' \in ByteSeqs,
         dropped \subseteq dropped',
         Pending' \subseteq Pending \cup (arrived + 1 .. arrived'),
         Pending \subseteq Pending' \cup dropped',
         arrived + 1 .. arrived' \subseteq Pending' \cup dropped',
         delivered \in Seq(1 .. Frames), delivered' = delivered,
         \/ candidate' = candidate /\ truncated' = truncated
         \/ /\ Len(candidate') = 0 /\ truncated' = FALSE
            /\ BytesIn(candidate') = {} /\ BytesIn(candidate) \subseteq dropped'
  PROVE  StreamParts'
<1>. DEFINE New == arrived + 1 .. arrived'
<1>1. /\ \A b \in New : b \in Nat /\ arrived < b /\ b <= arrived'
      /\ \A b \in 1 .. arrived' : b \in New \/ b \in 1 .. arrived
      /\ \A b \in Nat : b <= arrived' => b \in New \/ b <= arrived
  OBVIOUS
<1>2. /\ Pending' \subseteq Pending \cup New /\ Pending \subseteq Pending' \cup dropped'
      /\ New \subseteq Pending' \cup dropped' /\ dropped \subseteq dropped'
  OBVIOUS
<1>. HIDE DEF New
<1>3. Accounted'
  <2>. SUFFICES ASSUME NEW b \in 1 .. arrived', b \notin dropped', b \notin Pending',
                       NEW w \in Pending'
                PROVE  b < w
    BY DEF Accounted
  <2>1. b \in 1 .. arrived /\ b \notin dropped /\ b \notin Pending
    BY <1>1, <1>2
  <2>2. CASE w \in Pending
    BY <2>1, <2>2 DEF StreamParts, Accounted
  <2>3. CASE w \in New
    BY <1>1, <2>1, <2>3
  <2>. QED
    BY <1>2, <2>2, <2>3
<1>4. HurtFrames \subseteq HurtFrames'
  BY HurtGrows
<1>5. Settled'
  <2>. SUFFICES ASSUME NEW g \in 1 .. Frames, g \notin HurtFrames', EndOf(g) <= arrived',
                       EndOf(g) \notin Pending'
                PROVE  g \in BytesIn(delivered)
    <3>1. \A g \in 1 .. Frames : EndOf(g) \in Nat
      BY EndsOf
    <3>. QED
      BY <3>1 DEF Settled
  <2>1. EndOf(g) \in Nat /\ EndOf(g) \in EndOf(g - 1) .. EndOf(g)
    BY EndsOf
  <2>2. EndOf(g) \notin dropped'
    BY <2>1 DEF HurtFrames
  <2>3. EndOf(g) \notin Pending /\ EndOf(g) \notin New
    BY <1>2, <2>2
  <2>4. EndOf(g) <= arrived /\ g \notin HurtFrames
    BY <1>1, <1>4, <2>1, <2>3
  <2>. QED
    BY <2>1, <2>3, <2>4 DEF StreamParts, Settled
<1>6. Current'
  <2>. SUFFICES ASSUME NEW g \in 1 .. Frames, Open(g)'
                PROVE  ~truncated' /\ Prefix(g)'
    BY DEF Current
  <2>1. /\ EndOf(g - 1) \in Nat /\ EndOf(g) \in Nat
        /\ EndOf(g) = EndOf(g - 1) + FrameLength + 1 /\ FrameLength \in Nat \ {0}
    BY EndsOf
  <2>2. \A b \in EndOf(g - 1) .. EndOf(g) : b \notin dropped'
    BY DEF Open, HurtFrames
  <2>3. /\ g \notin HurtFrames'
        /\ EndOf(g - 1) <= arrived' /\ EndOf(g - 1) \notin Pending'
        /\ EndOf(g) \in Pending' \/ EndOf(g) > arrived'
    BY DEF Open
  <2>4. EndOf(g - 1) \notin New /\ EndOf(g - 1) \notin Pending
    <3>1. EndOf(g - 1) \notin dropped'
      BY <2>1, <2>2
    <3>. QED
      BY <1>2, <2>3, <3>1
  <2>5. Open(g)
    <3>1. g \notin HurtFrames
      BY <1>4, <2>3
    <3>2. EndOf(g - 1) <= arrived
      BY <1>1, <2>1, <2>3, <2>4
    <3>3. EndOf(g) \in Pending \/ EndOf(g) > arrived
      BY <1>1, <1>2, <2>1, <2>3
    <3>. QED
      BY <2>4, <3>1, <3>2, <3>3 DEF Open
  <2>6. ~truncated /\ Prefix(g)
    BY <2>5 DEF StreamParts, Current
  <2>7. Len(candidate) \in Nat
    BY DEF ByteSeqs
  <2>8. ASSUME NEW b \in EndOf(g - 1) + Len(candidate) + 1 .. EndOf(g), b <= arrived'
        PROVE  b \in Pending'
    <3>1. b \in Nat /\ b \in EndOf(g - 1) .. EndOf(g)
      BY <2>1, <2>7
    <3>2. b \notin dropped'
      BY <2>2, <3>1
    <3>3. b \in New \/ b \in Pending
      BY <1>1, <2>6, <2>8, <3>1 DEF Prefix
    <3>. QED
      BY <1>2, <3>2, <3>3
  <2>9. CASE candidate' = candidate /\ truncated' = truncated
    BY <2>6, <2>8, <2>9 DEF Prefix
  <2>10. CASE /\ Len(candidate') = 0 /\ truncated' = FALSE
              /\ BytesIn(candidate') = {} /\ BytesIn(candidate) \subseteq dropped'
    <3>1. Len(candidate) = 0
      <4>. SUFFICES ASSUME Len(candidate) # 0 PROVE FALSE
        OBVIOUS
      <4>1. 1 \in DOMAIN candidate /\ 1 \in 1 .. Len(candidate)
        BY <2>7 DEF ByteSeqs
      <4>2. candidate[1] = EndOf(g - 1) + 1
        BY <2>6, <4>1 DEF Prefix
      <4>3. candidate[1] \in dropped'
        BY <2>10, <4>1 DEF BytesIn
      <4>4. EndOf(g - 1) + 1 \in EndOf(g - 1) .. EndOf(g)
        BY <2>1
      <4>. QED
        BY <2>2, <4>2, <4>3, <4>4
    <3>. QED
      BY <2>1, <2>8, <2>10, <3>1 DEF Prefix
  <2>. QED
    BY <2>9, <2>10
<1>7. Ahead'
  <2>1. Rising(delivered)' /\ BytesIn(delivered)' = BytesIn(delivered)
    BY DEF StreamParts, Ahead, Rising, BytesIn
  <2>2. ASSUME NEW f \in BytesIn(delivered), NEW b \in BytesIn(candidate') \cup Pending'
        PROVE  EndOf(f) < b
    <3>1. b \in BytesIn(candidate) \cup Pending \cup New
      BY <1>2, <2>2
    <3>2. EndOf(f) <= arrived /\ \A c \in BytesIn(candidate) \cup Pending : EndOf(f) < c
      BY DEF StreamParts, Ahead
    <3>. QED
      BY <1>1, <3>1, <3>2, DeliveredEnds
  <2>3. \A f \in BytesIn(delivered) : EndOf(f) <= arrived'
    BY DeliveredEnds DEF StreamParts, Ahead
  <2>. QED
    BY <2>1, <2>2, <2>3 DEF Ahead
<1>. QED
  BY <1>3, <1>5, <1>6, <1>7 DEF StreamParts

LEMMA NoBytes == BytesIn(<<>>) = {}
BY DEF BytesIn

LEMMA JoinBytes ==
  ASSUME NEW s \in ByteSeqs, NEW t \in ByteSeqs
  PROVE  BytesIn(s \o t) = BytesIn(s) \cup BytesIn(t)
<1>1. s \in Seq(Bytes) /\ t \in Seq(Bytes)
  BY DEF ByteSeqs
<1>2. \A k \in DOMAIN (s \o t) :
        \/ k \in DOMAIN s /\ (s \o t)[k] = s[k]
        \/ k - Len(s) \in DOMAIN t /\ (s \o t)[k] = t[k - Len(s)]
  BY <1>1
<1>3. \A k \in DOMAIN s : k \in DOMAIN (s \o t) /\ (s \o t)[k] = s[k]
  BY <1>1
<1>4. \A k \in DOMAIN t : k + Len(s) \in DOMAIN (s \o t) /\ (s \o t)[k + Len(s)] = t[k]
  BY <1>1
<1>5. ASSUME NEW b \in BytesIn(s \o t) PROVE b \in BytesIn(s) \cup BytesIn(t)
  <2>1. PICK k \in DOMAIN (s \o t) : b = (s \o t)[k]
    BY <1>5 DEF BytesIn
  <2>. QED
    BY <1>2, <2>1 DEF BytesIn
<1>6. ASSUME NEW b \in BytesIn(s) PROVE b \in BytesIn(s \o t)
  <2>1. PICK k \in DOMAIN s : b = s[k]
    BY <1>6 DEF BytesIn
  <2>. QED
    BY <1>3, <2>1 DEF BytesIn
<1>7. ASSUME NEW b \in BytesIn(t) PROVE b \in BytesIn(s \o t)
  <2>1. PICK k \in DOMAIN t : b = t[k]
    BY <1>7 DEF BytesIn
  <2>. QED
    BY <1>4, <2>1 DEF BytesIn
<1>. QED
  BY <1>5, <1>6, <1>7

LEMMA IncomingBytes ==
  ASSUME arrived \in Nat, NEW n \in Nat, Arrives(n)
  PROVE  /\ arrived' \in Nat /\ arrived <= arrived'
         /\ BytesIn(Incoming(n)) = arrived + 1 .. arrived'
<1>1. arrived' = arrived + n
  BY DEF Arrives
<1>2. DOMAIN Incoming(n) = 1 .. n /\ \A i \in 1 .. n : Incoming(n)[i] = arrived + i
  BY DEF Incoming
<1>3. BytesIn(Incoming(n)) = {arrived + i : i \in 1 .. n}
  BY <1>2 DEF BytesIn
<1>4. ASSUME NEW b \in arrived + 1 .. arrived' PROVE b \in {arrived + i : i \in 1 .. n}
  <2>1. b - arrived \in 1 .. n /\ b = arrived + (b - arrived)
    BY <1>1
  <2>. QED
    BY <2>1
<1>5. \A i \in 1 .. n : arrived + i \in arrived + 1 .. arrived'
  BY <1>1
<1>. QED
  BY <1>1, <1>3, <1>4, <1>5

LEMMA PendingType ==
  ASSUME OrderInv
  PROVE  /\ Pending \subseteq Bytes /\ Bytes \subseteq Nat
         /\ arrived \in Nat /\ candidate \in ByteSeqs
<1>1. /\ candidate \in ByteSeqs /\ ring \in ByteSeqs /\ chunk \in ByteSeqs /\ arrived \in Nat
      /\ \A i \in SlotIds : slots[i] \in ByteSeqs
  BY DEF OrderInv, TypeInv, TypeOK
<1>2. InHand \subseteq SlotIds
  BY DEF InHand, Waiting
<1>3. BytesIn(ring) \subseteq Bytes /\ BytesIn(chunk) \subseteq Bytes
  BY <1>1, BytesInType
<1>4. \A i \in InHand : BytesIn(slots[i]) \subseteq Bytes
  BY <1>1, <1>2, BytesInType
<1>5. Bytes \subseteq Nat
  BY ReceiveAssumption DEF Bytes, Total
<1>. QED
  BY Zenon, <1>1, <1>3, <1>4, <1>5 DEF Pending, Queued

(* What waits is in the same places. *)
LEMMA SamePending ==
  ASSUME UNCHANGED <<ring, chunk, slots, head, tail>>, pc' = "ingest" <=> pc = "ingest"
  PROVE  Pending' = Pending
<1>1. Waiting' = Waiting
  BY DEF Waiting, Rank
<1>2. InHand' = InHand
  BY <1>1 DEF InHand
<1>3. BytesIn(ring)' = BytesIn(ring) /\ BytesIn(chunk)' = BytesIn(chunk)
  BY DEF BytesIn
<1>4. \A i : BytesIn(slots[i])' = BytesIn(slots[i])
  BY DEF BytesIn
<1>. QED
  BY <1>2, <1>3, <1>4 DEF Pending, Queued

(* An interrupt: the bytes wait in a slot, or they are lost.                *)
LEMMA InterruptParts ==
  ASSUME OrderInv, StreamParts, TypeInv', Interrupt
  PROVE  StreamParts' /\ dropped \subseteq dropped' /\ delivered' = delivered
<1>1. /\ Pending \subseteq Nat /\ arrived \in Nat /\ candidate \in ByteSeqs
      /\ delivered \in Seq(1 .. Frames) /\ head \in SlotIds /\ tail \in SlotIds
  BY PendingType DEF OrderInv, TypeInv, TypeOK
<1>2. \A n \in 1 .. ChunkSize : n \in Nat
  BY ReceiveAssumption
<1>3. UNCHANGED <<tail, pc, chunk, ring, candidate, truncated, delivered>>
  BY DEF Interrupt, RxEvent, HandleError, Deaf, frameVars
<1>4. ASSUME NEW n \in 1 .. ChunkSize, Arrives(n),
             UNCHANGED <<slots, head>>, dropped' = dropped \cup BytesIn(Incoming(n))
      PROVE  StreamParts' /\ dropped \subseteq dropped'
  <2>1. /\ arrived' \in Nat /\ arrived <= arrived'
        /\ BytesIn(Incoming(n)) = arrived + 1 .. arrived'
    BY <1>1, <1>2, <1>4, IncomingBytes
  <2>2. Pending' = Pending
    BY <1>3, <1>4, SamePending
  <2>. QED
    BY <1>1, <1>3, <1>4, <2>1, <2>2, Moves
<1>5. ASSUME NEW n \in 1 .. ChunkSize, Arrives(n), NextIndex(head) # tail,
             slots' = [slots EXCEPT ![head] = Incoming(n)], head' = NextIndex(head),
             dropped' = dropped
      PROVE  StreamParts'
  <2>1. /\ arrived' \in Nat /\ arrived <= arrived'
        /\ BytesIn(Incoming(n)) = arrived + 1 .. arrived'
    BY <1>1, <1>2, <1>5, IncomingBytes
  <2>2. slots'[head] = Incoming(n) /\ \A i \in SlotIds \ {head} : slots'[i] = slots[i]
    BY <1>1, <1>5 DEF OrderInv, TypeInv, TypeOK
  <2>3. Waiting' = Waiting \cup {head}
    BY <1>1, <1>3, <1>5, Filled
  <2>4. head \notin Waiting /\ (pc = "ingest" => tail # head)
    <3>1. head \notin Waiting
      <4>1. \A i \in SlotIds : Rank(i) = Distance(i, tail)
        BY <1>1, DistanceIs DEF Rank
      <4>2. ~(Distance(head, tail) < Distance(head, tail))
        BY <1>1, ReceiveAssumption DEF Distance, SlotIds
      <4>. QED
        BY <1>1, <4>1, <4>2 DEF Waiting
    <3>. QED
      BY <3>1 DEF OrderInv, Taking
  <2>5. InHand' = InHand \cup {head} /\ head \notin InHand /\ InHand \subseteq SlotIds
    BY <1>3, <2>3, <2>4 DEF InHand, Waiting
  <2>6. \A i \in InHand : BytesIn(slots'[i]) = BytesIn(slots[i])
    BY <2>2, <2>5
  <2>7. Queued' = Queued \cup BytesIn(Incoming(n))
    <3>1. Queued' = UNION {BytesIn(slots'[i]) : i \in InHand \cup {head}}
      BY <2>5 DEF Queued, BytesIn
    <3>2. \A b : b \in Queued' <=> b \in BytesIn(slots'[head])
                                   \/ \E i \in InHand : b \in BytesIn(slots'[i])
      BY Zenon, <3>1
    <3>3. \A b : b \in Queued' <=> b \in BytesIn(Incoming(n))
                                   \/ \E i \in InHand : b \in BytesIn(slots[i])
      BY <2>2, <2>6, <3>2
    <3>4. \A b : b \in Queued <=> \E i \in InHand : b \in BytesIn(slots[i])
      BY Zenon DEF Queued
    <3>. QED
      BY Zenon, <3>3, <3>4
  <2>8. Pending' = Pending \cup (arrived + 1 .. arrived')
    <3>1. BytesIn(ring)' = BytesIn(ring) /\ BytesIn(chunk)' = BytesIn(chunk)
      BY <1>3 DEF BytesIn
    <3>. QED
      BY Zenon, <2>1, <2>7, <3>1 DEF Pending
  <2>. QED
    BY <1>1, <1>3, <1>5, <2>1, <2>8, Moves
<1>6. CASE RxEvent
  <2>1. PICK n \in 1 .. ChunkSize : Arrives(n) /\ EnqueueRxChunk(n)
    BY <1>6 DEF RxEvent
  <2>2. CASE NextIndex(head) = tail
    BY <1>3, <1>4, <2>1, <2>2 DEF EnqueueRxChunk
  <2>3. CASE NextIndex(head) # tail
    BY <1>3, <1>5, <2>1, <2>3 DEF EnqueueRxChunk
  <2>. QED
    BY <2>2, <2>3
<1>7. CASE HandleError \/ Deaf
  <2>1. /\ \E n \in 1 .. ChunkSize : Arrives(n) /\ dropped' = dropped \cup BytesIn(Incoming(n))
        /\ UNCHANGED <<slots, head>>
    BY <1>7 DEF HandleError, Deaf
  <2>. QED
    BY <1>3, <1>4, <2>1
<1>. QED
  BY <1>6, <1>7 DEF Interrupt

(* Copying a slot moves its bytes, and releases it for nobody yet.          *)
LEMMA CopyParts ==
  ASSUME OrderInv, ChunkUsed, StreamParts, CopyChunk
  PROVE  StreamParts' /\ ChunkUsed' /\ dropped' = dropped /\ delivered' = delivered
<1>1. /\ Pending \subseteq Nat /\ arrived \in Nat /\ candidate \in ByteSeqs
      /\ delivered \in Seq(1 .. Frames) /\ head \in SlotIds /\ tail \in SlotIds
  BY PendingType DEF OrderInv, TypeInv, TypeOK
<1>2. /\ pc = "copy" /\ pc' = "ingest" /\ chunk' = slots[tail]
      /\ UNCHANGED <<arrived, slots, head, tail, ring, candidate, truncated, delivered, dropped>>
  BY DEF CopyChunk, isrVars, frameVars
<1>3. tail \in Waiting
  BY <1>1, <1>2, TailFirst DEF OrderInv, Taking
<1>4. InHand = Waiting /\ InHand' = Waiting \ {tail}
  BY <1>2 DEF InHand, Waiting, Rank
<1>5. BytesIn(chunk) = {}
  BY <1>2, NoBytes DEF ChunkUsed
<1>6. /\ BytesIn(ring)' = BytesIn(ring) /\ BytesIn(chunk)' = BytesIn(slots[tail])
      /\ Queued' = UNION {BytesIn(slots[i]) : i \in Waiting \ {tail}}
  BY <1>2, <1>4 DEF BytesIn, Queued
<1>7. Queued = UNION {BytesIn(slots[i]) : i \in Waiting}
  BY <1>4 DEF Queued
<1>8. Queued = Queued' \cup BytesIn(chunk)'
  BY Zenon, <1>3, <1>6, <1>7
<1>9. Pending' = Pending
  BY Zenon, <1>5, <1>6, <1>8 DEF Pending
<1>10. ChunkUsed'
  BY <1>2 DEF ChunkUsed
<1>. QED
  BY <1>1, <1>2, <1>9, <1>10, Moves

(* Releasing a slot; the chunk joins the ring, or it is lost with the ring  *)
(* and the candidate.                                                       *)
LEMMA TakeParts ==
  ASSUME OrderInv, StreamParts, TakeChunk
  PROVE  StreamParts' /\ ChunkUsed' /\ dropped \subseteq dropped' /\ delivered' = delivered
<1>1. /\ Pending \subseteq Nat /\ arrived \in Nat /\ candidate \in ByteSeqs
      /\ ring \in ByteSeqs /\ chunk \in ByteSeqs
      /\ delivered \in Seq(1 .. Frames) /\ head \in SlotIds /\ tail \in SlotIds
  BY PendingType DEF OrderInv, TypeInv, TypeOK
<1>2. /\ pc = "ingest" /\ pc' = "drain" /\ chunk' = <<>> /\ tail' = NextIndex(tail)
      /\ UNCHANGED <<arrived, slots, head, delivered>>
  BY DEF TakeChunk, ReleaseSlot, isrVars
<1>3. Waiting' = Waiting \ {tail}
  BY <1>1, <1>2, Released DEF OrderInv, Taking
<1>4. InHand' = InHand
  BY <1>2, <1>3 DEF InHand
<1>5. Queued' = Queued
  BY <1>2, <1>4 DEF Queued, BytesIn
<1>6. BytesIn(chunk)' = {}
  BY <1>2, NoBytes DEF BytesIn
<1>7. ChunkUsed'
  BY <1>2 DEF ChunkUsed
<1>8. CASE Len(ring) + Len(chunk) > RingSize
  <2>1. /\ ring' = <<>> /\ candidate' = <<>> /\ truncated' = FALSE
        /\ dropped' = dropped \cup BytesIn(ring) \cup BytesIn(candidate) \cup BytesIn(chunk)
    BY <1>8 DEF TakeChunk, IngestBytes
  <2>2. BytesIn(ring)' = {} /\ BytesIn(candidate') = {}
    BY <2>1, NoBytes DEF BytesIn
  <2>3. Pending' = Queued /\ Pending = BytesIn(ring) \cup BytesIn(chunk) \cup Queued
    BY <1>5, <1>6, <2>2 DEF Pending
  <2>4. candidate' \in ByteSeqs /\ Len(candidate') = 0
    BY <2>1, Short
  <2>5. /\ dropped \subseteq dropped' /\ BytesIn(candidate) \subseteq dropped'
        /\ Pending' \subseteq Pending /\ Pending \subseteq Pending' \cup dropped'
    BY <2>1, <2>3
  <2>6. arrived' = arrived /\ arrived + 1 .. arrived' = {}
    BY <1>1, <1>2
  <2>7. StreamParts'
    <3>1. /\ arrived' \in Nat /\ arrived <= arrived' /\ delivered' = delivered
          /\ Pending' \subseteq Pending \cup (arrived + 1 .. arrived')
          /\ arrived + 1 .. arrived' \subseteq Pending' \cup dropped'
      BY <1>1, <1>2, <2>5, <2>6
    <3>2. /\ Len(candidate') = 0 /\ truncated' = FALSE
          /\ BytesIn(candidate') = {} /\ BytesIn(candidate) \subseteq dropped'
      BY Zenon, <2>1, <2>2, <2>4, <2>5
    <3>. QED
      BY Zenon, <1>1, <2>4, <2>5, <3>1, <3>2, Moves
  <2>. QED
    BY <1>2, <1>7, <2>5, <2>7
<1>9. CASE ~(Len(ring) + Len(chunk) > RingSize)
  <2>1. ring' = ring \o chunk /\ UNCHANGED <<candidate, truncated, dropped>>
    BY <1>9 DEF TakeChunk, IngestBytes
  <2>2. BytesIn(ring)' = BytesIn(ring) \cup BytesIn(chunk)
    <3>1. BytesIn(ring)' = BytesIn(ring')
      BY DEF BytesIn
    <3>. QED
      BY <1>1, <2>1, <3>1, JoinBytes
  <2>3. Pending' = Pending
    BY Zenon, <1>5, <1>6, <2>2 DEF Pending
  <2>4. arrived' = arrived /\ arrived + 1 .. arrived' = {}
    BY <1>1, <1>2
  <2>5. StreamParts'
    BY <1>1, <1>2, <2>1, <2>3, <2>4, Moves
  <2>. QED
    BY <1>2, <1>7, <2>1, <2>5
<1>. QED
  BY <1>8, <1>9

LEMMA LookParts ==
  ASSUME OrderInv, ChunkUsed, StreamParts, FindChunk \/ RuntimePoll \/ UNCHANGED vars
  PROVE  StreamParts' /\ ChunkUsed' /\ dropped' = dropped /\ delivered' = delivered
<1>1. /\ Pending \subseteq Nat /\ arrived \in Nat /\ candidate \in ByteSeqs
      /\ delivered \in Seq(1 .. Frames)
  BY PendingType DEF OrderInv, TypeInv, TypeOK
<1>2. UNCHANGED <<arrived, slots, head, tail, chunk, ring, candidate, truncated, delivered, dropped>>
  BY DEF FindChunk, RuntimePoll, vars, isrVars, frameVars
<1>3. pc' = "ingest" <=> pc = "ingest"
  BY DEF FindChunk, RuntimePoll, vars
<1>4. Pending' = Pending
  BY <1>2, <1>3, SamePending
<1>5. ChunkUsed'
  BY <1>2, <1>3 DEF ChunkUsed
<1>. QED
  BY <1>1, <1>2, <1>4, <1>5, Moves

-----------------------------------------------------------------------------
(* One byte of the delimiter search *)

LEMMA BeforeBytes ==
  ASSUME NEW s, NEW t, Before(s, t), NEW b \in BytesIn(s), NEW c \in BytesIn(t)
  PROVE  b < c
BY DEF Before, BytesIn

(* A byte leaves the ring. *)
Searched(b) ==
  /\ b \in Bytes /\ b \in Pending /\ b <= arrived
  /\ arrived' = arrived /\ dropped' = dropped
  /\ Pending' = Pending \ {b}
  /\ \A w \in Pending' : b < w
  /\ \A c \in BytesIn(candidate) : c < b

LEMMA FirstByte ==
  ASSUME OrderInv, ProcessByte
  PROVE  Searched(ring[1])
<1>. DEFINE b == ring[1]
            rest == BytesIn(Tail(ring)) \cup BytesIn(chunk) \cup Queued
<1>1. /\ pc = "process" /\ ring # <<>> /\ ring' = Tail(ring)
      /\ UNCHANGED <<arrived, slots, head, tail, chunk, dropped>>
  BY DEF ProcessByte, isrVars
<1>2. pc' # "ingest"
  BY <1>1 DEF ProcessByte, EndOfFrame, ByteOfFrame
<1>3. /\ candidate \in ByteSeqs /\ ring \in ByteSeqs /\ chunk \in ByteSeqs
      /\ \A i \in SlotIds : slots[i] \in ByteSeqs
  BY DEF OrderInv, TypeInv, TypeOK
<1>4. InHand \subseteq SlotIds /\ InHand' = InHand
  BY <1>1, <1>2 DEF InHand, Waiting, Rank
<1>5. /\ <<b>> \in ByteSeqs /\ Tail(ring) \in ByteSeqs /\ b \in Bytes
      /\ Before(<<b>>, Tail(ring))
  BY <1>1, <1>3, Splits DEF OrderInv, LoopInOrder
<1>6. 1 \in DOMAIN ring
  BY <1>1, <1>3 DEF ByteSeqs
<1>7. b \in BytesIn(ring) /\ b \in BytesIn(<<b>>) /\ b <= arrived
  <2>1. b \in BytesIn(ring) /\ b <= arrived
    BY <1>6 DEF BytesIn, OrderInv, Seen, UpTo
  <2>2. 1 \in DOMAIN <<b>> /\ <<b>>[1] = b
    OBVIOUS
  <2>. QED
    BY <2>1, <2>2 DEF BytesIn
<1>8. BytesIn(ring) = {b} \cup BytesIn(Tail(ring))
  <2>1. ring \in Seq(Bytes)
    BY <1>3 DEF ByteSeqs
  <2>2. /\ \A k \in DOMAIN Tail(ring) : k + 1 \in DOMAIN ring /\ Tail(ring)[k] = ring[k + 1]
        /\ \A k \in DOMAIN ring \ {1} : k - 1 \in DOMAIN Tail(ring) /\ ring[k] = Tail(ring)[k - 1]
    BY <1>1, <2>1
  <2>3. ASSUME NEW c \in BytesIn(Tail(ring)) PROVE c \in BytesIn(ring)
    BY <2>2, <2>3 DEF BytesIn
  <2>4. ASSUME NEW c \in BytesIn(ring) PROVE c = b \/ c \in BytesIn(Tail(ring))
    <3>1. PICK k \in DOMAIN ring : c = ring[k]
      BY <2>4 DEF BytesIn
    <3>. QED
      BY <2>2, <3>1 DEF BytesIn
  <2>. QED
    BY <1>7, <2>3, <2>4
<1>9. ASSUME NEW w \in rest PROVE b < w
  <2>1. CASE w \in BytesIn(Tail(ring))
    BY <1>5, <1>7, <2>1, BeforeBytes
  <2>2. CASE w \in BytesIn(chunk)
    <3>1. Before(ring, chunk)
      BY DEF OrderInv, LoopInOrder
    <3>. QED
      BY <1>7, <2>2, <3>1, BeforeBytes
  <2>3. CASE w \in Queued
    <3>1. PICK i \in InHand : w \in BytesIn(slots[i])
      BY <2>3 DEF Queued
    <3>2. Before(ring, slots[i])
      BY <3>1 DEF OrderInv, SlotsBehind, Behind
    <3>. QED
      BY <1>7, <3>1, <3>2, BeforeBytes
  <2>. QED
    BY <1>9, <2>1, <2>2, <2>3
<1>10. Pending = {b} \cup rest
  BY Zenon, <1>8 DEF Pending
<1>11. Pending' = rest
  BY <1>1, <1>4 DEF Pending, Queued, BytesIn
<1>12. b \in Nat
  BY <1>5, PendingType
<1>13. b \notin rest
  BY <1>9, <1>12
<1>14. \A c \in BytesIn(candidate) : c < b
  <2>1. Before(candidate, ring)
    BY DEF OrderInv, LoopInOrder
  <2>. QED
    BY <1>7, <2>1, BeforeBytes
<1>15. Pending' = Pending \ {b} /\ b \in Pending /\ \A w \in Pending' : b < w
  BY Zenon, <1>9, <1>10, <1>11, <1>13
<1>. QED
  BY <1>1, <1>5, <1>7, <1>14, <1>15 DEF Searched

LEMMA SearchedAccounted ==
  ASSUME OrderInv, Accounted, NEW b, Searched(b)
  PROVE  Accounted'
<1>. SUFFICES ASSUME NEW c \in 1 .. arrived, c \notin dropped, c \notin Pending',
                     NEW w \in Pending'
              PROVE  c < w
  BY DEF Accounted, Searched
<1>1. CASE c = b
  BY <1>1 DEF Searched
<1>2. CASE c # b
  BY <1>2 DEF Accounted, Searched
<1>. QED
  BY <1>1, <1>2

(* A byte inside a frame joins the candidate in its place.                  *)
LEMMA PlainParts ==
  ASSUME OrderInv, StreamParts, ProcessByte, ByteOfFrame
  PROVE  StreamParts' /\ delivered' = delivered
<1>. DEFINE b == ring[1]
<1>1. Searched(b)
  BY FirstByte
<1>. HIDE DEF b
<1>2. /\ delivered' = delivered
      /\ \/ /\ truncated \/ Len(candidate) >= CandidateSize
            /\ candidate' = candidate
         \/ /\ ~truncated /\ ~(Len(candidate) >= CandidateSize)
            /\ candidate' = Append(candidate, b) /\ truncated' = truncated
  BY DEF ByteOfFrame, b
<1>3. /\ b \in Bytes /\ b \in Pending /\ b <= arrived
      /\ arrived' = arrived /\ dropped' = dropped /\ Pending' = Pending \ {b}
      /\ \A w \in Pending' : b < w
      /\ \A c \in BytesIn(candidate) : c < b
  BY <1>1 DEF Searched
<1>4. /\ Pending \subseteq Nat /\ b \in Nat /\ b # 0 /\ arrived \in Nat
      /\ candidate \in Seq(Bytes) /\ delivered \in Seq(1 .. Frames)
  BY <1>3, PendingType DEF OrderInv, TypeInv, TypeOK, ByteSeqs, Bytes
<1>5. \A g \in 1 .. Frames : b # EndOf(g)
  <2>1. ~IsDelimiter(b)
    BY DEF ByteOfFrame, b
  <2>. QED
    BY <1>3, <2>1, DelimiterIs
<1>6. Accounted'
  BY <1>1, SearchedAccounted DEF StreamParts
<1>7. HurtFrames' = HurtFrames
  BY <1>3 DEF HurtFrames
<1>8. Settled'
  BY <1>2, <1>3, <1>5, <1>7 DEF StreamParts, Settled, BytesIn
<1>9. Current'
  <2>. SUFFICES ASSUME NEW g \in 1 .. Frames, Open(g)'
                PROVE  ~truncated' /\ Prefix(g)'
    BY DEF Current
  <2>. DEFINE start == EndOf(g - 1)
              stop  == EndOf(g)
              len   == Len(candidate)
  <2>1. /\ start \in Nat /\ stop \in Nat /\ g \in Nat /\ g - 1 \in Nat
        /\ stop = start + FrameLength + 1 /\ FrameLength \in Nat \ {0} /\ len \in Nat
    BY <1>4, EndsOf
  <2>2. b # start
    <3>1. CASE g = 1
      BY <1>4, <3>1, Ends
    <3>2. CASE g # 1
      <4>1. g - 1 \in 1 .. Frames
        BY <2>1, <3>2, ReceiveAssumption
      <4>. QED
        BY <1>5, <4>1
    <3>. QED
      BY <3>1, <3>2
  <2>3. /\ g \notin HurtFrames /\ start <= arrived /\ start \notin Pending
        /\ stop \in Pending' \/ stop > arrived
    BY <1>3, <1>7, <2>2 DEF Open
  <2>4. Open(g)
    BY <1>3, <2>3 DEF Open
  <2>5. ~truncated /\ Prefix(g)
    BY <2>4 DEF StreamParts, Current
  <2>. HIDE DEF start, stop, len
  <2>6. /\ len <= FrameLength
        /\ \A i \in 1 .. len : candidate[i] = start + i
        /\ \A c \in start + len + 1 .. stop : c <= arrived => c \in Pending
    BY <2>5 DEF Prefix, start, stop, len
  <2>7. start < b
    <3>1. CASE start = 0
      BY <1>4, <3>1
    <3>2. CASE start # 0
      <4>1. start \in 1 .. arrived
        BY <1>4, <2>1, <2>3, <3>2
      <4>2. start \notin dropped
        <5>1. start \in EndOf(g - 1) .. EndOf(g)
          BY <2>1 DEF start, stop
        <5>. QED
          BY <2>3, <5>1, Whole
      <4>. QED
        BY <1>3, <2>3, <4>1, <4>2 DEF StreamParts, Accounted
    <3>. QED
      BY <3>1, <3>2
  <2>8. b < stop
    BY <1>3, <1>4, <2>1, <2>3
  <2>9. start + len < b
    <3>1. CASE len = 0
      BY <2>1, <2>7, <3>1
    <3>2. CASE len # 0
      <4>1. len \in 1 .. len /\ len \in DOMAIN candidate
        BY <1>4, <2>1, <3>2 DEF len
      <4>2. candidate[len] = start + len /\ candidate[len] \in BytesIn(candidate)
        BY <2>6, <4>1 DEF BytesIn
      <4>. QED
        BY <1>3, <4>2
    <3>. QED
      BY <3>1, <3>2
  <2>10. b = start + len + 1 /\ len + 1 <= FrameLength
    <3>1. start + len + 1 <= b /\ start + len + 1 \in start + len + 1 .. stop
      BY <1>4, <2>1, <2>8, <2>9
    <3>2. start + len + 1 <= arrived /\ len + 1 <= FrameLength
      BY <1>3, <1>4, <2>1, <2>8, <3>1
    <3>3. start + len + 1 \in Pending
      BY <2>6, <3>1, <3>2
    <3>4. ~(start + len + 1 < b)
      BY <1>3, <1>4, <2>1, <3>3
    <3>. QED
      BY <1>4, <2>1, <3>1, <3>2, <3>4
  <2>11. candidate' = Append(candidate, b) /\ ~truncated'
    BY <1>2, <2>1, <2>5, <2>10, ReceiveAssumption DEF len
  <2>12. /\ Len(candidate') = len + 1
         /\ \A i \in 1 .. len : candidate'[i] = candidate[i]
         /\ candidate'[len + 1] = b
    BY <1>3, <1>4, <2>11 DEF len
  <2>13. \A i \in 1 .. len + 1 : candidate'[i] = start + i
    <3>1. \A i \in 1 .. len + 1 : i \in 1 .. len \/ i = len + 1
      BY <2>1
    <3>2. candidate'[len + 1] = start + (len + 1)
      BY <2>1, <2>10, <2>12
    <3>. QED
      BY <2>6, <2>12, <3>1, <3>2
  <2>14. \A c \in start + (len + 1) + 1 .. stop : c <= arrived => c \in Pending'
    <3>1. \A c \in start + (len + 1) + 1 .. stop : c \in start + len + 1 .. stop /\ c # b
      BY <2>1, <2>10
    <3>. QED
      BY <1>3, <2>6, <3>1
  <2>15. Prefix(g)'
    BY <1>3, <2>10, <2>12, <2>13, <2>14 DEF Prefix, start, stop
  <2>. QED
    BY <2>11, <2>15
<1>10. Ahead'
  <2>1. BytesIn(candidate') \subseteq BytesIn(candidate) \cup {b}
    <3>1. CASE candidate' = candidate
      BY <3>1
    <3>2. CASE candidate' = Append(candidate, b)
      <4>1. \A k \in DOMAIN candidate' : \/ candidate'[k] = b
                                         \/ k \in DOMAIN candidate /\ candidate'[k] = candidate[k]
        BY <1>3, <1>4, <3>2
      <4>. QED
        BY <4>1 DEF BytesIn
    <3>. QED
      BY <1>2, <3>1, <3>2
  <2>2. BytesIn(candidate') \cup Pending' \subseteq BytesIn(candidate) \cup Pending
    BY <1>3, <2>1
  <2>3. BytesIn(candidate)' = BytesIn(candidate')
    BY DEF BytesIn
  <2>. QED
    BY <1>2, <1>3, <2>2, <2>3 DEF StreamParts, Ahead, Rising, BytesIn
<1>. QED
  BY <1>2, <1>6, <1>8, <1>9, <1>10 DEF StreamParts

(* The candidate of a frame that is not hurt is that frame.                 *)
LEMMA WholeFound ==
  ASSUME OrderInv, StreamParts, NEW h \in 1 .. Frames, Searched(EndOf(h)), h \notin HurtFrames
  PROVE  ~truncated /\ FrameOf(candidate) = {h}
<1>. DEFINE start == EndOf(h - 1)
            stop  == EndOf(h)
            len   == Len(candidate)
<1>1. /\ start \in Nat /\ stop \in Nat
      /\ stop = start + FrameLength + 1 /\ FrameLength \in Nat \ {0}
  BY EndsOf
<1>2. /\ stop \in Pending /\ stop <= arrived /\ arrived \in Nat /\ Pending \subseteq Nat
      /\ \A w \in Pending : stop <= w
  BY <1>1, PendingType DEF Searched
<1>3. candidate \in Seq(Bytes) /\ len \in Nat
  <2>1. candidate \in Seq(Bytes)
    BY PendingType DEF ByteSeqs
  <2>. QED
    BY <2>1
<1>4. Open(h)
  <2>1. start <= arrived /\ start \notin Pending
    BY <1>1, <1>2
  <2>. QED
    BY <1>2, <2>1 DEF Open
<1>5. ~truncated /\ Prefix(h)
  BY <1>4 DEF StreamParts, Current
<1>. HIDE DEF start, stop, len
<1>6. /\ len <= FrameLength
      /\ \A i \in 1 .. len : candidate[i] = start + i
      /\ \A c \in start + len + 1 .. stop : c <= arrived => c \in Pending
  BY <1>5 DEF Prefix, start, stop, len
<1>7. len = FrameLength
  <2>. SUFFICES ASSUME len < FrameLength PROVE FALSE
    BY <1>1, <1>3, <1>6
  <2>1. /\ start + len + 1 \in start + len + 1 .. stop
        /\ start + len + 1 < stop /\ start + len + 1 <= arrived
    BY <1>1, <1>2, <1>3
  <2>2. start + len + 1 \in Pending
    BY <1>6, <2>1
  <2>. QED
    BY <1>1, <1>2, <1>3, <2>1, <2>2
<1>8. candidate = Content(h)
  <2>1. candidate = [i \in 1 .. FrameLength |-> candidate[i]]
    BY <1>3, <1>7 DEF len
  <2>2. \A i \in 1 .. FrameLength : candidate[i] = EndOf(h - 1) + i
    BY <1>6, <1>7 DEF start
  <2>. QED
    BY Zenon, <2>1, <2>2 DEF Content
<1>9. ASSUME NEW f \in 1 .. Frames, candidate = Content(f) PROVE f = h
  <2>1. candidate[1] = EndOf(f - 1) + 1 /\ candidate[1] = EndOf(h - 1) + 1
    BY <1>1, <1>8, <1>9 DEF Content
  <2>2. f - 1 \in Nat /\ h - 1 \in Nat /\ EndOf(f - 1) \in Nat /\ EndOf(h - 1) \in Nat
    BY EndsOf
  <2>3. f - 1 = h - 1
    BY <2>1, <2>2, Order
  <2>. QED
    BY <2>3
<1>. QED
  BY <1>5, <1>8, <1>9 DEF FrameOf

(* A frame that is found is behind what was delivered, and those between    *)
(* are hurt.                                                                *)
LEMMA FoundIsNext ==
  ASSUME OrderInv, StreamParts, NEW b, Searched(b), NEW f \in FrameOf(candidate),
         NEW h \in 1 .. Frames, b = EndOf(h)
  PROVE  /\ f \in 1 .. Frames /\ EndOf(f) <= arrived
         /\ \A d \in BytesIn(delivered) : d < f
         /\ \A g \in 1 .. f - 1 : g \in HurtFrames \/ g \in BytesIn(delivered)
         /\ EndOf(f) <= b
<1>1. f \in 1 .. Frames /\ candidate = Content(f)
  BY DEF FrameOf
<1>2. /\ EndOf(f - 1) \in Nat /\ EndOf(f) \in Nat /\ f \in Nat /\ f - 1 \in Nat
      /\ EndOf(f) = EndOf(f - 1) + FrameLength + 1 /\ FrameLength \in Nat \ {0}
  BY <1>1, EndsOf
<1>3. /\ 1 \in DOMAIN candidate /\ candidate[1] = EndOf(f - 1) + 1
      /\ candidate[1] \in BytesIn(candidate)
  BY <1>1, <1>2 DEF Content, BytesIn
<1>4. /\ EndOf(f - 1) + 1 < b /\ b <= arrived /\ b \in Pending /\ \A w \in Pending : b <= w
      /\ b \in Nat /\ arrived \in Nat /\ Pending \subseteq Nat
  BY <1>3, PendingType DEF Searched
<1>5. ASSUME NEW d \in BytesIn(delivered) PROVE d < f
  <2>1. d \in 1 .. Frames /\ EndOf(d) \in Nat /\ d \in Nat
    BY DeliveredEnds, ReceiveAssumption DEF OrderInv, TypeInv, TypeOK
  <2>2. EndOf(d) < EndOf(f - 1) + 1
    BY <1>3, <1>5 DEF StreamParts, Ahead
  <2>3. EndOf(d) < EndOf(f)
    BY <1>2, <2>1, <2>2
  <2>. QED
    BY <1>2, <2>1, <2>3, Order
<1>6. ASSUME NEW g \in 1 .. f - 1 PROVE g \in HurtFrames \/ g \in BytesIn(delivered)
  <2>1. g \in 1 .. Frames /\ g \in Nat /\ EndOf(g) \in Nat
    <3>1. g \in 1 .. Frames /\ g \in Nat
      BY <1>1, <1>2, ReceiveAssumption
    <3>. QED
      BY <3>1, EndsOf
  <2>2. EndOf(g) <= EndOf(f - 1)
    <3>1. CASE g = f - 1
      BY <1>2, <3>1
    <3>2. CASE g < f - 1
      BY <1>2, <2>1, <3>2, Ends, ReceiveAssumption
    <3>. QED
      BY <1>2, <2>1, <3>1, <3>2
  <2>3. EndOf(g) < b
    BY <1>2, <1>4, <2>1, <2>2
  <2>4. EndOf(g) \notin Pending /\ ~(EndOf(g) > arrived)
    BY <1>4, <2>1, <2>3
  <2>. QED
    BY <2>1, <2>4 DEF StreamParts, Settled
<1>7. EndOf(f) <= b
  <2>1. h \in Nat /\ EndOf(h) \in Nat
    BY EndsOf
  <2>2. EndOf(f - 1) < EndOf(h)
    BY <1>2, <1>4
  <2>3. f - 1 < h
    BY <1>2, <2>1, <2>2, Order
  <2>4. f = h \/ f < h
    BY <1>2, <2>1, <2>3
  <2>. QED
    BY <1>2, <2>1, <2>4, Ends, ReceiveAssumption
<1>. QED
  BY <1>1, <1>2, <1>4, <1>5, <1>6, <1>7

(* What a delimiter delivers. *)
Outcome(found) ==
  \/ found = {} /\ delivered' = delivered
  \/ \E f \in found : delivered' = Append(delivered, f)

LEMMA AppendBytes ==
  ASSUME NEW s \in Seq(1 .. Frames), NEW f \in 1 .. Frames
  PROVE  BytesIn(Append(s, f)) = BytesIn(s) \cup {f}
<1>1. /\ \A k \in DOMAIN Append(s, f) : \/ Append(s, f)[k] = f
                                        \/ k \in DOMAIN s /\ Append(s, f)[k] = s[k]
      /\ \A k \in DOMAIN s : k \in DOMAIN Append(s, f) /\ Append(s, f)[k] = s[k]
      /\ Len(s) + 1 \in DOMAIN Append(s, f) /\ Append(s, f)[Len(s) + 1] = f
  OBVIOUS
<1>. QED
  BY <1>1 DEF BytesIn

LEMMA AppendRising ==
  ASSUME NEW s \in Seq(1 .. Frames), Rising(s), NEW f \in 1 .. Frames,
         \A d \in BytesIn(s) : d < f
  PROVE  Rising(Append(s, f))
<1>1. \A k \in DOMAIN s : s[k] < f
  BY DEF BytesIn
<1>2. /\ \A k \in DOMAIN Append(s, f) : k = Len(s) + 1 \/ k \in DOMAIN s
      /\ Append(s, f)[Len(s) + 1] = f
      /\ \A k \in DOMAIN s : Append(s, f)[k] = s[k] /\ k \in Nat /\ k <= Len(s)
  OBVIOUS
<1>3. Len(s) \in Nat
  OBVIOUS
<1>. QED
  BY <1>1, <1>2, <1>3 DEF Rising

(* A delimiter ends the candidate, which is delivered if it is a frame.     *)
LEMMA DelimiterParts ==
  ASSUME OrderInv, StreamParts, ProcessByte, EndOfFrame
  PROVE  /\ StreamParts' /\ dropped' = dropped
         /\ \/ delivered' = delivered
            \/ \E f \in 1 .. Frames :
                 /\ delivered' = Append(delivered, f)
                 /\ \A d \in BytesIn(delivered) : d < f
                 /\ \A g \in 1 .. f - 1 : g \in HurtFrames \/ g \in BytesIn(delivered)
<1>. DEFINE b     == ring[1]
            found == IF truncated THEN {} ELSE FrameOf(candidate)
<1>1. Searched(b)
  BY FirstByte
<1>2. IsDelimiter(b) /\ candidate' = <<>> /\ truncated' = FALSE /\ Outcome(found)
  BY DEF EndOfFrame, CandidateAfter, Outcome
<1>. HIDE DEF b, found
<1>3. /\ b \in Bytes /\ b \in Pending /\ b <= arrived
      /\ arrived' = arrived /\ dropped' = dropped /\ Pending' = Pending \ {b}
      /\ \A w \in Pending' : b < w
  BY <1>1 DEF Searched
<1>4. /\ Pending \subseteq Nat /\ b \in Nat /\ arrived \in Nat
      /\ delivered \in Seq(1 .. Frames)
  BY <1>3, PendingType DEF OrderInv, TypeInv, TypeOK
<1>5. PICK h \in 1 .. Frames : b = EndOf(h)
  BY <1>2, <1>3, DelimiterIs
<1>6. \A f \in found :
        /\ f \in 1 .. Frames /\ EndOf(f) <= arrived /\ EndOf(f) <= b
        /\ \A d \in BytesIn(delivered) : d < f
        /\ \A g \in 1 .. f - 1 : g \in HurtFrames \/ g \in BytesIn(delivered)
  <2>1. \A f \in found : f \in FrameOf(candidate)
    BY DEF found
  <2>. QED
    BY <1>1, <1>5, <2>1, FoundIsNext
<1>7. h \notin HurtFrames => found = {h}
  BY <1>1, <1>5, WholeFound DEF found
<1>8. \/ found = {} /\ delivered' = delivered /\ BytesIn(delivered') = BytesIn(delivered)
      \/ \E f \in found : /\ delivered' = Append(delivered, f)
                          /\ BytesIn(delivered') = BytesIn(delivered) \cup {f}
  <2>1. ASSUME NEW f \in found, delivered' = Append(delivered, f)
        PROVE  BytesIn(delivered') = BytesIn(delivered) \cup {f}
    <3>1. f \in 1 .. Frames
      BY <1>6
    <3>2. BytesIn(Append(delivered, f)) = BytesIn(delivered) \cup {f}
      BY <1>4, <3>1, AppendBytes
    <3>. QED
      BY Zenon, <2>1, <3>2
  <2>. QED
    BY <1>2, <2>1 DEF Outcome
<1>9. Accounted'
  BY <1>1, SearchedAccounted DEF StreamParts
<1>10. HurtFrames' = HurtFrames /\ BytesIn(delivered)' = BytesIn(delivered')
  BY <1>3 DEF HurtFrames, BytesIn
<1>11. Settled'
  <2>. SUFFICES ASSUME NEW g \in 1 .. Frames, g \notin HurtFrames, ~(EndOf(g) > arrived),
                       EndOf(g) \notin Pending'
                PROVE  g \in BytesIn(delivered')
    BY <1>3, <1>10 DEF Settled
  <2>1. CASE EndOf(g) = b
    <3>1. g = h
      <4>1. g \in Nat /\ h \in Nat
        BY EndsOf
      <4>. QED
        BY <1>5, <2>1, <4>1, Order
    <3>. QED
      BY <1>7, <1>8, <3>1
  <2>2. CASE EndOf(g) # b
    <3>1. EndOf(g) \notin Pending
      BY <1>3, <2>2
    <3>2. g \in BytesIn(delivered)
      BY <3>1 DEF StreamParts, Settled
    <3>. QED
      BY <1>8, <3>2
  <2>. QED
    BY <2>1, <2>2
<1>12. Current'
  <2>. SUFFICES ASSUME NEW g \in 1 .. Frames, Open(g)'
                PROVE  ~truncated' /\ Prefix(g)'
    BY DEF Current
  <2>1. /\ EndOf(g - 1) \in Nat /\ EndOf(g) \in Nat /\ g \in Nat /\ g - 1 \in Nat
        /\ h \in Nat /\ EndOf(h) \in Nat /\ FrameLength \in Nat \ {0}
    BY EndsOf
  <2>2. g \notin HurtFrames /\ b < EndOf(g)
    BY <1>3, <1>4, <1>10, <2>1 DEF Open
  <2>3. b <= EndOf(g - 1)
    <3>1. h < g
      BY <1>5, <2>1, <2>2, Order
    <3>2. h = g - 1 \/ h < g - 1
      BY <2>1, <3>1
    <3>. QED
      BY <1>5, <2>1, <3>2, Ends
  <2>4. ASSUME NEW c \in EndOf(g - 1) + 1 .. EndOf(g), c <= arrived
        PROVE  c \in Pending'
    <3>1. c \in 1 .. arrived /\ b < c /\ c \in EndOf(g - 1) .. EndOf(g)
      BY <1>4, <2>1, <2>3, <2>4
    <3>2. c \notin dropped
      BY <2>2, <3>1, Whole
    <3>3. ~(c < b)
      BY <1>4, <3>1
    <3>4. c \in Pending
      BY <1>3, <3>1, <3>2, <3>3 DEF StreamParts, Accounted
    <3>. QED
      BY <1>3, <1>4, <3>1, <3>4
  <2>5. Len(candidate') = 0
    BY <1>2
  <2>6. EndOf(g - 1) + 0 + 1 = EndOf(g - 1) + 1
    BY <2>1
  <2>7. Prefix(g)'
    BY <1>3, <2>1, <2>4, <2>5, <2>6 DEF Prefix
  <2>. QED
    BY <1>2, <2>7
<1>13. Ahead'
  <2>1. BytesIn(candidate)' = {}
    BY <1>2, NoBytes DEF BytesIn
  <2>2. Rising(delivered')
    <3>1. CASE delivered' = delivered
      BY <3>1 DEF StreamParts, Ahead
    <3>2. ASSUME NEW f \in found, delivered' = Append(delivered, f) PROVE Rising(delivered')
      BY <1>4, <1>6, <3>2, AppendRising DEF StreamParts, Ahead
    <3>. QED
      BY <1>8, <3>1, <3>2
  <2>3. ASSUME NEW f \in BytesIn(delivered')
        PROVE  EndOf(f) <= arrived /\ \A w \in Pending' : EndOf(f) < w
    <3>1. CASE f \in BytesIn(delivered)
      BY <1>3, <3>1 DEF StreamParts, Ahead
    <3>2. CASE f \in found
      <4>1. f \in 1 .. Frames /\ EndOf(f) <= arrived /\ EndOf(f) <= b
        BY <1>6, <3>2
      <4>2. EndOf(f) \in Nat
        BY <4>1, EndsOf
      <4>3. \A w \in Pending' : w \in Nat /\ b < w
        BY <1>3, <1>4
      <4>. QED
        BY <1>4, <4>1, <4>2, <4>3
    <3>. QED
      BY <1>8, <2>3, <3>1, <3>2
  <2>4. Rising(delivered)'
    BY <2>2 DEF Rising
  <2>. QED
    BY <1>3, <1>10, <2>1, <2>3, <2>4 DEF Ahead
<1>14. StreamParts'
  BY <1>9, <1>11, <1>12, <1>13 DEF StreamParts
<1>. QED
  BY <1>3, <1>6, <1>8, <1>14

-----------------------------------------------------------------------------
(* The theorem *)

LEMMA StreamStep ==
  ASSUME StreamInv, [Next]_vars
  PROVE  /\ StreamInv'
         /\ dropped \subseteq dropped'
         /\ \/ delivered' = delivered
            \/ /\ dropped' = dropped
               /\ \E f \in 1 .. Frames :
                    /\ delivered' = Append(delivered, f)
                    /\ \A d \in BytesIn(delivered) : d < f
                    /\ \A g \in 1 .. f - 1 : g \in HurtFrames \/ g \in BytesIn(delivered)
<1>1. OrderInv /\ ChunkUsed /\ StreamParts
  BY DEF StreamInv
<1>2. OrderInv'
  BY <1>1, OrderStep
<1>3. TypeInv'
  BY <1>2 DEF OrderInv
<1>4. CASE Interrupt
  <2>1. UNCHANGED <<pc, chunk>>
    BY <1>4 DEF Interrupt, RxEvent, HandleError, Deaf
  <2>2. ChunkUsed'
    BY <1>1, <2>1 DEF ChunkUsed
  <2>. QED
    BY <1>1, <1>2, <1>3, <1>4, <2>2, InterruptParts DEF StreamInv
<1>5. CASE FindChunk \/ RuntimePoll \/ UNCHANGED vars
  BY <1>1, <1>2, <1>5, LookParts DEF StreamInv
<1>6. CASE CopyChunk
  BY <1>1, <1>2, <1>6, CopyParts DEF StreamInv
<1>7. CASE TakeChunk
  BY <1>1, <1>2, <1>7, TakeParts DEF StreamInv
<1>8. CASE ProcessByte
  <2>1. ChunkUsed'
    <3>1. pc = "process" /\ pc' # "ingest" /\ chunk' = chunk
      BY <1>8 DEF ProcessByte, EndOfFrame, ByteOfFrame
    <3>. QED
      BY <1>1, <3>1 DEF ChunkUsed
  <2>2. CASE EndOfFrame
    BY <1>1, <1>2, <1>8, <2>1, <2>2, DelimiterParts DEF StreamInv
  <2>3. CASE ByteOfFrame
    <3>1. dropped' = dropped
      BY <1>8 DEF ProcessByte
    <3>. QED
      BY <1>1, <1>2, <1>8, <2>1, <2>3, <3>1, PlainParts DEF StreamInv
  <2>. QED
    BY <1>8, <2>2, <2>3 DEF ProcessByte
<1>. QED
  BY <1>4, <1>5, <1>6, <1>7, <1>8 DEF Next, MainLoop

LEMMA StreamInit ==
  ASSUME Init
  PROVE  StreamInv
<1>1. OrderInv
  BY OrderInit
<1>2. /\ arrived \in 0 .. FrameLength /\ dropped = 1 .. arrived
      /\ pc = "drain" /\ head = 0 /\ tail = 0 /\ truncated = FALSE
  BY Zenon DEF Init
<1>3. chunk = <<>> /\ ring = <<>> /\ candidate = <<>> /\ delivered = <<>>
  BY Zenon DEF Init
<1>4. BytesIn(chunk) = {} /\ BytesIn(ring) = {} /\ BytesIn(candidate) = {} /\ BytesIn(delivered) = {}
  BY Zenon, <1>3, NoBytes
<1>5. Pending = {}
  <2>1. tail \in SlotIds
    BY <1>1 DEF OrderInv, TypeInv, TypeOK
  <2>2. InHand = {}
    BY <1>2, <2>1, NothingWaits
  <2>3. Queued = {}
    BY Zenon, <2>2 DEF Queued
  <2>. QED
    BY Zenon, <1>4, <2>3 DEF Pending
<1>6. arrived \in Nat /\ FrameLength \in Nat \ {0} /\ arrived <= FrameLength
  BY <1>2, ReceiveAssumption
<1>7. \A g \in 1 .. Frames : /\ EndOf(g - 1) \in Nat /\ EndOf(g) \in Nat
                             /\ EndOf(g) > arrived
                             /\ g # 1 => EndOf(g - 1) > arrived
                             /\ g = 1 => EndOf(g - 1) = 0 /\ EndOf(g) = FrameLength + 1
  <2>. SUFFICES ASSUME NEW g \in 1 .. Frames
                PROVE  /\ EndOf(g - 1) \in Nat /\ EndOf(g) \in Nat
                       /\ EndOf(g) > arrived
                       /\ g # 1 => EndOf(g - 1) > arrived
                       /\ g = 1 => EndOf(g - 1) = 0 /\ EndOf(g) = FrameLength + 1
    OBVIOUS
  <2>1. /\ g \in Nat /\ g - 1 \in Nat /\ EndOf(g - 1) \in Nat /\ EndOf(g) \in Nat
        /\ EndOf(g) = EndOf(g - 1) + FrameLength + 1
    BY EndsOf
  <2>2. EndOf(0) = 0
    BY Ends
  <2>3. g # 1 => EndOf(0) + FrameLength + 1 <= EndOf(g - 1)
    <3>1. g # 1 => 0 < g - 1
      BY <2>1
    <3>. QED
      BY <2>1, <3>1, Ends
  <2>4. g = 1 => EndOf(g - 1) = EndOf(0)
    OBVIOUS
  <2>. QED
    BY <1>6, <2>1, <2>2, <2>3, <2>4
<1>8. Accounted /\ Settled
  BY <1>2, <1>7 DEF Accounted, Settled
<1>9. Current
  <2>. SUFFICES ASSUME NEW g \in 1 .. Frames, Open(g)
                PROVE  ~truncated /\ Prefix(g)
    BY DEF Current
  <2>1. g = 1 /\ EndOf(g - 1) = 0 /\ EndOf(g) = FrameLength + 1
    BY <1>6, <1>7 DEF Open
  <2>2. arrived = 0
    <3>. SUFFICES ASSUME arrived # 0 PROVE FALSE
      OBVIOUS
    <3>1. 1 \in dropped /\ 1 \in EndOf(g - 1) .. EndOf(g)
      BY <1>2, <1>6, <2>1
    <3>2. g \in HurtFrames
      BY <3>1 DEF HurtFrames
    <3>. QED
      BY <3>2 DEF Open
  <2>3. Len(candidate) = 0
    BY <1>3
  <2>4. \A c \in EndOf(g - 1) + 0 + 1 .. EndOf(g) : ~(c <= arrived)
    BY <1>6, <2>1, <2>2
  <2>. QED
    BY <1>2, <1>6, <2>3, <2>4 DEF Prefix
<1>10. Ahead
  <2>1. Rising(delivered)
    BY Zenon, <1>3, Short
  <2>. QED
    BY Zenon, <1>4, <2>1 DEF Ahead
<1>11. ChunkUsed
  BY Zenon, <1>3 DEF ChunkUsed
<1>. QED
  BY <1>1, <1>8, <1>9, <1>10, <1>11 DEF StreamInv, StreamParts

(* The number delivered last. *)
LEMMA LatestIs ==
  ASSUME delivered \in Seq(1 .. Frames), Rising(delivered)
  PROVE  /\ \/ Stream!Latest = 0 /\ BytesIn(delivered) = {}
            \/ Stream!Latest \in BytesIn(delivered)
         /\ \A d \in BytesIn(delivered) : d <= Stream!Latest
<1>. DEFINE Sent == 1 .. Frames
<1>1. delivered \in Seq(Sent) /\ Sent \subseteq Nat
  BY ReceiveAssumption
<1>. HIDE DEF Sent
<1>2. CASE delivered = <<>>
  <2>1. Stream!Latest = 0
    BY Zenon, <1>2 DEF Stream!Latest
  <2>2. BytesIn(delivered) = {}
    BY Zenon, <1>2, NoBytes
  <2>. QED
    BY <2>1, <2>2
<1>3. CASE delivered # <<>>
  <2>. DEFINE last == Len(delivered)
  <2>1. /\ last \in DOMAIN delivered /\ last \in Nat
        /\ \A k \in DOMAIN delivered : k \in Nat /\ k <= last /\ delivered[k] \in Nat
    <3>1. DOMAIN delivered = 1 .. last /\ last \in Nat
      BY <1>1
    <3>2. last # 0
      BY <1>1, <1>3
    <3>3. \A k \in DOMAIN delivered : delivered[k] \in Sent
      BY <1>1
    <3>. HIDE DEF last
    <3>4. \A k \in DOMAIN delivered : k \in Nat /\ k <= last
      BY <3>1
    <3>5. last \in DOMAIN delivered
      BY <3>1, <3>2
    <3>. QED
      BY Zenon, <1>1, <3>1, <3>3, <3>4, <3>5
  <2>2. Stream!Latest = delivered[last]
    BY <1>3 DEF Stream!Latest
  <2>. HIDE DEF last
  <2>3. \A k \in DOMAIN delivered : delivered[k] <= delivered[last]
    BY <2>1 DEF Rising
  <2>. QED
    BY <2>1, <2>2, <2>3 DEF BytesIn
<1>. QED
  BY <1>2, <1>3

(* The receive path implements FrameStream: frames are dispatched in order, *)
(* once, and only a frame that was hurt is passed over, for every size of   *)
(* its buffers and whatever is lost on the way.                             *)
THEOREM DeliversFrames == Spec => DeliversInOrder
<1>1. Init => StreamInv
  BY StreamInit
<1>2. StreamInv /\ [Next]_vars => StreamInv'
  BY StreamStep
<1>3. Init => Stream!Init
  <2>. SUFFICES ASSUME Init PROVE Stream!Init
    OBVIOUS
  <2>1. delivered = <<>>
    BY Zenon DEF Init
  <2>2. HurtFrames \subseteq 1 .. Frames
    BY DEF HurtFrames
  <2>. QED
    BY Zenon, <2>1, <2>2 DEF Stream!Init
<1>4. StreamInv /\ [Next]_vars => [Stream!Next]_<<delivered, HurtFrames>>
  <2>. SUFFICES ASSUME StreamInv, [Next]_vars
                PROVE  [Stream!Next]_<<delivered, HurtFrames>>
    OBVIOUS
  <2>1. dropped \subseteq dropped' /\ HurtFrames' \subseteq 1 .. Frames
    BY StreamStep DEF HurtFrames
  <2>2. HurtFrames \subseteq HurtFrames'
    BY <2>1, HurtGrows
  <2>3. CASE delivered' = delivered
    BY <2>1, <2>2, <2>3 DEF Stream!Next, Stream!Hurt
  <2>4. ASSUME dropped' = dropped, NEW f \in 1 .. Frames,
               delivered' = Append(delivered, f),
               \A d \in BytesIn(delivered) : d < f,
               \A g \in 1 .. f - 1 : g \in HurtFrames \/ g \in BytesIn(delivered)
        PROVE  Stream!Deliver(f)
    <3>. DEFINE latest == Stream!Latest
    <3>1. delivered \in Seq(1 .. Frames) /\ Rising(delivered) /\ f \in Nat /\ 1 <= f
      BY ReceiveAssumption DEF StreamInv, OrderInv, TypeInv, TypeOK, StreamParts, Ahead
    <3>2. /\ \/ latest = 0 /\ BytesIn(delivered) = {}
             \/ latest \in BytesIn(delivered)
          /\ \A d \in BytesIn(delivered) : d <= latest
      BY <3>1, LatestIs
    <3>3. \A d \in BytesIn(delivered) : d \in Nat
      BY <3>1, DeliveredEnds, ReceiveAssumption
    <3>. HIDE DEF latest
    <3>4. latest \in Nat /\ latest < f
      BY <2>4, <3>1, <3>2, <3>3
    <3>5. ASSUME NEW g \in latest + 1 .. f - 1 PROVE g \in HurtFrames
      <4>1. g \in 1 .. f - 1 /\ ~(g <= latest)
        BY <3>1, <3>4
      <4>. QED
        BY <2>4, <3>2, <4>1
    <3>6. HurtFrames' = HurtFrames
      BY <2>4 DEF HurtFrames
    <3>. QED
      BY <2>4, <3>4, <3>5, <3>6 DEF Stream!Deliver, latest
  <2>. QED
    BY <2>3, <2>4, StreamStep DEF Stream!Next
<1>. QED
  BY <1>1, <1>2, <1>3, <1>4, PTL DEF Spec, DeliversInOrder, Stream!Spec

=============================================================================
