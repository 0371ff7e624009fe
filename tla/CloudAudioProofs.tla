------------------------- MODULE CloudAudioProofs -------------------------
(* Proofs about CloudAudio: every slot of the upload queue is in one place, *)
(* the frames of a connection arrive in order and once, and FIRST marks the *)
(* beginnings.                                                              *)
EXTENDS CloudAudio, TLAPS

-----------------------------------------------------------------------------
(* The inductive invariants *)

Frame == [utterance : 0 .. MaxUtterances, number : 0 .. MaxFrames]
Packet == [kind : {"frame", "last"}, of : Frame, first : BOOLEAN]
Places == {"idle", "taken", "send", "sent", "clear", "return", "look", "end", "ended"}

QueueType ==
  /\ free \in Seq(Slots) /\ Len(free) <= Depth
  /\ pending \in Seq(Slots) /\ Len(pending) <= Depth
  /\ content \in [Slots -> Frame]

RestType ==
  /\ slot \in Slots
  /\ inflight = IF pc \in {"taken", "send", "sent", "clear"} THEN {slot} ELSE {}
  /\ sessionOpen \in BOOLEAN /\ firstPending \in BOOLEAN /\ endPending \in BOOLEAN
  /\ markFirst \in BOOLEAN /\ up \in BOOLEAN /\ recording \in BOOLEAN
  /\ pc \in Places
  /\ link \in {"down", "connected", "ready"}
  /\ utterance \in 0 .. MaxUtterances /\ recorded \in 0 .. MaxFrames
  /\ ended \in 0 .. utterance /\ wiped \subseteq 1 .. utterance
  /\ recording => 0 < utterance

WireType == wire \in Seq(Packet)

Typed == QueueType /\ RestType /\ WireType

(* A slot is in a queue, once in each. *)
In(q, s) == \E i \in 1 .. Len(q) : q[i] = s
Once(q) == \A i, j \in 1 .. Len(q) : q[i] = q[j] => i = j

(* The worker has a slot in hand, or has given it back. *)
Holds == pc \in {"taken", "send", "sent", "clear", "return"}
Hand == IF Holds THEN 1 ELSE 0

(* Every slot is in one of the queues or in the worker's hand, and in one   *)
(* place only.                                                              *)
Partition ==
  /\ Len(free) + Len(pending) + Hand = Depth
  /\ Once(free) /\ Once(pending)
  /\ \A s \in Slots : In(free, s) => ~In(pending, s)
  /\ Holds => ~In(free, slot) /\ ~In(pending, slot)
  /\ \A s \in Slots : In(free, s) \/ In(pending, s) \/ (Holds /\ s = slot)

SlotsInv == "return" \notin torn => Partition

(* The frame of a slot that is not sent yet. *)
ToSend(s) == In(pending, s) \/ (pc \in {"taken", "send"} /\ s = slot)

(* The frames sent, the one in hand and those that wait were recorded in    *)
(* this order.                                                              *)
Number(s) == content[s].number
WireRises ==
  \A i, j \in 1 .. Len(wire) :
      i < j /\ IsFrame(i) /\ IsFrame(j) => wire[i].of.number < wire[j].of.number
WireBefore(s) == \A i \in 1 .. Len(wire) : IsFrame(i) => wire[i].of.number < Number(s)
PendingRises ==
  \A i, j \in 1 .. Len(pending) : i < j => Number(pending[i]) < Number(pending[j])
HandBefore ==
  pc \in {"taken", "send"} => \A s \in Slots : In(pending, s) => Number(slot) < Number(s)

Sequence ==
  /\ WireRises /\ PendingRises /\ HandBefore
  /\ \A s \in Slots : ToSend(s) => WireBefore(s) /\ Number(s) <= recorded
  /\ \A i \in 1 .. Len(wire) : IsFrame(i) => wire[i].of.number <= recorded

OrderInv == "return" \notin torn => Sequence

(* The packet that would be sent next begins a stream. *)
Begins == Len(wire) = 0 \/ ~IsFrame(Len(wire))

(* A frame that no end marker of this connection overtook. *)
Legit(f) == \A i \in 1 .. Len(wire) : ~IsFrame(i) => wire[i].of.utterance < f.utterance

(* What an end marker waits for was recorded before it. *)
EndCovers ==
  endPending => \A s \in Slots : In(pending, s) => content[s].utterance <= ended

Covers(i) ==
  /\ ~IsFrame(i)
  /\ \A s \in Slots : In(pending, s) => content[s].utterance <= wire[i].of.utterance

EndHeld ==
  /\ pc \in {"end", "ended"} => endPending
  /\ pc = "ended" => \E i \in 1 .. Len(wire) : Covers(i)

(* The flags say whether the next packet begins a stream. *)
Flags ==
  /\ \A s \in Slots : ToSend(s) /\ Legit(content[s]) => sessionOpen
  /\ pc = "send" /\ Legit(content[slot]) => markFirst = firstPending
  /\ pc = "end" => markFirst = (firstPending \/ ~sessionOpen)
  /\ pc = "sent" => sessionOpen /\ ~Begins
  /\ pc = "ended" => Begins
  /\ link # "down" /\ pc \notin {"sent", "ended"} => (Begins <=> firstPending \/ ~sessionOpen)

Marked == \A i \in 1 .. Len(wire) : wire[i].first <=> (i = 1 \/ ~IsFrame(i - 1))

RecordedBy == \A s \in Slots : content[s].utterance <= utterance

FirstInv ==
  /\ EndCovers /\ RecordedBy
  /\ Clean => EndHeld
  /\ Clean /\ NothingBehindLast => Flags /\ Marked

-----------------------------------------------------------------------------
(* The queues *)

LEMMA SlotsAre == Depth \in Nat /\ 0 < Depth /\ \A s : s \in Slots <=> s \in Nat /\ s < Depth
  BY AudioAssumption DEF Slots

(* A slot that is appended. *)
LEMMA Appended ==
  ASSUME NEW q \in Seq(Slots), NEW s \in Slots
  PROVE  /\ Append(q, s) \in Seq(Slots) /\ Len(Append(q, s)) = Len(q) + 1
         /\ \A i \in 1 .. Len(q) : Append(q, s)[i] = q[i]
         /\ Append(q, s)[Len(q) + 1] = s
         /\ \A x : In(Append(q, s), x) <=> In(q, x) \/ x = s
         /\ Once(q) /\ ~In(q, s) => Once(Append(q, s))
<1>1. Append(q, s) \in Seq(Slots) /\ Len(Append(q, s)) = Len(q) + 1 /\ Len(q) \in Nat
  OBVIOUS
<1>2. \A i \in 1 .. Len(q) : Append(q, s)[i] = q[i]
  OBVIOUS
<1>3. Append(q, s)[Len(q) + 1] = s
  OBVIOUS
<1>. DEFINE r == Append(q, s)
<1>. HIDE DEF r
<1>4. ASSUME NEW x, In(r, x) PROVE In(q, x) \/ x = s
  BY <1>1, <1>2, <1>3, <1>4 DEF In, r
<1>5. ASSUME NEW x, In(q, x) PROVE In(r, x)
  <2>1. PICK i \in 1 .. Len(q) : q[i] = x
    BY <1>5 DEF In
  <2>2. i \in 1 .. Len(r) /\ r[i] = x
    BY <1>1, <1>2, <2>1 DEF r
  <2>. QED
    BY <2>2 DEF In
<1>6. In(r, s)
  <2>1. Len(r) \in 1 .. Len(r) /\ r[Len(r)] = s
    BY <1>1, <1>3 DEF r
  <2>. QED
    BY <2>1 DEF In
<1>7. ASSUME Once(q), ~In(q, s) PROVE Once(r)
  BY <1>1, <1>2, <1>3, <1>7 DEF Once, In, r
<1>. QED
  BY <1>1, <1>2, <1>3, <1>4, <1>5, <1>6, <1>7 DEF r

(* The slot at the front and those behind it. *)
LEMMA Taken ==
  ASSUME NEW q \in Seq(Slots), q # <<>>
  PROVE  /\ Head(q) \in Slots /\ Head(q) = q[1] /\ In(q, Head(q))
         /\ Tail(q) \in Seq(Slots) /\ Len(Tail(q)) = Len(q) - 1 /\ Len(q) \in Nat \ {0}
         /\ \A i \in 1 .. Len(Tail(q)) : i + 1 \in 1 .. Len(q) /\ Tail(q)[i] = q[i + 1]
         /\ \A x : In(q, x) <=> In(Tail(q), x) \/ x = Head(q)
         /\ Once(q) => Once(Tail(q)) /\ ~In(Tail(q), Head(q))
<1>1. /\ Len(q) \in Nat \ {0} /\ Head(q) = q[1] /\ Head(q) \in Slots
      /\ Tail(q) \in Seq(Slots) /\ Len(Tail(q)) = Len(q) - 1
  OBVIOUS
<1>2. \A i \in 1 .. Len(Tail(q)) : i + 1 \in 1 .. Len(q) /\ Tail(q)[i] = q[i + 1]
  BY <1>1
<1>. DEFINE r == Tail(q)
<1>. HIDE DEF r
<1>3. ASSUME NEW x, In(q, x) PROVE In(r, x) \/ x = Head(q)
  <2>1. PICK i \in 1 .. Len(q) : q[i] = x
    BY <1>3 DEF In
  <2>2. CASE i = 1
    BY <1>1, <2>1, <2>2
  <2>3. CASE i # 1
    <3>1. i - 1 \in 1 .. Len(r) /\ (i - 1) + 1 = i
      BY <1>1, <2>1, <2>3 DEF r
    <3>2. r[i - 1] = x
      BY <1>2, <2>1, <3>1 DEF r
    <3>. QED
      BY <3>1, <3>2 DEF In
  <2>. QED
    BY <2>2, <2>3
<1>4. ASSUME NEW x, In(r, x) PROVE In(q, x)
  BY <1>2, <1>4 DEF In, r
<1>5. In(q, Head(q))
  BY <1>1 DEF In
<1>6. ASSUME Once(q) PROVE Once(r)
  <2>1. ASSUME NEW i \in 1 .. Len(r), NEW j \in 1 .. Len(r), r[i] = r[j] PROVE i = j
    <3>1. i + 1 = j + 1
      BY <1>2, <1>6, <2>1 DEF Once, r
    <3>. QED
      BY <3>1, <1>1 DEF r
  <2>. QED
    BY <2>1 DEF Once
<1>7. ASSUME Once(q), In(r, Head(q)) PROVE FALSE
  <2>1. PICK i \in 1 .. Len(r) : r[i] = q[1]
    BY <1>1, <1>7 DEF In
  <2>2. i + 1 = 1
    BY <1>1, <1>2, <1>7, <2>1 DEF Once, r
  <2>. QED
    BY <1>1, <2>1, <2>2 DEF r
<1>. QED
  BY <1>1, <1>2, <1>3, <1>4, <1>5, <1>6, <1>7 DEF r

LEMMA Nothing ==
  <<>> \in Seq(Slots) /\ Len(<<>>) = 0 /\ Once(<<>>) /\ \A x : ~In(<<>>, x)
  BY DEF Once, In

LEMMA IsSlotSeq ==
  ASSUME NEW n \in Nat, NEW f \in [1 .. n -> Slots]
  PROVE  f \in Seq(Slots) /\ Len(f) = n
  OBVIOUS

LEMMA AllSlotsAre ==
  /\ AllSlots \in Seq(Slots) /\ Len(AllSlots) = Depth /\ Once(AllSlots)
  /\ \A s \in Slots : In(AllSlots, s)
<1>1. AllSlots \in [1 .. Depth -> Slots] /\ \A i \in 1 .. Depth : AllSlots[i] = i - 1
  BY SlotsAre DEF AllSlots
<1>2. AllSlots \in Seq(Slots) /\ Len(AllSlots) = Depth
  BY <1>1, SlotsAre, IsSlotSeq
<1>3. Once(AllSlots)
  BY <1>1, <1>2, SlotsAre DEF Once
<1>4. ASSUME NEW s \in Slots PROVE In(AllSlots, s)
  <2>1. s + 1 \in 1 .. Depth /\ AllSlots[s + 1] = s
    BY <1>1, SlotsAre
  <2>. QED
    BY <1>2, <2>1 DEF In
<1>. QED
  BY <1>2, <1>3, <1>4

LEMMA AllButAre ==
  ASSUME NEW s \in Slots
  PROVE  /\ AllBut(s) \in Seq(Slots) /\ Len(AllBut(s)) = Depth - 1 /\ Once(AllBut(s))
         /\ \A x \in Slots : In(AllBut(s), x) <=> x # s
<1>. DEFINE q == AllBut(s)
<1>1. /\ q \in [1 .. Depth - 1 -> Slots]
      /\ \A i \in 1 .. Depth - 1 : q[i] = IF i - 1 < s THEN i - 1 ELSE i
  BY SlotsAre DEF AllBut
<1>. HIDE DEF q
<1>2. q \in Seq(Slots) /\ Len(q) = Depth - 1
  BY <1>1, SlotsAre, IsSlotSeq
<1>3. Once(q)
  <2>1. ASSUME NEW i \in 1 .. Depth - 1, NEW j \in 1 .. Depth - 1, q[i] = q[j] PROVE i = j
    <3>1. i \in Nat /\ j \in Nat /\ s \in Nat
      BY SlotsAre
    <3>2. /\ i - 1 < s => q[i] = i - 1
          /\ ~(i - 1 < s) => q[i] = i
          /\ j - 1 < s => q[j] = j - 1
          /\ ~(j - 1 < s) => q[j] = j
      BY <1>1
    <3>3. CASE i - 1 < s /\ j - 1 < s
      BY <2>1, <3>1, <3>2, <3>3
    <3>4. CASE i - 1 < s /\ ~(j - 1 < s)
      BY <2>1, <3>1, <3>2, <3>4
    <3>5. CASE ~(i - 1 < s) /\ j - 1 < s
      BY <2>1, <3>1, <3>2, <3>5
    <3>6. CASE ~(i - 1 < s) /\ ~(j - 1 < s)
      BY <2>1, <3>1, <3>2, <3>6
    <3>. QED
      BY <3>3, <3>4, <3>5, <3>6
  <2>. QED
    BY <1>2, <2>1 DEF Once
<1>4. ~In(q, s)
  BY <1>1, <1>2, SlotsAre DEF In
<1>5. ASSUME NEW x \in Slots, x # s PROVE In(q, x)
  <2>1. CASE x < s
    <3>1. x + 1 \in 1 .. Depth - 1 /\ q[x + 1] = x
      BY <1>1, <2>1, SlotsAre
    <3>. QED
      BY <1>2, <3>1 DEF In
  <2>2. CASE s < x
    <3>1. x \in 1 .. Depth - 1 /\ q[x] = x
      BY <1>1, <2>2, SlotsAre
    <3>. QED
      BY <1>2, <3>1 DEF In
  <2>. QED
    BY <1>5, <2>1, <2>2, SlotsAre
<1>. QED
  BY <1>2, <1>3, <1>4, <1>5 DEF q

-----------------------------------------------------------------------------
(* Types *)

LEMMA PutFits ==
  ASSUME NEW q \in Seq(Slots), NEW s \in Slots, Len(q) <= Depth
  PROVE  Put(q, s) \in Seq(Slots) /\ Len(Put(q, s)) <= Depth
<1>1. Append(q, s) \in Seq(Slots) /\ Len(Append(q, s)) = Len(q) + 1 /\ Len(q) \in Nat
  BY Appended
<1>2. CASE Len(q) < Depth
  BY <1>1, <1>2, SlotsAre DEF Put
<1>3. CASE ~(Len(q) < Depth)
  BY <1>3 DEF Put
<1>. QED
  BY <1>2, <1>3

LEMMA EnqueueTypes ==
  ASSUME NEW s \in Slots, NEW others \in Seq(Slots), NEW rest \in Seq(Slots),
         Len(others) <= Depth, Len(rest) <= Depth, Typed, recorded < MaxFrames,
         Enqueue(s, others, rest)
  PROVE  QueueType' /\ {sessionOpen', firstPending', endPending'} \subseteq BOOLEAN
<1>1. [utterance |-> utterance, number |-> recorded + 1] \in Frame
  BY AudioAssumption DEF Typed, RestType, Frame
<1>2. content' \in [Slots -> Frame]
  <2>. DEFINE f == [utterance |-> utterance, number |-> recorded + 1]
  <2>1. content' = [content EXCEPT ![s] = f] /\ content \in [Slots -> Frame] /\ f \in Frame
    BY <1>1 DEF Enqueue, Typed, QueueType
  <2>. HIDE DEF f
  <2>. QED
    BY Zenon, <2>1
<1>3. pending' \in Seq(Slots) /\ Len(pending') <= Depth
  <2>1. CASE Len(rest) < Depth
    <3>1. pending' = Append(rest, s)
      BY <2>1 DEF Enqueue, Enqueued
    <3>. QED
      BY <2>1, <3>1, Appended, SlotsAre
  <2>2. CASE ~(Len(rest) < Depth)
    BY <2>2 DEF Enqueue
  <2>. QED
    BY <2>1, <2>2
<1>4. free' \in Seq(Slots) /\ Len(free') <= Depth
  <2>1. free' = others \/ free' = Put(others, s)
    BY DEF Enqueue
  <2>2. Put(others, s) \in Seq(Slots) /\ Len(Put(others, s)) <= Depth
    BY PutFits
  <2>. QED
    BY <2>1, <2>2
<1>5. {sessionOpen', firstPending', endPending'} \subseteq BOOLEAN
  BY DEF Enqueue, Typed, RestType
<1>. QED
  BY <1>2, <1>3, <1>4, <1>5 DEF QueueType

LEMMA ResetTypes ==
  ASSUME Typed, Reset
  PROVE  /\ QueueType' /\ inflight' = inflight /\ pending' = <<>>
         /\ sessionOpen' = FALSE /\ firstPending' = FALSE /\ endPending' = FALSE
<1>1. free' \in Seq(Slots) /\ Len(free') <= Depth
  <2>1. CASE free' = AllSlots
    BY <2>1, AllSlotsAre, SlotsAre
  <2>2. CASE \E s \in inflight : free' = AllBut(s)
    <3>1. PICK s \in inflight : free' = AllBut(s)
      BY <2>2
    <3>2. s \in Slots
      BY <3>1 DEF Typed, RestType
    <3>. QED
      BY <3>1, <3>2, AllButAre, SlotsAre
  <2>. QED
    BY <2>1, <2>2 DEF Reset
<1>2. pending' = <<>> /\ content' = content
  BY DEF Reset
<1>3. pending' \in Seq(Slots) /\ Len(pending') <= Depth
  BY <1>2, Nothing, SlotsAre
<1>. QED
  BY <1>1, <1>2, <1>3 DEF Reset, QueueType, Typed

LEMMA InitTyped == Init => Typed
<1>. SUFFICES ASSUME Init PROVE Typed
  OBVIOUS
<1>1. free \in Seq(Slots) /\ Len(free) <= Depth
  BY AllSlotsAre, SlotsAre DEF Init
<1>2. pending \in Seq(Slots) /\ Len(pending) <= Depth
  BY Nothing, SlotsAre DEF Init
<1>3. content \in [Slots -> Frame]
  <2>1. [utterance |-> 0, number |-> 0] \in Frame
    BY AudioAssumption DEF Frame
  <2>. QED
    BY Zenon, <2>1 DEF Init
<1>4. RestType
  <2>1. pc = "idle" /\ inflight = {} /\ slot = 0 /\ markFirst = FALSE
    BY Zenon DEF Init
  <2>2. sessionOpen = FALSE /\ firstPending = FALSE /\ endPending = FALSE /\ up = FALSE
    BY Zenon DEF Init
  <2>3. recording = FALSE /\ link = "down" /\ utterance = 0 /\ recorded = 0
    BY Zenon DEF Init
  <2>5. ended = 0 /\ wiped = {}
    BY Zenon DEF Init
  <2>4. 0 \in 0 .. MaxUtterances /\ 0 \in 0 .. MaxFrames /\ 0 \in Slots
    BY AudioAssumption, SlotsAre
  <2>6. ended \in 0 .. utterance /\ wiped \subseteq 1 .. utterance
    BY <2>3, <2>5
  <2>. QED
    BY <2>1, <2>2, <2>3, <2>4, <2>6 DEF RestType, Places
<1>5. wire \in Seq(Packet)
  <2>1. wire = <<>>
    BY Zenon DEF Init
  <2>. QED
    BY <2>1
<1>. QED
  BY <1>1, <1>2, <1>3, <1>4, <1>5 DEF Typed, QueueType, WireType

(* What is said over the link. *)
LEMMA FrameSent ==
  ASSUME Typed, SendFrame
  PROVE  \/ wire' = wire /\ pc' = "clear"
         \/ /\ wire' = Append(wire, [kind |-> "frame", of |-> content[slot], first |-> markFirst])
            /\ [kind |-> "frame", of |-> content[slot], first |-> markFirst] \in Packet
            /\ pc' = "sent" /\ link = "ready"
<1>1. content[slot] \in Frame /\ markFirst \in BOOLEAN
  BY DEF Typed, QueueType, RestType
<1>2. [kind |-> "frame", of |-> content[slot], first |-> markFirst] \in Packet
  BY <1>1 DEF Packet
<1>. QED
  BY <1>2 DEF SendFrame, Ready

LEMMA EndSent ==
  ASSUME Typed, SendEnd
  PROVE  \/ wire' = wire /\ pc' = "idle"
         \/ /\ wire' = Append(wire, [kind |-> "last", of |-> [utterance |-> ended, number |-> 0],
                                     first |-> markFirst])
            /\ [kind |-> "last", of |-> [utterance |-> ended, number |-> 0], first |-> markFirst]
                 \in Packet
            /\ pc' = "ended" /\ link = "ready"
<1>1. [utterance |-> ended, number |-> 0] \in Frame /\ markFirst \in BOOLEAN
  BY AudioAssumption DEF Typed, RestType, Frame
<1>2. [kind |-> "last", of |-> [utterance |-> ended, number |-> 0], first |-> markFirst] \in Packet
  BY <1>1 DEF Packet
<1>. QED
  BY <1>2 DEF SendEnd, Ready

LEMMA TypedStep == Typed /\ [Next]_vars => Typed'
<1>. SUFFICES ASSUME Typed, [Next]_vars PROVE Typed'
  OBVIOUS
<1>. USE DEF Typed
<1>1. CASE StartRecording
  BY <1>1, AudioAssumption
          DEF StartRecording, QueueType, RestType, WireType, queueVars, markVars, workerVars,
              linkVars, endVars
<1>2. CASE SendAudio
  <2>1. /\ WireType'
        /\ UNCHANGED <<inflight, pc, slot, markFirst, link, up, recording, utterance, ended, wiped>>
    BY <1>2 DEF SendAudio, WireType, workerVars, linkVars, endVars
  <2>2. recorded < MaxFrames /\ recorded' \in 0 .. MaxFrames
    BY <1>2, AudioAssumption DEF SendAudio, RestType
  <2>3. QueueType' /\ {sessionOpen', firstPending', endPending'} \subseteq BOOLEAN
    <3>1. CASE UNCHANGED <<free, pending, content, markVars>>
      BY <3>1 DEF QueueType, RestType, markVars
    <3>2. CASE free # <<>> /\ Enqueue(Head(free), Tail(free), pending)
      <4>1. /\ Head(free) \in Slots /\ Tail(free) \in Seq(Slots) /\ Len(Tail(free)) <= Depth
            /\ pending \in Seq(Slots) /\ Len(pending) <= Depth
        BY <3>2, Taken, SlotsAre DEF QueueType
      <4>. QED
        BY <2>2, <3>2, <4>1, EnqueueTypes
    <3>3. CASE pending # <<>> /\ free = <<>> /\ Enqueue(Head(pending), free, Tail(pending))
      <4>1. /\ Head(pending) \in Slots /\ Tail(pending) \in Seq(Slots)
            /\ Len(Tail(pending)) <= Depth /\ free \in Seq(Slots) /\ Len(free) <= Depth
        BY <3>3, Taken, SlotsAre DEF QueueType
      <4>. QED
        BY <2>2, <3>3, <4>1, EnqueueTypes
    <3>. QED
      BY <1>2, <3>1, <3>2, <3>3 DEF SendAudio, Refused
  <2>. QED
    BY <2>1, <2>2, <2>3 DEF RestType
<1>3. CASE SendAudioEnd
  <2>1. ended' \in 0 .. utterance /\ wiped' \subseteq 1 .. utterance
    <3>1. utterance \in 0 .. utterance /\ utterance \in 1 .. utterance
      BY <1>3, AudioAssumption DEF SendAudioEnd, RestType
    <3>2. ended \in 0 .. utterance /\ wiped \subseteq 1 .. utterance
      BY DEF RestType
    <3>. QED
      BY <1>3, <3>1, <3>2 DEF SendAudioEnd
  <2>. QED
    BY <1>3, <2>1
       DEF SendAudioEnd, QueueType, RestType, WireType, queueVars, workerVars, linkVars, Ready
<1>4. CASE TakeSlot
  <2>1. /\ slot' = Head(pending) /\ slot' \in Slots /\ inflight' = {slot'} /\ pc' = "taken"
        /\ pending' \in Seq(Slots) /\ Len(pending') <= Depth
    BY <1>4, Taken, SlotsAre DEF TakeSlot, QueueType, At
  <2>2. UNCHANGED <<free, content, markFirst, markVars, linkVars, voiceVars, wire, endVars>>
    BY <1>4 DEF TakeSlot
  <2>. QED
    BY <2>1, <2>2 DEF QueueType, RestType, WireType, markVars, linkVars, voiceVars,
                      endVars, Places
<1>5. CASE ReadFirst \/ MarkSent \/ FindNothing \/ ReadEnd \/ MarkEnded
  <2>1. QueueType' /\ WireType' /\ UNCHANGED <<inflight, slot, linkVars, voiceVars, endVars>>
    BY <1>5 DEF ReadFirst, MarkSent, FindNothing, ReadEnd, MarkEnded, queueVars, QueueType, WireType
  <2>2. /\ pc' \in Places
        /\ pc \in {"taken", "send", "sent", "clear"} <=> pc' \in {"taken", "send", "sent", "clear"}
    BY <1>5 DEF ReadFirst, MarkSent, FindNothing, ReadEnd, MarkEnded, At, Places
  <2>3. {sessionOpen', firstPending', endPending', markFirst'} \subseteq BOOLEAN
    BY <1>5 DEF ReadFirst, MarkSent, FindNothing, ReadEnd, MarkEnded, RestType, markVars
  <2>. QED
    BY <2>1, <2>2, <2>3 DEF RestType, linkVars, voiceVars, endVars
<1>6. CASE SendFrame
  <2>1. /\ UNCHANGED <<queueVars, markVars, slot, markFirst, linkVars, voiceVars, endVars>>
        /\ pc = "send"
    BY <1>6 DEF SendFrame
  <2>2. WireType' /\ pc' \in {"sent", "clear"}
    BY <1>6, FrameSent DEF WireType
  <2>. QED
    BY <2>1, <2>2 DEF QueueType, RestType, queueVars, markVars, linkVars, voiceVars, endVars,
                      Places
<1>7. CASE ClearInflight
  BY <1>7 DEF ClearInflight, QueueType, RestType, WireType, At, markVars, linkVars, voiceVars,
              endVars, Places
<1>8. CASE ReturnSlot
  <2>1. free' \in Seq(Slots) /\ Len(free') <= Depth
    BY <1>8, PutFits DEF ReturnSlot, QueueType, RestType
  <2>2. /\ UNCHANGED <<pending, content, inflight, markVars, slot, markFirst, linkVars, voiceVars,
                       wire, endVars>>
        /\ pc = "return" /\ pc' = "idle"
    BY <1>8 DEF ReturnSlot, At
  <2>. QED
    BY <2>1, <2>2 DEF QueueType, RestType, WireType, markVars, linkVars, voiceVars,
                      endVars, Places
<1>9. CASE SendEnd
  <2>1. /\ UNCHANGED <<queueVars, markVars, slot, markFirst, linkVars, voiceVars, endVars>>
        /\ pc = "end"
    BY <1>9 DEF SendEnd
  <2>2. WireType' /\ pc' \in {"ended", "idle"}
    BY <1>9, EndSent DEF WireType
  <2>. QED
    BY <2>1, <2>2 DEF QueueType, RestType, queueVars, markVars, linkVars, voiceVars,
                      endVars, Places
<1>10. CASE Connected \/ Disconnected
  <2>1. Reset
    BY <1>10 DEF Connected, Disconnected
  <2>2. /\ UNCHANGED <<workerVars, voiceVars, endVars>> /\ wire' \in {wire, <<>>}
        /\ link' \in {"down", "connected"} /\ up' \in BOOLEAN
    BY <1>10 DEF Connected, Disconnected, RestType
  <2>3. WireType'
    <3>1. <<>> \in Seq(Packet)
      OBVIOUS
    <3>. QED
      BY <2>2, <3>1 DEF WireType
  <2>. QED
    BY <2>1, <2>2, <2>3, ResetTypes DEF RestType, workerVars, voiceVars, endVars
<1>11. CASE HelloAcked \/ TransportLost
  <2>1. /\ UNCHANGED <<queueVars, markVars, workerVars, voiceVars, wire, endVars>>
        /\ link' \in {link, "ready"} /\ up' \in {up, FALSE}
    BY <1>11 DEF HelloAcked, TransportLost
  <2>. QED
    BY <2>1 DEF QueueType, RestType, WireType, queueVars, markVars, workerVars, voiceVars, endVars
<1>12. CASE UNCHANGED vars
  BY <1>12 DEF vars, QueueType, RestType, WireType, queueVars, markVars, workerVars, linkVars,
               voiceVars, endVars
<1>. QED
  BY <1>1, <1>2, <1>3, <1>4, <1>5, <1>6, <1>7, <1>8, <1>9, <1>10, <1>11, <1>12 DEF Next, Worker

(* Every variable of the upload keeps its type and neither queue more slots *)
(* than there are (ws_audio_queue_init).                                    *)
THEOREM AudioTypeCorrect == Spec => []TypeOK
<1>1. Typed => TypeOK
  <2>. SUFFICES ASSUME Typed PROVE TypeOK
    OBVIOUS
  <2>1. \A i \in 1 .. Len(wire) : wire[i].kind \in {"frame", "last"} /\ wire[i].first \in BOOLEAN
    <3>1. \A i \in 1 .. Len(wire) : wire[i] \in Packet
      BY DEF Typed, WireType
    <3>. QED
      BY <3>1 DEF Packet
  <2>. QED
    BY <2>1 DEF Typed, TypeOK, QueueType, RestType, Places
<1>. QED
  BY <1>1, InitTyped, TypedStep, PTL DEF Spec

-----------------------------------------------------------------------------
(* Slots *)

LEMMA TornGrows == [Next]_vars => torn \subseteq torn'
<1>. SUFFICES ASSUME [Next]_vars PROVE torn \subseteq torn'
  OBVIOUS
<1>1. CASE StartRecording \/ SendAudio \/ SendAudioEnd
  BY <1>1 DEF StartRecording, SendAudio, SendAudioEnd, linkVars
<1>2. CASE Worker
  BY <1>2 DEF Worker, TakeSlot, ReadFirst, SendFrame, MarkSent, ClearInflight, ReturnSlot,
              FindNothing, ReadEnd, SendEnd, MarkEnded, linkVars
<1>3. CASE Connected \/ Disconnected
  BY <1>3 DEF Connected, Disconnected, Reset
<1>4. CASE HelloAcked \/ TransportLost \/ UNCHANGED vars
  BY <1>4 DEF HelloAcked, TransportLost, vars, linkVars
<1>. QED
  BY <1>1, <1>2, <1>3, <1>4 DEF Next

(* A frame that is taken finds room for its slot, a new one or the oldest   *)
(* pending one.                                                             *)
LEMMA Accepted ==
  ASSUME Typed, Partition, SendAudio
  PROVE  \/ /\ Refused /\ UNCHANGED <<free, pending, content, markVars>>
         \/ /\ ~Refused /\ free # <<>> /\ pending' = Append(pending, Head(free))
            /\ free' = Tail(free)
            /\ content' = [content EXCEPT ![Head(free)] =
                             [utterance |-> utterance, number |-> recorded + 1]]
            /\ sessionOpen' = TRUE /\ firstPending' = (firstPending \/ ~sessionOpen)
            /\ endPending' = endPending
         \/ /\ ~Refused /\ pending # <<>> /\ free' = free
            /\ pending' = Append(Tail(pending), Head(pending))
            /\ content' = [content EXCEPT ![Head(pending)] =
                             [utterance |-> utterance, number |-> recorded + 1]]
            /\ sessionOpen' = TRUE /\ firstPending' = (firstPending \/ ~sessionOpen)
            /\ endPending' = endPending
<1>1. Len(free) \in Nat /\ Len(pending) \in Nat /\ Hand \in Nat /\ Len(pending) <= Depth
  BY DEF Typed, QueueType, Hand
<1>0. Len(free) + Len(pending) + Hand = Depth /\ Depth \in Nat
  BY AudioAssumption DEF Partition
<1>2. CASE Refused /\ UNCHANGED <<free, pending, content, markVars>>
  BY <1>2
<1>3. CASE ~Refused /\ free # <<>> /\ Enqueue(Head(free), Tail(free), pending)
  <2>1. 1 <= Len(free)
    BY <1>3, Taken DEF Typed, QueueType
  <2>2. Len(pending) < Depth
    BY <1>0, <1>1, <2>1
  <2>. QED
    BY <1>3, <2>2 DEF Enqueue, Enqueued
<1>4. CASE ~Refused /\ free = <<>> /\ Enqueue(Head(pending), free, Tail(pending))
  <2>1. pending # <<>>
    BY <1>4 DEF Refused
  <2>2. 1 <= Len(pending) /\ Len(Tail(pending)) = Len(pending) - 1
    BY <2>1, Taken DEF Typed, QueueType
  <2>3. Len(Tail(pending)) < Depth
    <3>. DEFINE n == Len(pending)
                m == Len(Tail(pending))
    <3>1. n \in Nat /\ n <= Depth /\ m = n - 1 /\ Depth \in Nat
      BY <1>0, <1>1, <2>2
    <3>. HIDE DEF n, m
    <3>2. m < Depth
      BY <3>1
    <3>. QED
      BY Zenon, <3>2 DEF m
  <2>4. /\ pending' = Append(Tail(pending), Head(pending)) /\ free' = free
        /\ content' = [content EXCEPT ![Head(pending)] =
                         [utterance |-> utterance, number |-> recorded + 1]]
        /\ sessionOpen' = TRUE /\ firstPending' = (firstPending \/ ~sessionOpen)
        /\ endPending' = endPending
    BY Zenon, <1>4, <2>3 DEF Enqueue, Enqueued
  <2>. QED
    BY Zenon, <1>4, <2>1, <2>4
<1>. QED
  BY <1>2, <1>3, <1>4 DEF SendAudio

LEMMA SlotsStep == Typed /\ SlotsInv /\ [Next]_vars => SlotsInv'
<1>. SUFFICES ASSUME Typed, SlotsInv, [Next]_vars, "return" \notin torn' PROVE Partition'
  BY DEF SlotsInv
<1>1. Partition
  BY TornGrows DEF SlotsInv
<1>2. /\ free \in Seq(Slots) /\ pending \in Seq(Slots) /\ slot \in Slots
      /\ Len(free) \in Nat /\ Len(pending) \in Nat
  BY DEF Typed, QueueType, RestType
<1>3. CASE SendAudio
  <2>1. UNCHANGED <<pc, slot>>
    BY <1>3 DEF SendAudio, workerVars
  <2>2. CASE UNCHANGED <<free, pending>>
    BY <1>1, <2>1, <2>2 DEF Partition, Hand, Holds
  <2>3. CASE free # <<>> /\ pending' = Append(pending, Head(free)) /\ free' = Tail(free)
    <3>. DEFINE s == Head(free)
    <3>1. /\ s \in Slots /\ In(free, s) /\ Len(Tail(free)) = Len(free) - 1
          /\ \A x : In(free, x) <=> In(Tail(free), x) \/ x = s
          /\ Once(Tail(free)) /\ ~In(Tail(free), s)
      BY <1>1, <1>2, <2>3, Taken DEF Partition
    <3>2. ~In(pending, s) /\ (Holds => s # slot)
      BY <1>1, <3>1 DEF Partition
    <3>. HIDE DEF s
    <3>3. /\ Len(Append(pending, s)) = Len(pending) + 1
          /\ \A x : In(Append(pending, s), x) <=> In(pending, x) \/ x = s
          /\ Once(Append(pending, s))
      BY <1>1, <1>2, <3>1, <3>2, Appended DEF Partition
    <3>4. pending' = Append(pending, s) /\ free' = Tail(free)
      BY <2>3 DEF s
    <3>5. Len(free') + Len(pending') + Hand' = Depth
      <4>1. Hand' = Hand /\ Hand \in Nat /\ Len(free) + Len(pending) + Hand = Depth
        BY <1>1, <2>1 DEF Partition, Hand, Holds
      <4>2. Len(free') = Len(free) - 1 /\ Len(pending') = Len(pending) + 1
        BY <3>1, <3>3, <3>4
      <4>. QED
        BY <1>2, <4>1, <4>2
    <3>6. /\ Once(free') /\ Once(pending')
          /\ \A x \in Slots : In(free', x) => ~In(pending', x)
      BY <1>1, <3>1, <3>3, <3>4 DEF Partition
    <3>7. Holds' => ~In(free', slot') /\ ~In(pending', slot')
      BY <1>1, <2>1, <3>1, <3>2, <3>3, <3>4 DEF Partition, Holds
    <3>8. \A x \in Slots : In(free', x) \/ In(pending', x) \/ (Holds' /\ x = slot')
      BY <1>1, <2>1, <3>1, <3>3, <3>4 DEF Partition, Holds
    <3>. QED
      BY <3>5, <3>6, <3>7, <3>8 DEF Partition
  <2>4. CASE pending # <<>> /\ pending' = Append(Tail(pending), Head(pending)) /\ free' = free
    <3>. DEFINE s == Head(pending)
    <3>1. /\ s \in Slots /\ In(pending, s) /\ Len(Tail(pending)) = Len(pending) - 1
          /\ Tail(pending) \in Seq(Slots)
          /\ \A x : In(pending, x) <=> In(Tail(pending), x) \/ x = s
          /\ Once(Tail(pending)) /\ ~In(Tail(pending), s)
      BY <1>1, <1>2, <2>4, Taken DEF Partition
    <3>. HIDE DEF s
    <3>. DEFINE t == Tail(pending)
    <3>. HIDE DEF t
    <3>2. /\ Len(Append(t, s)) = Len(t) + 1
          /\ \A x : In(Append(t, s), x) <=> In(t, x) \/ x = s
          /\ Once(Append(t, s))
      BY <3>1, Appended DEF t
    <3>3. pending' = Append(t, s) /\ free' = free
      BY <2>4 DEF s, t
    <3>4. Len(pending') = Len(pending) /\ \A x : In(pending', x) <=> In(pending, x)
      BY <1>2, <3>1, <3>2, <3>3 DEF t
    <3>5. Hand' = Hand /\ (Holds' <=> Holds) /\ slot' = slot
      BY <2>1 DEF Hand, Holds
    <3>6. Once(free') /\ Once(pending')
      BY <1>1, <3>2, <3>3 DEF Partition
    <3>7. Len(free') + Len(pending') + Hand' = Depth
      BY <1>1, <3>3, <3>4, <3>5 DEF Partition
    <3>. QED
      BY <1>1, <3>3, <3>4, <3>5, <3>6, <3>7 DEF Partition
  <2>. QED
    BY <1>1, <1>3, <2>2, <2>3, <2>4, Accepted
<1>4. CASE TakeSlot
  <2>. DEFINE s == Head(pending)
  <2>1. /\ s \in Slots /\ In(pending, s) /\ Len(Tail(pending)) = Len(pending) - 1
        /\ \A x : In(pending, x) <=> In(Tail(pending), x) \/ x = s
        /\ Once(Tail(pending)) /\ ~In(Tail(pending), s)
    BY <1>1, <1>2, <1>4, Taken DEF Partition, TakeSlot
  <2>. HIDE DEF s
  <2>2. /\ pending' = Tail(pending) /\ free' = free /\ slot' = s
        /\ pc = "idle" /\ pc' = "taken"
    BY <1>4 DEF TakeSlot, At, s
  <2>3. ~Holds /\ Holds' /\ Hand = 0 /\ Hand' = 1
    BY <2>2 DEF Holds, Hand
  <2>4. Len(free') + Len(pending') + Hand' = Depth
    <3>1. Len(free) + Len(pending) + Hand = Depth
      BY <1>1 DEF Partition
    <3>2. Len(free') = Len(free) /\ Len(pending') = Len(pending) - 1
      BY <2>1, <2>2
    <3>. QED
      BY <1>2, <2>3, <3>1, <3>2
  <2>. QED
    BY <1>1, <2>1, <2>2, <2>3, <2>4 DEF Partition
<1>5. CASE ReturnSlot
  <2>1. pc = "return" /\ pc' = "idle" /\ pending' = pending /\ free' = Put(free, slot)
    BY <1>5 DEF ReturnSlot, At
  <2>2. Holds /\ ~Holds' /\ Hand = 1 /\ Hand' = 0
    BY <2>1 DEF Holds, Hand
  <2>3. Len(free) < Depth /\ ~In(free, slot) /\ ~In(pending, slot)
    BY <1>1, <1>2, <2>2, SlotsAre DEF Partition
  <2>4. free' = Append(free, slot)
    BY <2>1, <2>3 DEF Put
  <2>5. /\ Len(Append(free, slot)) = Len(free) + 1
        /\ \A x : In(Append(free, slot), x) <=> In(free, x) \/ x = slot
        /\ Once(Append(free, slot))
    BY <1>1, <1>2, <2>3, Appended DEF Partition
  <2>6. Len(free') + Len(pending') + Hand' = Depth
    BY <1>1, <1>2, <2>1, <2>2, <2>4, <2>5 DEF Partition
  <2>7. /\ Once(free') /\ Once(pending') /\ pending' = pending
        /\ \A x : In(free', x) <=> In(free, x) \/ x = slot
    BY <1>1, <2>1, <2>4, <2>5 DEF Partition
  <2>. QED
    BY <1>1, <2>2, <2>3, <2>6, <2>7 DEF Partition
<1>6. CASE Connected \/ Disconnected
  <2>1. Reset /\ UNCHANGED <<pc, slot>> /\ pc # "return"
    BY <1>6 DEF Connected, Disconnected, Reset, workerVars
  <2>2. pending' = <<>> /\ Len(pending') = 0 /\ Once(pending') /\ \A x : ~In(pending', x)
    BY <2>1, Nothing DEF Reset
  <2>3. CASE Holds
    <3>1. inflight = {slot} /\ Hand' = 1 /\ Holds'
      BY <2>1, <2>3 DEF Holds, Hand, Typed, RestType
    <3>2. free' = AllBut(slot)
      BY <2>1, <3>1 DEF Reset
    <3>3. /\ Len(free') = Depth - 1 /\ Once(free') /\ \A x \in Slots : In(free', x) <=> x # slot
      BY <1>2, <3>2, AllButAre
    <3>4. Len(free') + Len(pending') + Hand' = Depth
      BY <2>2, <3>1, <3>3, SlotsAre
    <3>. QED
      BY <1>2, <2>1, <2>2, <3>1, <3>3, <3>4 DEF Partition
  <2>4. CASE ~Holds
    <3>1. inflight = {} /\ Hand' = 0 /\ ~Holds'
      BY <2>1, <2>4 DEF Holds, Hand, Typed, RestType
    <3>2. free' = AllSlots
      BY <2>1, <3>1 DEF Reset
    <3>3. Len(free') + Len(pending') + Hand' = Depth
      BY <2>2, <3>1, <3>2, SlotsAre, AllSlotsAre
    <3>. QED
      BY <2>2, <3>1, <3>2, <3>3, AllSlotsAre DEF Partition
  <2>. QED
    BY <2>3, <2>4
<1>7. CASE ReadFirst \/ SendFrame \/ MarkSent \/ ClearInflight \/ FindNothing \/ ReadEnd
           \/ SendEnd \/ MarkEnded
  <2>1. UNCHANGED <<free, pending, slot>>
    BY <1>7 DEF ReadFirst, SendFrame, MarkSent, ClearInflight, FindNothing, ReadEnd, SendEnd,
                MarkEnded, queueVars
  <2>2. Holds' <=> Holds
    BY <1>7 DEF ReadFirst, SendFrame, MarkSent, ClearInflight, FindNothing, ReadEnd, SendEnd,
                MarkEnded, At, Holds
  <2>. QED
    BY <1>1, <2>1, <2>2 DEF Partition, Hand
<1>8. CASE StartRecording \/ SendAudioEnd \/ HelloAcked \/ TransportLost \/ UNCHANGED vars
  <2>1. UNCHANGED <<free, pending, slot, pc>>
    BY <1>8 DEF StartRecording, SendAudioEnd, HelloAcked, TransportLost, vars, queueVars, workerVars
  <2>. QED
    BY <1>1, <2>1 DEF Partition, Hand, Holds
<1>. QED
  BY <1>3, <1>4, <1>5, <1>6, <1>7, <1>8 DEF Next, Worker

LEMMA InitSlots == Init => SlotsInv
<1>. SUFFICES ASSUME Init PROVE Partition
  BY DEF SlotsInv
<1>1. free = AllSlots /\ pending = <<>> /\ pc = "idle"
  BY Zenon DEF Init
<1>2. ~Holds /\ Hand = 0
  BY <1>1 DEF Holds, Hand
<1>3. Len(free) + Len(pending) + Hand = Depth
  BY <1>1, <1>2, AllSlotsAre, Nothing, SlotsAre
<1>. QED
  BY <1>1, <1>2, <1>3, AllSlotsAre, Nothing DEF Partition

(* The three places laid end to end. *)
LEMMA LaidOut ==
  ASSUME NEW p \in Seq(Slots), NEW q \in Seq(Slots), NEW s \in Slots
  PROVE  /\ Len(p \o q) = Len(p) + Len(q) /\ p \o q \in Seq(Slots)
         /\ In(p, s) \/ In(q, s) => In(p \o q, s)
<1>1. /\ p \o q \in Seq(Slots) /\ Len(p \o q) = Len(p) + Len(q)
      /\ Len(p) \in Nat /\ Len(q) \in Nat
  OBVIOUS
<1>2. /\ \A i \in 1 .. Len(p) : (p \o q)[i] = p[i]
      /\ \A i \in 1 .. Len(q) : (p \o q)[Len(p) + i] = q[i]
  OBVIOUS
<1>. DEFINE r == p \o q
<1>. HIDE DEF r
<1>3. ASSUME In(p, s) PROVE In(r, s)
  <2>1. PICK i \in 1 .. Len(p) : p[i] = s
    BY <1>3 DEF In
  <2>2. i \in 1 .. Len(r) /\ r[i] = s
    BY <1>1, <1>2, <2>1 DEF r
  <2>. QED
    BY <2>2 DEF In
<1>4. ASSUME In(q, s) PROVE In(r, s)
  <2>1. PICK i \in 1 .. Len(q) : q[i] = s
    BY <1>4 DEF In
  <2>2. Len(p) + i \in 1 .. Len(r) /\ r[Len(p) + i] = s
    BY <1>1, <1>2, <2>1 DEF r
  <2>. QED
    BY <2>2 DEF In
<1>. QED
  BY <1>1, <1>3, <1>4 DEF r

LEMMA HeldIs ==
  ASSUME Typed
  PROVE  /\ Held \in Seq(Slots) /\ Len(Held) = Hand
         /\ Holds => In(Held, slot)
<1>1. slot \in Slots
  BY DEF Typed, RestType
<1>2. CASE Holds
  <2>1. Held = <<slot>> /\ Hand = 1
    BY <1>2 DEF Held, Holds, Hand
  <2>2. <<slot>> \in Seq(Slots) /\ Len(<<slot>>) = 1 /\ <<slot>>[1] = slot
    BY <1>1
  <2>3. In(<<slot>>, slot)
    BY <2>2 DEF In
  <2>. QED
    BY <2>1, <2>2, <2>3
<1>3. CASE ~Holds
  <2>1. Held = <<>> /\ Hand = 0
    BY <1>3 DEF Held, Holds, Hand
  <2>. QED
    BY <1>3, <2>1, Nothing
<1>. QED
  BY <1>2, <1>3

(* No slot is lost, and none is in two places, unless a connection begins   *)
(* or ends between the two steps in which the worker gives one back         *)
(* (ws_audio_queue_reset_locked and its s_audio_inflight_slot).             *)
THEOREM SlotsStayKept == Spec => []SlotsKept
<1>1. Typed /\ SlotsInv => SlotsKept
  <2>. SUFFICES ASSUME Typed, SlotsInv, "return" \notin torn
                PROVE  LET places == free \o pending \o Held
                       IN  /\ Len(places) = Depth
                           /\ \A s \in Slots : \E i \in 1 .. Depth : places[i] = s
    BY DEF SlotsKept
  <2>1. Partition
    BY DEF SlotsInv
  <2>. DEFINE queued == free \o pending
              places == queued \o Held
  <2>2. free \in Seq(Slots) /\ pending \in Seq(Slots) /\ Len(free) \in Nat /\ Len(pending) \in Nat
    BY DEF Typed, QueueType
  <2>3. Held \in Seq(Slots) /\ Len(Held) = Hand /\ (Holds => In(Held, slot)) /\ Hand \in Nat
    BY HeldIs DEF Hand
  <2>4. /\ queued \in Seq(Slots) /\ Len(queued) = Len(free) + Len(pending)
        /\ \A s \in Slots : In(free, s) \/ In(pending, s) => In(queued, s)
    <3>1. 0 \in Slots
      BY SlotsAre
    <3>. QED
      BY <2>2, <3>1, LaidOut
  <2>. HIDE DEF queued
  <2>5. /\ Len(places) = Len(queued) + Len(Held)
        /\ \A s \in Slots : In(queued, s) \/ In(Held, s) => In(places, s)
    <3>1. 0 \in Slots
      BY SlotsAre
    <3>. QED
      BY <2>3, <2>4, <3>1, LaidOut
  <2>. HIDE DEF places
  <2>6. Len(places) = Depth
    BY <2>1, <2>2, <2>3, <2>4, <2>5, SlotsAre DEF Partition
  <2>7. \A s \in Slots : In(places, s)
    BY <2>1, <2>3, <2>4, <2>5 DEF Partition
  <2>8. \A s \in Slots : \E i \in 1 .. Depth : places[i] = s
    BY <2>6, <2>7 DEF In
  <2>. QED
    BY <2>6, <2>8 DEF places, queued
<1>. QED
  BY <1>1, InitTyped, TypedStep, InitSlots, SlotsStep, PTL DEF Spec

-----------------------------------------------------------------------------
(* Order *)

LEMMA Extended ==
  ASSUME NEW w \in Seq(Packet), NEW p \in Packet
  PROVE  /\ Len(w) \in Nat /\ Len(Append(w, p)) = Len(w) + 1
         /\ \A i \in 1 .. Len(w) : Append(w, p)[i] = w[i]
         /\ Append(w, p)[Len(w) + 1] = p
  OBVIOUS

LEMMA Numbers ==
  ASSUME Typed
  PROVE  /\ \A s \in Slots : Number(s) \in Nat
         /\ \A i \in 1 .. Len(wire) : wire[i].of.number \in Nat
         /\ recorded \in Nat
<1>1. \A s \in Slots : content[s] \in Frame
  BY DEF Typed, QueueType
<1>2. \A s \in Slots : Number(s) \in Nat
  BY <1>1, AudioAssumption DEF Frame, Number
<1>3. \A i \in 1 .. Len(wire) : wire[i] \in Packet
  BY DEF Typed, WireType
<1>4. \A i \in 1 .. Len(wire) : wire[i].of \in Frame
  BY <1>3 DEF Packet
<1>5. \A i \in 1 .. Len(wire) : wire[i].of.number \in Nat
  BY <1>4, AudioAssumption DEF Frame
<1>. QED
  BY <1>2, <1>5, AudioAssumption DEF Typed, RestType

(* Where nothing is recorded or sent, and at most the front slot taken. *)
LEMMA SameOrder ==
  ASSUME Sequence, UNCHANGED <<content, wire, recorded, pending, slot>>,
         pc' \in {"taken", "send"} => pc \in {"taken", "send"}
  PROVE  Sequence'
<1>1. WireRises' /\ PendingRises'
  BY DEF Sequence, WireRises, PendingRises, IsFrame, Number
<1>2. HandBefore'
  BY DEF Sequence, HandBefore, Number
<1>3. \A s \in Slots : ToSend(s)' => ToSend(s)
  BY DEF ToSend
<1>4. \A s \in Slots : (WireBefore(s)' <=> WireBefore(s)) /\ Number(s)' = Number(s)
  BY DEF WireBefore, Number, IsFrame
<1>5. \A i \in 1 .. Len(wire') : IsFrame(i)' => wire'[i].of.number <= recorded'
  BY DEF Sequence, IsFrame
<1>. QED
  BY <1>1, <1>2, <1>3, <1>4, <1>5 DEF Sequence

LEMMA OrderOfTaken ==
  ASSUME Typed, Sequence, TakeSlot PROVE Sequence'
<1>. DEFINE h == Head(pending)
<1>1. /\ h \in Slots /\ h = pending[1] /\ In(pending, h) /\ Len(pending) \in Nat \ {0}
      /\ \A i \in 1 .. Len(Tail(pending)) : i + 1 \in 1 .. Len(pending)
                                           /\ Tail(pending)[i] = pending[i + 1]
      /\ \A x : In(pending, x) <=> In(Tail(pending), x) \/ x = h
      /\ Len(Tail(pending)) = Len(pending) - 1
  BY Taken DEF TakeSlot, Typed, QueueType
<1>. HIDE DEF h
<1>2. /\ pending' = Tail(pending) /\ slot' = h /\ pc' = "taken"
      /\ UNCHANGED <<content, wire, recorded>>
  BY DEF TakeSlot, At, voiceVars, h
<1>3. WireRises'
  BY <1>2 DEF Sequence, WireRises, IsFrame
<1>4. PendingRises'
  <2>1. ASSUME NEW i \in 1 .. Len(pending'), NEW j \in 1 .. Len(pending'), i < j
        PROVE  content'[pending'[i]].number < content'[pending'[j]].number
    <3>1. /\ i + 1 \in 1 .. Len(pending) /\ j + 1 \in 1 .. Len(pending) /\ i + 1 < j + 1
          /\ pending'[i] = pending[i + 1] /\ pending'[j] = pending[j + 1]
      BY <1>1, <1>2, <2>1
    <3>2. Number(pending[i + 1]) < Number(pending[j + 1])
      BY <3>1 DEF Sequence, PendingRises
    <3>. QED
      BY <1>2, <3>1, <3>2 DEF Number
  <2>. QED
    BY <2>1 DEF PendingRises, Number
<1>5. ASSUME NEW s \in Slots, In(pending', s) PROVE Number(h) < Number(s)
  <2>1. PICK i \in 1 .. Len(Tail(pending)) : Tail(pending)[i] = s
    BY <1>2, <1>5 DEF In
  <2>2. i + 1 \in 1 .. Len(pending) /\ 1 \in 1 .. Len(pending) /\ 1 < i + 1 /\ pending[i + 1] = s
    BY <1>1, <2>1
  <2>3. Number(pending[1]) < Number(pending[i + 1])
    BY <2>2 DEF Sequence, PendingRises
  <2>. QED
    BY <1>1, <2>2, <2>3
<1>6. HandBefore'
  BY <1>2, <1>5 DEF HandBefore, Number
<1>7. \A s \in Slots : ToSend(s)' => ToSend(s)
  BY <1>1, <1>2 DEF ToSend
<1>8. \A s \in Slots : (WireBefore(s)' <=> WireBefore(s)) /\ Number(s)' = Number(s)
  BY <1>2 DEF WireBefore, Number, IsFrame
<1>9. \A i \in 1 .. Len(wire') : IsFrame(i)' => wire'[i].of.number <= recorded'
  BY <1>2 DEF Sequence, IsFrame
<1>. QED
  BY <1>2, <1>3, <1>4, <1>6, <1>7, <1>8, <1>9 DEF Sequence

LEMMA OrderOfSent ==
  ASSUME Typed, Sequence, SendFrame PROVE Sequence'
<1>1. /\ UNCHANGED <<content, recorded, pending, slot>> /\ pc = "send"
      /\ pc' \notin {"taken", "send"}
  BY DEF SendFrame, queueVars, voiceVars
<1>2. CASE wire' = wire
  BY <1>1, <1>2, SameOrder
<1>3. CASE wire' # wire
  <2>. DEFINE p == [kind |-> "frame", of |-> content[slot], first |-> markFirst]
              n == Len(wire)
  <2>1. wire' = Append(wire, p) /\ p \in Packet
    BY <1>3, FrameSent
  <2>2. p.kind = "frame" /\ p.of.number = Number(slot)
    BY DEF Number
  <2>. HIDE DEF p
  <2>3. /\ n \in Nat /\ Len(wire') = n + 1 /\ wire'[n + 1] = p
        /\ \A i \in 1 .. n : wire'[i] = wire[i]
    BY <2>1, Extended DEF Typed, WireType
  <2>. HIDE DEF n
  <2>4. /\ slot \in Slots /\ ToSend(slot) /\ WireBefore(slot) /\ Number(slot) <= recorded
    BY <1>1 DEF Typed, RestType, Sequence, ToSend
  <2>5. \A i \in 1 .. n : IsFrame(i) => wire[i].of.number < Number(slot)
                                     /\ wire[i].of.number <= recorded
    BY <2>4 DEF WireBefore, Sequence, n
  <2>6. \A i \in 1 .. n + 1 : \/ i \in 1 .. n /\ (IsFrame(i)' <=> IsFrame(i))
                                              /\ wire'[i] = wire[i]
                              \/ i = n + 1 /\ wire'[i].of.number = Number(slot)
    BY <2>2, <2>3 DEF IsFrame
  <2>7. WireRises'
    <3>1. ASSUME NEW i \in 1 .. n + 1, NEW j \in 1 .. n + 1, i < j, IsFrame(i)', IsFrame(j)'
          PROVE  wire'[i].of.number < wire'[j].of.number
      <4>1. i \in 1 .. n /\ IsFrame(i) /\ wire'[i] = wire[i]
        BY <2>3, <2>6, <3>1
      <4>2. CASE j \in 1 .. n /\ IsFrame(j) /\ wire'[j] = wire[j]
        BY <3>1, <4>1, <4>2 DEF Sequence, WireRises, n
      <4>3. CASE j = n + 1 /\ wire'[j].of.number = Number(slot)
        BY <2>5, <4>1, <4>3
      <4>. QED
        BY <2>6, <3>1, <4>2, <4>3
    <3>. QED
      BY <2>3, <3>1 DEF WireRises
  <2>8. ASSUME NEW s \in Slots, ToSend(s)' PROVE WireBefore(s)' /\ Number(s)' <= recorded'
    <3>1. In(pending, s) /\ Number(s)' = Number(s) /\ recorded' = recorded
      BY <1>1, <2>8 DEF ToSend, Number
    <3>2. ToSend(s) /\ Number(slot) < Number(s) /\ WireBefore(s) /\ Number(s) <= recorded
      BY <1>1, <3>1 DEF Sequence, HandBefore, ToSend
    <3>3. \A i \in 1 .. n + 1 : IsFrame(i)' => wire'[i].of.number < Number(s)
      BY <2>6, <3>2 DEF WireBefore, n
    <3>. QED
      BY <2>3, <3>1, <3>2, <3>3 DEF WireBefore
  <2>9. \A i \in 1 .. n + 1 : IsFrame(i)' => wire'[i].of.number <= recorded'
    BY <1>1, <2>4, <2>5, <2>6
  <2>10. PendingRises' /\ HandBefore'
    BY <1>1 DEF Sequence, PendingRises, HandBefore, Number
  <2>. QED
    BY <2>3, <2>7, <2>8, <2>9, <2>10 DEF Sequence
<1>. QED
  BY <1>2, <1>3

LEMMA OrderOfEnd ==
  ASSUME Typed, Sequence, SendEnd PROVE Sequence'
<1>1. /\ UNCHANGED <<content, recorded, pending, slot>> /\ pc = "end"
      /\ pc' \notin {"taken", "send"}
  BY DEF SendEnd, queueVars, voiceVars
<1>2. CASE wire' = wire
  BY <1>1, <1>2, SameOrder
<1>3. CASE wire' # wire
  <2>. DEFINE p == [kind |-> "last", of |-> [utterance |-> ended, number |-> 0],
                    first |-> markFirst]
              n == Len(wire)
  <2>1. wire' = Append(wire, p) /\ p \in Packet
    BY <1>3, EndSent
  <2>2. p.kind = "last"
    OBVIOUS
  <2>. HIDE DEF p
  <2>3. /\ n \in Nat /\ Len(wire') = n + 1 /\ wire'[n + 1] = p
        /\ \A i \in 1 .. n : wire'[i] = wire[i]
    BY <2>1, Extended DEF Typed, WireType
  <2>. HIDE DEF n
  <2>4. \A i \in 1 .. n + 1 : IsFrame(i)' => i \in 1 .. n /\ IsFrame(i) /\ wire'[i] = wire[i]
    BY <2>2, <2>3 DEF IsFrame
  <2>5. WireRises'
    BY <2>3, <2>4 DEF Sequence, WireRises, n
  <2>6. \A s \in Slots : ToSend(s)' => ToSend(s) /\ Number(s)' = Number(s)
    BY <1>1 DEF ToSend, Number
  <2>7. \A s \in Slots : WireBefore(s) /\ Number(s)' = Number(s) => WireBefore(s)'
    BY <2>3, <2>4 DEF WireBefore, n
  <2>8. \A i \in 1 .. n + 1 : IsFrame(i)' => wire'[i].of.number <= recorded'
    BY <1>1, <2>4 DEF Sequence, n
  <2>9. PendingRises' /\ HandBefore'
    BY <1>1 DEF Sequence, PendingRises, HandBefore, Number
  <2>. QED
    BY <1>1, <2>3, <2>5, <2>6, <2>7, <2>8, <2>9 DEF Sequence
<1>. QED
  BY <1>2, <1>3

LEMMA OrderOfReset ==
  ASSUME Typed, Sequence, Connected \/ Disconnected PROVE Sequence'
<1>1. UNCHANGED <<content, recorded, pc, slot>> /\ pending' = <<>>
  BY DEF Connected, Disconnected, Reset, voiceVars, workerVars
<1>2. PendingRises' /\ \A x : ~In(pending', x)
  BY <1>1, Nothing DEF PendingRises
<1>3. HandBefore'
  BY <1>2 DEF HandBefore
<1>4. \A s \in Slots : ToSend(s)' => ToSend(s) /\ Number(s)' = Number(s)
  BY <1>1, <1>2 DEF ToSend, Number
<1>5. \A i \in 1 .. Len(wire') : i \in 1 .. Len(wire) /\ wire'[i] = wire[i]
  <2>1. CASE wire' = wire
    BY <2>1
  <2>2. CASE wire' = <<>>
    <3>1. Len(wire') = 0
      BY <2>2
    <3>. QED
      BY <3>1
  <2>. QED
    BY <2>1, <2>2 DEF Connected, Disconnected
<1>6. \A i \in 1 .. Len(wire') : IsFrame(i)' <=> IsFrame(i)
  BY <1>5 DEF IsFrame
<1>7. WireRises'
  BY <1>5, <1>6 DEF Sequence, WireRises
<1>8. \A s \in Slots : WireBefore(s) /\ Number(s)' = Number(s) => WireBefore(s)'
  BY <1>5, <1>6 DEF WireBefore
<1>9. \A i \in 1 .. Len(wire') : IsFrame(i)' => wire'[i].of.number <= recorded'
  BY <1>1, <1>5, <1>6 DEF Sequence
<1>. QED
  BY <1>1, <1>2, <1>3, <1>4, <1>7, <1>8, <1>9 DEF Sequence

(* The newest frame goes behind those that wait. *)
LEMMA OrderOfRecorded ==
  ASSUME Typed, Sequence, Partition, SendAudio PROVE Sequence'
<1>1. UNCHANGED <<wire, pc, slot>> /\ recorded' = recorded + 1 /\ recorded \in Nat
  BY Numbers DEF SendAudio, workerVars
<1>2. WireRises' /\ \A i \in 1 .. Len(wire') : IsFrame(i)' => wire'[i].of.number <= recorded'
  <2>1. \A i \in 1 .. Len(wire) : IsFrame(i)' <=> IsFrame(i)
    BY <1>1 DEF IsFrame
  <2>. QED
    BY <1>1, <2>1, Numbers DEF Sequence, WireRises
<1>3. CASE UNCHANGED <<pending, content>>
  <2>1. PendingRises' /\ HandBefore'
    BY <1>1, <1>3 DEF Sequence, PendingRises, HandBefore, Number
  <2>2. \A s \in Slots : /\ ToSend(s)' => ToSend(s)
                         /\ Number(s)' = Number(s) /\ (WireBefore(s)' <=> WireBefore(s))
    BY <1>1, <1>3 DEF ToSend, Number, WireBefore, IsFrame
  <2>. QED
    BY <1>1, <1>2, <2>1, <2>2, Numbers DEF Sequence
<1>4. ASSUME NEW s \in Slots, NEW rest \in Seq(Slots), ~In(rest, s),
             pc \in {"taken", "send"} => s # slot,
             pending' = Append(rest, s),
             content' = [content EXCEPT ![s] = [utterance |-> utterance, number |-> recorded + 1]],
             \A x \in Slots : In(rest, x) => In(pending, x),
             \A i, j \in 1 .. Len(rest) : i < j => Number(rest[i]) < Number(rest[j])
      PROVE  Sequence'
  <2>1. /\ Len(rest) \in Nat /\ Len(pending') = Len(rest) + 1
        /\ \A i \in 1 .. Len(rest) : pending'[i] = rest[i]
        /\ pending'[Len(rest) + 1] = s
        /\ \A x : In(pending', x) <=> In(rest, x) \/ x = s
    BY <1>4, Appended
  <2>2. /\ Number(s)' = recorded + 1
        /\ \A x \in Slots : x # s => Number(x)' = Number(x)
    <3>1. content \in [Slots -> Frame]
      BY DEF Typed, QueueType
    <3>. QED
      BY <1>4, <3>1 DEF Number
  <2>3. \A i \in 1 .. Len(rest) : rest[i] \in Slots /\ In(rest, rest[i]) /\ rest[i] # s
    BY <1>4 DEF In
  <2>4. \A x \in Slots : In(rest, x) => Number(x) <= recorded
    BY <1>4 DEF Sequence, ToSend
  <2>5. PendingRises'
    <3>1. ASSUME NEW i \in 1 .. Len(rest) + 1, NEW j \in 1 .. Len(rest) + 1, i < j
          PROVE  content'[pending'[i]].number < content'[pending'[j]].number
      <4>1. i \in 1 .. Len(rest)
        BY <2>1, <3>1
      <4>2. /\ pending'[i] = rest[i] /\ Number(rest[i])' = Number(rest[i])
            /\ Number(rest[i]) <= recorded /\ Number(rest[i]) \in Nat
        BY <2>1, <2>2, <2>3, <2>4, <4>1, Numbers
      <4>3. CASE j \in 1 .. Len(rest)
        <5>1. pending'[j] = rest[j] /\ Number(rest[j])' = Number(rest[j])
          BY <2>1, <2>2, <2>3, <4>3
        <5>2. Number(rest[i]) < Number(rest[j])
          BY <1>4, <3>1, <4>1, <4>3
        <5>. QED
          BY <4>2, <5>1, <5>2 DEF Number
      <4>4. CASE j = Len(rest) + 1
        BY <1>1, <2>1, <2>2, <4>2, <4>4 DEF Number
      <4>. QED
        BY <2>1, <3>1, <4>3, <4>4
    <3>. QED
      BY <2>1, <3>1 DEF PendingRises, Number
  <2>6. ASSUME pc' \in {"taken", "send"}, NEW x \in Slots, In(pending', x)
        PROVE  content'[slot'].number < content'[x].number
    <3>1. slot \in Slots /\ slot # s /\ content'[slot'].number = Number(slot)
      BY <1>1, <1>4, <2>2, <2>6 DEF Typed, RestType, Number
    <3>2. Number(slot) <= recorded /\ Number(slot) \in Nat
      BY <1>1, <2>6, <3>1, Numbers DEF Sequence, ToSend
    <3>3. CASE x = s
      BY <1>1, <2>2, <3>1, <3>2, <3>3 DEF Number
    <3>4. CASE x # s
      <4>1. In(pending, x) /\ Number(x)' = Number(x)
        BY <1>4, <2>1, <2>2, <2>6, <3>4
      <4>. QED
        BY <1>1, <2>6, <3>1, <4>1 DEF Sequence, HandBefore, Number
    <3>. QED
      BY <3>3, <3>4
  <2>7. ASSUME NEW x \in Slots, ToSend(x)' PROVE WireBefore(x)' /\ Number(x)' <= recorded'
    <3>0. \A i \in 1 .. Len(wire) : (IsFrame(i)' <=> IsFrame(i)) /\ wire'[i] = wire[i]
      BY <1>1 DEF IsFrame
    <3>1. CASE x = s
      <4>1. \A i \in 1 .. Len(wire) : IsFrame(i) => wire[i].of.number < recorded + 1
        BY <1>1, Numbers DEF Sequence
      <4>. QED
        BY <1>1, <2>2, <3>0, <3>1, <4>1 DEF WireBefore
    <3>2. CASE x # s
      <4>1. ToSend(x) /\ Number(x)' = Number(x)
        BY <1>1, <1>4, <2>1, <2>2, <2>7, <3>2 DEF ToSend
      <4>2. WireBefore(x) /\ Number(x) <= recorded /\ Number(x) \in Nat
        BY <4>1, Numbers DEF Sequence
      <4>3. WireBefore(x)'
        BY <1>1, <3>0, <4>1, <4>2 DEF WireBefore
      <4>. QED
        BY <1>1, <4>1, <4>2, <4>3
    <3>. QED
      BY <3>1, <3>2
  <2>. QED
    BY <1>2, <2>5, <2>6, <2>7 DEF Sequence, HandBefore, Number
<1>5. CASE /\ free # <<>> /\ pending' = Append(pending, Head(free))
           /\ content' = [content EXCEPT ![Head(free)] =
                             [utterance |-> utterance, number |-> recorded + 1]]
  <2>1. Head(free) \in Slots /\ In(free, Head(free))
    BY <1>5, Taken DEF Typed, QueueType
  <2>2. ~In(pending, Head(free)) /\ (pc \in {"taken", "send"} => Head(free) # slot)
    BY <2>1 DEF Partition, Holds
  <2>3. /\ pending \in Seq(Slots)
        /\ \A i, j \in 1 .. Len(pending) : i < j => Number(pending[i]) < Number(pending[j])
    BY DEF Typed, QueueType, Sequence, PendingRises
  <2>. QED
    BY <1>4, <1>5, <2>1, <2>2, <2>3
<1>6. CASE /\ pending # <<>> /\ pending' = Append(Tail(pending), Head(pending))
           /\ content' = [content EXCEPT ![Head(pending)] =
                             [utterance |-> utterance, number |-> recorded + 1]]
  <2>. DEFINE rest == Tail(pending)
              h == Head(pending)
  <2>1. /\ h \in Slots /\ In(pending, h) /\ rest \in Seq(Slots)
        /\ \A x : In(rest, x) => In(pending, x)
        /\ \A i \in 1 .. Len(rest) : i + 1 \in 1 .. Len(pending) /\ rest[i] = pending[i + 1]
        /\ Len(rest) = Len(pending) - 1 /\ Len(pending) \in Nat
        /\ Once(pending) => ~In(rest, h)
    BY <1>6, Taken DEF Typed, QueueType
  <2>2. ~In(rest, h) /\ (pc \in {"taken", "send"} => h # slot)
    BY <2>1 DEF Partition, Holds
  <2>3. pending' = Append(rest, h)
        /\ content' = [content EXCEPT ![h] = [utterance |-> utterance, number |-> recorded + 1]]
    BY <1>6
  <2>. HIDE DEF rest, h
  <2>4. ASSUME NEW i \in 1 .. Len(rest), NEW j \in 1 .. Len(rest), i < j
        PROVE  Number(rest[i]) < Number(rest[j])
    <3>1. /\ i + 1 \in 1 .. Len(pending) /\ j + 1 \in 1 .. Len(pending) /\ i + 1 < j + 1
          /\ rest[i] = pending[i + 1] /\ rest[j] = pending[j + 1]
      BY <2>1, <2>4
    <3>2. Number(pending[i + 1]) < Number(pending[j + 1])
      BY <3>1 DEF Sequence, PendingRises
    <3>. QED
      BY <3>1, <3>2
  <2>. QED
    BY <1>4, <2>1, <2>2, <2>3, <2>4
<1>. QED
  BY <1>3, <1>5, <1>6, Accepted

LEMMA OrderStep == Typed /\ SlotsInv /\ OrderInv /\ [Next]_vars => OrderInv'
<1>. SUFFICES ASSUME Typed, SlotsInv, OrderInv, [Next]_vars, "return" \notin torn'
              PROVE  Sequence'
  BY DEF OrderInv
<1>1. Partition /\ Sequence
  BY TornGrows DEF SlotsInv, OrderInv
<1>2. CASE SendAudio
  BY <1>1, <1>2, OrderOfRecorded
<1>3. CASE TakeSlot
  BY <1>1, <1>3, OrderOfTaken
<1>4. CASE SendFrame
  BY <1>1, <1>4, OrderOfSent
<1>5. CASE SendEnd
  BY <1>1, <1>5, OrderOfEnd
<1>6. CASE Connected \/ Disconnected
  BY <1>1, <1>6, OrderOfReset
<1>7. CASE ReadFirst \/ MarkSent \/ ClearInflight \/ ReturnSlot \/ FindNothing \/ ReadEnd
           \/ MarkEnded
  <2>1. UNCHANGED <<content, wire, recorded, pending, slot>>
    BY <1>7 DEF ReadFirst, MarkSent, ClearInflight, ReturnSlot, FindNothing, ReadEnd, MarkEnded,
                queueVars, voiceVars
  <2>2. pc' \in {"taken", "send"} => pc \in {"taken", "send"}
    BY <1>7 DEF ReadFirst, MarkSent, ClearInflight, ReturnSlot, FindNothing, ReadEnd, MarkEnded, At
  <2>. QED
    BY <1>1, <2>1, <2>2, SameOrder
<1>8. CASE StartRecording \/ SendAudioEnd \/ HelloAcked \/ TransportLost \/ UNCHANGED vars
  <2>1. UNCHANGED <<content, wire, recorded, pending, slot, pc>>
    BY <1>8 DEF StartRecording, SendAudioEnd, HelloAcked, TransportLost, vars, queueVars,
                workerVars, voiceVars
  <2>. QED
    BY <1>1, <2>1, SameOrder
<1>. QED
  BY <1>2, <1>3, <1>4, <1>5, <1>6, <1>7, <1>8 DEF Next, Worker

LEMMA InitOrder == Init => OrderInv
<1>. SUFFICES ASSUME Init PROVE Sequence
  BY DEF OrderInv
<1>1. pending = <<>> /\ wire = <<>> /\ pc = "idle"
  BY Zenon DEF Init
<1>2. \A x : ~In(pending, x)
  BY <1>1, Nothing
<1>3. Len(wire) = 0 /\ Len(pending) = 0
  BY <1>1
<1>4. WireRises /\ PendingRises /\ HandBefore
  BY <1>1, <1>2, <1>3 DEF WireRises, PendingRises, HandBefore
<1>. QED
  BY <1>1, <1>2, <1>3, <1>4 DEF Sequence, ToSend

(* The frames of a connection arrive in the order they were recorded and    *)
(* none twice, whatever is evicted, refused or dropped, unless the queues   *)
(* were reset while the worker gave a slot back (ws_send_audio,             *)
(* ws_audio_worker_task).                                                   *)
THEOREM FramesStayInOrder == Spec => []FramesInOrder
<1>1. OrderInv => FramesInOrder
  BY DEF OrderInv, Sequence, WireRises, FramesInOrder
<1>. QED
  BY <1>1, InitTyped, TypedStep, InitSlots, SlotsStep, InitOrder, OrderStep, PTL DEF Spec

-----------------------------------------------------------------------------
(* Beginnings and ends of recordings *)

LEMMA Utterances ==
  ASSUME Typed
  PROVE  /\ \A s \in Slots : content[s].utterance \in Nat
         /\ \A i \in 1 .. Len(wire) : wire[i].of.utterance \in Nat
         /\ utterance \in Nat /\ ended \in Nat /\ Len(wire) \in Nat
<1>1. \A s \in Slots : content[s] \in Frame
  BY DEF Typed, QueueType
<1>2. \A s \in Slots : content[s].utterance \in Nat
  BY <1>1, AudioAssumption DEF Frame
<1>3. \A i \in 1 .. Len(wire) : wire[i] \in Packet
  BY DEF Typed, WireType
<1>4. \A i \in 1 .. Len(wire) : wire[i].of \in Frame
  BY <1>3 DEF Packet
<1>5. \A i \in 1 .. Len(wire) : wire[i].of.utterance \in Nat
  BY <1>4, AudioAssumption DEF Frame
<1>6. Len(wire) \in Nat
  BY DEF Typed, WireType
<1>. QED
  BY <1>2, <1>5, <1>6, AudioAssumption DEF Typed, RestType

(* What a frame that is taken changes, whichever slot it finds. *)
LEMMA Overwritten ==
  ASSUME Typed, SendAudio, ~Refused
  PROVE  /\ link = "ready" /\ ~endPending /\ ~endPending' /\ sessionOpen'
         /\ \E s \in Slots :
              content' = [content EXCEPT ![s] = [utterance |-> utterance, number |-> recorded + 1]]
<1>1. link = "ready" /\ ~endPending
  BY DEF Refused, Ready
<1>2. CASE free # <<>> /\ Enqueue(Head(free), Tail(free), pending)
  <2>1. Head(free) \in Slots
    BY <1>2, Taken DEF Typed, QueueType
  <2>. QED
    BY <1>1, <1>2, <2>1 DEF Enqueue
<1>3. CASE pending # <<>> /\ Enqueue(Head(pending), free, Tail(pending))
  <2>1. Head(pending) \in Slots
    BY <1>3, Taken DEF Typed, QueueType
  <2>. QED
    BY <1>1, <1>3, <2>1 DEF Enqueue
<1>. QED
  BY <1>2, <1>3 DEF SendAudio, Refused

LEMMA RecordedByStep == Typed /\ RecordedBy /\ [Next]_vars => RecordedBy'
<1>. SUFFICES ASSUME Typed, RecordedBy, [Next]_vars PROVE RecordedBy'
  OBVIOUS
<1>1. CASE SendAudio
  <2>1. utterance' = utterance
    BY <1>1 DEF SendAudio
  <2>2. CASE Refused
    <3>1. content' = content
      BY <1>1, <2>2 DEF SendAudio
    <3>. QED
      BY <2>1, <3>1 DEF RecordedBy
  <2>3. CASE ~Refused
    <3>1. PICK s \in Slots :
            content' = [content EXCEPT ![s] = [utterance |-> utterance, number |-> recorded + 1]]
      BY <1>1, <2>3, Overwritten
    <3>2. content \in [Slots -> Frame]
      BY DEF Typed, QueueType
    <3>3. content'[s].utterance = utterance /\ \A x \in Slots : x # s => content'[x] = content[x]
      BY <3>1, <3>2
    <3>. QED
      BY <2>1, <3>3, Utterances DEF RecordedBy
  <2>. QED
    BY <2>2, <2>3
<1>2. CASE StartRecording
  <2>1. content' = content /\ utterance' = utterance + 1
    BY <1>2 DEF StartRecording, queueVars
  <2>. QED
    BY <2>1, Utterances DEF RecordedBy
<1>3. CASE SendAudioEnd \/ Worker \/ Connected \/ Disconnected \/ HelloAcked \/ TransportLost
           \/ UNCHANGED vars
  <2>1. UNCHANGED <<content, utterance>>
    BY <1>3 DEF SendAudioEnd, Worker, TakeSlot, ReadFirst, SendFrame, MarkSent, ClearInflight,
                ReturnSlot, FindNothing, ReadEnd, SendEnd, MarkEnded, Connected, Disconnected,
                Reset, HelloAcked, TransportLost, vars, queueVars, voiceVars
  <2>. QED
    BY <2>1 DEF RecordedBy
<1>. QED
  BY <1>1, <1>2, <1>3 DEF Next

LEMMA EndCoversStep == Typed /\ RecordedBy /\ EndCovers /\ [Next]_vars => EndCovers'
<1>. SUFFICES ASSUME Typed, RecordedBy, EndCovers, [Next]_vars, endPending',
                     NEW s \in Slots, In(pending', s)
              PROVE  content'[s].utterance <= ended'
  BY DEF EndCovers
<1>1. CASE SendAudio
  <2>1. Refused
    BY <1>1, Overwritten
  <2>2. UNCHANGED <<pending, content, endPending, ended>>
    BY <1>1, <2>1 DEF SendAudio, markVars, endVars
  <2>. QED
    BY <2>2 DEF EndCovers
<1>2. CASE SendAudioEnd
  <2>1. UNCHANGED <<pending, content>>
    BY <1>2 DEF SendAudioEnd, queueVars
  <2>2. CASE Ready
    BY <1>2, <2>1, <2>2 DEF SendAudioEnd, RecordedBy
  <2>3. CASE ~Ready
    <3>1. endPending /\ ended' = ended
      BY <1>2, <2>3 DEF SendAudioEnd, Typed, RestType
    <3>. QED
      BY <2>1, <3>1 DEF EndCovers
  <2>. QED
    BY <2>2, <2>3
<1>3. CASE TakeSlot
  <2>1. In(pending, s)
    BY <1>3, Taken DEF TakeSlot, Typed, QueueType
  <2>2. UNCHANGED <<content, endPending, ended>>
    BY <1>3 DEF TakeSlot, markVars, endVars
  <2>. QED
    BY <2>1, <2>2 DEF EndCovers
<1>4. CASE MarkEnded \/ Connected \/ Disconnected
  BY <1>4 DEF MarkEnded, Connected, Disconnected, Reset
<1>5. CASE \/ ReadFirst \/ SendFrame \/ MarkSent \/ ClearInflight \/ ReturnSlot \/ FindNothing
           \/ ReadEnd \/ SendEnd \/ StartRecording \/ HelloAcked \/ TransportLost \/ UNCHANGED vars
  <2>1. UNCHANGED <<pending, content, endPending, ended>>
    BY <1>5 DEF ReadFirst, SendFrame, MarkSent, ClearInflight, ReturnSlot, FindNothing, ReadEnd,
                SendEnd, StartRecording, HelloAcked, TransportLost, vars, queueVars, markVars,
                endVars
  <2>. QED
    BY <2>1 DEF EndCovers
<1>. QED
  BY <1>1, <1>2, <1>3, <1>4, <1>5 DEF Next, Worker

(* An end marker that is being sent is still asked for, and covers what waits. *)
LEMMA EndHeldStep == Typed /\ EndCovers /\ (Clean => EndHeld) /\ [Next]_vars => (Clean => EndHeld)'
<1>. SUFFICES ASSUME Typed, EndCovers, Clean => EndHeld, [Next]_vars, Clean'
              PROVE  EndHeld'
  OBVIOUS
<1>1. EndHeld
  BY TornGrows DEF Clean
<1>0. ASSUME UNCHANGED <<wire, pending, content>>
      PROVE  (\E i \in 1 .. Len(wire) : Covers(i)) => (\E i \in 1 .. Len(wire) : Covers(i))'
  BY <1>0 DEF Covers, IsFrame
<1>2. CASE SendAudio
  <2>1. pc' = pc /\ wire' = wire /\ endPending' = endPending
    BY <1>2 DEF SendAudio, Enqueue, workerVars, markVars
  <2>2. CASE Refused
    <3>1. UNCHANGED <<pending, content>>
      BY <1>2, <2>2 DEF SendAudio
    <3>. QED
      BY <1>0, <1>1, <2>1, <3>1 DEF EndHeld
  <2>3. CASE ~Refused
    <3>1. pc \notin {"end", "ended"}
      BY <1>1, <2>3 DEF EndHeld, Refused
    <3>. QED
      BY <2>1, <3>1 DEF EndHeld
  <2>. QED
    BY <2>2, <2>3
<1>3. CASE SendAudioEnd
  <2>1. UNCHANGED <<pc, wire, pending, content>> /\ (endPending => endPending')
    BY <1>3 DEF SendAudioEnd, workerVars, queueVars
  <2>. QED
    BY <1>0, <1>1, <2>1 DEF EndHeld
<1>4. CASE SendEnd
  <2>1. pc = "end" /\ endPending /\ UNCHANGED <<endPending, pending, content>>
    BY <1>1, <1>4 DEF SendEnd, markVars, queueVars, EndHeld
  <2>2. CASE pc' = "idle"
    BY <2>2 DEF EndHeld
  <2>3. CASE pc' # "idle"
    <3>. DEFINE p == [kind |-> "last", of |-> [utterance |-> ended, number |-> 0],
                      first |-> markFirst]
    <3>1. wire' = Append(wire, p) /\ p \in Packet
      BY <1>4, <2>3, EndSent
    <3>2. p.kind = "last" /\ p.of.utterance = ended
      OBVIOUS
    <3>. HIDE DEF p
    <3>3. Len(wire') \in 1 .. Len(wire') /\ wire'[Len(wire')] = p
      BY <3>1, Extended DEF Typed, WireType
    <3>4. \A s \in Slots :
              In(pending, s)' => content'[s].utterance <= wire'[Len(wire')].of.utterance
      BY <2>1, <3>2, <3>3 DEF EndCovers, In
    <3>5. \E i \in 1 .. Len(wire') : Covers(i)'
      <4>1. wire'[Len(wire')].kind # "frame"
        BY <3>2, <3>3
      <4>. QED
        BY <3>3, <3>4, <4>1 DEF Covers, IsFrame
    <3>. QED
      BY <2>1, <3>5 DEF EndHeld
  <2>. QED
    BY <2>2, <2>3
<1>5. CASE ReadEnd
  <2>1. pc' = "end" => endPending'
    BY <1>5 DEF ReadEnd, EndDue, markVars
  <2>2. pc' # "ended"
    BY <1>5 DEF ReadEnd
  <2>. QED
    BY <2>1, <2>2 DEF EndHeld
<1>6. CASE TakeSlot \/ ReadFirst \/ SendFrame \/ MarkSent \/ ClearInflight \/ ReturnSlot
           \/ FindNothing \/ MarkEnded
  <2>1. pc' \notin {"end", "ended"}
    BY <1>6 DEF TakeSlot, ReadFirst, SendFrame, MarkSent, ClearInflight, ReturnSlot, FindNothing,
                MarkEnded, At
  <2>. QED
    BY <2>1 DEF EndHeld
<1>7. CASE Connected \/ Disconnected
  <2>1. pc' = pc /\ pc \in torn'
    BY <1>7 DEF Connected, Disconnected, Reset, workerVars
  <2>2. pc' \notin {"end", "ended"}
    BY <2>1 DEF Clean
  <2>. QED
    BY <2>2 DEF EndHeld
<1>8. CASE StartRecording \/ HelloAcked \/ TransportLost \/ UNCHANGED vars
  <2>1. UNCHANGED <<pc, wire, pending, content, endPending>>
    BY <1>8 DEF StartRecording, HelloAcked, TransportLost, vars, workerVars, markVars, queueVars
  <2>. QED
    BY <1>0, <1>1, <2>1 DEF EndHeld
<1>. QED
  BY <1>2, <1>3, <1>4, <1>5, <1>6, <1>7, <1>8 DEF Next, Worker

(* A packet that no earlier end marker overtook. *)
LEMMA BehindLast ==
  ASSUME Typed, NEW p \in Packet, wire' = Append(wire, p), NothingBehindLast'
  PROVE  /\ NothingBehindLast
         /\ p.kind = "frame" => Legit(p.of)
         /\ Len(wire) \in Nat /\ Len(wire') = Len(wire) + 1 /\ wire'[Len(wire) + 1] = p
         /\ \A i \in 1 .. Len(wire) : wire'[i] = wire[i] /\ (IsFrame(i)' <=> IsFrame(i))
<1>. DEFINE n == Len(wire)
<1>1. /\ n \in Nat /\ Len(wire') = n + 1 /\ wire'[n + 1] = p
      /\ \A i \in 1 .. n : wire'[i] = wire[i]
  BY Extended DEF Typed, WireType
<1>2. \A i \in 1 .. n : IsFrame(i)' <=> IsFrame(i)
  BY <1>1 DEF IsFrame
<1>. HIDE DEF n
<1>3. \A i, j \in 1 .. n + 1 :
        i < j /\ ~IsFrame(i)' /\ IsFrame(j)' => wire'[i].of.utterance < wire'[j].of.utterance
  BY <1>1 DEF NothingBehindLast
<1>4. NothingBehindLast
  <2>1. ASSUME NEW i \in 1 .. n, NEW j \in 1 .. n, i < j, ~IsFrame(i), IsFrame(j)
        PROVE  wire[i].of.utterance < wire[j].of.utterance
    <3>1. i \in 1 .. n + 1 /\ j \in 1 .. n + 1
      BY <1>1
    <3>. QED
      BY <1>1, <1>2, <1>3, <2>1, <3>1
  <2>. QED
    BY <2>1 DEF NothingBehindLast, n
<1>5. ASSUME p.kind = "frame", NEW i \in 1 .. n, ~IsFrame(i)
      PROVE  wire[i].of.utterance < p.of.utterance
  <2>1. i \in 1 .. n + 1 /\ n + 1 \in 1 .. n + 1 /\ i < n + 1
    BY <1>1
  <2>2. wire'[n + 1].kind = "frame" /\ wire'[i].kind # "frame"
    BY <1>1, <1>5 DEF IsFrame
  <2>3. wire'[i].of.utterance < wire'[n + 1].of.utterance
    BY <1>3, <2>1, <2>2 DEF IsFrame
  <2>. QED
    BY <1>1, <2>3
<1>. QED
  BY <1>1, <1>2, <1>4, <1>5 DEF Legit, n

(* The mark of a packet that is appended. *)
LEMMA MarkedOn ==
  ASSUME Typed, Marked, NEW p \in Packet, wire' = Append(wire, p), p.first <=> Begins
  PROVE  Marked'
<1>. DEFINE n == Len(wire)
<1>1. /\ n \in Nat /\ Len(wire') = n + 1 /\ wire'[n + 1] = p
      /\ \A i \in 1 .. n : wire'[i] = wire[i]
  BY Extended DEF Typed, WireType
<1>2. \A i \in 1 .. n : IsFrame(i)' <=> IsFrame(i)
  BY <1>1 DEF IsFrame
<1>3. Begins <=> (n = 0 \/ ~IsFrame(n))
  BY DEF Begins
<1>4. \A i \in 1 .. n : wire[i].first <=> (i = 1 \/ ~IsFrame(i - 1))
  BY DEF Marked
<1>. HIDE DEF n
<1>5. ASSUME NEW i \in 1 .. n + 1
      PROVE  wire'[i].first <=> (i = 1 \/ ~IsFrame(i - 1)')
  <2>1. CASE i \in 1 .. n
    <3>1. i = 1 \/ (i - 1 \in 1 .. n)
      BY <1>1, <2>1
    <3>. QED
      BY <1>1, <1>2, <1>4, <2>1, <3>1
  <2>2. CASE i = n + 1
    <3>1. i - 1 = n /\ (n = 0 \/ n \in 1 .. n) /\ (i = 1 <=> n = 0)
      BY <1>1, <2>2
    <3>2. wire'[i].first <=> (n = 0 \/ ~IsFrame(n))
      BY <1>1, <1>3, <2>2
    <3>3. n = 0 \/ (wire'[n].kind = "frame" <=> IsFrame(n))
      BY <1>1, <3>1 DEF IsFrame
    <3>4. IsFrame(i - 1)' <=> wire'[n].kind = "frame"
      BY <3>1 DEF IsFrame
    <3>. QED
      BY <3>1, <3>2, <3>3, <3>4
  <2>. QED
    BY <1>1, <2>1, <2>2
<1>. QED
  BY <1>1, <1>5 DEF Marked, IsFrame

(* Steps that neither send nor look at the flags. *)
LEMMA SameFlags ==
  ASSUME Flags, UNCHANGED <<content, wire, slot, sessionOpen, firstPending, markFirst>>,
         \A s \in Slots : In(pending', s) => In(pending, s),
         link' # "down" => link # "down",
         \/ pc' = pc
         \/ pc \notin {"sent", "ended"} /\ pc' \in {"clear", "return", "idle", "look"}
  PROVE  Flags'
<1>1. \A s \in Slots : ToSend(s)' => ToSend(s)
  BY DEF ToSend
<1>2. (Begins' <=> Begins) /\ \A s \in Slots : Legit(content[s])' <=> Legit(content[s])
  BY DEF Begins, Legit, IsFrame
<1>3. Legit(content[slot])' <=> Legit(content[slot])
  BY DEF Legit, IsFrame
<1>4. \A s \in Slots : ToSend(s)' /\ Legit(content[s])' => sessionOpen'
  BY <1>1, <1>2 DEF Flags
<1>. QED
  BY <1>2, <1>3, <1>4 DEF Flags

LEMMA FlagsOfRecorded ==
  ASSUME Typed, Partition, EndHeld, Flags, SendAudio PROVE Flags'
<1>1. UNCHANGED <<wire, pc, slot, markFirst, link>>
  BY DEF SendAudio, workerVars, linkVars
<1>2. (Begins' <=> Begins) /\ slot \in Slots
  BY <1>1 DEF Begins, IsFrame, Typed, RestType
<1>3. CASE Refused
  <2>1. UNCHANGED <<content, sessionOpen, firstPending, pending>>
    BY <1>3 DEF SendAudio, markVars
  <2>. QED
    BY <1>1, <2>1, SameFlags
<1>4. CASE ~Refused
  <2>1. sessionOpen' /\ ~endPending
    BY <1>4, Overwritten
  <2>2. firstPending' = (firstPending \/ ~sessionOpen)
    BY <1>4, Accepted
  <2>3. firstPending' \/ ~sessionOpen' <=> firstPending \/ ~sessionOpen
    BY <2>1, <2>2
  <2>4. pc # "end"
    BY <2>1 DEF EndHeld
  <2>5. ASSUME pc = "send" PROVE content'[slot] = content[slot]
    <3>1. ~In(free, slot) /\ ~In(pending, slot)
      BY <2>5 DEF Partition, Holds
    <3>2. content \in [Slots -> Frame]
      BY DEF Typed, QueueType
    <3>3. CASE /\ free # <<>>
               /\ content' = [content EXCEPT ![Head(free)] =
                                [utterance |-> utterance, number |-> recorded + 1]]
      <4>1. Head(free) # slot
        BY <3>1, <3>3, Taken DEF Typed, QueueType
      <4>. QED
        BY <1>2, <3>2, <3>3, <4>1
    <3>4. CASE /\ pending # <<>>
               /\ content' = [content EXCEPT ![Head(pending)] =
                                [utterance |-> utterance, number |-> recorded + 1]]
      <4>1. Head(pending) # slot
        BY <3>1, <3>4, Taken DEF Typed, QueueType
      <4>. QED
        BY <1>2, <3>2, <3>4, <4>1
    <3>. QED
      BY <1>4, <3>3, <3>4, Accepted
  <2>6. ASSUME pc = "send", Legit(content[slot])' PROVE markFirst' = firstPending'
    <3>1. Legit(content[slot])
      BY <1>1, <2>5, <2>6 DEF Legit, IsFrame
    <3>2. sessionOpen /\ markFirst = firstPending
      BY <1>2, <2>6, <3>1 DEF Flags, ToSend
    <3>3. sessionOpen \in BOOLEAN /\ firstPending \in BOOLEAN
      BY DEF Typed, RestType
    <3>. QED
      BY <1>1, <2>2, <3>2, <3>3
  <2>. QED
    BY <1>1, <1>2, <2>1, <2>3, <2>4, <2>6 DEF Flags
<1>. QED
  BY <1>3, <1>4

LEMMA FlagsOfFrame ==
  ASSUME Typed, Flags, Marked, SendFrame, wire' # wire, NothingBehindLast'
  PROVE  Flags' /\ Marked'
<1>. DEFINE p == [kind |-> "frame", of |-> content[slot], first |-> markFirst]
<1>1. wire' = Append(wire, p) /\ p \in Packet /\ pc' = "sent" /\ link = "ready"
  BY FrameSent
<1>2. p.kind = "frame" /\ p.of = content[slot] /\ p.first = markFirst
  OBVIOUS
<1>. HIDE DEF p
<1>3. /\ UNCHANGED <<pending, content, sessionOpen, firstPending, slot>> /\ pc = "send"
      /\ slot \in Slots
  BY DEF SendFrame, queueVars, markVars, Typed, RestType
<1>4. /\ Legit(content[slot])
      /\ Len(wire) \in Nat /\ Len(wire') = Len(wire) + 1 /\ wire'[Len(wire) + 1] = p
      /\ \A i \in 1 .. Len(wire) : wire'[i] = wire[i] /\ (IsFrame(i)' <=> IsFrame(i))
  BY <1>1, <1>2, BehindLast
<1>5. sessionOpen /\ markFirst = firstPending
  BY <1>3, <1>4 DEF Flags, ToSend
<1>6. Begins <=> firstPending
  BY <1>1, <1>3, <1>5 DEF Flags
<1>7. Marked'
  BY <1>1, <1>2, <1>5, <1>6, MarkedOn
<1>8. ~Begins'
  BY <1>2, <1>4 DEF Begins, IsFrame
<1>. QED
  BY <1>1, <1>3, <1>5, <1>7, <1>8 DEF Flags

LEMMA FlagsOfEnd ==
  ASSUME Typed, Flags, Marked, SendEnd, wire' # wire, NothingBehindLast'
  PROVE  Flags' /\ Marked'
<1>. DEFINE p == [kind |-> "last", of |-> [utterance |-> ended, number |-> 0], first |-> markFirst]
<1>1. wire' = Append(wire, p) /\ p \in Packet /\ pc' = "ended" /\ link = "ready"
  BY EndSent
<1>2. p.kind = "last" /\ p.first = markFirst
  OBVIOUS
<1>. HIDE DEF p
<1>3. /\ UNCHANGED <<pending, content, sessionOpen, firstPending, slot>> /\ pc = "end"
  BY DEF SendEnd, queueVars, markVars
<1>4. /\ Len(wire) \in Nat /\ Len(wire') = Len(wire) + 1 /\ wire'[Len(wire) + 1] = p
      /\ \A i \in 1 .. Len(wire) : wire'[i] = wire[i] /\ (IsFrame(i)' <=> IsFrame(i))
  BY <1>1, BehindLast
<1>5. Begins <=> markFirst
  BY <1>1, <1>3 DEF Flags
<1>6. Marked'
  BY <1>1, <1>2, <1>5, MarkedOn
<1>7. Begins'
  BY <1>2, <1>4 DEF Begins, IsFrame
<1>8. \A s \in Slots : Legit(content[s])' => Legit(content[s])
  BY <1>3, <1>4 DEF Legit
<1>9. \A s \in Slots : ToSend(s)' => ToSend(s)
  BY <1>1, <1>3 DEF ToSend
<1>. QED
  BY <1>1, <1>3, <1>6, <1>7, <1>8, <1>9 DEF Flags

LEMMA FlagsOfClosed ==
  ASSUME Typed, Flags, EndHeld, MarkEnded PROVE Flags'
<1>1. /\ pc = "ended" /\ pc' = "idle" /\ sessionOpen' = FALSE /\ firstPending' = FALSE
      /\ UNCHANGED <<wire, pending, content>>
  BY DEF MarkEnded, At, queueVars
<1>2. Begins /\ (Begins' <=> Begins)
  BY <1>1 DEF Flags, Begins, IsFrame
<1>3. ASSUME NEW s \in Slots, In(pending, s), Legit(content[s]) PROVE FALSE
  <2>1. PICK i \in 1 .. Len(wire) : Covers(i)
    BY <1>1 DEF EndHeld
  <2>2. ~IsFrame(i) /\ content[s].utterance <= wire[i].of.utterance
    BY <1>3, <2>1 DEF Covers
  <2>3. wire[i].of.utterance < content[s].utterance
    BY <1>3, <2>2 DEF Legit
  <2>. QED
    BY <2>2, <2>3, Utterances
<1>4. \A s \in Slots : ToSend(s)' => In(pending, s)
  BY <1>1 DEF ToSend
<1>5. \A s \in Slots : Legit(content[s])' <=> Legit(content[s])
  BY <1>1 DEF Legit, IsFrame
<1>. QED
  BY <1>1, <1>2, <1>3, <1>4, <1>5 DEF Flags

LEMMA FlagsOfReset ==
  ASSUME Typed, NothingBehindLast => Flags /\ Marked, NothingBehindLast',
         Connected \/ Disconnected, Clean'
  PROVE  Flags' /\ Marked'
<1>1. /\ pc' = pc /\ pc \in torn' /\ pending' = <<>>
      /\ sessionOpen' = FALSE /\ firstPending' = FALSE
  BY DEF Connected, Disconnected, Reset, workerVars
<1>2. pc' \notin {"taken", "send", "sent", "end", "ended"}
  BY <1>1 DEF Clean
<1>3. \A s : ~In(pending', s)
  BY <1>1, Nothing
<1>4. \A s \in Slots : ~ToSend(s)'
  BY <1>2, <1>3 DEF ToSend
<1>5. CASE Connected
  <2>1. Len(wire') = 0
    BY <1>5 DEF Connected
  <2>2. Begins' /\ Marked'
    BY <2>1 DEF Begins, Marked
  <2>. QED
    BY <1>1, <1>2, <1>4, <2>2 DEF Flags
<1>6. CASE Disconnected
  <2>1. wire' = wire /\ link' = "down"
    BY <1>6 DEF Disconnected
  <2>2. Marked'
    BY <2>1 DEF NothingBehindLast, Marked, IsFrame
  <2>. QED
    BY <1>2, <1>4, <2>1, <2>2 DEF Flags
<1>. QED
  BY <1>5, <1>6

LEMMA FirstStep == Typed /\ SlotsInv /\ FirstInv /\ [Next]_vars => FirstInv'
<1>. SUFFICES ASSUME Typed, SlotsInv, FirstInv, [Next]_vars PROVE FirstInv'
  OBVIOUS
<1>1. EndCovers' /\ RecordedBy' /\ (Clean' => EndHeld')
  BY EndCoversStep, RecordedByStep, EndHeldStep DEF FirstInv
<1>2. ASSUME Clean', NothingBehindLast' PROVE Flags' /\ Marked'
  <2>1. /\ Clean /\ EndHeld /\ EndCovers /\ Partition
        /\ NothingBehindLast => Flags /\ Marked
    BY <1>2, TornGrows DEF Clean, SlotsInv, FirstInv
  <2>2. ASSUME wire' = wire PROVE Flags /\ Marked /\ Marked'
    BY <1>2, <2>1, <2>2 DEF NothingBehindLast, Marked, IsFrame
  <2>3. CASE SendAudio
    <3>1. wire' = wire
      BY <2>3 DEF SendAudio
    <3>. QED
      BY <2>1, <2>2, <2>3, <3>1, FlagsOfRecorded
  <2>4. CASE StartRecording \/ SendAudioEnd \/ HelloAcked \/ TransportLost \/ UNCHANGED vars
    <3>1. /\ UNCHANGED <<content, wire, slot, sessionOpen, firstPending, markFirst, pc, pending>>
          /\ link' # "down" => link # "down"
      BY <2>4 DEF StartRecording, SendAudioEnd, HelloAcked, TransportLost, vars, queueVars,
                  markVars, workerVars, linkVars
    <3>. QED
      BY <2>2, <3>1, SameFlags
  <2>5. CASE TakeSlot
    <3>1. /\ UNCHANGED <<content, wire, sessionOpen, firstPending, markFirst, link>>
          /\ pc = "idle" /\ pc' = "taken"
          /\ slot' = Head(pending) /\ pending' = Tail(pending) /\ pending # <<>>
      BY <2>5 DEF TakeSlot, At, markVars, linkVars
    <3>2. \A s \in Slots : ToSend(s)' => ToSend(s)
      <4>1. \A x : In(pending, x) <=> In(Tail(pending), x) \/ x = Head(pending)
        BY <3>1, Taken DEF Typed, QueueType
      <4>. QED
        BY <3>1, <4>1 DEF ToSend
    <3>3. (Begins' <=> Begins) /\ \A s \in Slots : Legit(content[s])' <=> Legit(content[s])
      BY <3>1 DEF Begins, Legit, IsFrame
    <3>. QED
      BY <2>2, <3>1, <3>2, <3>3 DEF Flags
  <2>6. CASE ReadFirst
    <3>1. /\ UNCHANGED <<content, pending, wire, sessionOpen, firstPending, link, slot>>
          /\ pc = "taken" /\ pc' \in {"send", "clear"} /\ markFirst' = firstPending
      BY <2>6 DEF ReadFirst, queueVars, markVars, linkVars
    <3>2. \A s \in Slots : ToSend(s)' => ToSend(s)
      BY <3>1 DEF ToSend
    <3>3. (Begins' <=> Begins) /\ \A s \in Slots : Legit(content[s])' <=> Legit(content[s])
      BY <3>1 DEF Begins, Legit, IsFrame
    <3>. QED
      BY <2>2, <3>1, <3>2, <3>3 DEF Flags
  <2>7. CASE SendFrame
    <3>1. CASE wire' = wire
      <4>1. /\ UNCHANGED <<content, pending, slot, sessionOpen, firstPending, markFirst, link>>
            /\ pc = "send" /\ pc' = "clear"
        <5>1. wire' # Append(wire, [kind |-> "frame", of |-> content[slot], first |-> markFirst])
          <6>1. ASSUME NEW p \in Packet PROVE wire # Append(wire, p)
            <7>1. Len(Append(wire, p)) = Len(wire) + 1 /\ Len(wire) \in Nat
              BY Extended DEF Typed, WireType
            <7>. QED
              BY <7>1
          <6>2. [kind |-> "frame", of |-> content[slot], first |-> markFirst] \in Packet
            BY DEF Typed, QueueType, RestType, Packet
          <6>. QED
            BY <3>1, <6>1, <6>2
        <5>. QED
          BY <2>7, <5>1, FrameSent DEF SendFrame, queueVars, markVars, linkVars
      <4>. QED
        BY <2>2, <3>1, <4>1, SameFlags
    <3>2. CASE wire' # wire
      <4>1. NothingBehindLast
        BY <1>2, <2>7, <3>2, FrameSent, BehindLast
      <4>. QED
        BY <1>2, <2>1, <2>7, <3>2, <4>1, FlagsOfFrame
    <3>. QED
      BY <3>1, <3>2
  <2>8. CASE MarkSent
    <3>1. /\ UNCHANGED <<content, pending, wire, sessionOpen, markFirst, link, slot>>
          /\ pc = "sent" /\ pc' = "clear" /\ firstPending' = FALSE
      BY <2>8 DEF MarkSent, At, queueVars, linkVars
    <3>2. \A s \in Slots : ToSend(s)' => ToSend(s)
      BY <3>1 DEF ToSend
    <3>3. (Begins' <=> Begins) /\ \A s \in Slots : Legit(content[s])' <=> Legit(content[s])
      BY <3>1 DEF Begins, Legit, IsFrame
    <3>. QED
      BY <2>2, <3>1, <3>2, <3>3 DEF Flags
  <2>9. CASE ClearInflight \/ ReturnSlot \/ FindNothing
    <3>1. /\ UNCHANGED <<content, pending, wire, slot, sessionOpen, firstPending, markFirst, link>>
          /\ pc \notin {"sent", "ended"} /\ pc' \in {"clear", "return", "idle", "look"}
      BY <2>9 DEF ClearInflight, ReturnSlot, FindNothing, At, queueVars, markVars, linkVars
    <3>. QED
      BY <2>2, <3>1, SameFlags
  <2>10. CASE ReadEnd
    <3>1. /\ UNCHANGED <<content, pending, wire, slot, sessionOpen, firstPending, link>>
          /\ pc = "look" /\ pc' \in {"end", "idle"} /\ markFirst' = (firstPending \/ ~sessionOpen)
      BY <2>10 DEF ReadEnd, queueVars, markVars, linkVars
    <3>2. \A s \in Slots : ToSend(s)' => ToSend(s)
      BY <3>1 DEF ToSend
    <3>3. (Begins' <=> Begins) /\ \A s \in Slots : Legit(content[s])' <=> Legit(content[s])
      BY <3>1 DEF Begins, Legit, IsFrame
    <3>. QED
      BY <2>2, <3>1, <3>2, <3>3 DEF Flags
  <2>11. CASE SendEnd
    <3>1. CASE wire' = wire
      <4>1. /\ UNCHANGED <<content, pending, slot, sessionOpen, firstPending, markFirst, link>>
            /\ pc = "end" /\ pc' = "idle"
        <5>1. ASSUME NEW p \in Packet PROVE wire # Append(wire, p)
          <6>1. Len(Append(wire, p)) = Len(wire) + 1 /\ Len(wire) \in Nat
            BY Extended DEF Typed, WireType
          <6>. QED
            BY <6>1
        <5>2. pc' = "idle"
          BY <2>11, <3>1, <5>1, EndSent
        <5>. QED
          BY <2>11, <5>2 DEF SendEnd, queueVars, markVars, linkVars
      <4>. QED
        BY <2>2, <3>1, <4>1, SameFlags
    <3>2. CASE wire' # wire
      <4>1. NothingBehindLast
        BY <1>2, <2>11, <3>2, EndSent, BehindLast
      <4>. QED
        BY <1>2, <2>1, <2>11, <3>2, <4>1, FlagsOfEnd
    <3>. QED
      BY <3>1, <3>2
  <2>12. CASE MarkEnded
    <3>1. wire' = wire
      BY <2>12 DEF MarkEnded
    <3>. QED
      BY <2>1, <2>2, <2>12, <3>1, FlagsOfClosed
  <2>13. CASE Connected \/ Disconnected
    BY <1>2, <2>1, <2>13, FlagsOfReset
  <2>. QED
    BY <2>3, <2>4, <2>5, <2>6, <2>7, <2>8, <2>9, <2>10, <2>11, <2>12, <2>13 DEF Next, Worker
<1>. QED
  BY <1>1, <1>2 DEF FirstInv

LEMMA InitFirst == Init => FirstInv
<1>. SUFFICES ASSUME Init PROVE FirstInv
  OBVIOUS
<1>1. /\ pc = "idle" /\ endPending = FALSE /\ link = "down" /\ utterance = 0
      /\ content = [s \in Slots |-> [utterance |-> 0, number |-> 0]]
  BY Zenon DEF Init
<1>2. pending = <<>> /\ wire = <<>>
  BY Zenon DEF Init
<1>3. (\A s : ~In(pending, s)) /\ Len(wire) = 0
  BY <1>2, Nothing
<1>4. Marked
  BY <1>3 DEF Marked
<1>5. RecordedBy
  BY <1>1 DEF RecordedBy
<1>6. \A s \in Slots : ~ToSend(s)
  BY <1>1, <1>3 DEF ToSend
<1>7. Flags
  BY <1>1, <1>6 DEF Flags
<1>8. EndCovers /\ EndHeld
  BY <1>1 DEF EndCovers, EndHeld
<1>. QED
  BY <1>4, <1>5, <1>7, <1>8 DEF FirstInv

(* FIRST marks the packets that begin a recording's stream and no others,   *)
(* as long as no end marker overtook a frame and no connection began or     *)
(* ended in the middle of a packet (s_audio_first_frame_pending,            *)
(* s_audio_session_open).                                                   *)
THEOREM FirstMarksBeginnings == Spec => []FirstBegins
<1>1. FirstInv => FirstBegins
  BY DEF FirstInv, Marked, FirstBegins
<1>. QED
  BY <1>1, InitTyped, TypedStep, InitSlots, SlotsStep, InitFirst, FirstStep, PTL DEF Spec

=============================================================================
