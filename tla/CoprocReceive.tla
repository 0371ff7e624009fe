--------------------------- MODULE CoprocReceive ---------------------------
(***************************************************************************)
(* The co-processor's receive path: the UART interrupt that puts a chunk   *)
(* of bytes into a small queue (platform_coproc_uart.c), the main loop     *)
(* that takes chunks out, the byte ring and the delimiter search behind it *)
(* (coproc_protocol.c, coproc_ring_buffer.c, coproc_framing.c), and the    *)
(* dispatch of whole frames.                                               *)
(*                                                                         *)
(* The interrupt strikes between any two steps of the main loop.  The head *)
(* sends frames of FrameLength bytes, each followed by a delimiter; a byte *)
(* is represented by its position in that stream, which tells what it is.  *)
(* CRC and COBS are abstracted to what they are for: a candidate passes    *)
(* exactly when it is one whole frame as the head sent it.                 *)
(***************************************************************************)
EXTENDS Naturals, Sequences

CONSTANTS
  Frames,         \* bound: frames the head sends
  FrameLength,    \* bytes of a frame without its delimiter
  ChunkSize,      \* largest chunk: APP_UART2_RX_BUFFER_SIZE
  QueueDepth,     \* slots of the chunk queue; one always stays free
  RingSize,       \* bytes of the ring
  CandidateSize,  \* bytes of a candidate: sizeof(candidate) - 1
  LineErrors,     \* may the UART report an error?
  RearmFaults,    \* may starting the next reception fail?
  DispatchFaults  \* may a handler fail, its reply being refused by the UART?

ASSUME ReceiveAssumption ==
  /\ Frames \in Nat \ {0} /\ FrameLength \in Nat \ {0} /\ ChunkSize \in Nat \ {0}
  /\ QueueDepth \in Nat \ {0, 1}
  /\ RingSize \in Nat /\ RingSize >= ChunkSize
  /\ CandidateSize \in Nat /\ CandidateSize >= FrameLength
  /\ {LineErrors, RearmFaults, DispatchFaults} \subseteq BOOLEAN

VARIABLES
  arrived,    \* bytes of the stream that have reached the UART
  armed,      \* a reception is running
  slots,      \* s_uart2RxQueue
  head,       \* s_uart2RxQueueHead, written by the interrupt
  tail,       \* s_uart2RxQueueTail, written by the main loop
  pc,         \* where the main loop is in Platform_CoprocUart_Poll
  chunk,      \* s_uart2ProcessBuffer: the chunk being handed over
  ring,       \* bytes waiting for the delimiter search
  candidate,  \* bytes since the last delimiter
  truncated,  \* ... which were too many
  delivered,  \* history: frames given to the dispatcher
  dropped     \* history: bytes that were lost

isrVars   == <<arrived, armed, slots, head>>
frameVars == <<candidate, truncated, delivered>>
vars == <<arrived, armed, slots, head, tail, pc, chunk, ring, candidate,
          truncated, delivered, dropped>>

Total     == Frames * (FrameLength + 1)
Bytes     == 1 .. Total
SlotIds   == 0 .. QueueDepth - 1
EndOf(f)  == f * (FrameLength + 1)
IsDelimiter(b) == b % (FrameLength + 1) = 0
Content(f)     == [i \in 1 .. FrameLength |-> EndOf(f - 1) + i]
FrameOf(c)     == {f \in 1 .. Frames : c = Content(f)}
BytesIn(s)     == {s[i] : i \in DOMAIN s}

(* Frames that may go missing: a byte of theirs or the delimiter in front  *)
(* of them was lost.                                                       *)
HurtFrames == {f \in 1 .. Frames : \E b \in EndOf(f - 1) .. EndOf(f) : b \in dropped}

-----------------------------------------------------------------------------
(* The co-processor may be started in the middle of a frame. *)
Init ==
  /\ arrived \in 0 .. FrameLength
  /\ armed = TRUE
  /\ slots = [i \in SlotIds |-> <<>>]
  /\ head = 0
  /\ tail = 0
  /\ pc = "drain"
  /\ chunk = <<>>
  /\ ring = <<>>
  /\ candidate = <<>>
  /\ truncated = FALSE
  /\ delivered = <<>>
  /\ dropped = 1 .. arrived

NextIndex(i) == (i + 1) % QueueDepth

(* The bytes that arrive with this event. *)
Incoming(n) == [i \in 1 .. n |-> arrived + i]

Arrives(n) ==
  /\ arrived + n <= Total
  /\ arrived' = arrived + n

(* Platform_CoprocUart_ArmRx *)
ArmRx == armed' = TRUE \/ (RearmFaults /\ armed' = FALSE)

(* Platform_CoprocUart_EnqueueRxChunkFromIsr *)
EnqueueRxChunk(n) ==
  IF NextIndex(head) = tail
  THEN /\ dropped' = dropped \cup BytesIn(Incoming(n))
       /\ UNCHANGED <<slots, head>>
  ELSE /\ slots' = [slots EXCEPT ![head] = Incoming(n)]
       /\ head' = NextIndex(head)
       /\ UNCHANGED dropped

(* HAL_UARTEx_RxEventCallback: the line went idle or the buffer is full.   *)
RxEvent ==
  /\ armed
  /\ \E n \in 1 .. ChunkSize : Arrives(n) /\ EnqueueRxChunk(n)
  /\ ArmRx
  /\ UNCHANGED <<tail, pc, chunk, ring, frameVars>>

(* Platform_CoprocUart_HandleError stops the DMA: what it held is lost.    *)
HandleError ==
  /\ armed /\ LineErrors
  /\ \E n \in 1 .. ChunkSize :
       Arrives(n) /\ dropped' = dropped \cup BytesIn(Incoming(n))
  /\ ArmRx
  /\ UNCHANGED <<slots, head, tail, pc, chunk, ring, frameVars>>

(* Nothing starts the reception again once that failed. *)
Deaf ==
  /\ ~armed
  /\ \E n \in 1 .. ChunkSize :
       Arrives(n) /\ dropped' = dropped \cup BytesIn(Incoming(n))
  /\ UNCHANGED <<armed, slots, head, tail, pc, chunk, ring, frameVars>>

-----------------------------------------------------------------------------
(* Platform_CoprocUart_Poll, step by step *)

FindChunk ==
  /\ pc = "drain"
  /\ pc' = IF tail = head THEN "process" ELSE "copy"
  /\ UNCHANGED <<isrVars, tail, chunk, ring, frameVars, dropped>>

CopyChunk ==
  /\ pc = "copy"
  /\ chunk' = slots[tail]
  /\ pc' = "ingest"
  /\ UNCHANGED <<isrVars, tail, ring, frameVars, dropped>>

(* Mutant: the free space is not looked at. *)
IngestAlways ==
  /\ ring' = ring \o chunk
  /\ UNCHANGED <<candidate, truncated, dropped>>

(* CoprocProtocol_IngestBytes: a chunk that does not fit empties the ring  *)
(* and the delimiter search as well.                                       *)
IngestBytes ==
  IF Len(ring) + Len(chunk) > RingSize
  THEN /\ ring' = <<>>
       /\ candidate' = <<>>
       /\ truncated' = FALSE
       /\ dropped' = dropped \cup BytesIn(ring) \cup BytesIn(candidate) \cup BytesIn(chunk)
  ELSE /\ ring' = ring \o chunk
       /\ UNCHANGED <<candidate, truncated, dropped>>

(* Mutant: the tail is not advanced. *)
ReleaseNothing == UNCHANGED tail

ReleaseSlot == tail' = NextIndex(tail)

TakeChunk ==
  /\ pc = "ingest"
  /\ ReleaseSlot
  /\ IngestBytes
  /\ pc' = "drain"
  /\ chunk' = <<>>
  /\ UNCHANGED <<isrVars, delivered>>

(* Mutant: only a candidate that was too long is discarded. *)
CandidateKept(next) == next = IF truncated THEN <<>> ELSE candidate

(* What the candidate is after a delimiter. *)
CandidateAfter(next) == next = <<>>

(* A delimiter ends the candidate: CRC and COBS decide whether it is a     *)
(* frame, a handler may fail, and then the rest of the ring waits for the  *)
(* next poll and this one leaves the runtime out.                          *)
EndOfFrame ==
  /\ IsDelimiter(ring[1])
  /\ CandidateAfter(candidate')
  /\ truncated' = FALSE
  /\ LET found == IF truncated THEN {} ELSE FrameOf(candidate)
     IN  \/ /\ found = {}
            /\ UNCHANGED <<delivered, pc>>
         \/ \E f \in found :
              /\ delivered' = Append(delivered, f)
              /\ pc' = pc \/ (DispatchFaults /\ pc' = "drain")

(* Any other byte joins the candidate while there is room. *)
ByteOfFrame ==
  /\ ~IsDelimiter(ring[1])
  /\ IF truncated \/ Len(candidate) >= CandidateSize
     THEN truncated' = TRUE /\ UNCHANGED candidate
     ELSE candidate' = Append(candidate, ring[1]) /\ UNCHANGED truncated
  /\ UNCHANGED <<delivered, pc>>

(* One turn of the loop in CoprocProtocol_Process. *)
ProcessByte ==
  /\ pc = "process" /\ ring # <<>>
  /\ ring' = Tail(ring)
  /\ EndOfFrame \/ ByteOfFrame
  /\ UNCHANGED <<isrVars, tail, chunk, dropped>>

(* The ring is empty: CoprocRuntime_Poll, and the next turn begins. *)
RuntimePoll ==
  /\ pc = "process" /\ ring = <<>>
  /\ pc' = "drain"
  /\ UNCHANGED <<isrVars, tail, chunk, ring, frameVars, dropped>>

Interrupt == RxEvent \/ HandleError \/ Deaf
MainLoop  == FindChunk \/ CopyChunk \/ TakeChunk \/ ProcessByte \/ RuntimePoll

Next == Interrupt \/ MainLoop

Spec     == Init /\ [][Next]_vars
FairSpec == Spec /\ WF_vars(MainLoop) /\ WF_vars(Interrupt)

-----------------------------------------------------------------------------
(* Properties *)

ByteSeqs == Seq(Bytes)

(* Every variable stays in its range, the ring and the candidate within    *)
(* their buffers.                                                          *)
TypeOK ==
  /\ arrived \in 0 .. Total
  /\ armed \in BOOLEAN /\ truncated \in BOOLEAN
  /\ slots \in [SlotIds -> ByteSeqs]
  /\ head \in SlotIds /\ tail \in SlotIds
  /\ pc \in {"drain", "copy", "ingest", "process"}
  /\ chunk \in ByteSeqs /\ Len(chunk) <= ChunkSize
  /\ ring \in ByteSeqs /\ Len(ring) <= RingSize
  /\ candidate \in ByteSeqs /\ Len(candidate) <= CandidateSize
  /\ delivered \in Seq(1 .. Frames)
  /\ dropped \subseteq Bytes

(* The slots from tail up to head, in that order. *)
Rank(i) == (i + QueueDepth - tail) % QueueDepth
Waiting == {i \in SlotIds : Rank(i) < Rank(head)}

Before(s, t) == \A i \in DOMAIN s, j \in DOMAIN t : s[i] < t[j]
Rising(s)    == \A i, j \in DOMAIN s : i < j => s[i] < s[j]

(* The interrupt never overwrites what the main loop has still to read:    *)
(* candidate, ring, the chunk in hand and the waiting slots hold the       *)
(* stream in its order, and nothing twice.                                 *)
StreamInOrder ==
  LET inHand == IF pc = "ingest" THEN Waiting \ {tail} ELSE Waiting  \* not copied yet
  IN  /\ Rising(candidate) /\ Rising(ring) /\ Rising(chunk)
      /\ Before(candidate, ring) /\ Before(ring, chunk)
      /\ \A i \in inHand : /\ Rising(slots[i])
                           /\ Before(candidate, slots[i])
                           /\ Before(ring, slots[i])
                           /\ Before(chunk, slots[i])
      /\ \A i, j \in inHand : Rank(i) < Rank(j) => Before(slots[i], slots[j])

(* The abstract stream; a frame is hurt when a byte counts as dropped. *)
Stream == INSTANCE FrameStream WITH hurt <- HurtFrames

(* Frames are dispatched in order, once, and only a hurt one is missing.   *)
DeliversInOrder == Stream!Spec

(* Every frame that was not hurt is dispatched in the end. *)
Arrived == \A f \in 1 .. Frames :
             <>(f \in HurtFrames \/ \E i \in DOMAIN delivered : delivered[i] = f)

(* The runtime is polled again and again, whatever handlers fail: motions  *)
(* end and jogs time out only in that poll.                                *)
RuntimePolled == []<><<RuntimePoll>>_vars

=============================================================================
