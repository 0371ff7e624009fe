------------------------ MODULE CoprocRuntimeProofs ------------------------
(* Proofs about CoprocRuntime: its types, the order of its queue, and the  *)
(* fact that accepted moves are started in the order they were issued.     *)
EXTENDS CoprocRuntime, FiniteSetTheorems, TLAPS

-----------------------------------------------------------------------------
(* Frames *)

(* The number of MOTION_DONE frames in a sequence is a number. *)
LEMMA DonesForNat ==
  ASSUME NEW s, NEW frames \in Seq(Frame)
  PROVE  DonesFor(s, frames) \in Nat
<1>. DEFINE D == {i \in DOMAIN frames : frames[i].kind = "DONE" /\ frames[i].ref = s}
<1>1. IsFiniteSet(1 .. Len(frames))
  BY FS_Interval
<1>2. D \subseteq 1 .. Len(frames)
  OBVIOUS
<1>3. IsFiniteSet(D)
  BY <1>1, <1>2, FS_Subset
<1>. QED
  BY <1>3, FS_CardinalityType DEF DonesFor

(* The frames the runtime builds are frames. *)
LEMMA FrameType ==
  /\ \A s \in Seqs : Ack(s) \in Frame /\ Nack(s) \in Frame
  /\ \A s \in 0 .. MaxSeq : \A r \in Results : Done(s, r) \in Frame
BY DEF Frame, Ack, Nack, Done, Seqs

(* Short sequences of frames, and their concatenations. *)
LEMMA WireType ==
  /\ <<>> \in Seq(Frame)
  /\ \A f \in Frame : <<f>> \in Seq(Frame)
  /\ \A p, q \in Seq(Frame) : p \o q \in Seq(Frame)
OBVIOUS

(* What a send puts on the wire is a sequence of frames. *)
LEMMA SendingType ==
  ASSUME NEW f \in Frame, NEW ok
  PROVE  Sending(f, ok) \in Seq(Frame)
BY WireType DEF Sending

(* Counting keeps the counters in range. *)
LEMMA CountDonesType ==
  ASSUME doneCount \in [Seqs -> 0 .. 2], sent' \in Seq(Frame), CountDones
  PROVE  doneCount' \in [Seqs -> 0 .. 2]
<1>. SUFFICES ASSUME NEW s \in Seqs
              PROVE  LET n == doneCount[s] + DonesFor(s, sent')
                     IN  (IF n > 2 THEN 2 ELSE n) \in 0 .. 2
  BY DEF CountDones
<1>1. DonesFor(s, sent') \in Nat
  BY DonesForNat
<1>. QED
  BY <1>1

-----------------------------------------------------------------------------
(* Types, one lemma per group of actions. *)

(* The clock arithmetic stays within the tick range. *)
LEMMA LaterType ==
  ASSUME NEW t \in Ticks, NEW d \in Nat
  PROVE  Later(t, d) \in Ticks
BY RuntimeAssumption DEF Later, Ticks

(* A request names a number and leaves the largest one behind it.         *)
LEMMA RequestType ==
  ASSUME HeadType, NEW s, Request(s)
  PROVE  /\ s \in Seqs
         /\ HeadType'
         /\ nextSeq <= nextSeq' /\ s < nextSeq'
         /\ s < nextSeq => SeqReuse
BY RuntimeAssumption DEF HeadType, Request, Seqs, SeqReuse

(* Types are preserved by every request for a move. *)
LEMMA MoveType ==
  ASSUME TypeOK, NEW s, NEW d \in Durations, ServoMove(s, d)
  PROVE  TypeOK'
<1>1. CASE MoveStarts(s, d)
  <2>1. s \in Seqs /\ HeadType'
    BY <1>1, RequestType DEF MoveStarts, TypeOK
  <2>2. sent' \in Seq(Frame)
    <3>1. sent' = <<Ack(s)>> \/ sent' = <<>>
      BY <1>1 DEF MoveStarts, AckMove
    <3>. QED
      BY <3>1, <2>1, FrameType, WireType
  <2>3. MotionType'
    <3>1. motionActive' \in BOOLEAN
      BY <1>1 DEF MoveStarts, AckMove
    <3>2. motionRefSeq' \in 0 .. MaxSeq
      BY <1>1, <2>1 DEF MoveStarts, Seqs
    <3>3. motionStartedAt' \in Ticks /\ motionDuration' \in {0} \cup Durations
      BY <1>1 DEF MoveStarts, TypeOK, HeadType
    <3>. QED
      BY <3>1, <3>2, <3>3 DEF MotionType
  <2>4. JogType' /\ QueueType'
    BY <1>1 DEF TypeOK, JogType, QueueType, MoveStarts, jogVars
  <2>5. HistoryType'
    BY <1>1, <2>1 DEF TypeOK, HistoryType, MoveStarts, AckMove
  <2>. QED
    BY <2>1, <2>2, <2>3, <2>4, <2>5 DEF TypeOK
<1>2. CASE MoveFailsToStart(s, d)
  <2>1. s \in Seqs /\ HeadType'
    BY <1>2, RequestType DEF MoveFailsToStart, TypeOK
  <2>2. sent' \in Seq(Frame)
    BY <1>2, <2>1, FrameType, SendingType DEF MoveFailsToStart
  <2>3. MotionType'
    <3>1. motionActive' \in BOOLEAN /\ motionStartedAt' \in Ticks
      BY <1>2 DEF MoveFailsToStart, StartMotionCommand, TypeOK, HeadType
    <3>2. motionRefSeq' \in 0 .. MaxSeq /\ motionDuration' \in {0} \cup Durations
      BY <1>2, <2>1 DEF MoveFailsToStart, StartMotionCommand, Seqs
    <3>. QED
      BY <3>1, <3>2 DEF MotionType
  <2>4. JogType' /\ QueueType'
    BY <1>2 DEF TypeOK, JogType, QueueType, MoveFailsToStart, jogVars
  <2>5. HistoryType'
    BY <1>2, <2>1 DEF TypeOK, HistoryType, MoveFailsToStart, StartMotionCommand
  <2>. QED
    BY <2>1, <2>2, <2>3, <2>4, <2>5 DEF TypeOK
<1>3. CASE MoveQueued(s, d)
  <2>1. s \in Seqs /\ HeadType'
    BY <1>3, RequestType DEF MoveQueued, TypeOK
  <2>2. sent' \in Seq(Frame)
    <3>1. sent' = <<Ack(s)>> \/ sent' = <<>>
      BY <1>3 DEF MoveQueued, AckMove
    <3>. QED
      BY <3>1, <2>1, FrameType, WireType
  <2>3. MotionType'
    <3>1. motionActive' \in BOOLEAN
      BY <1>3 DEF MoveQueued, AckMove
    <3>. QED
      BY <1>3, <3>1 DEF MoveQueued, TypeOK, MotionType
  <2>4. JogType'
    BY <1>3 DEF TypeOK, JogType, MoveQueued, jogVars
  <2>5. QueueType'
    BY <1>3, <2>1, RuntimeAssumption DEF TypeOK, QueueType, MoveQueued, Command, QueueFull
  <2>6. HistoryType'
    BY <1>3, <2>1 DEF TypeOK, HistoryType, MoveQueued, AckMove
  <2>. QED
    BY <2>1, <2>2, <2>3, <2>4, <2>5, <2>6 DEF TypeOK
<1>4. CASE MoveFindsQueueFull(s)
  <2>1. s \in Seqs /\ HeadType'
    BY <1>4, RequestType DEF MoveFindsQueueFull, TypeOK
  <2>2. sent' \in Seq(Frame)
    BY <1>4, <2>1, FrameType, SendingType DEF MoveFindsQueueFull
  <2>. QED
    BY <1>4, <2>1, <2>2 DEF TypeOK, MoveFindsQueueFull, MotionType, JogType, QueueType,
                            HistoryType, motionVars, jogVars, historyVars
<1>5. CASE MoveRepeated(s)
  <2>1. s \in Seqs /\ HeadType'
    BY <1>5, RequestType DEF MoveRepeated, TypeOK
  <2>2. sent' \in Seq(Frame)
    <3>1. sent' = <<Ack(s)>> \/ sent' = <<>>
      BY <1>5 DEF MoveRepeated, AckMove
    <3>. QED
      BY <3>1, <2>1, FrameType, WireType
  <2>3. MotionType'
    <3>1. motionActive' \in BOOLEAN
      BY <1>5 DEF MoveRepeated, AckMove
    <3>. QED
      BY <1>5, <3>1 DEF MoveRepeated, TypeOK, MotionType
  <2>4. JogType' /\ QueueType'
    BY <1>5 DEF TypeOK, JogType, QueueType, MoveRepeated, jogVars
  <2>5. HistoryType'
    BY <1>5, <2>1 DEF TypeOK, HistoryType, MoveRepeated, AckMove
  <2>. QED
    BY <2>1, <2>2, <2>3, <2>4, <2>5 DEF TypeOK
<1>. QED
  BY <1>1, <1>2, <1>3, <1>4, <1>5 DEF ServoMove

(* The numbers of the queued moves are sequence numbers. *)
LEMMA QueuedSeqsType ==
  ASSUME TypeOK
  PROVE  QueuedSeqs \subseteq Seqs
<1>1. \A i \in DOMAIN queue : queue[i] \in Command
  BY DEF TypeOK, QueueType
<1>. QED
  BY <1>1 DEF QueuedSeqs, Command

(* Loading the registers with a command keeps their types. *)
LEMMA StartType ==
  ASSUME TypeOK, NEW c \in Command, NEW works \in BOOLEAN, StartMotionCommand(c, works)
  PROVE  MotionType' /\ overJog' \subseteq Seqs
<1>1. c.seq \in Seqs /\ c.duration \in Durations
  BY DEF Command
<1>2. motionActive' \in BOOLEAN
  BY DEF StartMotionCommand
<1>3. motionStartedAt' \in Ticks /\ motionDuration' \in {0} \cup Durations
  BY <1>1 DEF StartMotionCommand, TypeOK, HeadType
<1>4. motionRefSeq' \in 0 .. MaxSeq
  BY <1>1, RuntimeAssumption DEF StartMotionCommand, Seqs
<1>5. overJog' \subseteq Seqs
  BY <1>1 DEF StartMotionCommand, TypeOK, HistoryType
<1>. QED
  BY <1>2, <1>3, <1>4, <1>5 DEF MotionType

(* Starting the next queued move keeps the types it touches. *)
LEMMA StartNextType ==
  ASSUME TypeOK, NEW before \in Seq(Frame), StartNextQueuedMotion(before)
  PROVE  /\ MotionType' /\ QueueType'
         /\ overJog' \subseteq Seqs
         /\ sent' \in Seq(Frame)
<1>1. CASE /\ queue = <<>>
           /\ motionActive' = FALSE
           /\ sent' = before
           /\ UNCHANGED <<motionRefSeq, motionStartedAt, motionDuration, queue, overJog>>
  BY <1>1 DEF TypeOK, MotionType, QueueType, HistoryType
<1>2. ASSUME queue # <<>>, queue' = Tail(queue), NEW works \in BOOLEAN,
             StartMotionCommand(Head(queue), works)
      PROVE  MotionType' /\ QueueType' /\ overJog' \subseteq Seqs
  <2>1. Head(queue) \in Command
    BY <1>2 DEF TypeOK, QueueType
  <2>2. QueueType'
    <3>1. Tail(queue) \in Seq(Command) /\ Len(Tail(queue)) = Len(queue) - 1
      BY <1>2 DEF TypeOK, QueueType
    <3>2. Len(queue) \in Nat /\ Len(queue) < MotionQueueDepth
      BY DEF TypeOK, QueueType
    <3>. QED
      BY <1>2, <3>1, <3>2, RuntimeAssumption DEF QueueType
  <2>. QED
    BY <1>2, <2>1, <2>2, StartType
<1>3. CASE /\ queue # <<>>
           /\ queue' = Tail(queue)
           /\ StartMotionCommand(Head(queue), TRUE)
           /\ sent' = before
  BY <1>2, <1>3
<1>4. CASE /\ queue # <<>>
           /\ queue' = Tail(queue)
           /\ StartMotionCommand(Head(queue), FALSE)
           /\ \E ok \in TxOutcomes :
                sent' = before \o Sending(Done(Head(queue).seq, "FAULT"), ok)
  <2>1. Head(queue).seq \in 0 .. MaxSeq
    <3>1. Head(queue) \in Command
      BY <1>4 DEF TypeOK, QueueType
    <3>. QED
      BY <3>1, RuntimeAssumption DEF Command, Seqs
  <2>2. Done(Head(queue).seq, "FAULT") \in Frame
    BY <2>1, FrameType DEF Results
  <2>3. sent' \in Seq(Frame)
    BY <1>4, <2>2, SendingType, WireType
  <2>. QED
    BY <1>2, <1>4, <2>3
<1>. QED
  BY <1>1, <1>3, <1>4 DEF StartNextQueuedMotion

(* Types are preserved by every request for a jog. *)
LEMMA JogReqType ==
  ASSUME TypeOK, NEW s, NEW t \in Durations, ServoJog(s, t)
  PROVE  TypeOK'
<1>1. motionRefSeq \in 0 .. MaxSeq
  BY DEF TypeOK, MotionType
<1>2. CASE JogFindsFault(s)
  <2>1. s \in Seqs /\ HeadType'
    BY <1>2, RequestType DEF JogFindsFault, TypeOK
  <2>2. sent' \in Seq(Frame)
    BY <1>1, <1>2, FrameType, SendingType DEF JogFindsFault, Results
  <2>3. MotionType' /\ QueueType'
    BY <1>2 DEF TypeOK, MotionType, QueueType, JogFindsFault, motionVars
  <2>4. JogType'
    BY <1>2 DEF TypeOK, JogType, JogFindsFault
  <2>5. HistoryType'
    BY <1>2, <2>2, CountDonesType DEF TypeOK, HistoryType, JogFindsFault
  <2>. QED
    BY <2>1, <2>2, <2>3, <2>4, <2>5 DEF TypeOK
<1>3. CASE JogCannotInterrupt(s)
  <2>1. s \in Seqs /\ HeadType'
    BY <1>3, RequestType DEF JogCannotInterrupt, TypeOK
  <2>2. JogType'
    BY <1>3 DEF TypeOK, JogType, JogCannotInterrupt, ApplyJog
  <2>3. sent' \in Seq(Frame)
    BY <1>3, WireType DEF JogCannotInterrupt
  <2>. QED
    BY <1>3, <2>1, <2>2, <2>3 DEF TypeOK, JogCannotInterrupt, MotionType, QueueType,
                                  HistoryType, motionVars, historyVars
<1>4. CASE JogStarts(s, t)
  <2>1. s \in Seqs /\ HeadType'
    BY <1>4, RequestType DEF JogStarts, TypeOK
  <2>2. sent' \in Seq(Frame) /\ jogActive' \in BOOLEAN
    <3>. DEFINE interrupted == IF motionActive
                               THEN <<Done(motionRefSeq, "INTERRUPTED")>> ELSE <<>>
    <3>1. interrupted \in Seq(Frame)
      BY <1>1, FrameType, WireType DEF Results
    <3>2. PICK ok \in TxOutcomes : /\ sent' = interrupted \o Sending(Ack(s), ok)
                                   /\ jogActive' = ok
      BY <1>4 DEF JogStarts
    <3>3. Sending(Ack(s), ok) \in Seq(Frame)
      BY <2>1, FrameType, SendingType
    <3>4. ok \in BOOLEAN
      BY DEF TxOutcomes
    <3>. QED
      BY <3>1, <3>2, <3>3, <3>4, WireType
  <2>3. MotionType'
    <3>1. motionActive' \in BOOLEAN
      BY <1>4 DEF JogStarts
    <3>2. motionRefSeq' \in 0 .. MaxSeq
      BY <1>4, <2>1 DEF JogStarts, Seqs
    <3>3. motionStartedAt' \in Ticks /\ motionDuration' \in {0} \cup Durations
      BY <1>4 DEF JogStarts, TypeOK, HeadType
    <3>. QED
      BY <3>1, <3>2, <3>3 DEF MotionType
  <2>4. JogType'
    <3>1. jogTimeoutAt' \in Ticks
      <4>1. now \in Ticks /\ t \in Nat
        BY RuntimeAssumption DEF TypeOK, HeadType
      <4>. QED
        BY <1>4, <4>1, LaterType DEF JogStarts
    <3>2. jogFresh' \in BOOLEAN
      BY <1>4 DEF JogStarts
    <3>. QED
      BY <2>2, <3>1, <3>2 DEF JogType
  <2>5. QueueType'
    BY <1>4, RuntimeAssumption DEF JogStarts, TypeOK, QueueType
  <2>6. HistoryType'
    <3>1. QueuedSeqs \subseteq Seqs
      BY QueuedSeqsType
    <3>2. doneCount' \in [Seqs -> 0 .. 2]
      BY <1>4, <2>2, CountDonesType DEF JogStarts, TypeOK, HistoryType
    <3>. QED
      BY <1>4, <3>1, <3>2 DEF JogStarts, TypeOK, HistoryType
  <2>. QED
    BY <2>1, <2>2, <2>3, <2>4, <2>5, <2>6 DEF TypeOK
<1>. QED
  BY <1>2, <1>3, <1>4 DEF ServoJog

(* Types are preserved by every request to stop. *)
LEMMA StopReqType ==
  ASSUME TypeOK, NEW s, NEW scope \in {0, 1}, ServoStop(s, scope)
  PROVE  TypeOK'
<1>1. Request(s)
  BY DEF ServoStop, StopRefused, StopUnanswered, StopNotReported, StopTaken
<1>2. s \in Seqs /\ HeadType'
  BY <1>1, RequestType DEF TypeOK
<1>3. (ApplyJog \/ UNCHANGED jogFresh) => jogFresh' \in BOOLEAN
  BY DEF ApplyJog, TypeOK, JogType
<1>4. QueuedSeqs \subseteq Seqs
  BY QueuedSeqsType
<1>5. CASE StopRefused(s)
  <2>1. sent' \in Seq(Frame)
    BY <1>2, <1>5, FrameType, SendingType DEF StopRefused
  <2>2. JogType'
    BY <1>3, <1>5 DEF StopRefused, TypeOK, JogType
  <2>. QED
    BY <1>2, <1>5, <2>1, <2>2 DEF TypeOK, StopRefused, MotionType, QueueType, HistoryType,
                                  motionVars, historyVars
<1>6. CASE StopUnanswered(s)
  <2>1. sent' \in Seq(Frame)
    BY <1>6, WireType DEF StopUnanswered
  <2>2. JogType'
    BY <1>3, <1>6 DEF StopUnanswered, TypeOK, JogType
  <2>. QED
    BY <1>2, <1>6, <2>1, <2>2 DEF TypeOK, StopUnanswered, MotionType, QueueType, HistoryType,
                                  motionVars, historyVars
<1>7. CASE StopNotReported(s, scope)
  <2>1. sent' \in Seq(Frame)
    BY <1>2, <1>7, FrameType, WireType DEF StopNotReported
  <2>2. JogType'
    BY <1>3, <1>7 DEF StopNotReported, TypeOK, JogType
  <2>3. QueueType'
    BY <1>7, RuntimeAssumption DEF StopNotReported, StopKeeps, TypeOK, QueueType
  <2>4. HistoryType'
    BY <1>4, <1>7 DEF StopNotReported, StopFlushes, TypeOK, HistoryType
  <2>. QED
    BY <1>2, <1>7, <2>1, <2>2, <2>3, <2>4 DEF TypeOK, StopNotReported, MotionType, motionVars
<1>8. CASE StopTaken(s, scope)
  <2>. DEFINE replies == <<Ack(s)>> \o
         (IF motionActive \/ jogActive THEN <<Done(motionRefSeq, "STOPPED")>> ELSE <<>>)
  <2>1. replies \in Seq(Frame)
    <3>1. Ack(s) \in Frame /\ Done(motionRefSeq, "STOPPED") \in Frame
      BY <1>2, FrameType DEF TypeOK, MotionType, Results
    <3>. QED
      BY <3>1, WireType
  <2>2. MotionType' /\ QueueType' /\ overJog' \subseteq Seqs /\ sent' \in Seq(Frame)
    <3>1. CASE scope = 0 /\ StartNextQueuedMotion(replies)
      BY <2>1, <3>1, StartNextType
    <3>2. CASE /\ scope = 1
               /\ motionActive' = FALSE
               /\ queue' = <<>>
               /\ sent' = replies
               /\ UNCHANGED <<motionRefSeq, motionStartedAt, motionDuration, overJog>>
      <4>1. MotionType'
        BY <3>2 DEF TypeOK, MotionType
      <4>2. QueueType'
        BY <3>2, RuntimeAssumption DEF QueueType
      <4>. QED
        BY <2>1, <3>2, <4>1, <4>2 DEF TypeOK, HistoryType
    <3>. QED
      BY <1>8, <3>1, <3>2 DEF StopTaken
  <2>3. JogType'
    BY <1>3, <1>8 DEF StopTaken, TypeOK, JogType
  <2>4. HistoryType'
    <3>1. doneCount' \in [Seqs -> 0 .. 2]
      BY <1>8, <2>2, CountDonesType DEF StopTaken, TypeOK, HistoryType
    <3>. QED
      BY <1>4, <1>8, <2>2, <3>1 DEF StopTaken, StopFlushes, TypeOK, HistoryType
  <2>. QED
    BY <1>2, <2>2, <2>3, <2>4 DEF TypeOK
<1>. QED
  BY <1>5, <1>6, <1>7, <1>8 DEF ServoStop

(* Types are preserved by the poll. *)
LEMMA PollType ==
  ASSUME TypeOK, Poll
  PROVE  TypeOK'
<1>1. HeadType'
  BY DEF Poll, TypeOK, HeadType
<1>2. motionRefSeq \in 0 .. MaxSeq
  BY DEF TypeOK, MotionType
<1>3. ApplyJog => jogFresh' \in BOOLEAN
  BY DEF ApplyJog, TypeOK, JogType
<1>4. CASE PollJogFaults
  <2>1. sent' \in Seq(Frame)
    BY <1>2, <1>4, FrameType, SendingType DEF PollJogFaults, Results
  <2>2. JogType'
    BY <1>4 DEF TypeOK, JogType, PollJogFaults
  <2>3. HistoryType'
    BY <1>4, <2>1, CountDonesType DEF TypeOK, HistoryType, PollJogFaults
  <2>. QED
    BY <1>1, <1>4, <2>1, <2>2, <2>3 DEF TypeOK, PollJogFaults, MotionType, QueueType, motionVars
<1>5. CASE PollJogTimeoutLost
  <2>1. sent' \in Seq(Frame)
    BY <1>5, WireType DEF PollJogTimeoutLost
  <2>2. JogType'
    BY <1>3, <1>5 DEF TypeOK, JogType, PollJogTimeoutLost
  <2>. QED
    BY <1>1, <1>5, <2>1, <2>2 DEF TypeOK, PollJogTimeoutLost, MotionType, QueueType,
                                  HistoryType, motionVars, historyVars
<1>6. CASE PollStages
  <2>1. PICK frames \in {<<>>, <<Done(motionRefSeq, "STOPPED")>>} :
          PollJogStage(frames) /\ PollMotionStage(frames)
    BY <1>6 DEF PollStages
  <2>2. frames \in Seq(Frame)
    <3>1. Done(motionRefSeq, "STOPPED") \in Frame
      BY <1>2, FrameType DEF Results
    <3>. QED
      BY <2>1, <3>1, WireType
  <2>3. JogType'
    <3>1. jogActive' \in BOOLEAN
      BY <2>1 DEF PollJogStage
    <3>2. jogFresh' \in BOOLEAN /\ jogTimeoutAt' \in Ticks
      BY <1>3, <2>1 DEF PollJogStage, TypeOK, JogType
    <3>. QED
      BY <3>1, <3>2 DEF JogType
  <2>4. MotionType' /\ QueueType' /\ overJog' \subseteq Seqs /\ sent' \in Seq(Frame)
    <3>1. CASE PollMotionRuns(frames) \/ PollMotionNotReported(frames)
      BY <2>2, <3>1 DEF PollMotionRuns, PollMotionNotReported, TypeOK, MotionType, QueueType,
                        HistoryType, motionVars
    <3>2. CASE PollMotionFaults(frames)
      <4>1. Done(motionRefSeq, "FAULT") \in Frame
        BY <1>2, FrameType DEF Results
      <4>2. sent' \in Seq(Frame)
        BY <2>2, <3>2, <4>1, SendingType, WireType DEF PollMotionFaults
      <4>. QED
        BY <3>2, <4>2 DEF PollMotionFaults, TypeOK, MotionType, QueueType, HistoryType
    <3>3. CASE PollMotionCompletes(frames)
      <4>1. Done(motionRefSeq, "SUCCESS") \in Frame
        BY <1>2, FrameType DEF Results
      <4>2. frames \o <<Done(motionRefSeq, "SUCCESS")>> \in Seq(Frame)
        BY <2>2, <4>1, WireType
      <4>. QED
        BY <3>3, <4>2, StartNextType DEF PollMotionCompletes
    <3>. QED
      BY <2>1, <3>1, <3>2, <3>3 DEF PollMotionStage
  <2>5. HistoryType'
    <3>1. doneCount' \in [Seqs -> 0 .. 2]
      BY <1>6, <2>4, CountDonesType DEF PollStages, TypeOK, HistoryType
    <3>. QED
      BY <1>6, <2>4, <3>1 DEF PollStages, TypeOK, HistoryType
  <2>. QED
    BY <1>1, <2>3, <2>4, <2>5 DEF TypeOK
<1>. QED
  BY <1>4, <1>5, <1>6 DEF Poll

(* The initial state has the right types. *)
LEMMA TypeInit ==
  ASSUME Init
  PROVE  TypeOK
<1>1. MotionType /\ JogType /\ HeadType
  <2>1. 0 \in Ticks /\ 0 \in 0 .. MaxSeq /\ 1 \in 1 .. MaxSeq + 1
    BY RuntimeAssumption DEF Ticks
  <2>2. MotionType
    BY <2>1 DEF Init, MotionType
  <2>3. JogType
    BY <2>1 DEF Init, JogType
  <2>4. HeadType
    BY <2>1 DEF Init, HeadType
  <2>. QED
    BY <2>2, <2>3, <2>4
<1>2. QueueType
  <2>1. queue = <<>> /\ 0 < MotionQueueDepth
    BY RuntimeAssumption DEF Init
  <2>2. <<>> \in Seq(Command) /\ Len(<<>>) = 0
    OBVIOUS
  <2>. QED
    BY <2>1, <2>2 DEF QueueType
<1>3. HistoryType
  BY DEF Init, HistoryType
<1>4. sent \in Seq(Frame)
  BY WireType DEF Init
<1>. QED
  BY <1>1, <1>2, <1>3, <1>4 DEF TypeOK

(* The runtime's variables stay in their ranges; in particular the ring of *)
(* waiting moves never overruns its slots.                                 *)
THEOREM TypeCorrect == Spec => []TypeOK
<1>1. Init => TypeOK
  BY TypeInit
<1>2. TypeOK /\ [Next]_vars => TypeOK'
  <2>. SUFFICES ASSUME TypeOK, [Next]_vars PROVE TypeOK'
    OBVIOUS
  <2>1. CASE Tick
    <3>1. sent' \in Seq(Frame)
      BY <2>1, WireType DEF Tick
    <3>2. HeadType'
      BY <2>1, LaterType DEF Tick, TypeOK, HeadType
    <3>3. JogType'
      BY <2>1 DEF Tick, TypeOK, JogType
    <3>. QED
      BY <2>1, <3>1, <3>2, <3>3 DEF Tick, TypeOK, MotionType, QueueType, HistoryType,
                                    motionVars, historyVars
  <2>2. CASE Poll
    BY <2>2, PollType
  <2>3. ASSUME NEW s \in Seqs, RejectRequest(s) PROVE TypeOK'
    <3>1. s \in Seqs /\ HeadType'
      BY <2>3, RequestType DEF RejectRequest, TypeOK
    <3>2. sent' \in Seq(Frame)
      BY <2>3, <3>1, FrameType, SendingType DEF RejectRequest
    <3>. QED
      BY <2>3, <3>1, <3>2 DEF RejectRequest, TypeOK, MotionType, JogType, QueueType, HistoryType,
                              motionVars, jogVars, historyVars
  <2>4. CASE UNCHANGED vars
    BY <2>4 DEF vars, TypeOK, MotionType, JogType, QueueType, HeadType, HistoryType
  <2>. QED
    BY <2>1, <2>2, <2>3, <2>4, MoveType, JogReqType, StopReqType DEF Next
<1>. QED
  BY <1>1, <1>2, PTL DEF Spec

-----------------------------------------------------------------------------
(* Numbers in use were issued.  With QueueInOrder and NoStrandedMove this  *)
(* makes the queue's order inductive.                                      *)
NumbersIssued ==
  /\ motionRefSeq < nextSeq
  /\ \A i \in DOMAIN queue : queue[i].seq < nextSeq

(* The order of the queue.  A step changes the queue and the number in     *)
(* motionRefSeq in one of four ways.                                       *)

Issued(s) == s \in Seqs /\ s < nextSeq' /\ (s >= nextSeq \/ SeqReuse)

Keeps    == motionRefSeq' = motionRefSeq /\ queue' \in {queue, <<>>}
Takes(s) == /\ Issued(s)
            /\ motionRefSeq' = s
            /\ queue' = <<>> \/ (queue' = queue /\ ~motionActive)
Adds(s)  == /\ Issued(s)
            /\ motionRefSeq' = motionRefSeq
            /\ \E d \in Durations : queue' = Append(queue, [seq |-> s, duration |-> d])
Pops     == /\ queue # <<>>
            /\ queue' = Tail(queue)
            /\ motionRefSeq' = Head(queue).seq

QueueStep ==
  /\ nextSeq <= nextSeq'
  /\ \/ Keeps
     \/ \E s \in Seqs : Takes(s) \/ Adds(s)
     \/ Pops

(* Starting the next queued move pops the queue or finds it empty. *)
LEMMA StartNextStep ==
  ASSUME NEW before, StartNextQueuedMotion(before)
  PROVE  Keeps \/ Pops
BY DEF StartNextQueuedMotion, StartMotionCommand, Keeps, Pops

(* A request issues the number it carries. *)
LEMMA RequestIssues ==
  ASSUME TypeOK, NEW s, Request(s)
  PROVE  Issued(s) /\ nextSeq <= nextSeq'
BY RequestType DEF TypeOK, Issued, Request

(* Every step is one of the four. *)
LEMMA NextQueueStep ==
  ASSUME TypeOK, [Next]_vars
  PROVE  QueueStep
<1>1. nextSeq \in Nat
  BY DEF TypeOK, HeadType
<1>2. CASE Tick
  BY <1>1, <1>2 DEF Tick, motionVars, QueueStep, Keeps
<1>3. CASE UNCHANGED vars
  BY <1>1, <1>3 DEF vars, QueueStep, Keeps
<1>4. CASE Poll
  <2>1. nextSeq <= nextSeq'
    BY <1>1, <1>4 DEF Poll
  <2>2. CASE PollJogFaults \/ PollJogTimeoutLost
    BY <2>1, <2>2 DEF PollJogFaults, PollJogTimeoutLost, motionVars, QueueStep, Keeps
  <2>3. CASE PollStages
    <3>1. PICK frames : PollMotionStage(frames)
      BY <2>3 DEF PollStages
    <3>2. Keeps \/ Pops
      BY <3>1, StartNextStep DEF PollMotionStage, PollMotionRuns, PollMotionFaults,
           PollMotionNotReported, PollMotionCompletes, motionVars, Keeps
    <3>. QED
      BY <2>1, <3>2 DEF QueueStep
  <2>. QED
    BY <1>4, <2>2, <2>3 DEF Poll
<1>5. ASSUME NEW s \in Seqs, RejectRequest(s) PROVE QueueStep
  BY <1>5, RequestIssues DEF RejectRequest, motionVars, QueueStep, Keeps
<1>6. ASSUME NEW s \in Seqs, NEW d \in Durations, ServoMove(s, d) PROVE QueueStep
  <2>1. Issued(s) /\ nextSeq <= nextSeq'
    BY <1>6, RequestIssues DEF ServoMove, MoveStarts, MoveFailsToStart, MoveQueued,
         MoveFindsQueueFull, MoveRepeated
  <2>2. CASE MoveStarts(s, d) \/ MoveFailsToStart(s, d)
    BY <2>1, <2>2 DEF MoveStarts, MoveFailsToStart, StartMotionCommand, QueueStep, Takes
  <2>3. CASE MoveQueued(s, d)
    BY <2>1, <2>3 DEF MoveQueued, QueueStep, Adds
  <2>4. CASE MoveFindsQueueFull(s) \/ MoveRepeated(s)
    BY <2>1, <2>4 DEF MoveFindsQueueFull, MoveRepeated, motionVars, QueueStep, Keeps
  <2>. QED
    BY <1>6, <2>2, <2>3, <2>4 DEF ServoMove
<1>7. ASSUME NEW s \in Seqs, NEW t \in Durations, ServoJog(s, t) PROVE QueueStep
  <2>1. Issued(s) /\ nextSeq <= nextSeq'
    BY <1>7, RequestIssues DEF ServoJog, JogFindsFault, JogCannotInterrupt, JogStarts
  <2>2. CASE JogFindsFault(s) \/ JogCannotInterrupt(s)
    BY <2>1, <2>2 DEF JogFindsFault, JogCannotInterrupt, motionVars, QueueStep, Keeps
  <2>3. CASE JogStarts(s, t)
    BY <2>1, <2>3 DEF JogStarts, QueueStep, Takes
  <2>. QED
    BY <1>7, <2>2, <2>3 DEF ServoJog
<1>8. ASSUME NEW s \in Seqs, NEW scope \in {0, 1}, ServoStop(s, scope) PROVE QueueStep
  <2>1. Issued(s) /\ nextSeq <= nextSeq'
    BY <1>8, RequestIssues DEF ServoStop, StopRefused, StopUnanswered, StopNotReported, StopTaken
  <2>2. CASE StopRefused(s) \/ StopUnanswered(s) \/ StopNotReported(s, scope)
    BY <2>1, <2>2 DEF StopRefused, StopUnanswered, StopNotReported, StopKeeps, motionVars,
         QueueStep, Keeps
  <2>3. CASE StopTaken(s, scope)
    <3>1. Keeps \/ Pops
      BY <2>3, StartNextStep DEF StopTaken, Keeps
    <3>. QED
      BY <2>1, <3>1 DEF QueueStep
  <2>. QED
    BY <1>8, <2>2, <2>3 DEF ServoStop
<1>. QED
  BY <1>2, <1>3, <1>4, <1>5, <1>6, <1>7, <1>8 DEF Next

(* Only a servo fault, or a lost ACK for a number used twice, ends the     *)
(* active move without emptying or advancing the queue behind it.          *)
LEMMA NextKeepsActive ==
  ASSUME TypeOK, NumbersIssued, NoStrandedMove, [Next]_vars
  PROVE  NoStrandedMove'
<1>. SUFFICES ASSUME ~ServoFaults, ~(SeqReuse /\ TxFaults), queue' # <<>>
              PROVE  motionActive'
  BY DEF NoStrandedMove
<1>1. queue # <<>> => motionActive
  BY DEF NoStrandedMove
<1>2. ASSUME NEW before, StartNextQueuedMotion(before) PROVE motionActive'
  BY <1>2 DEF StartNextQueuedMotion, StartMotionCommand
<1>3. CASE Tick
  BY <1>1, <1>3 DEF Tick, motionVars
<1>4. CASE UNCHANGED vars
  BY <1>1, <1>4 DEF vars
<1>5. CASE Poll
  <2>1. CASE PollJogFaults
    BY <2>1 DEF PollJogFaults, JogApplyFails
  <2>2. CASE PollJogTimeoutLost
    BY <1>1, <2>2 DEF PollJogTimeoutLost, motionVars
  <2>3. CASE PollStages
    <3>1. PICK frames : PollMotionStage(frames)
      BY <2>3 DEF PollStages
    <3>. QED
      BY <1>1, <1>2, <3>1 DEF PollMotionStage, PollMotionRuns, PollMotionFaults, MotionApplyFails,
           PollMotionNotReported, PollMotionCompletes, motionVars
  <2>. QED
    BY <1>5, <2>1, <2>2, <2>3 DEF Poll
<1>6. ASSUME NEW s \in Seqs, RejectRequest(s) PROVE motionActive'
  BY <1>1, <1>6 DEF RejectRequest, motionVars
<1>7. ASSUME NEW s \in Seqs, NEW d \in Durations, ServoMove(s, d) PROVE motionActive'
  <2>1. CASE MoveStarts(s, d)
    BY <1>1, <2>1 DEF MoveStarts
  <2>2. CASE MoveFailsToStart(s, d)
    BY <2>2 DEF MoveFailsToStart, StartMotionCommand
  <2>3. CASE MoveQueued(s, d)
    BY <2>3 DEF MoveQueued, AckMove
  <2>4. CASE MoveFindsQueueFull(s)
    BY <2>4 DEF MoveFindsQueueFull, motionVars
  <2>5. CASE MoveRepeated(s)
    <3>1. s < nextSeq
      BY <2>5 DEF MoveRepeated, NumbersIssued
    <3>2. SeqReuse
      BY <2>5, <3>1, RequestType DEF MoveRepeated, TypeOK
    <3>. QED
      BY <2>5, <3>2 DEF MoveRepeated, AckMove
  <2>. QED
    BY <1>7, <2>1, <2>2, <2>3, <2>4, <2>5 DEF ServoMove
<1>8. ASSUME NEW s \in Seqs, NEW t \in Durations, ServoJog(s, t) PROVE motionActive'
  BY <1>1, <1>8 DEF ServoJog, JogFindsFault, JogApplyFails, JogCannotInterrupt,
     JogStarts, motionVars
<1>9. ASSUME NEW s \in Seqs, NEW scope \in {0, 1}, ServoStop(s, scope) PROVE motionActive'
  <2>1. CASE StopRefused(s)
    BY <2>1 DEF StopRefused
  <2>2. CASE StopUnanswered(s)
    BY <1>1, <2>2 DEF StopUnanswered, motionVars
  <2>3. CASE StopNotReported(s, scope)
    BY <1>1, <2>3 DEF StopNotReported, StopKeeps, motionVars
  <2>4. CASE StopTaken(s, scope)
    BY <1>2, <2>4 DEF StopTaken
  <2>. QED
    BY <1>9, <2>1, <2>2, <2>3, <2>4 DEF ServoStop
<1>. QED
  BY <1>3, <1>4, <1>5, <1>6, <1>7, <1>8, <1>9 DEF Next

(* The inductive invariant of the queue's order. *)
OrderInv == TypeOK /\ NumbersIssued /\ NoStrandedMove /\ QueueInOrder

(* What the queue holds, as plain facts about numbers. *)
LEMMA QueueFacts ==
  ASSUME TypeOK
  PROVE  /\ nextSeq \in Nat /\ motionRefSeq \in Nat
         /\ Len(queue) \in Nat /\ DOMAIN queue = 1 .. Len(queue)
         /\ \A i \in DOMAIN queue : queue[i].seq \in Nat
<1>1. \A i \in DOMAIN queue : queue[i] \in Command
  BY DEF TypeOK, QueueType
<1>2. \A i \in DOMAIN queue : queue[i].seq \in Nat
  BY <1>1, RuntimeAssumption DEF Command, Seqs
<1>3. Len(queue) \in Nat /\ DOMAIN queue = 1 .. Len(queue)
  BY DEF TypeOK, QueueType
<1>4. nextSeq \in Nat /\ motionRefSeq \in Nat
  BY RuntimeAssumption DEF TypeOK, HeadType, MotionType
<1>. QED
  BY <1>2, <1>3, <1>4

(* Appending a number: the queue keeps its entries and gains one. *)
LEMMA AddedEntries ==
  ASSUME TypeOK, NEW s, Adds(s)
  PROVE  /\ DOMAIN queue' = 1 .. Len(queue) + 1
         /\ \A i \in 1 .. Len(queue) : queue'[i].seq = queue[i].seq
         /\ queue'[Len(queue) + 1].seq = s
<1>1. queue \in Seq(Command)
  BY DEF TypeOK, QueueType
<1>2. PICK d \in Durations : queue' = Append(queue, [seq |-> s, duration |-> d])
  BY DEF Adds
<1>. QED
  BY <1>1, <1>2

(* Popping: the remaining entries move one place up. *)
LEMMA PoppedEntries ==
  ASSUME TypeOK, Pops
  PROVE  /\ 1 \in DOMAIN queue /\ motionRefSeq' = queue[1].seq
         /\ DOMAIN queue' = 1 .. Len(queue) - 1
         /\ \A i \in DOMAIN queue' : i + 1 \in DOMAIN queue /\ queue'[i].seq = queue[i + 1].seq
<1>1. queue \in Seq(Command) /\ queue # <<>>
  BY DEF TypeOK, QueueType, Pops
<1>2. queue' = Tail(queue) /\ motionRefSeq' = Head(queue).seq
  BY DEF Pops
<1>. QED
  BY <1>1, <1>2

(* Numbers in the queue and in motionRefSeq stay below the next number.    *)
LEMMA NextKeepsIssued ==
  ASSUME TypeOK, TypeOK', NumbersIssued, QueueStep
  PROVE  NumbersIssued'
<1>1. nextSeq \in Nat /\ nextSeq' \in Nat /\ nextSeq <= nextSeq' /\ motionRefSeq < nextSeq
  BY QueueFacts, RuntimeAssumption DEF QueueStep, NumbersIssued, TypeOK, HeadType
<1>2. \A i \in DOMAIN queue : queue[i].seq \in Nat /\ queue[i].seq < nextSeq'
  BY <1>1, QueueFacts DEF NumbersIssued
<1>3. motionRefSeq < nextSeq'
  BY <1>1, QueueFacts
<1>4. CASE Keeps
  BY <1>2, <1>3, <1>4 DEF Keeps, NumbersIssued
<1>5. ASSUME NEW s \in Seqs, Takes(s) PROVE NumbersIssued'
  BY <1>2, <1>5 DEF Takes, Issued, NumbersIssued
<1>6. ASSUME NEW s \in Seqs, Adds(s) PROVE NumbersIssued'
  <2>1. s < nextSeq' /\ motionRefSeq' = motionRefSeq
    BY <1>6 DEF Adds, Issued
  <2>. QED
    BY <1>2, <1>3, <1>6, <2>1, AddedEntries, QueueFacts DEF NumbersIssued
<1>7. CASE Pops
  BY <1>2, <1>7, PoppedEntries DEF NumbersIssued
<1>. QED
  BY <1>4, <1>5, <1>6, <1>7 DEF QueueStep

(* The queue stays sorted, above motionRefSeq. *)
LEMMA NextKeepsOrder ==
  ASSUME OrderInv, TypeOK', QueueStep
  PROVE  QueueInOrder'
<1>. SUFFICES ASSUME ~ServoFaults, ~SeqReuse
              PROVE  /\ \A i, j \in DOMAIN queue' : i < j => queue'[i].seq < queue'[j].seq
                     /\ \A i \in DOMAIN queue' : motionRefSeq' < queue'[i].seq
  BY DEF QueueInOrder
<1>. USE DEF OrderInv
<1>1. /\ \A i, j \in DOMAIN queue : i < j => queue[i].seq < queue[j].seq
      /\ \A i \in DOMAIN queue : motionRefSeq < queue[i].seq
      /\ queue # <<>> => motionActive
  BY DEF QueueInOrder, NoStrandedMove
<1>2. CASE Keeps
  BY <1>1, <1>2 DEF Keeps
<1>3. ASSUME NEW s \in Seqs, Takes(s) PROVE queue' = <<>>
  BY <1>1, <1>3 DEF Takes
<1>4. ASSUME NEW s \in Seqs, Adds(s)
      PROVE  /\ \A i, j \in DOMAIN queue' : i < j => queue'[i].seq < queue'[j].seq
             /\ \A i \in DOMAIN queue' : motionRefSeq' < queue'[i].seq
  <2>1. s >= nextSeq /\ motionRefSeq' = motionRefSeq
    BY <1>4 DEF Adds, Issued
  <2>2. \A i \in DOMAIN queue : queue[i].seq < s
    BY <2>1, QueueFacts, RuntimeAssumption DEF NumbersIssued, Seqs
  <2>3. motionRefSeq < s
    BY <2>1, QueueFacts, RuntimeAssumption DEF NumbersIssued, Seqs
  <2>4. /\ Len(queue) \in Nat /\ DOMAIN queue = 1 .. Len(queue)
        /\ DOMAIN queue' = 1 .. Len(queue) + 1
    BY <1>4, AddedEntries, QueueFacts
  <2>5. /\ \A i \in DOMAIN queue : queue'[i].seq = queue[i].seq
        /\ queue'[Len(queue) + 1].seq = s
    BY <1>4, <2>4, AddedEntries
  <2>6. \A i \in DOMAIN queue' : i \in DOMAIN queue \/ i = Len(queue) + 1
    BY <2>4
  <2>7. ASSUME NEW i \in DOMAIN queue', NEW j \in DOMAIN queue', i < j
        PROVE  queue'[i].seq < queue'[j].seq
    <3>1. i \in DOMAIN queue
      BY <2>4, <2>6, <2>7
    <3>2. queue'[i].seq = queue[i].seq
      BY <2>5, <3>1
    <3>3. CASE j \in DOMAIN queue
      BY <1>1, <2>5, <2>7, <3>1, <3>2, <3>3
    <3>4. CASE j = Len(queue) + 1
      BY <2>2, <2>5, <3>1, <3>2, <3>4
    <3>. QED
      BY <2>6, <3>3, <3>4
  <2>8. ASSUME NEW i \in DOMAIN queue' PROVE motionRefSeq' < queue'[i].seq
    BY <1>1, <2>1, <2>3, <2>5, <2>6
  <2>. QED
    BY <2>7, <2>8
<1>5. ASSUME Pops
      PROVE  /\ \A i, j \in DOMAIN queue' : i < j => queue'[i].seq < queue'[j].seq
             /\ \A i \in DOMAIN queue' : motionRefSeq' < queue'[i].seq
  <2>1. /\ 1 \in DOMAIN queue /\ motionRefSeq' = queue[1].seq
        /\ DOMAIN queue' = 1 .. Len(queue) - 1 /\ Len(queue) \in Nat
    BY <1>5, PoppedEntries, QueueFacts
  <2>2. \A i \in DOMAIN queue' : i + 1 \in DOMAIN queue /\ queue'[i].seq = queue[i + 1].seq
    BY <1>5, PoppedEntries
  <2>3. ASSUME NEW i \in DOMAIN queue', NEW j \in DOMAIN queue', i < j
        PROVE  queue'[i].seq < queue'[j].seq
    <3>1. i + 1 < j + 1
      BY <2>1, <2>3
    <3>. QED
      BY <1>1, <2>2, <3>1
  <2>4. ASSUME NEW i \in DOMAIN queue' PROVE motionRefSeq' < queue'[i].seq
    <3>1. 1 < i + 1
      BY <2>1
    <3>. QED
      BY <1>1, <2>1, <2>2, <3>1
  <2>. QED
    BY <2>3, <2>4
<1>. QED
  BY <1>2, <1>3, <1>4, <1>5 DEF QueueStep

(* Accepted moves wait in the order they were issued, and never without an *)
(* active move in front of them, whatever the UART refuses.                *)
THEOREM QueueOrdered == Spec => []OrderInv
<1>1. Init => NumbersIssued /\ NoStrandedMove /\ QueueInOrder
  BY DEF Init, NumbersIssued, NoStrandedMove, QueueInOrder
<1>2. OrderInv /\ TypeOK' /\ [Next]_vars => NumbersIssued' /\ NoStrandedMove' /\ QueueInOrder'
  BY NextQueueStep, NextKeepsActive, NextKeepsIssued, NextKeepsOrder DEF OrderInv
<1>. QED
  BY <1>1, <1>2, TypeCorrect, PTL DEF Spec, OrderInv

(* The invariants the runs check. *)
COROLLARY NeverStranded == Spec => []NoStrandedMove
<1>1. OrderInv => NoStrandedMove
  BY DEF OrderInv
<1>. QED
  BY <1>1, QueueOrdered, PTL

COROLLARY AlwaysInOrder == Spec => []QueueInOrder
<1>1. OrderInv => QueueInOrder
  BY DEF OrderInv
<1>. QED
  BY <1>1, QueueOrdered, PTL

(* No accepted move is overtaken: the number in motionRefSeq never goes    *)
(* back while servos work and the head does not restart.                   *)
THEOREM NeverOvertaken == Spec => StartsInOrder
<1>1. ASSUME OrderInv, [Next]_vars, ~ServoFaults, ~SeqReuse
      PROVE  motionRefSeq' >= motionRefSeq
  <2>1. TypeOK /\ QueueStep
    BY <1>1, NextQueueStep DEF OrderInv
  <2>2. CASE Keeps
    BY <2>1, <2>2, QueueFacts DEF Keeps
  <2>3. ASSUME NEW s \in Seqs, Takes(s) PROVE motionRefSeq' >= motionRefSeq
    BY <1>1, <2>1, <2>3, QueueFacts, RuntimeAssumption
       DEF Takes, Issued, OrderInv, NumbersIssued, Seqs
  <2>4. ASSUME NEW s \in Seqs, Adds(s) PROVE motionRefSeq' >= motionRefSeq
    BY <2>1, <2>4, QueueFacts DEF Adds
  <2>5. CASE Pops
    BY <1>1, <2>1, <2>5, PoppedEntries, QueueFacts DEF OrderInv, QueueInOrder
  <2>. QED
    BY <2>1, <2>2, <2>3, <2>4, <2>5 DEF QueueStep
<1>2. OrderInv /\ [Next]_vars => [NeverOvertakes]_vars
  BY <1>1, Zenon DEF NeverOvertakes
<1>. QED
  BY <1>2, QueueOrdered, PTL DEF Spec, StartsInOrder

-----------------------------------------------------------------------------
(* Acknowledged moves are accounted for. *)

Reported(s, frames) == \E i \in DOMAIN frames : frames[i].kind = "DONE" /\ frames[i].ref = s

(* A report is found again in every longer sequence of frames. *)
LEMMA ReportedIn ==
  ASSUME NEW s, NEW p \in Seq(Frame), NEW q \in Seq(Frame)
  PROVE  Reported(s, p) \/ Reported(s, q) => Reported(s, p \o q)
<1>1. ASSUME NEW i \in DOMAIN p, p[i].kind = "DONE", p[i].ref = s PROVE Reported(s, p \o q)
  <2>1. i \in DOMAIN (p \o q) /\ (p \o q)[i] = p[i]
    OBVIOUS
  <2>. QED
    BY <1>1, <2>1 DEF Reported
<1>2. ASSUME NEW i \in DOMAIN q, q[i].kind = "DONE", q[i].ref = s PROVE Reported(s, p \o q)
  <2>1. Len(p) + i \in DOMAIN (p \o q) /\ (p \o q)[Len(p) + i] = q[i]
    OBVIOUS
  <2>. QED
    BY <1>2, <2>1 DEF Reported
<1>. QED
  BY <1>1, <1>2 DEF Reported

(* One frame that reports s. *)
LEMMA DoneReports ==
  ASSUME NEW s, NEW result
  PROVE  Reported(s, <<Done(s, result)>>) /\ Reported(s, Sending(Done(s, result), TRUE))
<1>1. 1 \in DOMAIN <<Done(s, result)>> /\ <<Done(s, result)>>[1] = Done(s, result)
  OBVIOUS
<1>2. Done(s, result).kind = "DONE" /\ Done(s, result).ref = s
  BY DEF Done
<1>. QED
  BY <1>1, <1>2 DEF Reported, Sending

(* What is reported is counted, and counts never go back. *)
LEMMA ReportsCount ==
  ASSUME doneCount \in [Seqs -> 0 .. 2], sent' \in Seq(Frame), CountDones, NEW s \in Seqs
  PROVE  doneCount[s] > 0 \/ Reported(s, sent') => doneCount'[s] > 0
<1>. DEFINE D == {i \in DOMAIN sent' : sent'[i].kind = "DONE" /\ sent'[i].ref = s}
<1>1. DonesFor(s, sent') \in Nat /\ doneCount[s] \in 0 .. 2
  BY DonesForNat
<1>2. Reported(s, sent') => DonesFor(s, sent') > 0
  <2>1. IsFiniteSet(1 .. Len(sent')) /\ D \subseteq 1 .. Len(sent')
    BY FS_Interval
  <2>2. IsFiniteSet(D)
    BY <2>1, FS_Subset
  <2>3. Cardinality(D) = 0 => D = {}
    BY <2>2, FS_EmptySet
  <2>4. Reported(s, sent') => D # {}
    BY DEF Reported
  <2>. QED
    BY <1>1, <2>3, <2>4 DEF DonesFor
<1>. QED
  BY <1>1, <1>2 DEF CountDones

Covered(s) == \/ motionActive /\ motionRefSeq = s
              \/ IsQueued(s)
              \/ doneCount[s] > 0
              \/ s \in flushed

OneFault == ~SeqReuse /\ ~(ServoFaults /\ TxFaults)

(* Numbers that were acknowledged were issued; a repeated number can then  *)
(* not be the active move's.                                               *)
LostInv == TypeOK /\ NumbersIssued /\ NoMoveLost

(* A move that was queued is, after the next one was started, still queued *)
(* or active, or it could not be started and is reported.                  *)
LEMMA StartNextCovers ==
  ASSUME TypeOK, OneFault, NEW before \in Seq(Frame), StartNextQueuedMotion(before),
         NEW s \in Seqs, IsQueued(s)
  PROVE  (motionActive' /\ motionRefSeq' = s) \/ IsQueued(s)' \/ Reported(s, sent')
<1>1. queue \in Seq(Command)
  BY DEF TypeOK, QueueType
<1>2. PICK i \in DOMAIN queue : queue[i].seq = s
  BY DEF IsQueued
<1>3. queue # <<>>
  BY <1>1, <1>2
<1>4. queue' = Tail(queue)
  BY <1>3 DEF StartNextQueuedMotion
<1>5. CASE i # 1
  <2>1. i - 1 \in DOMAIN Tail(queue) /\ Tail(queue)[i - 1] = queue[i]
    BY <1>1, <1>2, <1>5
  <2>. QED
    BY <1>2, <1>4, <2>1 DEF IsQueued
<1>6. CASE i = 1
  <2>1. Head(queue).seq = s
    BY <1>1, <1>2, <1>3, <1>6
  <2>2. CASE StartMotionCommand(Head(queue), TRUE)
    BY <2>1, <2>2 DEF StartMotionCommand
  <2>3. ASSUME StartMotionCommand(Head(queue), FALSE), NEW ok \in TxOutcomes,
               sent' = before \o Sending(Done(Head(queue).seq, "FAULT"), ok)
        PROVE  Reported(s, sent')
    <3>1. ok = TRUE
      BY <2>3 DEF StartMotionCommand, OneFault, TxOutcomes
    <3>2. Done(s, "FAULT") \in Frame
      BY FrameType, RuntimeAssumption DEF Results, Seqs
    <3>3. Sending(Done(s, "FAULT"), ok) \in Seq(Frame)
      BY <3>2, SendingType
    <3>. QED
      BY <2>1, <2>3, <3>1, <3>3, DoneReports, ReportedIn
  <2>. QED
    BY <1>3, <2>2, <2>3 DEF StartNextQueuedMotion
<1>. QED
  BY <1>5, <1>6

(* A step that acknowledges nothing, changes neither the queue nor the     *)
(* registers of the move and forgets no report covers what was covered.    *)
LEMMA KeepsCovered ==
  ASSUME UNCHANGED <<motionVars, queue>>, NEW s, Covered(s),
         doneCount[s] > 0 => doneCount'[s] > 0, flushed \subseteq flushed'
  PROVE  Covered(s)'
BY DEF Covered, IsQueued, motionVars

(* Moves: the new number becomes active or queued, and nothing that was     *)
(* active is displaced. *)
LEMMA MoveCovers ==
  ASSUME LostInv, TypeOK', OneFault, NEW n \in Seqs, NEW d \in Durations, ServoMove(n, d),
         NEW s \in acked'
  PROVE  Covered(s)'
<1>1. s \in acked => Covered(s)
  BY DEF LostInv, NoMoveLost, OneFault, Covered
<1>2. CASE MoveStarts(n, d)
  <2>1. CASE s = n /\ s \notin acked
    BY <1>2, <2>1 DEF MoveStarts, AckMove, Covered
  <2>2. CASE s \in acked
    BY <1>1, <1>2, <2>2 DEF MoveStarts, Covered, IsQueued
  <2>. QED
    BY <1>2, <2>1, <2>2 DEF MoveStarts, AckMove
<1>3. CASE MoveFailsToStart(n, d)
  BY <1>1, <1>3 DEF MoveFailsToStart, Covered, IsQueued
<1>4. CASE MoveQueued(n, d)
  <2>1. queue \in Seq(Command)
    BY DEF LostInv, TypeOK, QueueType
  <2>2. queue' = Append(queue, [seq |-> n, duration |-> d])
    BY <1>4 DEF MoveQueued
  <2>3. /\ Len(queue) + 1 \in DOMAIN queue' /\ queue'[Len(queue) + 1].seq = n
        /\ \A i \in DOMAIN queue : i \in DOMAIN queue' /\ queue'[i] = queue[i]
    BY <2>1, <2>2
  <2>4. IsQueued(n)' /\ (IsQueued(s) => IsQueued(s)')
    BY <2>3 DEF IsQueued
  <2>5. s \in acked \/ s = n
    BY <1>4 DEF MoveQueued, AckMove
  <2>6. motionActive' /\ motionRefSeq' = motionRefSeq /\ UNCHANGED <<doneCount, flushed>>
    BY <1>4 DEF MoveQueued, AckMove
  <2>. QED
    BY <1>1, <2>4, <2>5, <2>6 DEF Covered
<1>5. CASE MoveFindsQueueFull(n)
  BY <1>1, <1>5, KeepsCovered DEF MoveFindsQueueFull, motionVars, historyVars
<1>6. CASE MoveRepeated(n)
  <2>1. n < nextSeq
    BY <1>6 DEF MoveRepeated, LostInv, NumbersIssued
  <2>. QED
    BY <1>6, <2>1, RequestType DEF MoveRepeated, LostInv, TypeOK, OneFault
<1>. QED
  BY <1>2, <1>3, <1>4, <1>5, <1>6 DEF ServoMove

(* Jogs: the move they interrupt is reported, the moves behind it are       *)
(* flushed. *)
LEMMA JogCovers ==
  ASSUME LostInv, TypeOK', NEW n \in Seqs, NEW t \in Durations, ServoJog(n, t),
         NEW s \in acked, Covered(s)
  PROVE  Covered(s)'
<1>1. /\ doneCount \in [Seqs -> 0 .. 2] /\ sent' \in Seq(Frame) /\ s \in Seqs
      /\ motionRefSeq \in 0 .. MaxSeq
  BY DEF LostInv, TypeOK, HistoryType, MotionType
<1>2. CASE JogFindsFault(n)
  <2>1. doneCount[s] > 0 => doneCount'[s] > 0
    BY <1>1, <1>2, ReportsCount DEF JogFindsFault
  <2>. QED
    BY <1>2, <2>1, KeepsCovered DEF JogFindsFault
<1>3. CASE JogCannotInterrupt(n)
  BY <1>3, KeepsCovered DEF JogCannotInterrupt, motionVars, historyVars
<1>4. CASE JogStarts(n, t)
  <2>1. doneCount[s] > 0 \/ Reported(s, sent') => doneCount'[s] > 0
    BY <1>1, <1>4, ReportsCount DEF JogStarts
  <2>2. IsQueued(s) => s \in flushed'
    BY <1>4 DEF JogStarts, IsQueued, QueuedSeqs
  <2>3. ASSUME motionActive, motionRefSeq = s PROVE Reported(s, sent')
    <3>1. PICK ok \in TxOutcomes :
            sent' = <<Done(s, "INTERRUPTED")>> \o Sending(Ack(n), ok)
      BY <1>4, <2>3 DEF JogStarts
    <3>2. Done(s, "INTERRUPTED") \in Frame /\ Ack(n) \in Frame
      BY <1>1, <2>3, FrameType DEF Results
    <3>3. <<Done(s, "INTERRUPTED")>> \in Seq(Frame) /\ Sending(Ack(n), ok) \in Seq(Frame)
      BY <3>2, WireType, SendingType
    <3>. QED
      BY <3>1, <3>3, DoneReports, ReportedIn
  <2>4. flushed \subseteq flushed'
    BY <1>4 DEF JogStarts
  <2>. QED
    BY <2>1, <2>2, <2>3, <2>4 DEF Covered
<1>. QED
  BY <1>2, <1>3, <1>4 DEF ServoJog

(* What ends the active move with a report and starts the next one covers   *)
(* what was covered. *)
LEMMA EndCovers ==
  ASSUME TypeOK, TypeOK', OneFault, NEW before \in Seq(Frame), StartNextQueuedMotion(before),
         CountDones, UNCHANGED flushed \/ flushed \subseteq flushed',
         motionActive => Reported(motionRefSeq, before),
         NEW s \in Seqs, Covered(s)
  PROVE  Covered(s)'
<1>1. doneCount \in [Seqs -> 0 .. 2] /\ sent' \in Seq(Frame)
  BY DEF TypeOK, HistoryType
<1>2. doneCount[s] > 0 \/ Reported(s, sent') => doneCount'[s] > 0
  BY <1>1, ReportsCount
<1>3. ASSUME Reported(s, before) PROVE Reported(s, sent')
  <2>1. CASE sent' = before
    BY <1>3, <2>1
  <2>2. ASSUME queue # <<>>, NEW ok \in TxOutcomes,
               sent' = before \o Sending(Done(Head(queue).seq, "FAULT"), ok)
        PROVE  Reported(s, sent')
    <3>1. Head(queue) \in Command
      BY <2>2 DEF TypeOK, QueueType
    <3>2. Done(Head(queue).seq, "FAULT") \in Frame
      BY <3>1, FrameType, RuntimeAssumption DEF Command, Seqs, Results
    <3>. QED
      BY <1>3, <2>2, <3>2, SendingType, ReportedIn
  <2>. QED
    BY <2>1, <2>2 DEF StartNextQueuedMotion
<1>4. CASE motionActive /\ motionRefSeq = s
  BY <1>2, <1>3, <1>4 DEF Covered
<1>5. CASE IsQueued(s)
  BY <1>2, <1>5, StartNextCovers DEF Covered
<1>6. CASE doneCount[s] > 0 \/ s \in flushed
  BY <1>2, <1>6 DEF Covered
<1>. QED
  BY <1>4, <1>5, <1>6 DEF Covered

(* Stops: what is reported or flushed is so in the step that forgets it. *)
LEMMA StopCovers ==
  ASSUME LostInv, TypeOK', OneFault, NEW n \in Seqs, NEW scope \in {0, 1}, ServoStop(n, scope),
         NEW s \in acked, Covered(s)
  PROVE  Covered(s)'
<1>1. /\ doneCount \in [Seqs -> 0 .. 2] /\ sent' \in Seq(Frame) /\ s \in Seqs
      /\ motionRefSeq \in 0 .. MaxSeq /\ TypeOK
  BY DEF LostInv, TypeOK, HistoryType, MotionType
<1>2. scope = 1 /\ StopFlushes(scope) /\ IsQueued(s) => s \in flushed'
  BY DEF StopFlushes, IsQueued, QueuedSeqs
<1>3. StopFlushes(scope) => flushed \subseteq flushed'
  BY DEF StopFlushes
<1>4. CASE StopRefused(n)
  BY <1>4, KeepsCovered DEF StopRefused, motionVars, historyVars
<1>5. CASE StopUnanswered(n)
  BY <1>5, KeepsCovered DEF StopUnanswered, motionVars, historyVars
<1>6. CASE StopNotReported(n, scope)
  BY <1>2, <1>3, <1>6 DEF StopNotReported, StopKeeps, Covered, IsQueued, motionVars
<1>7. CASE StopTaken(n, scope)
  <2>. DEFINE report == IF motionActive \/ jogActive
                        THEN <<Done(motionRefSeq, "STOPPED")>> ELSE <<>>
              replies == <<Ack(n)>> \o report
  <2>1. Ack(n) \in Frame /\ Done(motionRefSeq, "STOPPED") \in Frame
    BY <1>1, FrameType DEF Results
  <2>2. <<Ack(n)>> \in Seq(Frame) /\ report \in Seq(Frame) /\ replies \in Seq(Frame)
    BY <2>1, WireType
  <2>3. motionActive => Reported(motionRefSeq, replies)
    <3>1. motionActive => Reported(motionRefSeq, report)
      BY DoneReports
    <3>. QED
      BY <2>2, <3>1, ReportedIn
  <2>4. CASE scope = 0 /\ StartNextQueuedMotion(replies)
    <3>1. CountDones /\ flushed \subseteq flushed'
      BY <1>3, <1>7 DEF StopTaken
    <3>. HIDE DEF replies
    <3>. QED
      BY <1>1, <2>2, <2>3, <2>4, <3>1, EndCovers
  <2>5. CASE scope = 1 /\ sent' = replies
    <3>1. CountDones /\ StopFlushes(scope)
      BY <1>7 DEF StopTaken
    <3>2. doneCount[s] > 0 \/ Reported(s, sent') => doneCount'[s] > 0
      BY <1>1, <3>1, ReportsCount
    <3>3. motionActive /\ motionRefSeq = s => Reported(s, sent')
      BY <2>3, <2>5
    <3>. QED
      BY <1>2, <1>3, <2>5, <3>1, <3>2, <3>3 DEF Covered
  <2>. QED
    BY <1>7, <2>4, <2>5 DEF StopTaken
<1>. QED
  BY <1>4, <1>5, <1>6, <1>7 DEF ServoStop

(* The poll reports the move it ends. *)
LEMMA PollCovers ==
  ASSUME LostInv, TypeOK', OneFault, Poll, NEW s \in acked, Covered(s)
  PROVE  Covered(s)'
<1>1. /\ doneCount \in [Seqs -> 0 .. 2] /\ sent' \in Seq(Frame) /\ s \in Seqs
      /\ motionRefSeq \in 0 .. MaxSeq /\ TypeOK
  BY DEF LostInv, TypeOK, HistoryType, MotionType
<1>2. CountDones => (doneCount[s] > 0 \/ Reported(s, sent') => doneCount'[s] > 0)
  BY <1>1, ReportsCount
<1>3. CASE PollJogFaults
  BY <1>2, <1>3, KeepsCovered DEF PollJogFaults
<1>4. CASE PollJogTimeoutLost
  BY <1>4, KeepsCovered DEF PollJogTimeoutLost, historyVars
<1>5. CASE PollStages
  <2>1. PICK frames \in {<<>>, <<Done(motionRefSeq, "STOPPED")>>} : PollMotionStage(frames)
    BY <1>5 DEF PollStages
  <2>2. CountDones /\ flushed' = flushed
    BY <1>5 DEF PollStages
  <2>3. \A r \in Results : Done(motionRefSeq, r) \in Frame
    BY <1>1, FrameType
  <2>4. frames \in Seq(Frame)
    BY <2>1, <2>3, WireType DEF Results
  <2>5. CASE PollMotionRuns(frames)
    BY <1>2, <2>2, <2>5, KeepsCovered DEF PollMotionRuns
  <2>6. CASE PollMotionNotReported(frames)
    BY <1>2, <2>2, <2>6, KeepsCovered DEF PollMotionNotReported
  <2>7. CASE PollMotionFaults(frames)
    <3>1. PICK ok \in TxOutcomes : sent' = frames \o Sending(Done(motionRefSeq, "FAULT"), ok)
      BY <2>7 DEF PollMotionFaults
    <3>2. ok = TRUE
      BY <2>7 DEF PollMotionFaults, MotionApplyFails, OneFault, TxOutcomes
    <3>3. Sending(Done(motionRefSeq, "FAULT"), ok) \in Seq(Frame)
      BY <2>3, SendingType DEF Results
    <3>4. Reported(motionRefSeq, sent')
      BY <2>4, <3>1, <3>2, <3>3, DoneReports, ReportedIn
    <3>5. queue' = queue
      BY <2>7 DEF PollMotionFaults
    <3>. QED
      BY <1>2, <2>2, <3>4, <3>5 DEF Covered, IsQueued
  <2>8. CASE PollMotionCompletes(frames)
    <3>. DEFINE report == <<Done(motionRefSeq, "SUCCESS")>>
    <3>1. report \in Seq(Frame) /\ frames \o report \in Seq(Frame)
      BY <2>3, <2>4, WireType DEF Results
    <3>2. Reported(motionRefSeq, frames \o report)
      BY <2>4, <3>1, DoneReports, ReportedIn
    <3>3. StartNextQueuedMotion(frames \o report)
      BY <2>8 DEF PollMotionCompletes
    <3>. HIDE DEF report
    <3>. QED
      BY <1>1, <2>2, <3>1, <3>2, <3>3, EndCovers
  <2>. QED
    BY <2>1, <2>5, <2>6, <2>7, <2>8 DEF PollMotionStage
<1>. QED
  BY <1>3, <1>4, <1>5 DEF Poll

(* An acknowledged move is active, waiting, reported or flushed, as long as *)
(* servos or the UART fail but not both, and the head does not restart.     *)
THEOREM NoMoveIsLost == Spec => []NoMoveLost
<1>1. Init => LostInv
  <2>1. Init => TypeOK
    BY TypeInit
  <2>. QED
    BY <2>1 DEF Init, LostInv, NumbersIssued, NoMoveLost
<1>2. ASSUME LostInv, TypeOK', [Next]_vars PROVE LostInv'
  <2>1. NumbersIssued'
    BY <1>2, NextQueueStep, NextKeepsIssued DEF LostInv
  <2>2. NoMoveLost'
    <3>. SUFFICES ASSUME OneFault, NEW s \in acked' PROVE Covered(s)'
      BY DEF NoMoveLost, OneFault, Covered
    <3>1. s \in acked => Covered(s)
      BY <1>2 DEF LostInv, NoMoveLost, OneFault, Covered
    <3>2. CASE Tick
      BY <3>1, <3>2, KeepsCovered DEF Tick, historyVars
    <3>3. CASE UNCHANGED vars
      BY <3>1, <3>3, KeepsCovered DEF vars, motionVars
    <3>4. CASE Poll
      <4>1. s \in acked
        BY <3>4 DEF Poll, PollJogFaults, PollJogTimeoutLost, PollStages, historyVars
      <4>. QED
        BY <1>2, <3>1, <3>4, <4>1, PollCovers
    <3>5. ASSUME NEW n \in Seqs, RejectRequest(n) PROVE Covered(s)'
      BY <3>1, <3>5, KeepsCovered DEF RejectRequest, historyVars
    <3>6. ASSUME NEW n \in Seqs, NEW d \in Durations, ServoMove(n, d) PROVE Covered(s)'
      BY <1>2, <3>6, MoveCovers
    <3>7. ASSUME NEW n \in Seqs, NEW t \in Durations, ServoJog(n, t) PROVE Covered(s)'
      <4>1. s \in acked
        BY <3>7 DEF ServoJog, JogFindsFault, JogCannotInterrupt, JogStarts, historyVars
      <4>. QED
        BY <1>2, <3>1, <3>7, <4>1, JogCovers
    <3>8. ASSUME NEW n \in Seqs, NEW scope \in {0, 1}, ServoStop(n, scope) PROVE Covered(s)'
      <4>1. s \in acked
        BY <3>8 DEF ServoStop, StopRefused, StopUnanswered, StopNotReported, StopTaken,
             historyVars
      <4>. QED
        BY <1>2, <3>1, <3>8, <4>1, StopCovers
    <3>. QED
      BY <1>2, <3>2, <3>3, <3>4, <3>5, <3>6, <3>7, <3>8 DEF Next
  <2>. QED
    BY <1>2, <2>1, <2>2 DEF LostInv
<1>3. LostInv => NoMoveLost
  BY DEF LostInv
<1>. QED
  BY <1>1, <1>2, <1>3, TypeCorrect, PTL DEF Spec


-----------------------------------------------------------------------------
(* A number is reported once, unless its move was started over a jog.      *)

(* No more than one frame reports s. *)
Single(s, frames) ==
  \A i, j \in DOMAIN frames :
    /\ frames[i].kind = "DONE" /\ frames[i].ref = s
    /\ frames[j].kind = "DONE" /\ frames[j].ref = s
    => i = j

LEMMA FrameSilent ==
  ASSUME NEW s, NEW f \in Frame, NEW ok
  PROVE  /\ ~Reported(s, <<>>) /\ Single(s, <<>>)
         /\ Single(s, <<f>>) /\ Single(s, Sending(f, ok))
         /\ ~(f.kind = "DONE" /\ f.ref = s) =>
              ~Reported(s, <<f>>) /\ ~Reported(s, Sending(f, ok))
<1>1. DOMAIN <<f>> = {1} /\ <<f>>[1] = f
  OBVIOUS
<1>2. \A i : i \notin DOMAIN <<>>
  OBVIOUS
<1>. QED
  BY <1>1, <1>2, Zenon DEF Reported, Single, Sending

LEMMA DonesOf ==
  ASSUME NEW s, NEW r, NEW result
  PROVE  /\ ~(Ack(r).kind = "DONE") /\ ~(Nack(r).kind = "DONE")
         /\ Done(r, result).kind = "DONE" /\ Done(r, result).ref = r
BY DEF Ack, Nack, Done

(* A frame of a longer sequence is one of its parts'. *)
LEMMA SilentIn ==
  ASSUME NEW s, NEW p \in Seq(Frame), NEW q \in Seq(Frame)
  PROVE  /\ ~Reported(s, p) /\ ~Reported(s, q) => ~Reported(s, p \o q)
         /\ ~Reported(s, p) /\ Single(s, q) => Single(s, p \o q)
         /\ Single(s, p) /\ ~Reported(s, q) => Single(s, p \o q)
<1>1. /\ Len(p) \in Nat /\ Len(q) \in Nat /\ DOMAIN p = 1 .. Len(p) /\ DOMAIN q = 1 .. Len(q)
      /\ DOMAIN (p \o q) = 1 .. Len(p) + Len(q)
  OBVIOUS
<1>2. ASSUME NEW i \in DOMAIN (p \o q)
      PROVE  \/ i \in DOMAIN p /\ (p \o q)[i] = p[i]
             \/ i - Len(p) \in DOMAIN q /\ (p \o q)[i] = q[i - Len(p)]
  OBVIOUS
<1>3. ~Reported(s, p) /\ ~Reported(s, q) => ~Reported(s, p \o q)
  BY <1>2 DEF Reported
<1>4. ASSUME ~Reported(s, p), Single(s, q) PROVE Single(s, p \o q)
  <2>. SUFFICES ASSUME NEW i \in DOMAIN (p \o q), NEW j \in DOMAIN (p \o q),
                       (p \o q)[i].kind = "DONE", (p \o q)[i].ref = s,
                       (p \o q)[j].kind = "DONE", (p \o q)[j].ref = s
                PROVE  i = j
    BY DEF Single
  <2>1. i - Len(p) \in DOMAIN q /\ (p \o q)[i] = q[i - Len(p)]
    BY <1>2, <1>4 DEF Reported
  <2>2. j - Len(p) \in DOMAIN q /\ (p \o q)[j] = q[j - Len(p)]
    BY <1>2, <1>4 DEF Reported
  <2>3. i - Len(p) = j - Len(p)
    BY <1>4, <2>1, <2>2 DEF Single
  <2>. QED
    BY <1>1, <2>3
<1>5. ASSUME Single(s, p), ~Reported(s, q) PROVE Single(s, p \o q)
  <2>. SUFFICES ASSUME NEW i \in DOMAIN (p \o q), NEW j \in DOMAIN (p \o q),
                       (p \o q)[i].kind = "DONE", (p \o q)[i].ref = s,
                       (p \o q)[j].kind = "DONE", (p \o q)[j].ref = s
                PROVE  i = j
    BY DEF Single
  <2>1. /\ i \in DOMAIN p /\ (p \o q)[i] = p[i] /\ j \in DOMAIN p /\ (p \o q)[j] = p[j]
    BY <1>2, <1>5 DEF Reported
  <2>. QED
    BY <1>5, <2>1 DEF Single
<1>. QED
  BY <1>3, <1>4, <1>5

(* What the counter of s does in a step. *)
LEMMA CountsOne ==
  ASSUME doneCount \in [Seqs -> 0 .. 2], sent' \in Seq(Frame), CountDones, NEW s \in Seqs
  PROVE  /\ ~Reported(s, sent') => doneCount'[s] = doneCount[s]
         /\ Single(s, sent') /\ doneCount[s] = 0 => doneCount'[s] \in 0 .. 1
<1>. DEFINE D == {i \in DOMAIN sent' : sent'[i].kind = "DONE" /\ sent'[i].ref = s}
            n == DonesFor(s, sent')
<1>1. n \in Nat /\ doneCount[s] \in 0 .. 2
  BY DonesForNat
<1>2. n = Cardinality(D)
  BY DEF DonesFor
<1>3. doneCount'[s] = IF doneCount[s] + n > 2 THEN 2 ELSE doneCount[s] + n
  BY DEF CountDones
<1>4. ~Reported(s, sent') => n = 0
  <2>1. ~Reported(s, sent') => D = {}
    BY DEF Reported
  <2>. QED
    BY <1>2, <2>1, FS_EmptySet
<1>5. Single(s, sent') => n \in 0 .. 1
  <2>1. ASSUME Single(s, sent'), NEW i \in D PROVE D = {i}
    BY <2>1 DEF Single
  <2>2. D = {} => n = 0
    BY <1>2, FS_EmptySet
  <2>3. \A i : D = {i} => n = 1
    BY <1>2, FS_Singleton
  <2>. HIDE DEF D, n
  <2>4. D = {} => n \in 0 .. 1
    BY <2>2
  <2>5. ASSUME Single(s, sent'), NEW i \in D PROVE n \in 0 .. 1
    <3>1. D = {i}
      BY <2>1, <2>5, Zenon
    <3>2. n = 1
      BY <2>3, <3>1, Zenon
    <3>. QED
      BY <3>2
  <2>. QED
    BY <2>4, <2>5, Zenon
<1>. HIDE DEF n
<1>. QED
  BY <1>1, <1>3, <1>4, <1>5

-----------------------------------------------------------------------------

(* A number whose motion runs, or waits to run, is still to be reported.   *)
Ends(s)   == (motionActive \/ jogActive) /\ motionRefSeq = s
Awaits(s) == IsQueued(s) \/ Ends(s)

(* No number waits twice, and none that waits runs. *)
Apart ==
  /\ \A i, j \in DOMAIN queue : queue[i].seq = queue[j].seq => i = j
  /\ ~IsQueued(motionRefSeq)

BothOver == motionActive /\ jogActive => motionRefSeq \in overJog

Once(s) == doneCount[s] <= 1 /\ (Awaits(s) \/ s >= nextSeq => doneCount[s] = 0)

(* Without numbers used again, a number that may still be reported has not  *)
(* been reported yet, and only over a jog do two motions end in one name.   *)
OnceInv ==
  /\ TypeOK /\ NumbersIssued
  /\ ~SeqReuse => /\ Apart /\ BothOver
                  /\ \A s \in Seqs \ overJog : Once(s)

(* A step leaves s unreported, or reports it and ends what it stood for. *)
Quiet(s)  == /\ doneCount'[s] = doneCount[s] \/ (CountDones /\ ~Reported(s, sent'))
             /\ Awaits(s)' => Awaits(s) \/ s >= nextSeq
Ending(s) == CountDones /\ Single(s, sent') /\ Awaits(s) /\ ~Awaits(s)'

LEMMA IssuedFacts ==
  ASSUME TypeOK, NumbersIssued
  PROVE  /\ nextSeq \in Nat /\ motionRefSeq \in Nat /\ motionRefSeq < nextSeq
         /\ \A s \in Seqs : Awaits(s) => s < nextSeq
<1>1. /\ nextSeq \in Nat /\ motionRefSeq \in Nat
      /\ motionRefSeq < nextSeq
  BY QueueFacts DEF NumbersIssued
<1>2. \A s \in Seqs : IsQueued(s) => s < nextSeq
  BY DEF IsQueued, NumbersIssued
<1>. QED
  BY <1>1, <1>2 DEF Awaits, Ends

LEMMA OnceKept ==
  ASSUME TypeOK, TypeOK', NumbersIssued, nextSeq <= nextSeq', NEW s \in Seqs, Once(s),
         Quiet(s) \/ Ending(s)
  PROVE  Once(s)'
<1>1. /\ nextSeq \in Nat /\ nextSeq' \in Nat /\ s \in Nat
      /\ doneCount \in [Seqs -> 0 .. 2] /\ sent' \in Seq(Frame)
      /\ doneCount[s] <= 1 /\ (Awaits(s) \/ s >= nextSeq => doneCount[s] = 0)
  BY RuntimeAssumption DEF TypeOK, HeadType, HistoryType, Seqs, Once
<1>2. CASE Quiet(s)
  <2>1. doneCount'[s] = doneCount[s]
    BY <1>1, <1>2, CountsOne DEF Quiet
  <2>2. Awaits(s)' \/ s >= nextSeq' => Awaits(s) \/ s >= nextSeq
    BY <1>1, <1>2 DEF Quiet
  <2>3. doneCount'[s] <= 1
    BY <1>1, <2>1
  <2>4. Awaits(s)' \/ s >= nextSeq' => doneCount'[s] = 0
    BY <1>1, <2>1, <2>2
  <2>. QED
    BY <2>3, <2>4 DEF Once
<1>3. CASE Ending(s)
  <2>1. doneCount[s] = 0 /\ s < nextSeq
    BY <1>1, <1>3, IssuedFacts DEF Ending
  <2>2. doneCount'[s] \in 0 .. 1
    BY <1>1, <1>3, <2>1, CountsOne DEF Ending
  <2>3. ~(s >= nextSeq')
    BY <1>1, <2>1
  <2>4. doneCount'[s] <= 1
    BY <2>2
  <2>. QED
    BY <1>3, <2>3, <2>4 DEF Once, Ending
<1>. QED
  BY <1>2, <1>3

(* No number comes to wait twice. *)
LEMMA NextKeepsApart ==
  ASSUME TypeOK, NumbersIssued, Apart, QueueStep, ~SeqReuse
  PROVE  Apart'
<1>1. /\ \A i, j \in DOMAIN queue : queue[i].seq = queue[j].seq => i = j
      /\ \A i \in DOMAIN queue : queue[i].seq # motionRefSeq
  BY DEF Apart, IsQueued
<1>. SUFFICES /\ \A i, j \in DOMAIN queue' : queue'[i].seq = queue'[j].seq => i = j
              /\ \A i \in DOMAIN queue' : queue'[i].seq # motionRefSeq'
  BY DEF Apart, IsQueued
<1>2. CASE Keeps
  BY <1>1, <1>2 DEF Keeps
<1>3. ASSUME NEW s \in Seqs, Takes(s)
      PROVE  /\ \A i, j \in DOMAIN queue' : queue'[i].seq = queue'[j].seq => i = j
             /\ \A i \in DOMAIN queue' : queue'[i].seq # motionRefSeq'
  <2>1. s >= nextSeq /\ motionRefSeq' = s
    BY <1>3 DEF Takes, Issued
  <2>2. \A i \in DOMAIN queue : queue[i].seq # s
    BY <2>1, QueueFacts, RuntimeAssumption DEF NumbersIssued, Seqs
  <2>. QED
    BY <1>1, <1>3, <2>1, <2>2 DEF Takes
<1>4. ASSUME NEW s \in Seqs, Adds(s)
      PROVE  /\ \A i, j \in DOMAIN queue' : queue'[i].seq = queue'[j].seq => i = j
             /\ \A i \in DOMAIN queue' : queue'[i].seq # motionRefSeq'
  <2>1. s >= nextSeq /\ motionRefSeq' = motionRefSeq
    BY <1>4 DEF Adds, Issued
  <2>2. (\A i \in DOMAIN queue : queue[i].seq # s) /\ motionRefSeq # s
    BY <2>1, QueueFacts, RuntimeAssumption DEF NumbersIssued, Seqs
  <2>3. /\ Len(queue) \in Nat /\ DOMAIN queue = 1 .. Len(queue)
        /\ DOMAIN queue' = 1 .. Len(queue) + 1
    BY <1>4, AddedEntries, QueueFacts
  <2>4. /\ \A i \in DOMAIN queue : queue'[i].seq = queue[i].seq
        /\ queue'[Len(queue) + 1].seq = s
    BY <1>4, <2>3, AddedEntries
  <2>5. \A i \in DOMAIN queue' : i \in DOMAIN queue \/ i = Len(queue) + 1
    BY <2>3
  <2>. QED
    BY <1>1, <2>1, <2>2, <2>4, <2>5
<1>5. ASSUME Pops
      PROVE  /\ \A i, j \in DOMAIN queue' : queue'[i].seq = queue'[j].seq => i = j
             /\ \A i \in DOMAIN queue' : queue'[i].seq # motionRefSeq'
  <2>1. /\ 1 \in DOMAIN queue /\ motionRefSeq' = queue[1].seq
        /\ DOMAIN queue' = 1 .. Len(queue) - 1 /\ Len(queue) \in Nat
    BY <1>5, PoppedEntries, QueueFacts
  <2>2. \A i \in DOMAIN queue' : i + 1 \in DOMAIN queue /\ queue'[i].seq = queue[i + 1].seq
    BY <1>5, PoppedEntries
  <2>3. ASSUME NEW i \in DOMAIN queue', NEW j \in DOMAIN queue', queue'[i].seq = queue'[j].seq
        PROVE  i = j
    <3>1. i + 1 = j + 1
      BY <1>1, <2>2, <2>3
    <3>. QED
      BY <2>1, <3>1
  <2>4. ASSUME NEW i \in DOMAIN queue' PROVE queue'[i].seq # motionRefSeq'
    <3>1. i + 1 # 1
      BY <2>1
    <3>. QED
      BY <1>1, <2>1, <2>2, <3>1
  <2>. QED
    BY <2>3, <2>4
<1>. QED
  BY <1>2, <1>3, <1>4, <1>5 DEF QueueStep

(* The queue after its head was taken. *)
LEMMA HeadTaken ==
  ASSUME TypeOK, Apart, queue # <<>>, queue' = Tail(queue), NEW s
  PROVE  /\ IsQueued(s)' => IsQueued(s) /\ s # Head(queue).seq
         /\ IsQueued(Head(queue).seq) /\ Head(queue) \in Command
         /\ Head(queue).seq # motionRefSeq
<1>1. queue \in Seq(Command) /\ 1 \in DOMAIN queue /\ Head(queue) = queue[1]
  BY DEF TypeOK, QueueType
<1>2. \A i, j \in DOMAIN queue : queue[i].seq = queue[j].seq => i = j
  BY DEF Apart
<1>3. ASSUME NEW i \in DOMAIN Tail(queue)
      PROVE  i + 1 \in DOMAIN queue /\ i + 1 # 1 /\ Tail(queue)[i] = queue[i + 1]
  BY <1>1
<1>4. ASSUME IsQueued(s)' PROVE IsQueued(s) /\ s # queue[1].seq
  <2>1. PICK i \in DOMAIN Tail(queue) : Tail(queue)[i].seq = s
    BY <1>4 DEF IsQueued
  <2>2. queue[i + 1].seq = s /\ i + 1 \in DOMAIN queue
    BY <1>3, <2>1
  <2>3. queue[1].seq # s
    BY <1>1, <1>2, <1>3, <2>1, <2>2
  <2>. QED
    BY <2>2, <2>3 DEF IsQueued
<1>5. IsQueued(queue[1].seq) /\ queue[1] \in Command
  BY <1>1 DEF IsQueued
<1>. QED
  BY <1>1, <1>4, <1>5 DEF Apart

(* What ends the motion in motionRefSeq with a report, if it runs, and      *)
(* starts the next move reports no number twice.                            *)
LEMMA StartNextOnce ==
  ASSUME OnceInv, ~SeqReuse, NEW before \in Seq(Frame), StartNextQueuedMotion(before), CountDones,
         jogActive' => jogActive /\ motionActive,
         NEW s \in Seqs \ overJog', overJog \subseteq overJog',
         Reported(s, before) => Ends(s), Single(s, before)
  PROVE  Quiet(s) \/ Ending(s)
<1>0. TypeOK /\ Apart /\ BothOver /\ s \notin overJog /\ s \in Seqs
  BY DEF OnceInv
<1>1. ASSUME Ends(s) PROVE ~jogActive' /\ s = motionRefSeq /\ ~IsQueued(s)
  BY <1>0, <1>1 DEF Ends, BothOver, Apart
<1>2. CASE queue = <<>> /\ motionActive' = FALSE /\ sent' = before
           /\ motionRefSeq' = motionRefSeq /\ queue' = queue
  <2>1. ~IsQueued(s)' /\ ~IsQueued(s)
    BY <1>2 DEF IsQueued
  <2>2. Ends(s)' => jogActive' /\ Ends(s)
    BY <1>2 DEF Ends
  <2>3. ~Awaits(s)'
    BY <1>1, <2>1, <2>2 DEF Awaits
  <2>4. CASE Reported(s, before)
    BY <1>2, <2>3, <2>4 DEF Ending, Awaits
  <2>5. CASE ~Reported(s, before)
    BY <1>2, <2>3, <2>5 DEF Quiet
  <2>. QED
    BY <2>4, <2>5
<1>3. ASSUME queue # <<>>, queue' = Tail(queue), StartMotionCommand(Head(queue), TRUE),
             sent' = before
      PROVE  Quiet(s) \/ Ending(s)
  <2>1. /\ IsQueued(s)' => IsQueued(s)
        /\ IsQueued(Head(queue).seq) /\ Head(queue).seq # motionRefSeq
    BY <1>0, <1>3, HeadTaken
  <2>2. Ends(s)' => s = Head(queue).seq
    BY <1>3 DEF Ends, StartMotionCommand
  <2>3. Awaits(s)' => IsQueued(s)
    BY <2>1, <2>2 DEF Awaits
  <2>4. CASE Reported(s, before)
    <3>1. Ends(s) /\ ~IsQueued(s)
      BY <1>1, <2>4
    <3>. QED
      BY <1>3, <2>3, <3>1 DEF Ending, Awaits
  <2>5. CASE ~Reported(s, before)
    BY <1>3, <2>3, <2>5 DEF Quiet, Awaits
  <2>. QED
    BY <2>4, <2>5
<1>4. ASSUME queue # <<>>, queue' = Tail(queue), StartMotionCommand(Head(queue), FALSE), NEW ok,
             sent' = before \o Sending(Done(Head(queue).seq, "FAULT"), ok)
      PROVE  Quiet(s) \/ Ending(s)
  <2>. DEFINE h == Head(queue).seq
              last == Sending(Done(h, "FAULT"), ok)
  <2>1. /\ IsQueued(s)' => IsQueued(s) /\ s # h
        /\ IsQueued(h) /\ h # motionRefSeq /\ h \in Seqs
    BY <1>0, <1>4, HeadTaken DEF Command
  <2>2. Done(h, "FAULT") \in Frame
    BY <2>1, FrameType, RuntimeAssumption DEF Results, Seqs
  <2>3. last \in Seq(Frame) /\ Single(s, last) /\ (s # h => ~Reported(s, last))
    <3>1. s # h => ~(Done(h, "FAULT").kind = "DONE" /\ Done(h, "FAULT").ref = s)
      BY DonesOf
    <3>. HIDE DEF h
    <3>. QED
      BY <2>2, <3>1, SendingType, FrameSilent
  <2>4. ~Ends(s)'
    <3>1. motionActive' = FALSE /\ motionRefSeq' = h /\ (jogActive' => h \in overJog')
      BY <1>4 DEF StartMotionCommand
    <3>. QED
      BY <3>1 DEF Ends
  <2>. HIDE DEF h, last
  <2>5. CASE s = h
    <3>1. ~Reported(s, before)
      BY <1>1, <2>1, <2>5
    <3>2. Single(s, sent')
      BY <1>4, <2>3, <3>1, SilentIn DEF last, h
    <3>3. Awaits(s) /\ ~Awaits(s)'
      BY <2>1, <2>4, <2>5 DEF Awaits
    <3>. QED
      BY <3>2, <3>3 DEF Ending
  <2>6. CASE s # h /\ Reported(s, before)
    <3>1. Ends(s) /\ ~IsQueued(s)
      BY <1>1, <2>6
    <3>2. Single(s, sent')
      BY <1>4, <2>3, <2>6, SilentIn DEF last, h
    <3>3. Awaits(s) /\ ~Awaits(s)'
      BY <2>1, <2>4, <3>1 DEF Awaits
    <3>. QED
      BY <3>2, <3>3 DEF Ending
  <2>7. CASE s # h /\ ~Reported(s, before)
    <3>1. ~Reported(s, sent')
      BY <1>4, <2>3, <2>7, SilentIn DEF last, h
    <3>2. Awaits(s)' => Awaits(s)
      BY <2>1, <2>4 DEF Awaits
    <3>. QED
      BY <3>1, <3>2 DEF Quiet
  <2>. QED
    BY <2>5, <2>6, <2>7
<1>. QED
  BY <1>2, <1>3, <1>4 DEF StartNextQueuedMotion

(* A move that is started while a jog runs is noted to be. *)
LEMMA StartNextNotes ==
  ASSUME NEW before, StartNextQueuedMotion(before)
  PROVE  BothOver' /\ overJog \subseteq overJog'
<1>1. CASE motionActive' = FALSE /\ overJog' = overJog
  BY <1>1 DEF BothOver
<1>2. ASSUME NEW c, NEW works, StartMotionCommand(c, works)
      PROVE  BothOver' /\ overJog \subseteq overJog'
  BY <1>2 DEF StartMotionCommand, BothOver
<1>. QED
  BY <1>1, <1>2 DEF StartNextQueuedMotion

(* What a step has to do for the invariant to hold after it. *)
KeepsOnce == /\ BothOver' /\ overJog \subseteq overJog'
             /\ \A s \in Seqs \ overJog' : Quiet(s) \/ Ending(s)

(* A step that reports nothing and starts nothing. *)
LEMMA NothingStarts ==
  ASSUME OnceInv, ~SeqReuse, UNCHANGED <<overJog, doneCount, motionRefSeq>>,
         motionActive' => motionActive, jogActive' => jogActive, queue' \in {queue, <<>>}
  PROVE  KeepsOnce
<1>1. BothOver
  BY DEF OnceInv
<1>2. \A s : IsQueued(s)' => IsQueued(s)
  BY DEF IsQueued
<1>3. \A s : Ends(s)' => Ends(s)
  BY DEF Ends
<1>. QED
  BY <1>1, <1>2, <1>3 DEF KeepsOnce, BothOver, Quiet, Awaits

LEMMA MoveOnce ==
  ASSUME OnceInv, ~SeqReuse, NEW n \in Seqs, NEW d \in Durations, ServoMove(n, d)
  PROVE  KeepsOnce
<1>1. TypeOK /\ NumbersIssued /\ BothOver /\ Apart
  BY DEF OnceInv
<1>2. n >= nextSeq
  BY <1>1, RequestIssues DEF ServoMove, MoveStarts, MoveFailsToStart, MoveQueued,
     MoveFindsQueueFull, MoveRepeated, Issued
<1>3. n # motionRefSeq
  BY <1>1, <1>2, IssuedFacts
<1>4. CASE MoveStarts(n, d) \/ MoveFailsToStart(n, d)
  <2>1. /\ motionRefSeq' = n /\ queue' = queue /\ doneCount' = doneCount /\ jogActive' = jogActive
        /\ overJog' = (IF jogActive THEN overJog \cup {n} ELSE overJog)
    BY <1>4 DEF MoveStarts, MoveFailsToStart, StartMotionCommand, jogVars
  <2>2. \A s : IsQueued(s)' => IsQueued(s)
    BY <2>1 DEF IsQueued
  <2>3. \A s : Ends(s)' => s = n
    BY <2>1 DEF Ends
  <2>4. \A s \in Seqs : Quiet(s)
    BY <1>2, <2>1, <2>2, <2>3 DEF Quiet, Awaits
  <2>5. BothOver' /\ overJog \subseteq overJog'
    BY <2>1 DEF BothOver
  <2>. QED
    BY <2>4, <2>5 DEF KeepsOnce
<1>5. CASE MoveQueued(n, d)
  <2>1. /\ motionActive /\ motionRefSeq' = motionRefSeq /\ doneCount' = doneCount
        /\ queue' = Append(queue, [seq |-> n, duration |-> d])
        /\ jogActive' = jogActive /\ overJog' = overJog
    BY <1>5 DEF MoveQueued, jogVars
  <2>2. queue \in Seq(Command)
    BY <1>1 DEF TypeOK, QueueType
  <2>3. \A i \in DOMAIN queue' : queue'[i].seq = n \/ (i \in DOMAIN queue /\ queue'[i] = queue[i])
    BY <2>1, <2>2
  <2>4. \A s : IsQueued(s)' => IsQueued(s) \/ s = n
    BY <2>3 DEF IsQueued
  <2>5. \A s : Ends(s)' => Ends(s)
    BY <2>1 DEF Ends
  <2>6. \A s \in Seqs : Quiet(s)
    BY <1>2, <2>1, <2>4, <2>5 DEF Quiet, Awaits
  <2>7. BothOver'
    BY <1>1, <2>1 DEF BothOver
  <2>. QED
    BY <2>1, <2>6, <2>7 DEF KeepsOnce
<1>6. CASE MoveFindsQueueFull(n)
  BY <1>6, NothingStarts DEF MoveFindsQueueFull, motionVars, jogVars, historyVars
<1>7. CASE MoveRepeated(n)
  BY <1>3, <1>7 DEF MoveRepeated
<1>. QED
  BY <1>4, <1>5, <1>6, <1>7 DEF ServoMove

(* A jog that cannot be advanced ends, and is reported unless the UART fails. *)
LEMMA JogFaultOnce ==
  ASSUME OnceInv, ~SeqReuse, JogApplyFails, NEW ok,
         sent' = Sending(Done(motionRefSeq, "FAULT"), ok),
         jogActive' = FALSE, CountDones, UNCHANGED <<motionVars, queue, overJog>>
  PROVE  KeepsOnce
<1>1. TypeOK /\ BothOver /\ Apart /\ jogActive
  BY DEF OnceInv, JogApplyFails
<1>2. Done(motionRefSeq, "FAULT") \in Frame
  BY <1>1, FrameType DEF TypeOK, MotionType, Results
<1>3. ASSUME NEW s \in Seqs \ overJog' PROVE Quiet(s) \/ Ending(s)
  <2>1. IsQueued(s)' => IsQueued(s)
    BY DEF IsQueued
  <2>2. CASE s = motionRefSeq
    <3>1. ~motionActive /\ Ends(s) /\ ~IsQueued(s)
      BY <1>1, <1>3, <2>2 DEF BothOver, Apart, Ends
    <3>2. ~Ends(s)'
      BY <3>1 DEF Ends, motionVars
    <3>3. Single(s, sent')
      BY <1>2, FrameSilent
    <3>. QED
      BY <2>1, <3>1, <3>2, <3>3 DEF Ending, Awaits
  <2>3. CASE s # motionRefSeq
    <3>1. ~Reported(s, sent')
      <4>1. ~(Done(motionRefSeq, "FAULT").kind = "DONE" /\ Done(motionRefSeq, "FAULT").ref = s)
        BY <2>3, DonesOf
      <4>. QED
        BY <1>2, <4>1, FrameSilent
    <3>2. Ends(s)' => Ends(s)
      BY <1>1 DEF Ends, motionVars
    <3>. QED
      BY <2>1, <3>1, <3>2 DEF Quiet, Awaits
  <2>. QED
    BY <2>2, <2>3
<1>. QED
  BY <1>3 DEF KeepsOnce, BothOver

LEMMA JogOnce ==
  ASSUME OnceInv, TypeOK', ~SeqReuse, NEW n \in Seqs, NEW t \in Durations, ServoJog(n, t)
  PROVE  KeepsOnce
<1>1. TypeOK /\ NumbersIssued /\ BothOver /\ Apart
  BY DEF OnceInv
<1>2. n >= nextSeq
  BY <1>1, RequestIssues DEF ServoJog, JogFindsFault, JogCannotInterrupt, JogStarts, Issued
<1>3. n # motionRefSeq
  BY <1>1, <1>2, IssuedFacts
<1>4. CASE JogFindsFault(n)
  <2>1. PICK ok \in TxOutcomes : sent' = Sending(Done(motionRefSeq, "FAULT"), ok)
    BY <1>4 DEF JogFindsFault
  <2>. QED
    BY <1>4, <2>1, JogFaultOnce DEF JogFindsFault
<1>5. CASE JogCannotInterrupt(n)
  BY <1>5, NothingStarts DEF JogCannotInterrupt, motionVars, historyVars
<1>6. CASE JogStarts(n, t)
  <2>. DEFINE interrupted == IF motionActive
                             THEN <<Done(motionRefSeq, "INTERRUPTED")>> ELSE <<>>
  <2>1. PICK ok \in TxOutcomes : sent' = interrupted \o Sending(Ack(n), ok)
    BY <1>6 DEF JogStarts
  <2>2. /\ motionActive' = FALSE /\ motionRefSeq' = n /\ queue' = <<>> /\ CountDones
        /\ overJog' = overJog
    BY <1>6 DEF JogStarts
  <2>3. Done(motionRefSeq, "INTERRUPTED") \in Frame /\ Ack(n) \in Frame
    BY <1>1, FrameType DEF TypeOK, MotionType, Results
  <2>4. ASSUME NEW s \in Seqs \ overJog' PROVE Quiet(s) \/ Ending(s)
    <3>1. ~IsQueued(s)' /\ (Ends(s)' => s = n)
      BY <2>2 DEF IsQueued, Ends
    <3>2. Sending(Ack(n), ok) \in Seq(Frame) /\ ~Reported(s, Sending(Ack(n), ok))
      BY <2>3, SendingType, FrameSilent, DonesOf
    <3>3. interrupted \in Seq(Frame) /\ Single(s, interrupted)
      BY <2>3, WireType, FrameSilent
    <3>4. ~(motionActive /\ s = motionRefSeq) => ~Reported(s, interrupted)
      <4>1. s # motionRefSeq => ~(/\ Done(motionRefSeq, "INTERRUPTED").kind = "DONE"
                                  /\ Done(motionRefSeq, "INTERRUPTED").ref = s)
        BY DonesOf
      <4>. QED
        BY <2>3, <4>1, FrameSilent
    <3>. HIDE DEF interrupted
    <3>5. CASE motionActive /\ s = motionRefSeq
      <4>1. Single(s, sent')
        BY <2>1, <3>2, <3>3, SilentIn
      <4>. QED
        BY <1>3, <2>2, <3>1, <3>5, <4>1 DEF Ending, Awaits, Ends
    <3>6. CASE ~(motionActive /\ s = motionRefSeq)
      <4>1. ~Reported(s, sent')
        BY <2>1, <3>2, <3>3, <3>4, <3>6, SilentIn
      <4>. QED
        BY <1>2, <2>2, <3>1, <4>1 DEF Quiet, Awaits
    <3>. QED
      BY <3>5, <3>6
  <2>. QED
    BY <2>2, <2>4 DEF KeepsOnce, BothOver
<1>. QED
  BY <1>4, <1>5, <1>6 DEF ServoJog

LEMMA StopOnce ==
  ASSUME OnceInv, TypeOK', ~SeqReuse, NEW n \in Seqs, NEW scope \in {0, 1}, ServoStop(n, scope)
  PROVE  KeepsOnce
<1>1. TypeOK /\ BothOver /\ Apart
  BY DEF OnceInv
<1>2. CASE StopRefused(n)
  BY <1>2, NothingStarts DEF StopRefused, motionVars, historyVars
<1>3. CASE StopUnanswered(n)
  BY <1>3, NothingStarts DEF StopUnanswered, motionVars, historyVars
<1>4. CASE StopNotReported(n, scope)
  <2>1. queue' \in {queue, <<>>}
    BY <1>4 DEF StopNotReported, StopKeeps
  <2>. QED
    BY <1>4, <2>1, NothingStarts DEF StopNotReported, motionVars
<1>5. CASE StopTaken(n, scope)
  <2>. DEFINE report == IF motionActive \/ jogActive
                        THEN <<Done(motionRefSeq, "STOPPED")>> ELSE <<>>
              replies == <<Ack(n)>> \o report
  <2>1. Ack(n) \in Frame /\ Done(motionRefSeq, "STOPPED") \in Frame
    BY <1>1, FrameType DEF TypeOK, MotionType, Results
  <2>2. <<Ack(n)>> \in Seq(Frame) /\ report \in Seq(Frame) /\ replies \in Seq(Frame)
    BY <2>1, WireType
  <2>3. CountDones /\ jogActive' = FALSE
    BY <1>5 DEF StopTaken
  <2>4. ASSUME NEW s PROVE Single(s, replies) /\ (Reported(s, replies) => Ends(s))
    <3>1. ~Reported(s, <<Ack(n)>>)
      BY <2>1, FrameSilent, DonesOf
    <3>2. Single(s, report)
      BY <2>1, FrameSilent
    <3>3. ~Ends(s) => ~Reported(s, report)
      <4>1. s # motionRefSeq => ~(/\ Done(motionRefSeq, "STOPPED").kind = "DONE"
                                  /\ Done(motionRefSeq, "STOPPED").ref = s)
        BY DonesOf
      <4>. QED
        BY <2>1, <4>1, FrameSilent DEF Ends
    <3>. HIDE DEF report
    <3>. QED
      BY <2>2, <3>1, <3>2, <3>3, SilentIn
  <2>. HIDE DEF replies
  <2>5. CASE scope = 0 /\ StartNextQueuedMotion(replies)
    <3>1. BothOver' /\ overJog \subseteq overJog'
      BY <2>5, StartNextNotes
    <3>2. \A s \in Seqs \ overJog' : Quiet(s) \/ Ending(s)
      BY <2>2, <2>3, <2>4, <2>5, <3>1, StartNextOnce
    <3>. QED
      BY <3>1, <3>2 DEF KeepsOnce
  <2>6. CASE motionActive' = FALSE /\ queue' = <<>> /\ sent' = replies /\ overJog' = overJog
    <3>1. \A s : ~Awaits(s)'
      BY <2>3, <2>6 DEF Awaits, IsQueued, Ends
    <3>2. ASSUME NEW s PROVE Quiet(s) \/ Ending(s)
      <4>1. CASE Reported(s, sent')
        BY <2>3, <2>4, <2>6, <3>1, <4>1 DEF Ending, Awaits
      <4>2. CASE ~Reported(s, sent')
        BY <2>3, <3>1, <4>2 DEF Quiet
      <4>. QED
        BY <4>1, <4>2
    <3>. QED
      BY <2>6, <3>2 DEF KeepsOnce, BothOver
  <2>. QED
    BY <1>5, <2>5, <2>6 DEF StopTaken, replies, report
<1>. QED
  BY <1>2, <1>3, <1>4, <1>5 DEF ServoStop

LEMMA PollOnce ==
  ASSUME OnceInv, TypeOK', ~SeqReuse, Poll
  PROVE  KeepsOnce
<1>1. TypeOK /\ BothOver /\ Apart /\ motionRefSeq \in 0 .. MaxSeq
  BY DEF OnceInv, TypeOK, MotionType
<1>2. CASE PollJogFaults
  <2>1. PICK ok \in TxOutcomes : sent' = Sending(Done(motionRefSeq, "FAULT"), ok)
    BY <1>2 DEF PollJogFaults
  <2>. QED
    BY <1>2, <2>1, JogFaultOnce DEF PollJogFaults
<1>3. CASE PollJogTimeoutLost
  BY <1>3, NothingStarts DEF PollJogTimeoutLost, motionVars, historyVars
<1>4. CASE PollStages
  <2>1. PICK frames \in {<<>>, <<Done(motionRefSeq, "STOPPED")>>} :
          PollJogStage(frames) /\ PollMotionStage(frames)
    BY <1>4 DEF PollStages
  <2>2. CountDones
    BY <1>4 DEF PollStages
  <2>3. /\ jogActive' = (jogActive /\ ~JogDue)
        /\ frames = IF JogDue THEN <<Done(motionRefSeq, "STOPPED")>> ELSE <<>>
    BY <2>1 DEF PollJogStage
  <2>4. \A r \in Results : Done(motionRefSeq, r) \in Frame
    BY <1>1, FrameType
  <2>5. frames \in Seq(Frame)
    BY <2>1, <2>4, WireType DEF Results
  <2>6. ASSUME NEW s, NEW r PROVE s # motionRefSeq => ~(/\ Done(motionRefSeq, r).kind = "DONE"
                                                        /\ Done(motionRefSeq, r).ref = s)
    BY DonesOf
  <2>7. ASSUME NEW s
        PROVE  /\ Single(s, frames) /\ (~JogDue \/ s # motionRefSeq => ~Reported(s, frames))
    <3>1. Done(motionRefSeq, "STOPPED") \in Frame
      BY <2>4 DEF Results
    <3>. QED
      BY <2>3, <2>6, <3>1, FrameSilent
  <2>8. JogDue => jogActive
    BY DEF JogDue
  <2>9. ASSUME NEW s \in Seqs \ overJog', overJog \subseteq overJog', s = motionRefSeq, motionActive
        PROVE  ~jogActive /\ ~JogDue
    BY <1>1, <2>8, <2>9 DEF BothOver
  <2>10. CASE sent' = frames /\ UNCHANGED <<motionVars, queue, overJog>>
    <3>1. \A s : IsQueued(s)' => IsQueued(s)
      BY <2>10 DEF IsQueued
    <3>2. ASSUME NEW s \in Seqs \ overJog' PROVE Quiet(s) \/ Ending(s)
      <4>1. CASE JogDue /\ s = motionRefSeq
        <5>1. ~motionActive /\ ~IsQueued(s)
          BY <1>1, <2>9, <2>10, <3>2, <4>1 DEF Apart
        <5>2. ~Awaits(s)'
          BY <2>3, <2>10, <3>1, <4>1, <5>1 DEF Awaits, Ends, motionVars
        <5>. QED
          BY <2>2, <2>7, <2>8, <2>10, <4>1, <5>2 DEF Ending, Awaits, Ends
      <4>2. CASE ~(JogDue /\ s = motionRefSeq)
        <5>1. ~Reported(s, sent')
          BY <2>7, <2>10, <4>2
        <5>2. Awaits(s)' => Awaits(s)
          BY <2>3, <2>10, <3>1 DEF Awaits, Ends, motionVars
        <5>. QED
          BY <2>2, <5>1, <5>2 DEF Quiet
      <4>. QED
        BY <4>1, <4>2
    <3>. QED
      BY <1>1, <2>3, <2>10, <3>2 DEF KeepsOnce, BothOver, motionVars
  <2>11. CASE PollMotionFaults(frames)
    <3>1. /\ motionActive /\ motionActive' = FALSE
          /\ UNCHANGED <<motionRefSeq, queue, overJog>>
      BY <2>11 DEF PollMotionFaults, MotionApplyFails
    <3>2. PICK ok \in TxOutcomes : sent' = frames \o Sending(Done(motionRefSeq, "FAULT"), ok)
      BY <2>11 DEF PollMotionFaults
    <3>. DEFINE last == Sending(Done(motionRefSeq, "FAULT"), ok)
    <3>3. Done(motionRefSeq, "FAULT") \in Frame
      BY <2>4 DEF Results
    <3>4. last \in Seq(Frame) /\ \A s : Single(s, last) /\ (s # motionRefSeq => ~Reported(s, last))
      BY <2>6, <3>3, SendingType, FrameSilent
    <3>. HIDE DEF last
    <3>5. \A s : IsQueued(s)' => IsQueued(s)
      BY <3>1 DEF IsQueued
    <3>6. ASSUME NEW s \in Seqs \ overJog' PROVE Quiet(s) \/ Ending(s)
      <4>1. CASE s = motionRefSeq
        <5>1. ~jogActive /\ ~JogDue /\ ~IsQueued(s)
          BY <1>1, <2>9, <3>1, <4>1 DEF Apart
        <5>2. Single(s, sent')
          BY <2>5, <2>7, <3>2, <3>4, <5>1, SilentIn DEF last
        <5>3. Awaits(s) /\ ~Awaits(s)'
          BY <2>3, <3>1, <3>5, <4>1, <5>1 DEF Awaits, Ends
        <5>. QED
          BY <2>2, <5>2, <5>3 DEF Ending
      <4>2. CASE s # motionRefSeq
        <5>1. ~Reported(s, sent')
          BY <2>5, <2>7, <3>2, <3>4, <4>2, SilentIn DEF last
        <5>2. Awaits(s)' => Awaits(s)
          BY <3>1, <3>5, <4>2 DEF Awaits, Ends
        <5>. QED
          BY <2>2, <5>1, <5>2 DEF Quiet
      <4>. QED
        BY <4>1, <4>2
    <3>. QED
      BY <3>1, <3>6 DEF KeepsOnce, BothOver
  <2>12. CASE PollMotionCompletes(frames)
    <3>. DEFINE report == <<Done(motionRefSeq, "SUCCESS")>>
    <3>1. motionActive /\ StartNextQueuedMotion(frames \o report)
      BY <2>12 DEF PollMotionCompletes, MotionDue
    <3>2. Done(motionRefSeq, "SUCCESS") \in Frame
      BY <2>4 DEF Results
    <3>3. /\ report \in Seq(Frame) /\ frames \o report \in Seq(Frame)
          /\ \A s : Single(s, report) /\ (s # motionRefSeq => ~Reported(s, report))
      BY <2>5, <2>6, <3>2, WireType, FrameSilent
    <3>. HIDE DEF report
    <3>4. BothOver' /\ overJog \subseteq overJog'
      BY <3>1, StartNextNotes
    <3>5. ASSUME NEW s \in Seqs \ overJog' PROVE Quiet(s) \/ Ending(s)
      <4>1. Single(s, frames \o report)
        <5>1. CASE s = motionRefSeq
          BY <2>5, <2>7, <2>9, <3>1, <3>3, <3>4, <5>1, SilentIn
        <5>2. CASE s # motionRefSeq
          BY <2>5, <2>7, <3>3, <5>2, SilentIn
        <5>. QED
          BY <5>1, <5>2
      <4>2. Reported(s, frames \o report) => Ends(s)
        <5>1. s # motionRefSeq => ~Reported(s, frames \o report)
          BY <2>5, <2>7, <3>3, SilentIn
        <5>. QED
          BY <3>1, <5>1 DEF Ends
      <4>. QED
        BY <2>2, <2>3, <3>1, <3>3, <3>4, <4>1, <4>2, StartNextOnce
    <3>. QED
      BY <3>4, <3>5 DEF KeepsOnce
  <2>. QED
    BY <2>1, <2>10, <2>11, <2>12 DEF PollMotionStage, PollMotionRuns, PollMotionNotReported
<1>. QED
  BY <1>2, <1>3, <1>4 DEF Poll

LEMMA NextOnce ==
  ASSUME OnceInv, TypeOK', ~SeqReuse, [Next]_vars
  PROVE  KeepsOnce
<1>1. CASE Tick
  BY <1>1, NothingStarts DEF Tick, motionVars, historyVars
<1>2. CASE UNCHANGED vars
  BY <1>2, NothingStarts DEF vars
<1>3. CASE Poll
  BY <1>3, PollOnce
<1>4. ASSUME NEW s \in Seqs, RejectRequest(s) PROVE KeepsOnce
  BY <1>4, NothingStarts DEF RejectRequest, motionVars, jogVars, historyVars
<1>. QED
  BY <1>1, <1>2, <1>3, <1>4, MoveOnce, JogOnce, StopOnce DEF Next

(* A move ends with one report, however its end, its interruption, a fault  *)
(* and a lost frame fall together; only the number of a move that was       *)
(* started over a running jog is reported a second time, for the jog        *)
(* (CoprocRuntime_Poll, coproc_runtime.c:798).                              *)
THEOREM DoneTwiceOnlyOver == Spec => []DoneTwiceOnlyOverJog
<1>1. ASSUME Init PROVE OnceInv
  <2>1. TypeOK
    BY <1>1, TypeInit
  <2>2. /\ ~motionActive /\ ~jogActive /\ queue = <<>> /\ motionRefSeq = 0 /\ nextSeq = 1
        /\ doneCount = [s \in Seqs |-> 0]
    BY <1>1 DEF Init
  <2>3. NumbersIssued /\ Apart /\ BothOver
    BY <2>2 DEF NumbersIssued, Apart, IsQueued, BothOver
  <2>4. \A s \in Seqs : Once(s)
    BY <2>2 DEF Once
  <2>. QED
    BY <2>1, <2>3, <2>4 DEF OnceInv
<1>2. ASSUME OnceInv, TypeOK', [Next]_vars PROVE OnceInv'
  <2>1. QueueStep /\ nextSeq <= nextSeq'
    BY <1>2, NextQueueStep DEF OnceInv, QueueStep
  <2>2. NumbersIssued'
    BY <1>2, <2>1, NextKeepsIssued DEF OnceInv
  <2>3. ASSUME ~SeqReuse PROVE Apart' /\ BothOver' /\ \A s \in Seqs \ overJog' : Once(s)'
    <3>1. KeepsOnce
      BY <1>2, <2>3, NextOnce
    <3>2. Apart'
      BY <1>2, <2>1, <2>3, NextKeepsApart DEF OnceInv
    <3>3. ASSUME NEW s \in Seqs \ overJog' PROVE Once(s)'
      <4>1. Once(s) /\ (Quiet(s) \/ Ending(s))
        BY <1>2, <2>3, <3>1, <3>3 DEF OnceInv, KeepsOnce
      <4>. QED
        BY <1>2, <2>1, <4>1, OnceKept DEF OnceInv
    <3>. QED
      BY <3>1, <3>2, <3>3 DEF KeepsOnce
  <2>4. SeqReuse' = SeqReuse
    BY DEF SeqReuse
  <2>. QED
    BY <1>2, <2>2, <2>3, <2>4 DEF OnceInv
<1>3. ASSUME OnceInv PROVE DoneTwiceOnlyOverJog
  <2>1. \A s \in Seqs : doneCount[s] \in Nat
    BY <1>3 DEF OnceInv, TypeOK, HistoryType
  <2>. QED
    BY <1>3, <2>1 DEF OnceInv, Once, DoneTwiceOnlyOverJog
<1>. QED
  BY <1>1, <1>2, <1>3, TypeCorrect, PTL DEF Spec


-----------------------------------------------------------------------------
(* What a step sends. *)

NoneOf(frames, F) == \A i \in DOMAIN frames : frames[i] \notin F
OneOf(frames, F)  == \E i \in DOMAIN frames :
                       frames[i] \in F /\ \A j \in DOMAIN frames : frames[j] \in F => j = i

LEMMA FrameOf ==
  ASSUME NEW F, NEW f
  PROVE  /\ NoneOf(<<>>, F)
         /\ f \notin F => NoneOf(<<f>>, F) /\ \A ok : NoneOf(Sending(f, ok), F)
         /\ f \in F => OneOf(<<f>>, F) /\ OneOf(Sending(f, TRUE), F)
<1>1. DOMAIN <<f>> = {1} /\ <<f>>[1] = f
  OBVIOUS
<1>2. \A i : i \notin DOMAIN <<>>
  OBVIOUS
<1>. QED
  BY <1>1, <1>2, Zenon DEF NoneOf, OneOf, Sending

LEMMA FramesOf ==
  ASSUME NEW F, NEW p \in Seq(Frame), NEW q \in Seq(Frame)
  PROVE  /\ NoneOf(p, F) /\ NoneOf(q, F) => NoneOf(p \o q, F)
         /\ OneOf(p, F) /\ NoneOf(q, F) => OneOf(p \o q, F)
         /\ NoneOf(p, F) /\ OneOf(q, F) => OneOf(p \o q, F)
<1>1. /\ Len(p) \in Nat /\ DOMAIN p = 1 .. Len(p) /\ Len(q) \in Nat /\ DOMAIN q = 1 .. Len(q)
      /\ DOMAIN (p \o q) = 1 .. Len(p) + Len(q)
  OBVIOUS
<1>2. ASSUME NEW i \in DOMAIN (p \o q)
      PROVE  \/ i \in DOMAIN p /\ (p \o q)[i] = p[i]
             \/ i - Len(p) \in DOMAIN q /\ (p \o q)[i] = q[i - Len(p)]
  OBVIOUS
<1>3. NoneOf(p, F) /\ NoneOf(q, F) => NoneOf(p \o q, F)
  BY <1>2 DEF NoneOf
<1>4. ASSUME OneOf(p, F), NoneOf(q, F) PROVE OneOf(p \o q, F)
  <2>1. PICK i \in DOMAIN p : p[i] \in F /\ \A j \in DOMAIN p : p[j] \in F => j = i
    BY <1>4 DEF OneOf
  <2>2. i \in DOMAIN (p \o q) /\ (p \o q)[i] = p[i]
    BY <1>1
  <2>3. ASSUME NEW j \in DOMAIN (p \o q), (p \o q)[j] \in F PROVE j = i
    BY <1>2, <1>4, <2>1, <2>3 DEF NoneOf
  <2>. QED
    BY <2>1, <2>2, <2>3 DEF OneOf
<1>5. ASSUME NoneOf(p, F), OneOf(q, F) PROVE OneOf(p \o q, F)
  <2>1. PICK i \in DOMAIN q : q[i] \in F /\ \A j \in DOMAIN q : q[j] \in F => j = i
    BY <1>5 DEF OneOf
  <2>2. Len(p) + i \in DOMAIN (p \o q) /\ (p \o q)[Len(p) + i] = q[i]
    BY <1>1
  <2>3. ASSUME NEW j \in DOMAIN (p \o q), (p \o q)[j] \in F PROVE j = Len(p) + i
    <3>1. j - Len(p) \in DOMAIN q /\ (p \o q)[j] = q[j - Len(p)]
      BY <1>2, <1>5, <2>3 DEF NoneOf
    <3>2. j - Len(p) = i
      BY <2>1, <2>3, <3>1
    <3>. QED
      BY <1>1, <3>2
  <2>. QED
    BY <2>1, <2>2, <2>3 DEF OneOf
<1>. QED
  BY <1>3, <1>4, <1>5

(* Starting the next move adds at most the report of its fault. *)
LEMMA StartNextSends ==
  ASSUME TypeOK, NEW before \in Seq(Frame), StartNextQueuedMotion(before), NEW F,
         \A r \in Seqs : Done(r, "FAULT") \notin F
  PROVE  /\ NoneOf(before, F) => NoneOf(sent', F)
         /\ OneOf(before, F) => OneOf(sent', F)
<1>1. CASE sent' = before
  BY <1>1
<1>2. ASSUME queue # <<>>, NEW ok,
             sent' = before \o Sending(Done(Head(queue).seq, "FAULT"), ok)
      PROVE  /\ NoneOf(before, F) => NoneOf(sent', F)
             /\ OneOf(before, F) => OneOf(sent', F)
  <2>. DEFINE f == Done(Head(queue).seq, "FAULT")
  <2>1. Head(queue) \in Command
    BY <1>2 DEF TypeOK, QueueType
  <2>2. f \in Frame /\ f \notin F
    BY <2>1, FrameType, RuntimeAssumption DEF Command, Seqs, Results
  <2>. HIDE DEF f
  <2>3. Sending(f, ok) \in Seq(Frame) /\ NoneOf(Sending(f, ok), F)
    BY <2>2, SendingType, FrameOf
  <2>. QED
    BY <1>2, <2>3, FramesOf DEF f
<1>. QED
  BY <1>1, <1>2 DEF StartNextQueuedMotion

-----------------------------------------------------------------------------
(* Reports of success. *)

Successes == {f \in Frame : f.kind = "DONE" /\ f.result = "SUCCESS"}

LEMMA OthersFail ==
  /\ \A r : Ack(r) \notin Successes /\ Nack(r) \notin Successes
  /\ \A r : \A x \in Results \ {"SUCCESS"} : Done(r, x) \notin Successes
BY DEF Successes, Ack, Nack, Done

(* Only a move whose time has come is reported to have succeeded. *)
LEMMA SuccessIsDue ==
  ASSUME TypeOK, TypeOK', Next, ~MotionDue
  PROVE  NoneOf(sent', Successes)
<1>1. motionRefSeq \in 0 .. MaxSeq
  BY DEF TypeOK, MotionType
<1>2. /\ \A x \in Results : Done(motionRefSeq, x) \in Frame
      /\ \A r \in Seqs : Ack(r) \in Frame
  BY <1>1, FrameType
<1>3. \A r \in Seqs : Done(r, "FAULT") \notin Successes
  BY OthersFail DEF Results
<1>4. CASE sent' = <<>>
  BY <1>4, FrameOf
<1>5. ASSUME NEW f, f \notin Successes, NEW ok, sent' = Sending(f, ok) \/ sent' = <<f>>
      PROVE  NoneOf(sent', Successes)
  BY <1>5, FrameOf
<1>6. CASE Tick
  BY <1>4, <1>6 DEF Tick
<1>7. CASE Poll
  <2>1. CASE PollJogFaults
    BY <1>5, <2>1, OthersFail DEF PollJogFaults, Results
  <2>2. CASE PollJogTimeoutLost
    BY <1>4, <2>2 DEF PollJogTimeoutLost
  <2>3. CASE PollStages
    <3>1. PICK frames \in {<<>>, <<Done(motionRefSeq, "STOPPED")>>} : PollMotionStage(frames)
      BY <2>3 DEF PollStages
    <3>2. frames \in Seq(Frame) /\ NoneOf(frames, Successes)
      BY <1>2, <3>1, WireType, OthersFail, FrameOf DEF Results
    <3>3. CASE sent' = frames
      BY <3>2, <3>3
    <3>4. CASE PollMotionFaults(frames)
      <4>1. PICK ok : sent' = frames \o Sending(Done(motionRefSeq, "FAULT"), ok)
        BY <3>4 DEF PollMotionFaults
      <4>2. Done(motionRefSeq, "FAULT") \in Frame /\ Done(motionRefSeq, "FAULT") \notin Successes
        BY <1>2, OthersFail DEF Results
      <4>3. /\ Sending(Done(motionRefSeq, "FAULT"), ok) \in Seq(Frame)
            /\ NoneOf(Sending(Done(motionRefSeq, "FAULT"), ok), Successes)
        BY <4>2, SendingType, FrameOf
      <4>. QED
        BY <3>2, <4>1, <4>3, FramesOf
    <3>. QED
      BY <3>1, <3>3, <3>4 DEF PollMotionStage, PollMotionRuns, PollMotionNotReported,
         PollMotionCompletes
  <2>. QED
    BY <1>7, <2>1, <2>2, <2>3 DEF Poll
<1>8. ASSUME NEW s \in Seqs, RejectRequest(s) PROVE NoneOf(sent', Successes)
  BY <1>5, <1>8, OthersFail DEF RejectRequest
<1>9. ASSUME NEW s \in Seqs, NEW d \in Durations, ServoMove(s, d) PROVE NoneOf(sent', Successes)
  <2>1. CASE MoveStarts(s, d) \/ MoveQueued(s, d) \/ MoveRepeated(s)
    <3>1. sent' = <<Ack(s)>> \/ sent' = <<>>
      BY <2>1 DEF MoveStarts, MoveQueued, MoveRepeated, AckMove
    <3>. QED
      BY <1>4, <1>5, <3>1, OthersFail
  <2>2. CASE MoveFailsToStart(s, d) \/ MoveFindsQueueFull(s)
    <3>1. \E ok : sent' = Sending(Nack(s), ok)
      BY <2>2 DEF MoveFailsToStart, MoveFindsQueueFull
    <3>. QED
      BY <1>5, <3>1, OthersFail
  <2>. QED
    BY <1>9, <2>1, <2>2 DEF ServoMove
<1>10. ASSUME NEW s \in Seqs, NEW t \in Durations, ServoJog(s, t) PROVE NoneOf(sent', Successes)
  <2>1. CASE JogFindsFault(s)
    BY <1>5, <2>1, OthersFail DEF JogFindsFault, Results
  <2>2. CASE JogCannotInterrupt(s)
    BY <1>4, <2>2 DEF JogCannotInterrupt
  <2>3. CASE JogStarts(s, t)
    <3>. DEFINE interrupted == IF motionActive
                               THEN <<Done(motionRefSeq, "INTERRUPTED")>> ELSE <<>>
    <3>1. PICK ok : sent' = interrupted \o Sending(Ack(s), ok)
      BY <2>3 DEF JogStarts
    <3>2. /\ Done(motionRefSeq, "INTERRUPTED") \in Frame /\ Ack(s) \in Frame
          /\ Done(motionRefSeq, "INTERRUPTED") \notin Successes /\ Ack(s) \notin Successes
      BY <1>2, OthersFail DEF Results
    <3>3. /\ interrupted \in Seq(Frame) /\ NoneOf(interrupted, Successes)
          /\ Sending(Ack(s), ok) \in Seq(Frame) /\ NoneOf(Sending(Ack(s), ok), Successes)
      BY <3>2, WireType, SendingType, FrameOf
    <3>. QED
      BY <3>1, <3>3, FramesOf
  <2>. QED
    BY <1>10, <2>1, <2>2, <2>3 DEF ServoJog
<1>11. ASSUME NEW s \in Seqs, NEW scope \in {0, 1}, ServoStop(s, scope)
       PROVE  NoneOf(sent', Successes)
  <2>1. CASE StopRefused(s)
    BY <1>5, <2>1, OthersFail DEF StopRefused
  <2>2. CASE StopUnanswered(s)
    BY <1>4, <2>2 DEF StopUnanswered
  <2>3. CASE StopNotReported(s, scope)
    BY <1>5, <2>3, OthersFail DEF StopNotReported
  <2>4. CASE StopTaken(s, scope)
    <3>. DEFINE report == IF motionActive \/ jogActive
                          THEN <<Done(motionRefSeq, "STOPPED")>> ELSE <<>>
                replies == <<Ack(s)>> \o report
    <3>1. /\ Done(motionRefSeq, "STOPPED") \in Frame /\ Ack(s) \in Frame
          /\ Done(motionRefSeq, "STOPPED") \notin Successes /\ Ack(s) \notin Successes
      BY <1>2, OthersFail DEF Results
    <3>2. /\ report \in Seq(Frame) /\ NoneOf(report, Successes)
          /\ <<Ack(s)>> \in Seq(Frame) /\ NoneOf(<<Ack(s)>>, Successes)
      BY <3>1, WireType, FrameOf
    <3>3. replies \in Seq(Frame) /\ NoneOf(replies, Successes)
      BY <3>2, WireType, FramesOf
    <3>4. StartNextQueuedMotion(replies) \/ sent' = replies
      BY <2>4 DEF StopTaken
    <3>. HIDE DEF replies
    <3>. QED
      BY <1>3, <3>3, <3>4, StartNextSends
  <2>. QED
    BY <1>11, <2>1, <2>2, <2>3, <2>4 DEF ServoStop
<1>. QED
  BY <1>6, <1>7, <1>8, <1>9, <1>10, <1>11 DEF Next

(* The clock, as long as no deadline lies beyond its wrap. *)
LEMMA WithinWrap ==
  ASSUME NEW t \in Nat, NEW s \in Nat, NEW d \in Nat, NEW m \in Nat \ {0},
         t < m, s < m, s + d < m, t >= (s + d) % m
  PROVE  (t + m - s) % m >= d
<1>1. (s + d) % m = s + d
  OBVIOUS
<1>2. t - s \in Nat /\ t - s < m /\ t - s >= d
  BY <1>1
<1>3. t + m - s = (t - s) + m
  OBVIOUS
<1>. DEFINE x == t - s
<1>4. (x + m) % m = x
  <2>1. x \in Nat /\ x < m
    BY <1>2
  <2>. HIDE DEF x
  <2>. QED
    BY <2>1
<1>. QED
  BY <1>2, <1>3, <1>4

(* The head is never told of a success before the time it asked for has     *)
(* passed, unless the deadline lay beyond the wrap of the tick              *)
(* (CoprocRuntime_Poll compares the two as they are).                       *)
THEOREM NeverEarly == Spec => NotEarlyBeforeWrap
<1>. DEFINE A == Succeeded' /\ motionStartedAt + motionDuration < TickMod
                   => Elapsed(motionStartedAt) >= motionDuration
<1>1. ASSUME TypeOK, TypeOK', Next PROVE A
  <2>. SUFFICES ASSUME Succeeded', motionStartedAt + motionDuration < TickMod
                PROVE  Elapsed(motionStartedAt) >= motionDuration
    OBVIOUS
  <2>1. sent' \in Seq(Frame)
    BY <1>1 DEF TypeOK
  <2>2. ~NoneOf(sent', Successes)
    <3>1. PICK i \in DOMAIN sent' : sent'[i].kind = "DONE" /\ sent'[i].result = "SUCCESS"
      BY DEF Succeeded
    <3>2. sent'[i] \in Frame
      BY <2>1
    <3>. QED
      BY <3>1, <3>2 DEF NoneOf, Successes
  <2>3. now >= (motionStartedAt + motionDuration) % TickMod
    BY <1>1, <2>2, SuccessIsDue DEF MotionDue, DeadlineReached, Later
  <2>4. /\ now \in Nat /\ motionStartedAt \in Nat /\ motionDuration \in Nat
        /\ now < TickMod /\ motionStartedAt < TickMod /\ TickMod \in Nat \ {0}
    BY <1>1, RuntimeAssumption DEF TypeOK, HeadType, MotionType, Ticks
  <2>. QED
    BY <2>3, <2>4, WithinWrap DEF Elapsed
<1>2. TypeOK /\ TypeOK' /\ [Next]_vars => [A]_vars
  BY <1>1
<1>. HIDE DEF A
<1>3. Spec => [][A]_vars
  BY <1>2, TypeCorrect, PTL DEF Spec
<1>. QED
  BY <1>3 DEF NotEarlyBeforeWrap, A


-----------------------------------------------------------------------------
(* The next move starts after a report. *)

(* While servos work and no number is used again. *)
LEMMA ReportedFirst ==
  ASSUME OrderInv, TypeOK', Next, ~ServoFaults, ~SeqReuse,
         motionActive', motionRefSeq' \in QueuedSeqs
  PROVE  Reported(motionRefSeq, sent')
<1>1. /\ TypeOK /\ NumbersIssued /\ motionRefSeq \in 0 .. MaxSeq
      /\ \A i \in DOMAIN queue : motionRefSeq < queue[i].seq
      /\ queue # <<>> => motionActive
  BY DEF OrderInv, TypeOK, MotionType, QueueInOrder, NoStrandedMove
<1>2. PICK k \in DOMAIN queue : motionRefSeq' = queue[k].seq
  BY DEF QueuedSeqs
<1>3. queue # <<>> /\ motionActive
  BY <1>1, <1>2
<1>4. motionRefSeq' # motionRefSeq
  BY <1>1, <1>2, QueueFacts
<1>5. motionRefSeq' < nextSeq
  BY <1>1, <1>2 DEF NumbersIssued
<1>6. \A x \in Results : Done(motionRefSeq, x) \in Frame
  BY <1>1, FrameType
<1>7. ASSUME NEW before \in Seq(Frame), StartNextQueuedMotion(before),
             Reported(motionRefSeq, before)
      PROVE  Reported(motionRefSeq, sent')
  BY <1>3, <1>7 DEF StartNextQueuedMotion, StartMotionCommand
<1>8. CASE Tick
  BY <1>4, <1>8 DEF Tick, motionVars
<1>9. CASE Poll
  <2>1. CASE PollJogFaults \/ PollJogTimeoutLost
    BY <1>4, <2>1 DEF PollJogFaults, PollJogTimeoutLost, motionVars
  <2>2. CASE PollStages
    <3>1. PICK frames \in {<<>>, <<Done(motionRefSeq, "STOPPED")>>} : PollMotionStage(frames)
      BY <2>2 DEF PollStages
    <3>2. frames \in Seq(Frame)
      BY <1>6, <3>1, WireType DEF Results
    <3>3. PollMotionCompletes(frames)
      BY <1>4, <3>1 DEF PollMotionStage, PollMotionRuns, PollMotionFaults, PollMotionNotReported,
         motionVars
    <3>. DEFINE report == <<Done(motionRefSeq, "SUCCESS")>>
    <3>4. report \in Seq(Frame) /\ frames \o report \in Seq(Frame)
      BY <1>6, <3>2, WireType DEF Results
    <3>5. Reported(motionRefSeq, report)
      BY DoneReports
    <3>6. StartNextQueuedMotion(frames \o report)
      BY <3>3 DEF PollMotionCompletes
    <3>. HIDE DEF report
    <3>7. Reported(motionRefSeq, frames \o report)
      BY <3>2, <3>4, <3>5, ReportedIn
    <3>. QED
      BY <1>7, <3>4, <3>6, <3>7
  <2>. QED
    BY <1>9, <2>1, <2>2 DEF Poll
<1>10. ASSUME NEW s \in Seqs, RejectRequest(s) PROVE FALSE
  BY <1>4, <1>10 DEF RejectRequest, motionVars
<1>11. ASSUME NEW s \in Seqs, NEW d \in Durations, ServoMove(s, d) PROVE FALSE
  BY <1>3, <1>4, <1>11 DEF ServoMove, MoveStarts, MoveFailsToStart, MoveQueued, MoveFindsQueueFull,
     MoveRepeated, motionVars
<1>12. ASSUME NEW s \in Seqs, NEW t \in Durations, ServoJog(s, t) PROVE FALSE
  BY <1>4, <1>12 DEF ServoJog, JogFindsFault, JogCannotInterrupt, JogStarts, motionVars
<1>13. ASSUME NEW s \in Seqs, NEW scope \in {0, 1}, ServoStop(s, scope)
       PROVE  Reported(motionRefSeq, sent')
  <2>1. CASE StopRefused(s) \/ StopUnanswered(s) \/ StopNotReported(s, scope)
    BY <1>4, <2>1 DEF StopRefused, StopUnanswered, StopNotReported, motionVars
  <2>2. CASE StopTaken(s, scope)
    <3>. DEFINE report == IF motionActive \/ jogActive
                          THEN <<Done(motionRefSeq, "STOPPED")>> ELSE <<>>
                replies == <<Ack(s)>> \o report
    <3>1. Ack(s) \in Frame /\ Done(motionRefSeq, "STOPPED") \in Frame
      BY <1>6, FrameType DEF Results
    <3>2. <<Ack(s)>> \in Seq(Frame) /\ report \in Seq(Frame) /\ replies \in Seq(Frame)
      BY <3>1, WireType
    <3>3. Reported(motionRefSeq, report)
      BY <1>3, DoneReports
    <3>4. StartNextQueuedMotion(replies)
      BY <1>4, <2>2 DEF StopTaken
    <3>. HIDE DEF report
    <3>5. Reported(motionRefSeq, replies)
      BY <3>2, <3>3, ReportedIn
    <3>. HIDE DEF replies
    <3>. QED
      BY <1>7, <3>2, <3>4, <3>5
  <2>. QED
    BY <1>13, <2>1, <2>2 DEF ServoStop
<1>. QED
  BY <1>8, <1>9, <1>10, <1>11, <1>12, <1>13 DEF Next

(* A waiting move is only started in the step that reports the one in front *)
(* of it (StartNextQueuedMotion).                                           *)
THEOREM ReportedBeforeNext == Spec => NextStartsAfterReport
<1>. DEFINE A == (~ServoFaults /\ ~SeqReuse /\ motionActive' /\ motionRefSeq' \in QueuedSeqs)
                   => \E i \in DOMAIN sent' : sent'[i].kind = "DONE" /\ sent'[i].ref = motionRefSeq
<1>1. ASSUME OrderInv, TypeOK', Next PROVE A
  BY <1>1, ReportedFirst DEF Reported
<1>2. OrderInv /\ TypeOK' /\ [Next]_vars => [A]_vars
  BY <1>1
<1>. HIDE DEF A
<1>3. Spec => [][A]_vars
  BY <1>2, QueueOrdered, TypeCorrect, PTL DEF Spec
<1>. QED
  BY <1>3 DEF NextStartsAfterReport, A

-----------------------------------------------------------------------------
(* Every request is answered. *)

Replies(s) == {f \in Frame : f.kind \in {"ACK", "NACK"} /\ f.ref = s}

LEMMA RepliesAre ==
  ASSUME NEW s \in Seqs
  PROVE  /\ Ack(s) \in Replies(s) /\ Nack(s) \in Replies(s)
         /\ \A r, x : Done(r, x) \notin Replies(s)
<1>1. Ack(s) \in Frame /\ Nack(s) \in Frame
  BY FrameType
<1>. QED
  BY <1>1 DEF Replies, Ack, Nack, Done

JogFailed == sent' = <<Done(motionRefSeq, "FAULT")>> /\ jogActive /\ ~jogActive'

LEMMA RequestAnswered ==
  ASSUME TypeOK, ~TxFaults, NEW s \in Seqs,
         \/ RejectRequest(s)
         \/ \E d \in Durations : ServoMove(s, d) \/ ServoJog(s, d)
         \/ \E scope \in {0, 1} : ServoStop(s, scope)
  PROVE  OneOf(sent', Replies(s)) \/ JogFailed
<1>1. /\ motionRefSeq \in 0 .. MaxSeq /\ \A ok \in TxOutcomes : ok = TRUE
  BY DEF TypeOK, MotionType, TxOutcomes
<1>2. Ack(s) \in Frame /\ \A x \in Results : Done(motionRefSeq, x) \in Frame
  BY <1>1, FrameType
<1>3. ASSUME sent' = <<Ack(s)>> \/ sent' = Sending(Nack(s), TRUE) PROVE OneOf(sent', Replies(s))
  BY <1>3, RepliesAre, FrameOf
<1>4. CASE RejectRequest(s)
  BY <1>1, <1>3, <1>4 DEF RejectRequest
<1>5. ASSUME NEW d \in Durations, ServoMove(s, d) PROVE OneOf(sent', Replies(s))
  <2>1. CASE MoveStarts(s, d) \/ MoveQueued(s, d) \/ MoveRepeated(s)
    <3>1. sent' = <<Ack(s)>>
      BY <2>1 DEF MoveStarts, MoveQueued, MoveRepeated, AckMove
    <3>. QED
      BY <1>3, <3>1
  <2>2. CASE MoveFailsToStart(s, d) \/ MoveFindsQueueFull(s)
    <3>1. PICK ok \in TxOutcomes : sent' = Sending(Nack(s), ok)
      BY <2>2 DEF MoveFailsToStart, MoveFindsQueueFull
    <3>2. ok = TRUE
      BY <1>1
    <3>. QED
      BY <1>3, <3>1, <3>2
  <2>. QED
    BY <1>5, <2>1, <2>2 DEF ServoMove
<1>6. ASSUME NEW t \in Durations, ServoJog(s, t) PROVE OneOf(sent', Replies(s)) \/ JogFailed
  <2>1. CASE JogFindsFault(s)
    BY <1>1, <2>1 DEF JogFindsFault, JogApplyFails, JogFailed, Sending
  <2>2. CASE JogStarts(s, t)
    <3>. DEFINE interrupted == IF motionActive
                               THEN <<Done(motionRefSeq, "INTERRUPTED")>> ELSE <<>>
    <3>1. sent' = interrupted \o Sending(Ack(s), TRUE)
      BY <1>1, <2>2 DEF JogStarts
    <3>2. Done(motionRefSeq, "INTERRUPTED") \in Frame
      BY <1>2 DEF Results
    <3>3. /\ interrupted \in Seq(Frame) /\ NoneOf(interrupted, Replies(s))
          /\ Sending(Ack(s), TRUE) \in Seq(Frame) /\ OneOf(Sending(Ack(s), TRUE), Replies(s))
      BY <1>2, <3>2, WireType, SendingType, RepliesAre, FrameOf
    <3>. QED
      BY <3>1, <3>3, FramesOf
  <2>. QED
    BY <1>6, <2>1, <2>2 DEF ServoJog, JogCannotInterrupt
<1>7. ASSUME NEW scope \in {0, 1}, ServoStop(s, scope) PROVE OneOf(sent', Replies(s))
  <2>1. CASE StopRefused(s)
    <3>1. PICK ok \in TxOutcomes : sent' = Sending(Nack(s), ok)
      BY <2>1 DEF StopRefused
    <3>2. ok = TRUE
      BY <1>1
    <3>. QED
      BY <1>3, <3>1, <3>2
  <2>2. CASE StopTaken(s, scope)
    <3>. DEFINE report == IF motionActive \/ jogActive
                          THEN <<Done(motionRefSeq, "STOPPED")>> ELSE <<>>
                replies == <<Ack(s)>> \o report
    <3>1. Done(motionRefSeq, "STOPPED") \in Frame
      BY <1>2 DEF Results
    <3>2. /\ report \in Seq(Frame) /\ NoneOf(report, Replies(s))
          /\ <<Ack(s)>> \in Seq(Frame) /\ OneOf(<<Ack(s)>>, Replies(s))
      BY <1>2, <3>1, WireType, RepliesAre, FrameOf
    <3>3. replies \in Seq(Frame) /\ OneOf(replies, Replies(s))
      BY <3>2, WireType, FramesOf
    <3>4. StartNextQueuedMotion(replies) \/ sent' = replies
      BY <2>2 DEF StopTaken
    <3>. HIDE DEF replies
    <3>. QED
      BY <3>3, <3>4, RepliesAre, StartNextSends
  <2>. QED
    BY <1>7, <2>1, <2>2 DEF ServoStop, StopUnanswered, StopNotReported
<1>. QED
  BY <1>4, <1>5, <1>6, <1>7

(* With a UART that takes every frame a new request gets one reply, ACK or  *)
(* NACK and not both, whatever is running and whichever servo fails; but a  *)
(* jog that finds its predecessor faulted gets none (ServoJog).             *)
THEOREM EveryRequestAnswered == Spec => Answered
<1>. DEFINE A == (~TxFaults /\ nextSeq' # nextSeq)
                   => \/ Cardinality({i \in DOMAIN sent' : sent'[i].kind \in {"ACK", "NACK"}
                                                          /\ sent'[i].ref = nextSeq' - 1}) = 1
                      \/ sent' = <<Done(motionRefSeq, "FAULT")>> /\ jogActive /\ ~jogActive'
<1>1. ASSUME TypeOK, TypeOK', Next PROVE A
  <2>. DEFINE replies == {i \in DOMAIN sent' : sent'[i].kind \in {"ACK", "NACK"}
                                                /\ sent'[i].ref = nextSeq' - 1}
  <2>. SUFFICES ASSUME ~TxFaults, nextSeq' # nextSeq
                PROVE  Cardinality(replies) = 1 \/ JogFailed
    BY DEF JogFailed
  <2>1. PICK s \in Seqs : \/ RejectRequest(s)
                          \/ \E d \in Durations : ServoMove(s, d) \/ ServoJog(s, d)
                          \/ \E scope \in {0, 1} : ServoStop(s, scope)
    BY <1>1 DEF Next, Tick, Poll
  <2>2. Request(s)
    BY <2>1 DEF RejectRequest, ServoMove, MoveStarts, MoveFailsToStart, MoveQueued,
       MoveFindsQueueFull, MoveRepeated, ServoJog, JogFindsFault, JogCannotInterrupt, JogStarts,
       ServoStop, StopRefused, StopUnanswered, StopNotReported, StopTaken
  <2>3. nextSeq' - 1 = s
    BY <2>2, RuntimeAssumption DEF Request, Seqs
  <2>4. sent' \in Seq(Frame)
    BY <1>1 DEF TypeOK
  <2>5. replies = {i \in DOMAIN sent' : sent'[i] \in Replies(s)}
    <3>1. \A i \in DOMAIN sent' : sent'[i] \in Frame
      BY <2>4
    <3>. QED
      BY <2>3, <3>1 DEF Replies
  <2>. HIDE DEF replies
  <2>6. ASSUME OneOf(sent', Replies(s)) PROVE Cardinality(replies) = 1
    <3>1. PICK i \in DOMAIN sent' :
            sent'[i] \in Replies(s) /\ \A j \in DOMAIN sent' : sent'[j] \in Replies(s) => j = i
      BY <2>6 DEF OneOf
    <3>2. replies = {i}
      BY <2>5, <3>1
    <3>. QED
      BY <3>2, FS_Singleton
  <2>. QED
    BY <1>1, <2>1, <2>6, RequestAnswered
<1>2. TypeOK /\ TypeOK' /\ [Next]_vars => [A]_vars
  BY <1>1
<1>. HIDE DEF A
<1>3. Spec => [][A]_vars
  BY <1>2, TypeCorrect, PTL DEF Spec
<1>. QED
  BY <1>3, PTL DEF Answered, A

=============================================================================
