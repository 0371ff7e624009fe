--------------------------- MODULE CoprocRuntime ---------------------------
(***************************************************************************)
(* The motion half of the STM32 co-processor runtime                       *)
(* (stm32-f103/User/Protocol/coproc_runtime.c): SERVO_MOVE, SERVO_JOG and  *)
(* SERVO_STOP requests, the queue of moves waiting behind the active one,  *)
(* and the poll that advances, completes, times out and faults them.       *)
(*                                                                         *)
(* Every request carries the sequence number the head (ESP32) gave it.  A  *)
(* request is answered with ACK or NACK and a motion ends with a           *)
(* MOTION_DONE that names the sequence number it belongs to.  Positions,   *)
(* axes and profiles are abstracted: a servo write either works or fails.  *)
(***************************************************************************)
EXTENDS Naturals, Sequences, FiniteSets

CONSTANTS
  MotionQueueDepth,  \* slots of the motion ring; one slot always stays free
  Durations,         \* duration_ms / timeout_ms values of the requests
  TickMod,           \* the millisecond tick wraps here (2^32 on the target)
  MaxSeq,            \* bound: the head issues sequence numbers 1 .. MaxSeq
  ServoFaults,       \* may a servo write or a servo stop fail?
  TxFaults,          \* may the UART refuse a frame?
  Reused             \* numbers the head may use again, after a restart

ASSUME RuntimeAssumption ==
  /\ MotionQueueDepth \in Nat \ {0}
  /\ TickMod \in Nat \ {0}
  /\ Durations \subseteq 1 .. TickMod - 1
  /\ MaxSeq \in Nat
  /\ ServoFaults \in BOOLEAN
  /\ TxFaults \in BOOLEAN
  /\ Reused \subseteq Nat

VARIABLES
  now,              \* Platform_Time_GetTickMs, modulo TickMod
  motionActive,     \* a move is running
  motionRefSeq,     \* sequence number MOTION_DONE will name (0: none yet)
  motionStartedAt,  \* tick at which the move or jog was started
  motionDuration,   \* its duration; motionCompleteAtMs is their sum
  jogActive,        \* a jog is running
  jogFresh,         \* jogLastUpdateMs = nowMs: ApplyJogAt has nothing to do
  jogTimeoutAt,     \* tick at which the jog stops by itself
  queue,            \* accepted moves behind the active one, oldest first
  nextSeq,          \* one more than the largest number seen so far
  sent,             \* frames this step put on the wire, in order
  acked,            \* history: moves that were answered with ACK
  flushed,          \* history: queued moves dropped by STOP(all) or JOG
  overJog,          \* history: moves whose number displaced a running jog's
  doneCount         \* history: MOTION_DONE frames sent per sequence number

motionVars  == <<motionActive, motionRefSeq, motionStartedAt, motionDuration>>
jogVars     == <<jogActive, jogFresh, jogTimeoutAt>>
historyVars == <<acked, flushed, overJog, doneCount>>
vars == <<now, motionActive, motionRefSeq, motionStartedAt, motionDuration,
          jogActive, jogFresh, jogTimeoutAt, queue, nextSeq, sent,
          acked, flushed, overJog, doneCount>>

Seqs    == 1 .. MaxSeq
Ticks   == 0 .. TickMod - 1
Command == [seq : Seqs, duration : Durations]
Results == {"SUCCESS", "STOPPED", "INTERRUPTED", "FAULT"}
Frame   == [kind : {"ACK", "NACK"}, ref : Seqs]
             \cup [kind : {"DONE"}, ref : 0 .. MaxSeq, result : Results]

-----------------------------------------------------------------------------
(* Frames and the outcomes the environment chooses *)

Ack(s)          == [kind |-> "ACK", ref |-> s]
Nack(s)         == [kind |-> "NACK", ref |-> s]
Done(s, result) == [kind |-> "DONE", ref |-> s, result |-> result]

TxOutcomes == IF TxFaults THEN BOOLEAN ELSE {TRUE}

(* What is on the wire once the frame f was offered to the UART. *)
Sending(f, ok) == IF ok THEN <<f>> ELSE <<>>

Later(t, d) == (t + d) % TickMod
Elapsed(t)  == (now + TickMod - t) % TickMod

(* Mutant: one tick early. *)
DeadlineAlmostReached(deadline) == now + 1 >= deadline

(* nowMs >= deadline: a plain unsigned comparison of two wrapping ticks. *)
DeadlineReached(deadline) == now >= deadline

JogApplyFails    == ServoFaults /\ jogActive /\ ~jogFresh
MotionApplyFails == ServoFaults /\ motionActive

SeqReuse == Reused # {}

IsQueued(s) == \E i \in DOMAIN queue : queue[i].seq = s
QueuedSeqs  == {queue[i].seq : i \in DOMAIN queue}
(* Mutant: the ring's free slot is used as well. *)
QueueFullLate == Len(queue) >= MotionQueueDepth

QueueFull   == Len(queue) + 1 >= MotionQueueDepth

-----------------------------------------------------------------------------
(* Bookkeeping shared by the actions *)

(* A request arrives.  Numbers grow, and some are missing: the head numbers *)
(* every frame it sends, and a frame may be lost on the wire.              *)
Request(s) ==
  /\ s \in Seqs
  /\ s >= nextSeq \/ s \in Reused
  /\ nextSeq' = IF s >= nextSeq THEN s + 1 ELSE nextSeq
  /\ UNCHANGED now

DonesFor(s, frames) ==
  Cardinality({i \in DOMAIN frames : frames[i].kind = "DONE" /\ frames[i].ref = s})

(* Every step counts the MOTION_DONE frames it sent, up to two per number. *)
CountDones ==
  doneCount' = [s \in Seqs |->
                  LET n == doneCount[s] + DonesFor(s, sent')
                  IN  IF n > 2 THEN 2 ELSE n]

(* StartMotionCommand: the registers are loaded before the first servo     *)
(* write, and only motionActive is taken back when that write fails.       *)
StartMotionCommand(c, works) ==
  /\ ~works => ServoFaults
  /\ motionActive' = works
  /\ motionRefSeq' = c.seq
  /\ motionStartedAt' = now
  /\ motionDuration' = c.duration
  /\ overJog' = IF jogActive' THEN overJog \cup {c.seq} ELSE overJog

(* Mutant: nothing follows the motion that ended. *)
StartNothing(before) ==
  /\ motionActive' = FALSE
  /\ sent' = before
  /\ UNCHANGED <<motionRefSeq, motionStartedAt, motionDuration, queue, overJog>>

(* Mutant: with an empty queue the motion that ended stays active. *)
StartNextKeepsActive(before) ==
  \/ /\ queue = <<>>
     /\ sent' = before
     /\ UNCHANGED <<motionVars, queue, overJog>>
  \/ /\ queue # <<>>
     /\ queue' = Tail(queue)
     /\ StartMotionCommand(Head(queue), TRUE)
     /\ sent' = before

(* Mutant: the newest command is taken first. *)
StartNewest(before) ==
  \/ /\ queue = <<>>
     /\ StartNothing(before)
  \/ /\ queue # <<>>
     /\ queue' = SubSeq(queue, 1, Len(queue) - 1)
     /\ StartMotionCommand(queue[Len(queue)], TRUE)
     /\ sent' = before

(* StartNextQueuedMotion, after the frames in before went out. *)
StartNextQueuedMotion(before) ==
  \/ /\ queue = <<>>
     /\ motionActive' = FALSE
     /\ sent' = before
     /\ UNCHANGED <<motionRefSeq, motionStartedAt, motionDuration, queue, overJog>>
  \/ /\ queue # <<>>
     /\ queue' = Tail(queue)
     /\ StartMotionCommand(Head(queue), TRUE)
     /\ sent' = before
  \/ /\ queue # <<>>
     /\ queue' = Tail(queue)
     /\ StartMotionCommand(Head(queue), FALSE)
     /\ \E ok \in TxOutcomes :
          sent' = before \o Sending(Done(Head(queue).seq, "FAULT"), ok)

(* ApplyJogAt when it succeeds, or when there is no jog to apply. *)
ApplyJog == jogFresh' = (jogFresh \/ jogActive)

-----------------------------------------------------------------------------
(* The system *)

Init ==
  /\ now = 0
  /\ motionActive = FALSE
  /\ motionRefSeq = 0
  /\ motionStartedAt = 0
  /\ motionDuration = 0
  /\ jogActive = FALSE
  /\ jogFresh = FALSE
  /\ jogTimeoutAt = 0
  /\ queue = <<>>
  /\ nextSeq = 1
  /\ sent = <<>>
  /\ acked = {}
  /\ flushed = {}
  /\ overJog = {}
  /\ doneCount = [s \in Seqs |-> 0]

(* A millisecond passes. *)
Tick ==
  /\ now' = Later(now, 1)
  /\ jogFresh' = FALSE
  /\ sent' = <<>>
  /\ UNCHANGED <<motionVars, jogActive, jogTimeoutAt, queue, nextSeq, historyVars>>

(* A request with a bad length, flag, axis, duration, profile, range, scope *)
(* or message id is refused and changes nothing.                           *)
RejectRequest(s) ==
  /\ Request(s)
  /\ \E ok \in TxOutcomes : sent' = Sending(Nack(s), ok)
  /\ UNCHANGED <<motionVars, jogVars, queue, historyVars>>

(* Mutant: a lost ACK stops whatever is running. *)
AckMoveOrStop(s) ==
  \/ /\ sent' = <<Ack(s)>>
     /\ acked' = acked \cup {s}
     /\ motionActive' = TRUE
  \/ /\ TxFaults
     /\ sent' = <<>>
     /\ UNCHANGED acked
     /\ motionActive' = FALSE

(* The reply to a move that was started, queued or recognised.  When the   *)
(* ACK cannot be sent, a move whose number is in motionRefSeq is dropped;  *)
(* a queued one stays queued although the head never heard of it.          *)
AckMove(s) ==
  \/ /\ sent' = <<Ack(s)>>
     /\ acked' = acked \cup {s}
     /\ motionActive' = TRUE
  \/ /\ TxFaults
     /\ sent' = <<>>
     /\ UNCHANGED acked
     /\ IF motionRefSeq' = s THEN motionActive' = FALSE ELSE motionActive' = TRUE

MoveStarts(s, d) ==
  /\ Request(s)
  /\ ~motionActive
  /\ motionRefSeq' = s
  /\ motionStartedAt' = now
  /\ motionDuration' = d
  /\ AckMove(s)
  /\ overJog' = IF jogActive THEN overJog \cup {s} ELSE overJog
  /\ UNCHANGED <<jogVars, queue, flushed, doneCount>>

(* The first servo write fails: the registers already hold the new move.   *)
MoveFailsToStart(s, d) ==
  /\ Request(s)
  /\ ~motionActive
  /\ UNCHANGED jogVars
  /\ StartMotionCommand([seq |-> s, duration |-> d], FALSE)
  /\ \E ok \in TxOutcomes : sent' = Sending(Nack(s), ok)
  /\ UNCHANGED <<queue, acked, flushed, doneCount>>

MoveQueued(s, d) ==
  /\ Request(s)
  /\ motionActive /\ motionRefSeq # s
  /\ ~QueueFull
  /\ queue' = Append(queue, [seq |-> s, duration |-> d])
  /\ UNCHANGED <<motionRefSeq, motionStartedAt, motionDuration>>
  /\ AckMove(s)
  /\ UNCHANGED <<jogVars, flushed, overJog, doneCount>>

(* Mutant: no NACK when the ring is full. *)
MoveDroppedSilently(s) ==
  /\ Request(s)
  /\ motionActive /\ motionRefSeq # s
  /\ QueueFull
  /\ sent' = <<>>
  /\ UNCHANGED <<motionVars, jogVars, queue, historyVars>>

MoveFindsQueueFull(s) ==
  /\ Request(s)
  /\ motionActive /\ motionRefSeq # s
  /\ QueueFull
  /\ \E ok \in TxOutcomes : sent' = Sending(Nack(s), ok)
  /\ UNCHANGED <<motionVars, jogVars, queue, historyVars>>

(* A move that carries the active move's number is taken for a repetition. *)
MoveRepeated(s) ==
  /\ Request(s)
  /\ motionActive /\ motionRefSeq = s
  /\ UNCHANGED <<motionRefSeq, motionStartedAt, motionDuration>>
  /\ AckMove(s)
  /\ UNCHANGED <<jogVars, queue, flushed, overJog, doneCount>>

ServoMove(s, d) ==
  \/ MoveStarts(s, d)
  \/ MoveFailsToStart(s, d)
  \/ MoveQueued(s, d)
  \/ MoveFindsQueueFull(s)
  \/ MoveRepeated(s)

(* A running jog that cannot be advanced ends the request: the old jog is  *)
(* reported as faulted and the new one gets no reply at all.               *)
JogFindsFault(s) ==
  /\ Request(s)
  /\ JogApplyFails
  /\ \E ok \in TxOutcomes : sent' = Sending(Done(motionRefSeq, "FAULT"), ok)
  /\ jogActive' = FALSE
  /\ CountDones
  /\ UNCHANGED <<motionVars, jogFresh, jogTimeoutAt, queue, acked, flushed, overJog>>

(* The interrupted move's MOTION_DONE is refused by the UART: nothing else *)
(* happens, the move goes on.                                              *)
JogCannotInterrupt(s) ==
  /\ Request(s)
  /\ motionActive
  /\ TxFaults
  /\ ApplyJog
  /\ sent' = <<>>
  /\ UNCHANGED <<motionVars, jogActive, jogTimeoutAt, queue, historyVars>>

JogStarts(s, t) ==
  /\ Request(s)
  /\ LET interrupted == IF motionActive
                        THEN <<Done(motionRefSeq, "INTERRUPTED")>> ELSE <<>>
     IN  \E ok \in TxOutcomes :
           /\ sent' = interrupted \o Sending(Ack(s), ok)
           /\ jogActive' = ok
  /\ motionActive' = FALSE
  /\ motionRefSeq' = s
  /\ motionStartedAt' = now
  /\ motionDuration' = t
  /\ jogFresh' = TRUE
  /\ jogTimeoutAt' = Later(now, t)
  /\ queue' = <<>>
  /\ flushed' = flushed \cup QueuedSeqs
  /\ CountDones
  /\ UNCHANGED <<acked, overJog>>

ServoJog(s, t) ==
  \/ JogFindsFault(s)
  \/ JogCannotInterrupt(s)
  \/ JogStarts(s, t)

(* A servo cannot be advanced or stopped: NACK, and the motion goes on. *)
StopRefused(s) ==
  /\ Request(s)
  /\ ServoFaults /\ (motionActive \/ jogActive)
  /\ ApplyJog \/ UNCHANGED jogFresh
  /\ \E ok \in TxOutcomes : sent' = Sending(Nack(s), ok)
  /\ UNCHANGED <<motionVars, jogActive, jogTimeoutAt, queue, historyVars>>

StopUnanswered(s) ==
  /\ Request(s)
  /\ TxFaults
  /\ ApplyJog
  /\ sent' = <<>>
  /\ UNCHANGED <<motionVars, jogActive, jogTimeoutAt, queue, historyVars>>

(* The queue after the ACK of a stop: scope 1 empties it. *)
StopKeeps(scope) == IF scope = 1 THEN <<>> ELSE queue
StopFlushes(scope) ==
  flushed' = IF scope = 1 THEN flushed \cup QueuedSeqs ELSE flushed

(* ACK went out, MOTION_DONE did not: the motion goes on. *)
StopNotReported(s, scope) ==
  /\ Request(s)
  /\ TxFaults /\ (motionActive \/ jogActive)
  /\ ApplyJog
  /\ sent' = <<Ack(s)>>
  /\ queue' = StopKeeps(scope)
  /\ StopFlushes(scope)
  /\ UNCHANGED <<motionVars, jogActive, jogTimeoutAt, acked, overJog, doneCount>>

StopTaken(s, scope) ==
  /\ Request(s)
  /\ ApplyJog
  /\ jogActive' = FALSE
  /\ StopFlushes(scope)
  /\ LET replies == <<Ack(s)>> \o
           (IF motionActive \/ jogActive THEN <<Done(motionRefSeq, "STOPPED")>> ELSE <<>>)
     IN  \/ /\ scope = 0
            /\ StartNextQueuedMotion(replies)
         \/ /\ scope = 1
            /\ motionActive' = FALSE
            /\ queue' = <<>>
            /\ sent' = replies
            /\ UNCHANGED <<motionRefSeq, motionStartedAt, motionDuration, overJog>>
  /\ CountDones
  /\ UNCHANGED <<jogTimeoutAt, acked>>

ServoStop(s, scope) ==
  \/ StopRefused(s)
  \/ StopUnanswered(s)
  \/ StopNotReported(s, scope)
  \/ StopTaken(s, scope)

-----------------------------------------------------------------------------
(* CoprocRuntime_Poll: first the jog, then the move.  frames are what the  *)
(* jog stage sent when the poll goes on to the move.                       *)

JogDue    == jogActive /\ DeadlineReached(jogTimeoutAt)
MotionDue == motionActive /\ DeadlineReached(Later(motionStartedAt, motionDuration))

PollJogFaults ==
  /\ JogApplyFails
  /\ \E ok \in TxOutcomes : sent' = Sending(Done(motionRefSeq, "FAULT"), ok)
  /\ jogActive' = FALSE
  /\ CountDones
  /\ UNCHANGED <<motionVars, jogFresh, jogTimeoutAt, queue, acked, flushed, overJog>>

(* The timed-out jog ends even when its MOTION_DONE cannot be sent. *)
PollJogTimeoutLost ==
  /\ JogDue
  /\ TxFaults
  /\ ApplyJog
  /\ jogActive' = FALSE
  /\ sent' = <<>>
  /\ UNCHANGED <<motionVars, jogTimeoutAt, queue, historyVars>>

(* Mutant: the timeout is reported but the jog is left running. *)
PollJogNeverEnds(frames) ==
  /\ ApplyJog
  /\ frames = IF JogDue THEN <<Done(motionRefSeq, "STOPPED")>> ELSE <<>>
  /\ UNCHANGED <<jogActive, jogTimeoutAt>>

PollJogStage(frames) ==
  /\ ApplyJog
  /\ jogActive' = (jogActive /\ ~JogDue)
  /\ frames = IF JogDue THEN <<Done(motionRefSeq, "STOPPED")>> ELSE <<>>
  /\ UNCHANGED jogTimeoutAt

PollMotionRuns(frames) ==
  /\ ~MotionDue
  /\ sent' = frames
  /\ UNCHANGED <<motionVars, queue, overJog>>

(* The move ends here, the queue behind it is not looked at. *)
PollMotionFaults(frames) ==
  /\ MotionApplyFails
  /\ \E ok \in TxOutcomes : sent' = frames \o Sending(Done(motionRefSeq, "FAULT"), ok)
  /\ motionActive' = FALSE
  /\ UNCHANGED <<motionRefSeq, motionStartedAt, motionDuration, queue, overJog>>

(* Mutant: a refused MOTION_DONE ends the move all the same. *)
PollMotionForgotten(frames) ==
  /\ MotionDue
  /\ TxFaults
  /\ sent' = frames
  /\ motionActive' = FALSE
  /\ UNCHANGED <<motionRefSeq, motionStartedAt, motionDuration, queue, overJog>>

(* Mutant: the next move starts although the report was refused. *)
PollMotionStartsNext(frames) ==
  /\ MotionDue
  /\ TxFaults
  /\ StartNextQueuedMotion(frames)

(* MOTION_DONE refused by the UART: the move stays active, to be retried. *)
PollMotionNotReported(frames) ==
  /\ MotionDue
  /\ TxFaults
  /\ sent' = frames
  /\ UNCHANGED <<motionVars, queue, overJog>>

PollMotionCompletes(frames) ==
  /\ MotionDue
  /\ StartNextQueuedMotion(frames \o <<Done(motionRefSeq, "SUCCESS")>>)

PollMotionStage(frames) ==
  \/ PollMotionRuns(frames)
  \/ PollMotionFaults(frames)
  \/ PollMotionNotReported(frames)
  \/ PollMotionCompletes(frames)

PollStages ==
  /\ \E frames \in {<<>>, <<Done(motionRefSeq, "STOPPED")>>} :
       /\ PollJogStage(frames)
       /\ PollMotionStage(frames)
  /\ CountDones
  /\ UNCHANGED <<acked, flushed>>

Poll ==
  /\ UNCHANGED <<now, nextSeq>>
  /\ \/ PollJogFaults
     \/ PollJogTimeoutLost
     \/ PollStages

Next ==
  \/ Tick
  \/ Poll
  \/ \E s \in Seqs :
       \/ RejectRequest(s)
       \/ \E d \in Durations : ServoMove(s, d) \/ ServoJog(s, d)
       \/ \E scope \in {0, 1} : ServoStop(s, scope)

(* The main loop polls many times per millisecond: a deadline that is due  *)
(* again and again is seen, and a frame refused now is accepted later.     *)
PollWorks == Poll /\ (JogDue \/ MotionDue) /\ sent' # <<>>

Fairness == WF_vars(Tick) /\ SF_vars(PollWorks)

Spec     == Init /\ [][Next]_vars
FairSpec == Spec /\ Fairness

-----------------------------------------------------------------------------
(* Properties *)

MotionType ==
  /\ motionActive \in BOOLEAN
  /\ motionRefSeq \in 0 .. MaxSeq
  /\ motionStartedAt \in Ticks
  /\ motionDuration \in {0} \cup Durations

JogType ==
  /\ jogActive \in BOOLEAN
  /\ jogFresh \in BOOLEAN
  /\ jogTimeoutAt \in Ticks

QueueType ==
  /\ queue \in Seq(Command)
  /\ Len(queue) < MotionQueueDepth

HeadType ==
  /\ now \in Ticks
  /\ nextSeq \in 1 .. MaxSeq + 1

HistoryType ==
  /\ acked \subseteq Seqs
  /\ flushed \subseteq Seqs
  /\ overJog \subseteq Seqs
  /\ doneCount \in [Seqs -> 0 .. 2]

(* Every variable stays in its range; the ring never holds more than its   *)
(* depth less one.                                                         *)
TypeOK ==
  /\ MotionType
  /\ JogType
  /\ QueueType
  /\ HeadType
  /\ HistoryType
  /\ sent \in Seq(Frame)

(* A move never waits behind nothing: while moves are queued one is active,*)
(* so its end will start the next.  True as long as no servo fails (a fault *)
(* ends the active move without starting the next one) and no number is    *)
(* used again while ACKs are lost.                                         *)
NoStrandedMove ==
  ~ServoFaults /\ ~(SeqReuse /\ TxFaults) => (queue # <<>> => motionActive)

(* Moves wait in the order of their numbers, behind the one whose number   *)
(* is in motionRefSeq.                                                     *)
QueueInOrder ==
  ~ServoFaults /\ ~SeqReuse =>
    /\ \A i, j \in DOMAIN queue : i < j => queue[i].seq < queue[j].seq
    /\ \A i \in DOMAIN queue : motionRefSeq < queue[i].seq

(* Motions are started in the order the head issued them: no later command *)
(* overtakes an accepted one.                                              *)
NeverOvertakes == ~ServoFaults /\ ~SeqReuse => motionRefSeq' >= motionRefSeq
StartsInOrder  == [][NeverOvertakes]_vars

(* A move that was acknowledged is running, waiting, reported, or was      *)
(* dropped by a STOP(all) or a JOG; one kind of failure alone (servo or    *)
(* UART) never makes it vanish.                                            *)
NoMoveLost ==
  ~SeqReuse /\ ~(ServoFaults /\ TxFaults) =>
    \A s \in acked : \/ motionActive /\ motionRefSeq = s
                     \/ IsQueued(s)
                     \/ doneCount[s] > 0
                     \/ s \in flushed

(* A number is reported as done twice only when its move was started over  *)
(* a jog that was still running: the jog's end is reported in its name.    *)
DoneTwiceOnlyOverJog ==
  ~SeqReuse => \A s \in Seqs : doneCount[s] > 1 => s \in overJog

(* What the head relies on: one MOTION_DONE per command. *)
DoneOnce == \A s \in Seqs : doneCount[s] <= 1

(* The next queued move starts only after the active one was reported.     *)
NextStartsAfterReport ==
  [][ (~ServoFaults /\ ~SeqReuse /\ motionActive' /\ motionRefSeq' \in QueuedSeqs)
        => \E i \in DOMAIN sent' : sent'[i].kind = "DONE" /\ sent'[i].ref = motionRefSeq
    ]_vars

(* Every new request gets exactly one reply, unless the UART refuses it or *)
(* the request is a jog that finds its predecessor faulted.                *)
Answered ==
  [][ (~TxFaults /\ nextSeq' # nextSeq)
        => \/ Cardinality({i \in DOMAIN sent' : sent'[i].kind \in {"ACK", "NACK"}
                                               /\ sent'[i].ref = nextSeq' - 1}) = 1
           \/ sent' = <<Done(motionRefSeq, "FAULT")>> /\ jogActive /\ ~jogActive'
    ]_vars

Succeeded == \E i \in DOMAIN sent : sent[i].kind = "DONE" /\ sent[i].result = "SUCCESS"

(* SUCCESS is never reported before the requested duration has passed,     *)
(* unless the deadline lies beyond the wrap of the tick.                   *)
NotEarlyBeforeWrap ==
  [][ Succeeded' /\ motionStartedAt + motionDuration < TickMod
        => Elapsed(motionStartedAt) >= motionDuration ]_vars

(* A jog the head no longer refreshes stops by itself. *)
JogEnds == jogActive ~> ~jogActive

(* Every acknowledged move is eventually reported or dropped. *)
MovesEnd == \A s \in Seqs : s \in acked ~> (doneCount[s] > 0 \/ s \in flushed)

=============================================================================
