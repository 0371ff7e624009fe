------------------------ MODULE VoiceRecorderProofs ------------------------
(***************************************************************************)
(* Proofs about VoiceRecorder, for every queue length, with and without    *)
(* lost sessions, audio faults, answers of the cloud and suspends.         *)
(***************************************************************************)
EXTENDS VoiceRecorder, SequenceTheorems, TLAPS

(* The pending flag stands for an event that is about to be sent, queued,  *)
(* or taken and about to clear it, unless a suspend threw that one away.   *)
FlagStandsForEvent ==
  applyPending => \/ ApplyQueued \/ voicePc \in {"read", "clear"} \/ remotePc = "marked"
                  \/ thrown

(* A target answered with ESP_OK is the one in desired, and no other       *)
(* microphone command is under way.                                        *)
AcceptedIsDesired == owed # "none" => owed = desired /\ remotePc = "idle"

(* The flag, its event and its target, as they carry over between steps. *)
FlagInv == FlagStandsForEvent /\ AcceptedIsDesired /\ AcceptedIsRead

(* Tasks that change the recording at once are seen, and a task that is    *)
(* about to end one has put silence detection off.                         *)
OverlapSeen == Overlap(voicePc, detectPc, suspendPc) => overlapped
SilenceOff  == voicePc = "stopped" \/ suspendPc = "muted" => ~vad \/ overlapped
VadInv      == VadMeansRecording /\ OverlapSeen /\ SilenceOff

(* Left to the two tasks, and with nothing left fed by the stop, detection *)
(* is off from the start of a recording to its end, with nothing fed, on   *)
(* while one is being ended, and on while idle.                            *)
DetectionFollows ==
  \/ overlapped \/ disturbed
  \/ /\ voicePc = "starting" \/ detectPc = "starting" => ~detecting /\ ~fed
     /\ gState = "RECORDING" => ~fed
     /\ gState = "RECORDING" /\ voicePc \notin {"stopping", "stopped"} => ~detecting
     /\ voicePc \in {"stopping", "stopped"} => detecting /\ gState = "RECORDING"
     /\ gState = "IDLE" /\ ~Busy => detecting
SuspendDisturbs == suspendPc = "muted" => disturbed \/ overlapped
ListenInv == DetectionFollows /\ OverlapSeen /\ SuspendDisturbs

-----------------------------------------------------------------------------
(* What the queue holds after an event was taken from it or added to it. *)
LEMMA TailHolds ==
  ASSUME NEW q \in Seq(Events), q # <<>>
  PROVE  /\ Tail(q) \in Seq(Events) /\ Len(Tail(q)) = Len(q) - 1
         /\ Head(q) \in Events
         /\ \A i \in DOMAIN q : (i = 1 /\ q[i] = Head(q)) \/
              (i - 1 \in DOMAIN Tail(q) /\ Tail(q)[i - 1] = q[i])
  OBVIOUS

LEMMA AppendHolds ==
  ASSUME NEW q \in Seq(Events), NEW e \in Events
  PROVE  /\ Append(q, e) \in Seq(Events) /\ Len(Append(q, e)) = Len(q) + 1
         /\ \A i \in DOMAIN q : i \in DOMAIN Append(q, e) /\ Append(q, e)[i] = q[i]
         /\ Len(q) + 1 \in DOMAIN Append(q, e) /\ Append(q, e)[Len(q) + 1] = e
  OBVIOUS

-----------------------------------------------------------------------------
(* Every variable stays in its range (TypeOK): the queue of the recorder   *)
(* never overflows and each task is where its code can be.                 *)
THEOREM RecorderTypeCorrect == Spec => []TypeOK
<1>1. TypeOK /\ [Next]_vars => FlagType'
  <2>. SUFFICES ASSUME TypeOK, [Next]_vars
                PROVE  FlagType'
    OBVIOUS
  <2>. USE DEF TypeOK, FlagType
  <2>1. CASE ReceiveEvent
    BY <2>1 DEF ReceiveEvent, notVoice, recording, devices, target, suspend
  <2>2. CASE HandleClick
    BY <2>2 DEF HandleClick, notVoice, devices, target, suspend
  <2>3. CASE ReadTarget
    BY <2>3 DEF ReadTarget, notVoice, recording, devices, target, suspend
  <2>4. CASE ClearPending
    BY <2>4 DEF ClearPending, suspend, recording, devices
  <2>5. CASE DecideTarget
    BY <2>5 DEF DecideTarget, notVoice, devices, target, suspend
  <2>6. CASE ProcessEvent
    BY <2>6 DEF ProcessEvent, Starts, StartBegins, StartFails, Stops, StartDetection,
                detection, notVoice, recording, StopDetection, target, suspend
  <2>7. CASE FinishStart
    BY <2>7 DEF FinishStart, StartEnds, notVoice, devices, target, suspend
  <2>8. CASE EndVad
    BY <2>8 DEF EndVad, notVoice, detection, target, suspend
  <2>9. CASE FinishStop
    BY <2>9 DEF FinishStop, notVoice, devices, target, suspend
  <2>10. CASE Feed \/ HearSilence
    <3>1. CASE Feed
      BY <3>1 DEF Feed, notVoice, recording, target, suspend
    <3>2. CASE HearSilence
      BY <3>2 DEF HearSilence, notVoice, recording, devices, target, suspend
    <3>. QED
      BY <2>10, <3>1, <3>2
  <2>11. CASE HearNothing
    BY <2>11 DEF HearNothing, notDetector, target, cloud, suspend
  <2>12. CASE HearWakeWord \/ StopSelf
    BY <2>12 DEF HearWakeWord, StopSelf, notDetector, target, cloud, suspend
  <2>13. CASE MarkTrigger
    BY <2>13 DEF MarkTrigger, notDetector, detection, target, cloud, suspend
  <2>14. CASE WakeUp
    BY <2>14 DEF WakeUp, StartBegins, StartFails, detection, notDetector, StopDetection,
                 target, cloud, suspend
  <2>15. CASE FinishWakeUp
    BY <2>15 DEF FinishWakeUp, StartEnds, target, detection, speech, cloud, suspend,
                 history
  <2>16. CASE \E t \in Targets : WriteTarget(t)
    BY <2>16 DEF WriteTarget, notRemote, recording, detection, speech, cloud, suspend
  <2>17. CASE FindPending
    BY <2>17 DEF FindPending, notRemote, target, recording, detection, speech, cloud,
                 suspend
  <2>18. CASE SetPending
    BY <2>18 DEF SetPending, notRemote, recording, detection, speech, cloud, suspend
  <2>19. CASE SendApply
    BY <2>19 DEF SendApply, QueueHasRoom, notRemote, recording, detection, speech,
                 cloud, suspend
  <2>20. CASE Click
    BY <2>20 DEF Click, QueueHasRoom, notRemote, target, recording, detection, speech,
                 cloud, suspend
  <2>21. CASE PlaySpeech \/ SpeechFails \/ EndSpeech \/ NoSpeech
    <3>1. CASE PlaySpeech
      BY <3>1 DEF PlaySpeech, StopDetection, notSpeech, recording, target, suspend
    <3>2. CASE SpeechFails
      BY <3>2 DEF SpeechFails, notSpeech, recording, target, suspend
    <3>3. CASE EndSpeech \/ NoSpeech
      BY <3>3 DEF EndSpeech, NoSpeech, StopSpeech, StartDetection, notSpeech, recording,
                  target, suspend
    <3>. QED
      BY <2>21, <3>1, <3>2, <3>3
  <2>22. CASE EndSent \/ Answer
    <3>1. CASE EndSent
      BY <3>1 DEF EndSent, notSpeech, detection, speech, recording, target, suspend
    <3>2. CASE Answer
      BY <3>2 DEF Answer, notSpeech, detection, speech, recording, target, suspend
    <3>. QED
      BY <2>22, <3>1, <3>2
  <2>23. CASE GiveUpWaiting
    BY <2>23 DEF GiveUpWaiting, StartDetection, notSpeech, speech, recording, target,
                 suspend
  <2>24. CASE SessionOpens \/ SessionCloses
    <3>1. CASE SessionOpens
      BY <3>1 DEF SessionOpens, notSpeech, recording, target, detection, speech, suspend
    <3>2. CASE SessionCloses
      BY <3>2 DEF SessionCloses, StopSpeech, StartDetection, notSpeech, recording, target,
                  suspend
    <3>. QED
      BY <2>24, <3>1, <3>2
  <2>25. CASE SuspendBegins \/ SuspendEnds
    <3>1. CASE SuspendBegins
      BY <3>1 DEF SuspendBegins, target, detection, cloud
    <3>2. CASE SuspendEnds
      BY <3>2 DEF SuspendEnds, target, detection, speech, cloud
    <3>. QED
      BY <2>25, <3>1, <3>2
  <2>26. CASE UNCHANGED vars
    BY <2>26 DEF vars
  <2>. QED
    BY <2>1, <2>2, <2>3, <2>4, <2>5, <2>6, <2>7, <2>8, <2>9, <2>10, <2>11, <2>12, <2>13,
       <2>14, <2>15, <2>16, <2>17, <2>18, <2>19, <2>20, <2>21, <2>22, <2>23, <2>24,
       <2>25, <2>26
    DEF Next, VoiceTask, DetectorTask, RemoteTask
<1>2. TypeOK /\ [Next]_vars => PlaceType'
  <2>. SUFFICES ASSUME TypeOK, [Next]_vars
                PROVE  PlaceType'
    OBVIOUS
  <2>. USE DEF TypeOK, PlaceType, Targets
  <2>1. CASE ReceiveEvent
    BY <2>1 DEF ReceiveEvent, notVoice, recording, devices, history, answers, target, suspend
  <2>2. CASE HandleClick \/ ReadTarget
    BY <2>2 DEF HandleClick, ReadTarget, notVoice, devices, history, answers, recording, target,
                suspend
  <2>3. CASE ClearPending \/ DecideTarget
    BY <2>3 DEF ClearPending, DecideTarget, suspend, recording, devices, history, answers,
                notVoice, target
  <2>4. CASE ProcessEvent
    BY <2>4 DEF ProcessEvent, Starts, StartBegins, StartFails, Stops, StartDetection,
                detection, notVoice, recording, StopDetection, target, suspend
  <2>5. CASE FinishStart \/ EndVad \/ FinishStop
    BY <2>5 DEF FinishStart, EndVad, FinishStop, StartEnds, notVoice, devices, history, answers,
                detection, target, suspend
  <2>6. CASE Feed \/ HearSilence
    BY <2>6 DEF Feed, HearSilence, notVoice, recording, history, answers, devices, target,
                suspend
  <2>7. CASE HearNothing \/ HearWakeWord \/ StopSelf \/ MarkTrigger
    BY <2>7 DEF HearNothing, HearWakeWord, StopSelf, MarkTrigger, notDetector, answers,
                detection, target, cloud, suspend
  <2>8. CASE WakeUp
    BY <2>8 DEF WakeUp, notDetector, answers, target, cloud, suspend
  <2>9. CASE FinishWakeUp
    BY <2>9 DEF FinishWakeUp, StartEnds, target, detection, speech, cloud, suspend,
                history, answers
  <2>10. CASE \E t \in Targets : WriteTarget(t)
    BY <2>10 DEF WriteTarget, notRemote, answers, recording, detection, speech, cloud, suspend
  <2>11. CASE FindPending \/ SetPending \/ SendApply \/ Click
    BY <2>11 DEF FindPending, SetPending, SendApply, Click, notRemote, answers, target,
                 QueueHasRoom, recording, detection, speech, cloud, suspend
  <2>12. CASE PlaySpeech \/ SpeechFails \/ EndSpeech \/ NoSpeech
    BY <2>12 DEF PlaySpeech, SpeechFails, EndSpeech, NoSpeech, StopDetection, notSpeech, answers,
                 StopSpeech, recording, target, suspend, StartDetection
  <2>13. CASE EndSent \/ Answer \/ GiveUpWaiting \/ SessionOpens \/ SessionCloses
    BY <2>13 DEF EndSent, Answer, GiveUpWaiting, SessionOpens, SessionCloses, StopSpeech,
                 notSpeech, answers, detection, speech, StartDetection, recording, target,
                 suspend
  <2>14. CASE SuspendBegins
    BY <2>14, VoiceAssumption DEF VoiceAssumption, SuspendBegins, target, detection, cloud, answers
  <2>15. CASE SuspendEnds
    BY <2>15 DEF SuspendEnds, target, detection, speech, cloud
  <2>16. CASE UNCHANGED vars
    BY <2>16 DEF vars, history, answers
  <2>. QED
    BY <2>1, <2>2, <2>3, <2>4, <2>5, <2>6, <2>7, <2>8, <2>9, <2>10, <2>11, <2>12, <2>13,
       <2>14, <2>15, <2>16
    DEF Next, VoiceTask, DetectorTask, RemoteTask
<1>3. TypeOK /\ [Next]_vars => QueueType'
  <2>. SUFFICES ASSUME TypeOK, [Next]_vars
                PROVE  QueueType'
    OBVIOUS
  <2>. USE DEF TypeOK, QueueType
  <2>1. CASE ReceiveEvent
    BY <2>1, TailHolds, VoiceAssumption DEF VoiceAssumption, ReceiveEvent, notVoice,
                                         recording, devices, history, answers, target, suspend
  <2>2. CASE HandleClick \/ ReadTarget
    BY <2>2 DEF HandleClick, ReadTarget, notVoice, devices, history, answers, recording, target,
                suspend
  <2>3. CASE ClearPending \/ DecideTarget
    BY <2>3 DEF ClearPending, DecideTarget, suspend, recording, devices, history, answers,
                notVoice, target
  <2>4. CASE ProcessEvent
    BY <2>4 DEF ProcessEvent, Starts, StartBegins, StartFails, Stops, StartDetection,
                detection, notVoice, recording, StopDetection, target, suspend
  <2>5. CASE FinishStart \/ EndVad \/ FinishStop
    BY <2>5 DEF FinishStart, EndVad, FinishStop, StartEnds, notVoice, devices, history, answers,
                detection, target, suspend
  <2>6. CASE Feed \/ HearSilence
    BY <2>6 DEF Feed, HearSilence, notVoice, recording, history, answers, devices, target,
                suspend
  <2>7. CASE HearNothing \/ HearWakeWord \/ StopSelf \/ MarkTrigger
    BY <2>7 DEF HearNothing, HearWakeWord, StopSelf, MarkTrigger, notDetector, answers,
                detection, target, cloud, suspend
  <2>8. CASE WakeUp
    BY <2>8 DEF WakeUp, StartBegins, StartFails, detection, notDetector, answers, StopDetection,
                target, cloud, suspend
  <2>9. CASE FinishWakeUp
    BY <2>9 DEF FinishWakeUp, StartEnds, target, detection, speech, cloud, suspend,
                history, answers
  <2>10. CASE \E t \in Targets : WriteTarget(t)
    BY <2>10 DEF WriteTarget, notRemote, answers, recording, detection, speech, cloud, suspend
  <2>11. CASE FindPending \/ SetPending \/ SendApply \/ Click
    <3>1. ASSUME NEW e \in Events, QueueHasRoom, queue' = Append(queue, e)
          PROVE  QueueType'
      BY <3>1, AppendHolds, VoiceAssumption DEF VoiceAssumption, QueueHasRoom
    <3>2. CASE UNCHANGED queue
      BY <3>2
    <3>. QED
      BY <2>11, <3>1, <3>2 DEF FindPending, SetPending, SendApply, Click, Events
  <2>12. CASE PlaySpeech \/ SpeechFails \/ EndSpeech \/ NoSpeech
    BY <2>12 DEF PlaySpeech, SpeechFails, EndSpeech, NoSpeech, StopDetection, notSpeech, answers,
                 StopSpeech, recording, target, suspend, StartDetection
  <2>13. CASE EndSent \/ Answer \/ GiveUpWaiting \/ SessionOpens \/ SessionCloses
    BY <2>13 DEF EndSent, Answer, GiveUpWaiting, SessionOpens, SessionCloses, StopSpeech,
                 notSpeech, answers, detection, speech, StartDetection, recording, target,
                 suspend
  <2>14. CASE SuspendBegins
    BY <2>14 DEF SuspendBegins, target, detection, cloud, answers
  <2>15. CASE SuspendEnds
    <3>1. <<>> \in Seq(Events) /\ Len(<<>>) <= QueueLen
      BY VoiceAssumption DEF VoiceAssumption
    <3>. QED
      BY <2>15, <3>1 DEF SuspendEnds
  <2>16. CASE UNCHANGED vars
    BY <2>16 DEF vars, history, answers
  <2>. QED
    BY <2>1, <2>2, <2>3, <2>4, <2>5, <2>6, <2>7, <2>8, <2>9, <2>10, <2>11, <2>12, <2>13,
       <2>14, <2>15, <2>16
    DEF Next, VoiceTask, DetectorTask, RemoteTask
<1>5. TypeOK /\ [Next]_vars => HistoryType'
  <2>. SUFFICES ASSUME TypeOK, [Next]_vars
                PROVE  HistoryType'
    OBVIOUS
  <2>. USE DEF TypeOK, HistoryType
  <2>1. CASE ReceiveEvent
    BY <2>1 DEF ReceiveEvent, notVoice, recording, devices, history, answers, target, suspend
  <2>2. CASE HandleClick \/ ReadTarget
    BY <2>2 DEF HandleClick, ReadTarget, notVoice, devices, history, answers, recording, target,
                suspend
  <2>3. CASE ClearPending \/ DecideTarget
    BY <2>3 DEF ClearPending, DecideTarget, suspend, recording, devices, history, answers,
                notVoice, target
  <2>4. CASE ProcessEvent
    <3>1. StartBegins \/ StartFails \/ UNCHANGED disturbed => disturbed' \in BOOLEAN
      BY DEF FlagType, StartBegins, StartFails, StopDetection
    <3>. QED
      BY <2>4, <3>1 DEF ProcessEvent
  <2>5. CASE FinishStart \/ EndVad \/ FinishStop
    BY <2>5 DEF FinishStart, EndVad, FinishStop, StartEnds, notVoice, devices, history, answers,
                detection, target, suspend
  <2>6. CASE Feed \/ HearSilence
    BY <2>6 DEF Feed, HearSilence, notVoice, recording, history, answers, devices, target,
                suspend
  <2>7. CASE HearNothing \/ HearWakeWord \/ StopSelf \/ MarkTrigger
    BY <2>7 DEF HearNothing, HearWakeWord, StopSelf, MarkTrigger, notDetector, answers,
                detection, target, cloud, suspend
  <2>8. CASE WakeUp
    <3>1. StartBegins \/ StartFails \/ UNCHANGED disturbed => disturbed' \in BOOLEAN
      BY DEF FlagType, StartBegins, StartFails, StopDetection
    <3>. QED
      BY <2>8, <3>1 DEF WakeUp, notDetector, answers
  <2>9. CASE FinishWakeUp
    BY <2>9 DEF FinishWakeUp, StartEnds, target, detection, speech, cloud, suspend,
                history, answers
  <2>10. CASE \E t \in Targets : WriteTarget(t)
    BY <2>10 DEF WriteTarget, notRemote, answers, recording, detection, speech, cloud, suspend
  <2>11. CASE FindPending \/ SetPending \/ SendApply \/ Click
    BY <2>11 DEF FindPending, SetPending, SendApply, Click, notRemote, answers, target,
                 QueueHasRoom, recording, detection, speech, cloud, suspend
  <2>12. CASE PlaySpeech \/ SpeechFails \/ EndSpeech \/ NoSpeech
    BY <2>12 DEF PlaySpeech, SpeechFails, EndSpeech, NoSpeech, StopDetection, notSpeech, answers,
                 StopSpeech, recording, target, suspend, StartDetection
  <2>13. CASE EndSent \/ Answer \/ GiveUpWaiting \/ SessionOpens \/ SessionCloses
    BY <2>13 DEF EndSent, Answer, GiveUpWaiting, SessionOpens, SessionCloses, StopSpeech,
                 notSpeech, answers, detection, speech, StartDetection, recording, target,
                 suspend
  <2>14. CASE SuspendBegins
    BY <2>14 DEF SuspendBegins, target, detection, cloud, answers
  <2>15. CASE SuspendEnds
    BY <2>15 DEF SuspendEnds, target, detection, speech, cloud
  <2>16. CASE UNCHANGED vars
    BY <2>16 DEF vars, history, answers
  <2>. QED
    BY <2>1, <2>2, <2>3, <2>4, <2>5, <2>6, <2>7, <2>8, <2>9, <2>10, <2>11, <2>12, <2>13,
       <2>14, <2>15, <2>16
    DEF Next, VoiceTask, DetectorTask, RemoteTask
<1>4. Init => TypeOK
  <2>. SUFFICES ASSUME Init
                PROVE  TypeOK
    OBVIOUS
  <2>1. FlagType
    BY VoiceAssumption DEF Init, FlagType, VoiceAssumption
  <2>2. PlaceType
    BY VoiceAssumption DEF Init, PlaceType, VoiceAssumption, Targets
  <2>3. QueueType
    BY VoiceAssumption DEF Init, QueueType, VoiceAssumption
  <2>4. HistoryType
    BY DEF Init, HistoryType
  <2>. QED
    BY <2>1, <2>2, <2>3, <2>4 DEF TypeOK
<1>. QED
  BY <1>1, <1>2, <1>3, <1>4, <1>5, PTL DEF Spec, TypeOK

-----------------------------------------------------------------------------
(* The target of the latest accepted microphone command is still to be read*)
(* or is the one being decided on (AcceptedIsRead), in whatever order      *)
(* commands, clicks, suspends and the voice task's own steps come, outside *)
(* the two windows the property names.                                     *)
THEOREM AcceptedTargetIsRead == Spec => []AcceptedIsRead
<1>1. Init => FlagInv
  BY DEF Init, FlagInv, FlagStandsForEvent, AcceptedIsDesired, AcceptedIsRead
<1>2. TypeOK /\ FlagInv /\ [Next]_vars => FlagInv'
  <2>. SUFFICES ASSUME TypeOK, FlagInv, [Next]_vars
                PROVE  FlagInv'
    OBVIOUS
  <2>. USE DEF FlagInv, FlagStandsForEvent, AcceptedIsDesired, AcceptedIsRead, ApplyQueued,
               WillRead, Deciding
  <2>1. CASE ReceiveEvent
    <3>1. ApplyQueued => ApplyQueued' \/ voicePc' = "read"
      BY <2>1, TailHolds DEF ReceiveEvent, TypeOK, QueueType
    <3>. QED
      BY <2>1, <3>1 DEF ReceiveEvent, notVoice, recording, devices, history, answers, target,
                     suspend
  <2>2. CASE HandleClick \/ ReadTarget
    BY <2>2 DEF HandleClick, ReadTarget, notVoice, devices, history, answers, recording, target,
                suspend
  <2>3. CASE ClearPending \/ DecideTarget
    BY <2>3 DEF ClearPending, DecideTarget, suspend, recording, devices, history, answers,
                notVoice, target
  <2>4. CASE ProcessEvent
    BY <2>4 DEF ProcessEvent, Starts, StartBegins, StartFails, Stops, StartDetection,
                detection, notVoice, recording, StopDetection, target, suspend
  <2>5. CASE FinishStart \/ EndVad \/ FinishStop
    BY <2>5 DEF FinishStart, EndVad, FinishStop, StartEnds, notVoice, devices, history, answers,
                detection, target, suspend
  <2>6. CASE Feed \/ HearSilence
    BY <2>6 DEF Feed, HearSilence, notVoice, recording, history, answers, devices, target,
                suspend
  <2>7. CASE HearNothing \/ HearWakeWord \/ StopSelf \/ MarkTrigger
    BY <2>7 DEF HearNothing, HearWakeWord, StopSelf, MarkTrigger, notDetector, answers,
                detection, target, cloud, suspend
  <2>8. CASE WakeUp
    BY <2>8 DEF WakeUp, StartBegins, StartFails, detection, notDetector, answers, StopDetection,
                target, cloud, suspend
  <2>9. CASE FinishWakeUp
    BY <2>9 DEF FinishWakeUp, StartEnds, target, detection, speech, cloud, suspend,
                history, answers
  <2>10. CASE \E t \in Targets : WriteTarget(t)
    BY <2>10 DEF WriteTarget, notRemote, answers, recording, detection, speech, cloud, suspend
  <2>11. CASE FindPending \/ SetPending \/ SendApply \/ Click
    <3>1. ASSUME NEW e \in Events, queue' = Append(queue, e)
          PROVE  (ApplyQueued => ApplyQueued') /\ (e = "REMOTE_APPLY" => ApplyQueued')
      BY <3>1, AppendHolds DEF TypeOK, QueueType
    <3>2. CASE FindPending \/ SetPending
      BY <3>2 DEF FindPending, SetPending, notRemote, answers, target, recording, detection,
                  speech, cloud, suspend
    <3>3. CASE SendApply
      BY <3>1, <3>3 DEF Events, SendApply, QueueHasRoom, notRemote, answers, recording,
                        detection, speech, cloud, suspend
    <3>4. CASE Click
      BY <3>1, <3>4 DEF Events, Click, QueueHasRoom, notRemote, answers, target, recording,
                        detection, speech, cloud, suspend
    <3>. QED
      BY <2>11, <3>2, <3>3, <3>4
  <2>12. CASE PlaySpeech \/ SpeechFails \/ EndSpeech \/ NoSpeech
    <3>1. UNCHANGED notSpeech
      BY <2>12 DEF PlaySpeech, SpeechFails, EndSpeech, NoSpeech, StopSpeech
    <3>. QED
      BY <3>1 DEF notSpeech, answers, target
  <2>13. CASE EndSent \/ Answer \/ GiveUpWaiting \/ SessionOpens \/ SessionCloses
    BY <2>13 DEF EndSent, Answer, GiveUpWaiting, SessionOpens, SessionCloses, StopSpeech,
                 notSpeech, answers, detection, speech, StartDetection, recording, target,
                 suspend
  <2>14. CASE SuspendBegins
    BY <2>14, VoiceAssumption DEF VoiceAssumption, TypeOK, PlaceType, SuspendBegins, target,
                              detection, cloud, answers
  <2>15. CASE SuspendEnds
    BY <2>15, VoiceAssumption DEF VoiceAssumption, TypeOK, PlaceType, SuspendEnds, target,
                              detection, speech, cloud
  <2>16. CASE UNCHANGED vars
    BY <2>16 DEF vars, history, answers
  <2>. QED
    BY <2>1, <2>2, <2>3, <2>4, <2>5, <2>6, <2>7, <2>8, <2>9, <2>10, <2>11, <2>12, <2>13,
       <2>14, <2>15, <2>16
    DEF Next, VoiceTask, DetectorTask, RemoteTask
<1>. QED
  BY <1>1, <1>2, RecorderTypeCorrect, PTL DEF Spec, FlagInv

-----------------------------------------------------------------------------
(* Silence detection is off without a recording (VadMeansRecording), unless*)
(* two tasks changed the recording at once.                                *)
THEOREM SilenceEndsWithRecording == Spec => []VadMeansRecording
<1>1. Init => VadInv
  BY DEF Init, VadInv, VadMeansRecording, OverlapSeen, Overlap, SilenceOff
<1>2. TypeOK /\ VadInv /\ [Next]_vars => VadInv'
  <2>. SUFFICES ASSUME TypeOK, VadInv, [Next]_vars
                PROVE  VadInv'
    OBVIOUS
  <2>. USE DEF TypeOK, PlaceType, VadInv, VadMeansRecording, OverlapSeen, Overlap,
               SilenceOff
  <2>1. CASE ReceiveEvent
    BY <2>1 DEF ReceiveEvent, notVoice, recording, devices, history, answers, target, suspend
  <2>2. CASE HandleClick \/ ReadTarget
    BY <2>2 DEF HandleClick, ReadTarget, notVoice, devices, history, answers, recording, target,
                suspend
  <2>3. CASE ClearPending \/ DecideTarget
    BY <2>3 DEF ClearPending, DecideTarget, suspend, recording, devices, history, answers,
                notVoice, target
  <2>4. CASE ProcessEvent
    <3>1. UNCHANGED <<gState, vad, detectPc, suspendPc>>
      BY <2>4 DEF ProcessEvent, Starts, StartBegins, StartFails, Stops, StartDetection,
               detection, notVoice, recording, StopDetection, target, suspend
    <3>2. voicePc' # "stopped"
      BY <2>4 DEF ProcessEvent
    <3>3. OverlapSeen' /\ (overlapped => overlapped')
      BY <2>4, <3>1 DEF ProcessEvent, FlagType
    <3>. QED
      BY <3>1, <3>2, <3>3
  <2>5. CASE FinishStart \/ EndVad \/ FinishStop
    BY <2>5 DEF FinishStart, EndVad, FinishStop, StartEnds, notVoice, devices, history, answers,
                detection, target, suspend
  <2>6. CASE Feed \/ HearSilence
    BY <2>6 DEF Feed, HearSilence, notVoice, recording, history, answers, devices, target,
                suspend
  <2>7. CASE HearNothing \/ HearWakeWord \/ StopSelf \/ MarkTrigger
    <3>1. UNCHANGED <<gState, vad, voicePc, suspendPc>>
      BY <2>7 DEF HearNothing, HearWakeWord, StopSelf, MarkTrigger, notDetector, suspend
    <3>2. OverlapSeen' /\ (overlapped => overlapped')
      BY <2>7, <3>1 DEF HearNothing, HearWakeWord, StopSelf, MarkTrigger
    <3>. QED
      BY <3>1, <3>2
  <2>8. CASE WakeUp
    BY <2>8 DEF WakeUp, StartBegins, StartFails, detection, notDetector, answers, StopDetection,
                target, cloud, suspend
  <2>9. CASE FinishWakeUp
    BY <2>9 DEF FinishWakeUp, StartEnds, target, detection, speech, cloud, suspend,
                history, answers
  <2>10. CASE \E t \in Targets : WriteTarget(t)
    BY <2>10 DEF WriteTarget, notRemote, answers, recording, detection, speech, cloud, suspend
  <2>11. CASE FindPending \/ SetPending \/ SendApply \/ Click
    BY <2>11 DEF FindPending, SetPending, SendApply, Click, notRemote, answers, target,
                 QueueHasRoom, recording, detection, speech, cloud, suspend
  <2>12. CASE PlaySpeech \/ SpeechFails \/ EndSpeech \/ NoSpeech
    <3>1. UNCHANGED notSpeech
      BY <2>12 DEF PlaySpeech, SpeechFails, EndSpeech, NoSpeech, StopSpeech
    <3>. QED
      BY <3>1 DEF notSpeech, recording, suspend
  <2>13. CASE EndSent \/ Answer \/ GiveUpWaiting \/ SessionOpens \/ SessionCloses
    BY <2>13 DEF EndSent, Answer, GiveUpWaiting, SessionOpens, SessionCloses, StopSpeech,
                 notSpeech, answers, detection, speech, StartDetection, recording, target,
                 suspend
  <2>14. CASE SuspendBegins
    BY <2>14 DEF SuspendBegins, target, detection, cloud, answers
  <2>15. CASE SuspendEnds
    BY <2>15 DEF SuspendEnds, target, detection, speech, cloud
  <2>16. CASE UNCHANGED vars
    BY <2>16 DEF vars, history, answers
  <2>. QED
    BY <2>1, <2>2, <2>3, <2>4, <2>5, <2>6, <2>7, <2>8, <2>9, <2>10, <2>11, <2>12, <2>13,
       <2>14, <2>15, <2>16
    DEF Next, VoiceTask, DetectorTask, RemoteTask
<1>. QED
  BY <1>1, <1>2, RecorderTypeCorrect, PTL DEF Spec, VadInv

-----------------------------------------------------------------------------
(* An idle recorder listens for the wake word (IdleListens) however clicks,*)
(* microphone commands, silence and wake words end and start recordings,   *)
(* unless two tasks did so at once, a start failed, or speech or a suspend *)
(* came in between.                                                        *)
THEOREM IdleRecorderListens == Spec => []IdleListens
<1>1. Init => ListenInv
  BY DEF Init, ListenInv, DetectionFollows, OverlapSeen, SuspendDisturbs,
         Overlap, Busy
<1>2. TypeOK /\ ListenInv /\ [Next]_vars => ListenInv'
  <2>. SUFFICES ASSUME TypeOK, ListenInv, [Next]_vars
                PROVE  ListenInv'
    OBVIOUS
  <2>. USE DEF TypeOK, PlaceType, ListenInv, DetectionFollows,
               OverlapSeen, Overlap, SuspendDisturbs, Busy
  <2>1. CASE ReceiveEvent
    BY <2>1 DEF ReceiveEvent, notVoice, recording, devices, history, answers, target, suspend
  <2>2. CASE HandleClick \/ ReadTarget
    BY <2>2 DEF HandleClick, ReadTarget, notVoice, devices, history, answers, recording, target,
                suspend
  <2>3. CASE ClearPending \/ DecideTarget
    BY <2>3 DEF ClearPending, DecideTarget, suspend, recording, devices, history, answers,
                notVoice, target
  <2>4. CASE ProcessEvent
    <3>1. UNCHANGED <<gState, detectPc, suspendPc>>
      BY <2>4 DEF ProcessEvent, Starts, StartBegins, StartFails, Stops, StartDetection,
               detection, notVoice, recording, StopDetection, target, suspend
    <3>2. OverlapSeen' /\ (overlapped => overlapped')
      BY <2>4, <3>1 DEF ProcessEvent
    <3>3. CASE StartFails /\ voicePc' = "loop"
      BY <3>1, <3>2, <3>3 DEF StartFails, detection
    <3>4. CASE Starts /\ StartBegins /\ voicePc' = "starting"
      BY <3>1, <3>2, <3>4 DEF Starts, StartBegins, StopDetection
    <3>5. CASE Stops /\ StartDetection /\ voicePc' = "stopping" /\ UNCHANGED disturbed
      BY <2>4, <3>1, <3>2, <3>5 DEF Stops, StartDetection
    <3>6. CASE voicePc' = "loop" /\ UNCHANGED <<detecting, fed, disturbed>>
      BY <2>4, <3>1, <3>2, <3>6 DEF ProcessEvent
    <3>. QED
      BY <2>4, <3>3, <3>4, <3>5, <3>6 DEF ProcessEvent, detection
  <2>5. CASE FinishStart \/ EndVad \/ FinishStop
    BY <2>5 DEF FinishStart, EndVad, FinishStop, StartEnds, notVoice, devices, history, answers,
                detection, target, suspend
  <2>6. CASE Feed \/ HearSilence
    BY <2>6 DEF Feed, HearSilence, notVoice, recording, history, answers, devices, target,
                suspend
  <2>7. CASE HearNothing \/ HearWakeWord \/ StopSelf \/ MarkTrigger
    <3>1. UNCHANGED <<gState, voicePc, suspendPc, disturbed>>
      BY <2>7 DEF HearNothing, HearWakeWord, StopSelf, MarkTrigger, notDetector, suspend
    <3>2. OverlapSeen' /\ (overlapped => overlapped')
      BY <2>7, <3>1 DEF HearNothing, HearWakeWord, StopSelf, MarkTrigger
    <3>3. CASE HearNothing \/ MarkTrigger
      BY <3>1, <3>2, <3>3 DEF HearNothing, MarkTrigger, detection
    <3>4. CASE HearWakeWord
      BY <3>1, <3>2, <3>4 DEF HearWakeWord
    <3>5. CASE StopSelf
      BY <3>1, <3>2, <3>5 DEF StopSelf
    <3>. QED
      BY <2>7, <3>3, <3>4, <3>5
  <2>8. CASE WakeUp
    <3>1. UNCHANGED <<gState, voicePc, suspendPc>>
      BY <2>8 DEF WakeUp, StartBegins, StartFails, detection, notDetector, answers, StopDetection,
               target, cloud, suspend
    <3>2. OverlapSeen' /\ (overlapped => overlapped')
      BY <2>8, <3>1 DEF WakeUp
    <3>3. CASE StartFails /\ detectPc' = "wait"
      BY <3>1, <3>2, <3>3 DEF StartFails, detection
    <3>4. CASE gState = "IDLE" /\ StartBegins /\ detectPc' = "starting"
      BY <3>1, <3>2, <3>4 DEF StartBegins, StopDetection
    <3>5. CASE gState = "RECORDING" /\ detectPc' = "wait" /\ UNCHANGED <<detecting, fed, disturbed>>
      BY <2>8, <3>1, <3>2, <3>5 DEF WakeUp
    <3>. QED
      BY <2>8, <3>3, <3>4, <3>5 DEF WakeUp, detection
  <2>9. CASE FinishWakeUp
    BY <2>9 DEF FinishWakeUp, StartEnds, target, detection, speech, cloud, suspend,
                history, answers
  <2>10. CASE \E t \in Targets : WriteTarget(t)
    BY <2>10 DEF WriteTarget, notRemote, answers, recording, detection, speech, cloud, suspend
  <2>11. CASE FindPending \/ SetPending \/ SendApply \/ Click
    BY <2>11 DEF FindPending, SetPending, SendApply, Click, notRemote, answers, target,
                 QueueHasRoom, recording, detection, speech, cloud, suspend
  <2>12. CASE PlaySpeech \/ SpeechFails \/ EndSpeech \/ NoSpeech
    BY <2>12 DEF PlaySpeech, SpeechFails, EndSpeech, NoSpeech, StopDetection, notSpeech, answers,
                 StopSpeech, recording, target, suspend, StartDetection
  <2>13. CASE EndSent \/ Answer \/ GiveUpWaiting \/ SessionOpens \/ SessionCloses
    BY <2>13 DEF EndSent, Answer, GiveUpWaiting, SessionOpens, SessionCloses, StopSpeech,
                 notSpeech, answers, detection, speech, StartDetection, recording, target,
                 suspend
  <2>14. CASE SuspendBegins
    <3>1. disturbed' /\ OverlapSeen'
      BY <2>14 DEF SuspendBegins, FlagType
    <3>. QED
      BY <2>14, <3>1 DEF SuspendBegins, target, detection, cloud, answers
  <2>15. CASE SuspendEnds
    BY <2>15 DEF SuspendEnds, target, detection, speech, cloud
  <2>16. CASE UNCHANGED vars
    BY <2>16 DEF vars, history, answers
  <2>. QED
    BY <2>1, <2>2, <2>3, <2>4, <2>5, <2>6, <2>7, <2>8, <2>9, <2>10, <2>11, <2>12, <2>13,
       <2>14, <2>15, <2>16
    DEF Next, VoiceTask, DetectorTask, RemoteTask
<1>3. ListenInv => IdleListens
  BY DEF ListenInv, DetectionFollows, IdleListens
<1>. QED
  BY <1>1, <1>2, <1>3, RecorderTypeCorrect, PTL DEF Spec

=============================================================================
