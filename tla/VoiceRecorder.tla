--------------------------- MODULE VoiceRecorder ---------------------------
(***************************************************************************)
(* The head's voice recorder (voice_service/src/voice_fsm.c) and the       *)
(* running bit of the wake word detector behind it (hal_wake_word.c), in   *)
(* a build with CONFIG_ENABLE_WAKE_WORD; sdkconfig.defaults leaves it off. *)
(*                                                                         *)
(* Five tasks meet here without a lock: the voice task, which takes events *)
(* from a queue and reads the microphone; the detector's task, which       *)
(* starts a recording itself when it hears the wake word; the WebSocket    *)
(* task, which asks for a recording on behalf of the cloud; the task that  *)
(* plays speech; and the main loop, which suspends all of it when memory   *)
(* is short.  Starting a recording takes 50 ms and is two steps; stopping  *)
(* one sends the end marker in between and is three.                       *)
(* Audio is abstracted to "a chunk was fed to the detector"; whether it    *)
(* holds the wake word, or ends in silence, is the environment's choice.   *)
(***************************************************************************)
EXTENDS Naturals, Sequences

CONSTANTS
  QueueLen,      \* VOICE_EVENT_QUEUE_LEN
  SessionDrops,  \* may the cloud session be lost and come back?
  AudioFaults,   \* may the audio path fail to start?
  CloudAnswers,  \* may the cloud answer: with speech, or too late?
  MaxSuspends    \* bound: low-memory recoveries

ASSUME VoiceAssumption ==
  /\ QueueLen \in Nat \ {0}
  /\ SessionDrops \in BOOLEAN
  /\ AudioFaults \in BOOLEAN
  /\ CloudAnswers \in BOOLEAN
  /\ MaxSuspends \in Nat

VARIABLES
  gState,        \* g_state
  byWakeWord,    \* g_recording_triggered_by_wake_word
  vad,           \* g_vad_enabled
  queue,         \* g_event_queue
  desired,       \* g_remote_recording_desired
  applyPending,  \* g_remote_apply_pending
  detecting,     \* DETECTION_RUNNING_BIT
  fed,           \* the detector was given audio it has not looked at
  playback,      \* the audio path plays: is_playback_mode
  tts,           \* speech is played: s_tts_playing
  endPending,    \* s_audio_end_pending
  waiting,       \* s_waiting_for_response
  session,       \* ws_client_is_session_ready
  voicePc,       \* where the voice task is
  should,        \* its copy of desired in handle_remote_apply
  detectPc,      \* where the detector's task is
  remotePc,      \* where the WebSocket task is in a microphone command
  suspendPc,     \* where the main loop is in a suspend
  suspends,      \* suspends so far
  owed,          \* history: target of the latest microphone command, when it was
                 \* answered with ESP_OK and is not taken up yet
  missed,        \* history: that command relied on an event that had read the target
  thrown,        \* history: a suspend threw away the event the set flag stands for
  overlapped,    \* history: two tasks were changing the recording at once
  disturbed      \* history, since the latest recording began: its start left audio with
                 \* the detector or failed, or speech, the end of a connection or a
                 \* suspend came in between

recording == <<gState, byWakeWord, vad>>
target    == <<desired, applyPending>>
detection == <<detecting, fed>>
speech    == <<playback, tts>>
cloud     == <<session, endPending, waiting>>
suspend   == <<suspendPc, suspends>>
devices   == <<detecting, fed, playback, endPending, waiting>>
answers   == <<owed, missed, thrown>>
history   == <<answers, overlapped, disturbed>>
vars == <<gState, byWakeWord, vad, queue, desired, applyPending, detecting, fed, playback,
          tts, endPending, waiting, session, voicePc, should, detectPc, remotePc,
          suspendPc, suspends, history>>

(* What the steps of each task leave to the others. *)
notVoice    == <<target, tts, session, detectPc, remotePc, suspend>>
notDetector == <<gState, vad, queue, target, tts, cloud, voicePc, should, remotePc,
                 suspend, answers>>
notRemote   == <<recording, detection, speech, cloud, voicePc, should, detectPc, suspend,
                 thrown, overlapped, disturbed>>
notSpeech   == <<recording, queue, target, voicePc, should, detectPc, remotePc, suspend,
                 answers, overlapped>>

Events  == {"CLICK", "REMOTE_APPLY"}
Targets == {"open", "close"}

-----------------------------------------------------------------------------
Init ==
  /\ gState = "IDLE" /\ byWakeWord = FALSE /\ vad = FALSE
  /\ queue = <<>>
  /\ desired = "close" /\ applyPending = FALSE
  /\ detecting = TRUE /\ fed = FALSE
  /\ playback = FALSE /\ tts = FALSE
  /\ session \in {TRUE, ~SessionDrops} /\ endPending = FALSE /\ waiting = FALSE
  /\ voicePc = "loop" /\ should = "close"
  /\ detectPc = "wait" /\ remotePc = "idle"
  /\ suspendPc = "idle" /\ suspends = 0
  /\ owed = "none" /\ missed = FALSE /\ thrown = FALSE
  /\ overlapped = FALSE /\ disturbed = FALSE

(* Mutant: the queue takes one event more than its memory holds. *)
QueueHasRoomLate == Len(queue) <= QueueLen

(* xQueueSend without waiting *)
QueueHasRoom == Len(queue) < QueueLen

(* An event of a microphone command is in the queue. *)
ApplyQueued == \E i \in DOMAIN queue : queue[i] = "REMOTE_APPLY"

(* hal_wake_word_start *)
StartDetection == detecting' = TRUE /\ UNCHANGED fed

(* hal_wake_word_stop clears what the detector was fed, unless a fetch     *)
(* lasts longer than 100 ms or the detector's lock is not had in that time.*)
StopDetection == detecting' = FALSE /\ fed' \in {FALSE, fed}

-----------------------------------------------------------------------------
(* Starting a recording: start_recording up to its delay ... *)
StartBegins ==
  /\ session
  /\ playback' = FALSE
  /\ StopDetection
  /\ disturbed' = fed'

(* ... or up to its return without a session or an audio path ... *)
StartFails ==
  /\ ~session \/ AudioFaults
  /\ playback' = (playback /\ ~session)
  /\ disturbed' = TRUE
  /\ UNCHANGED detection

(* ... and after its delay: silence ends a recording the wake word started.*)
StartEnds ==
  /\ gState' = "RECORDING"
  /\ vad' = (vad \/ byWakeWord)

(* Two of the tasks that start and end recordings are at it, or one ends a *)
(* recording while the detector is about to stop itself.                   *)
Overlap(voice, detect, suspending) ==
  \/ voice \in {"stopping", "stopped"} /\ detect = "heard"
  \/ /\ voice \in {"starting", "stopping", "stopped"}
     /\ detect = "starting" \/ suspending = "muted"
  \/ detect = "starting" /\ suspending = "muted"

-----------------------------------------------------------------------------
(* The voice task *)

(* voice_process_pending_events *)
ReceiveEvent ==
  /\ voicePc = "loop" /\ queue # <<>>
  /\ queue' = Tail(queue)
  /\ voicePc' = IF Head(queue) = "CLICK" THEN "click" ELSE "read"
  /\ UNCHANGED <<notVoice, recording, devices, should, history>>

(* handle_short_press_toggle looks at the state ... *)
HandleClick ==
  /\ voicePc = "click"
  /\ voicePc' = IF gState = "IDLE" /\ ~session THEN "loop" ELSE "clicked"
  /\ byWakeWord' = (byWakeWord /\ ~(gState = "IDLE" /\ session))
  /\ UNCHANGED <<notVoice, gState, vad, queue, devices, should, history>>

(* handle_remote_apply reads the target ... *)
ReadTarget ==
  /\ voicePc = "read"
  /\ should' = desired
  /\ voicePc' = "clear"
  /\ UNCHANGED <<notVoice, recording, queue, devices, history>>

(* ... clears the flag ... *)
ClearPending ==
  /\ voicePc = "clear"
  /\ applyPending' = FALSE
  /\ voicePc' = "decide"
  /\ UNCHANGED <<desired, tts, session, detectPc, remotePc, suspend, recording, queue,
                 devices, should, history>>

(* ... and compares the target it read with the state. *)
DecideTarget ==
  /\ voicePc = "decide"
  /\ LET reached == (should = "open") = (gState = "RECORDING")
     IN  /\ voicePc' = IF reached THEN "loop" ELSE "applied"
         /\ byWakeWord' = (byWakeWord /\ ~(should = "open" /\ ~reached))
         /\ owed' = IF reached /\ owed = should THEN "none" ELSE owed
  /\ UNCHANGED <<notVoice, gState, vad, queue, devices, should, missed, thrown, overlapped,
                 disturbed>>

(* voice_recorder_process_event looks at the state, and at the target,     *)
(* once more.                                                              *)
Starts == gState = "IDLE" /\ (voicePc = "clicked" \/ (voicePc = "applied" /\ desired = "open"))
Stops  == gState = "RECORDING" /\
            (voicePc \in {"clicked", "silence"} \/ (voicePc = "applied" /\ desired = "close"))

(* Mutant: stop_recording leaves wake word detection off. *)
ProcessEventQuietly ==
  /\ voicePc \in {"clicked", "applied", "silence"}
  /\ \/ Starts /\ StartBegins /\ voicePc' = "starting"
     \/ Starts /\ StartFails /\ voicePc' = "loop"
     \/ Stops /\ voicePc' = "stopping" /\ UNCHANGED <<detection, playback, disturbed>>
     \/ ~Starts /\ ~Stops /\ voicePc' = "loop" /\ UNCHANGED <<detection, playback, disturbed>>
  /\ owed' = IF voicePc = "applied" THEN "none" ELSE owed
  /\ UNCHANGED <<notVoice, recording, queue, endPending, waiting, should, missed, thrown>>
  /\ overlapped' = (overlapped \/ Overlap(voicePc', detectPc, suspendPc))

ProcessEvent ==
  /\ voicePc \in {"clicked", "applied", "silence"}
  /\ \/ Starts /\ StartBegins /\ voicePc' = "starting"
     \/ Starts /\ StartFails /\ voicePc' = "loop"
     \/ Stops /\ StartDetection /\ voicePc' = "stopping" /\ UNCHANGED <<playback, disturbed>>
     \/ ~Starts /\ ~Stops /\ voicePc' = "loop" /\ UNCHANGED <<detection, playback, disturbed>>
  /\ owed' = IF voicePc = "applied" THEN "none" ELSE owed
  /\ UNCHANGED <<notVoice, recording, queue, endPending, waiting, should, missed, thrown>>
  /\ overlapped' = (overlapped \/ Overlap(voicePc', detectPc, suspendPc))

FinishStart ==
  /\ voicePc = "starting"
  /\ StartEnds
  /\ voicePc' = "loop"
  /\ UNCHANGED <<notVoice, byWakeWord, queue, devices, should, history>>

(* Mutant: silence is heard after the recording. *)
EndVadLate ==
  /\ voicePc = "stopping"
  /\ endPending' = (endPending \/ session)
  /\ voicePc' = "stopped"
  /\ UNCHANGED <<notVoice, recording, queue, detection, playback, waiting, should, history>>

(* stop_recording after detection was started again: the end marker is     *)
(* left to the upload, silence is ignored ...                              *)
EndVad ==
  /\ voicePc = "stopping"
  /\ endPending' = (endPending \/ session)
  /\ vad' = FALSE
  /\ voicePc' = "stopped"
  /\ UNCHANGED <<notVoice, gState, byWakeWord, queue, detection, playback, waiting, should,
                 history>>

(* ... and the recorder is idle. *)
FinishStop ==
  /\ voicePc = "stopped"
  /\ gState' = "IDLE"
  /\ byWakeWord' = FALSE
  /\ voicePc' = "loop"
  /\ UNCHANGED <<notVoice, vad, queue, devices, should, history>>

(* voice_recorder_tick: while idle the detector gets the audio. *)
Feed ==
  /\ voicePc = "loop" /\ queue = <<>>
  /\ gState = "IDLE" /\ detecting
  /\ fed' = TRUE
  /\ UNCHANGED <<notVoice, recording, queue, detecting, playback, endPending, waiting, voicePc,
                 should, history>>

(* voice_recorder_tick: silence ends the recording. *)
HearSilence ==
  /\ voicePc = "loop" /\ queue = <<>>
  /\ gState = "RECORDING" /\ vad
  /\ voicePc' = "silence"
  /\ UNCHANGED <<notVoice, recording, queue, devices, should, history>>

VoiceTask == \/ ReceiveEvent \/ HandleClick \/ ReadTarget \/ ClearPending \/ DecideTarget
             \/ ProcessEvent \/ FinishStart \/ EndVad \/ FinishStop

-----------------------------------------------------------------------------
(* The detector's task *)

(* No wake word, or a fetch that ends with detection stopped *)
HearNothing ==
  /\ detectPc = "wait" /\ fed
  /\ fed' = FALSE
  /\ UNCHANGED <<notDetector, byWakeWord, detecting, playback, detectPc, overlapped, disturbed>>

(* A fetch ends with the wake word, and the running bit is still set: ... *)
HearWakeWord ==
  /\ detectPc = "wait" /\ detecting /\ fed
  /\ fed' = FALSE
  /\ detectPc' = "heard"
  /\ overlapped' = (overlapped \/ Overlap(voicePc, detectPc', suspendPc))
  /\ UNCHANGED <<notDetector, byWakeWord, detecting, playback, disturbed>>

(* ... the task clears it, whoever has changed it since, and calls back. *)
StopSelf ==
  /\ detectPc = "heard"
  /\ detecting' = FALSE
  /\ detectPc' = "called"
  /\ UNCHANGED <<notDetector, byWakeWord, fed, playback, overlapped, disturbed>>

(* on_wake_word_detected sets the trigger, then shows the display ... *)
MarkTrigger ==
  /\ detectPc = "called"
  /\ byWakeWord' = TRUE
  /\ detectPc' = "shown"
  /\ UNCHANGED <<notDetector, detection, playback, overlapped, disturbed>>

(* ... then looks at the state. *)
WakeUp ==
  /\ detectPc = "shown"
  /\ \/ gState = "IDLE" /\ StartBegins /\ detectPc' = "starting"
     \/ gState = "IDLE" /\ StartFails /\ detectPc' = "wait"
     \/ gState = "RECORDING" /\ detectPc' = "wait" /\ UNCHANGED <<detection, playback, disturbed>>
  /\ UNCHANGED <<notDetector, byWakeWord>>
  /\ overlapped' = (overlapped \/ Overlap(voicePc, detectPc', suspendPc))

FinishWakeUp ==
  /\ detectPc = "starting"
  /\ StartEnds
  /\ detectPc' = "wait"
  /\ UNCHANGED <<byWakeWord, queue, target, detection, speech, cloud, voicePc, should,
                 remotePc, suspend, history>>

DetectorTask == HearNothing \/ HearWakeWord \/ StopSelf \/ MarkTrigger \/ WakeUp \/ FinishWakeUp

-----------------------------------------------------------------------------
(* submit_remote_recording_target, in the WebSocket task *)

(* The target replaces the one before, taken up or not. *)
WriteTarget(t) ==
  /\ remotePc = "idle"
  /\ desired' = t
  /\ owed' = "none" /\ missed' = FALSE
  /\ remotePc' = "written"
  /\ UNCHANGED <<notRemote, queue, applyPending>>

(* An event is under way: ESP_OK at once, though it may have read already. *)
FindPending ==
  /\ remotePc = "written" /\ applyPending
  /\ owed' = desired
  /\ missed' = (voicePc = "clear" /\ should # desired)
  /\ remotePc' = "idle"
  /\ UNCHANGED <<notRemote, queue, target>>

SetPending ==
  /\ remotePc = "written" /\ ~applyPending
  /\ applyPending' = TRUE
  /\ remotePc' = "marked"
  /\ UNCHANGED <<notRemote, queue, desired, owed, missed>>

(* Mutant: when the queue is full the flag is not taken back. *)
SendLeavesPending ==
  /\ remotePc = "marked"
  /\ IF QueueHasRoom
     THEN queue' = Append(queue, "REMOTE_APPLY") /\ owed' = desired
     ELSE UNCHANGED <<queue, owed>>
  /\ remotePc' = "idle"
  /\ UNCHANGED <<notRemote, target, missed>>

SendApply ==
  /\ remotePc = "marked"
  /\ IF QueueHasRoom
     THEN /\ queue' = Append(queue, "REMOTE_APPLY")
          /\ owed' = desired
          /\ UNCHANGED applyPending
     ELSE applyPending' = FALSE /\ UNCHANGED <<queue, owed>>
  /\ remotePc' = "idle"
  /\ UNCHANGED <<notRemote, desired, missed>>

RemoteTask == FindPending \/ SetPending \/ SendApply

-----------------------------------------------------------------------------
(* Everybody else *)

(* button_single_click_callback; a click that finds the queue full is lost.*)
Click ==
  /\ QueueHasRoom
  /\ queue' = Append(queue, "CLICK")
  /\ UNCHANGED <<notRemote, target, remotePc, owed, missed>>

(* ws_prepare_tts_playback, before the first frame and whenever the audio  *)
(* path was taken away.                                                    *)
PlaySpeech ==
  /\ CloudAnswers /\ ~(tts /\ playback)
  /\ StopDetection
  /\ playback' = TRUE /\ tts' = TRUE
  /\ waiting' = FALSE
  /\ disturbed' = TRUE
  /\ UNCHANGED <<notSpeech, session, endPending>>

(* The same without an audio path: detection goes on. *)
SpeechFails ==
  /\ CloudAnswers /\ AudioFaults /\ ~(tts /\ playback)
  /\ detecting' = TRUE /\ fed' \in {FALSE, fed}
  /\ playback' = FALSE
  /\ waiting' = FALSE
  /\ disturbed' = TRUE
  /\ UNCHANGED <<notSpeech, tts, session, endPending>>

(* ws_finish_tts_playback, ws_abort_tts_playback: both start detection,    *)
(* whether there was any speech or not.                                    *)
StopSpeech ==
  /\ playback' = FALSE /\ tts' = FALSE
  /\ StartDetection
  /\ waiting' = FALSE
  /\ disturbed' = TRUE
  /\ UNCHANGED notSpeech

EndSpeech == tts /\ StopSpeech /\ UNCHANGED <<session, endPending>>
NoSpeech  == CloudAnswers /\ ~tts /\ StopSpeech /\ UNCHANGED <<session, endPending>>

(* ws_audio_worker_task: once the end marker is out the answer is awaited. *)
EndSent ==
  /\ endPending /\ session
  /\ endPending' = FALSE /\ waiting' = TRUE
  /\ UNCHANGED <<notSpeech, session, detection, speech, disturbed>>

(* ws_client_mark_server_response: the answer is not speech. *)
Answer ==
  /\ CloudAnswers /\ waiting
  /\ waiting' = FALSE
  /\ UNCHANGED <<notSpeech, session, endPending, detection, speech, disturbed>>

(* ws_tts_timeout_check: the answer is overdue. *)
GiveUpWaiting ==
  /\ CloudAnswers /\ waiting
  /\ waiting' = FALSE
  /\ disturbed' = TRUE
  /\ StartDetection
  /\ UNCHANGED <<notSpeech, session, endPending, speech>>

(* A connection that begins expects no answer.  The main loop, which       *)
(* begins it, is not in a suspend then.                                    *)
SessionOpens ==
  /\ SessionDrops /\ suspendPc = "idle" /\ ~session
  /\ session' = TRUE
  /\ endPending' = FALSE /\ waiting' = FALSE
  /\ UNCHANGED <<notSpeech, detection, speech, disturbed>>

(* One that ends, or could not be made, ends speech too. *)
SessionCloses ==
  /\ SessionDrops /\ suspendPc = "idle"
  /\ session' = FALSE
  /\ endPending' = FALSE
  /\ StopSpeech

(* voice_recorder_suspend_cloud_audio, once the session is closed: the     *)
(* audio path stops and silence is ignored ...                             *)
SuspendBegins ==
  /\ suspendPc = "idle" /\ ~session /\ suspends < MaxSuspends
  /\ suspends' = suspends + 1
  /\ IF gState = "RECORDING"
     THEN suspendPc' = "muted" /\ vad' = FALSE /\ playback' = FALSE
     ELSE suspendPc' = "empty" /\ UNCHANGED <<vad, playback>>
  /\ UNCHANGED <<gState, byWakeWord, queue, target, detection, tts, cloud, voicePc,
                 should, detectPc, remotePc, answers>>
  /\ overlapped' = (overlapped \/ Overlap(voicePc, detectPc, suspendPc'))
  /\ disturbed' = TRUE

(* ... the recorder is idle, and its events are thrown away. *)
SuspendEnds ==
  /\ suspendPc # "idle"
  /\ suspendPc' = "idle"
  /\ IF suspendPc = "muted" THEN gState' = "IDLE" /\ byWakeWord' = FALSE
                            ELSE UNCHANGED <<gState, byWakeWord>>
  /\ queue' = <<>>
  /\ owed' = "none"
  /\ thrown' = (thrown \/ ApplyQueued)
  /\ UNCHANGED <<vad, target, detection, speech, cloud, voicePc, should, detectPc,
                 remotePc, suspends, missed, overlapped, disturbed>>

Next ==
  \/ VoiceTask \/ Feed \/ HearSilence
  \/ DetectorTask
  \/ \E t \in Targets : WriteTarget(t)
  \/ RemoteTask
  \/ Click
  \/ PlaySpeech \/ SpeechFails \/ EndSpeech \/ NoSpeech
  \/ EndSent \/ Answer \/ GiveUpWaiting
  \/ SessionOpens \/ SessionCloses \/ SuspendBegins \/ SuspendEnds

Spec     == Init /\ [][Next]_vars
(* Tasks go on, and speech ends. *)
FairSpec == Spec /\ WF_vars(VoiceTask) /\ WF_vars(DetectorTask)
                 /\ WF_vars(RemoteTask) /\ WF_vars(EndSpeech) /\ WF_vars(SuspendEnds)

-----------------------------------------------------------------------------
(* Properties *)

FlagType ==
  /\ byWakeWord \in BOOLEAN /\ vad \in BOOLEAN /\ applyPending \in BOOLEAN
  /\ detecting \in BOOLEAN /\ fed \in BOOLEAN
  /\ playback \in BOOLEAN /\ tts \in BOOLEAN
  /\ session \in BOOLEAN /\ endPending \in BOOLEAN /\ waiting \in BOOLEAN

HistoryType ==
  /\ missed \in BOOLEAN /\ thrown \in BOOLEAN
  /\ overlapped \in BOOLEAN /\ disturbed \in BOOLEAN

PlaceType ==
  /\ gState \in {"IDLE", "RECORDING"}
  /\ desired \in Targets /\ should \in Targets
  /\ voicePc \in {"loop", "click", "clicked", "read", "clear", "decide", "applied",
                  "silence", "starting", "stopping", "stopped"}
  /\ detectPc \in {"wait", "heard", "called", "shown", "starting"}
  /\ remotePc \in {"idle", "written", "marked"}
  /\ suspendPc \in {"idle", "muted", "empty"}
  /\ suspends \in 0 .. MaxSuspends
  /\ owed \in {"none"} \cup Targets

QueueType == queue \in Seq(Events) /\ Len(queue) <= QueueLen

(* Every variable stays in its range: above all, the queue never overflows.*)
TypeOK == FlagType /\ HistoryType /\ PlaceType /\ QueueType

(* The voice task has yet to read desired for a microphone command, or is  *)
(* carrying out the target t it has read.                                  *)
WillRead      == ApplyQueued \/ voicePc \in {"read", "applied"}
Deciding(t)   == voicePc \in {"clear", "decide"} /\ should = t

(* The target of the latest microphone command that was answered with      *)
(* ESP_OK is still to be read, or the one being decided on, whatever order *)
(* commands, clicks and the voice task's steps come in and however often   *)
(* the queue is full.  Two windows of the code are left out, by the very   *)
(* step: the answer is given between the reading of the target and the     *)
(* clearing of the flag, or a suspend threw the event away.                *)
AcceptedIsRead == owed # "none" => WillRead \/ Deciding(owed) \/ missed \/ thrown

(* Silence can only end the recording it was switched on for: with no      *)
(* recording it is off, so a button's recording never inherits it, unless  *)
(* two tasks changed the recording at once.                                *)
VadMeansRecording == vad => gState = "RECORDING" \/ overlapped

(* A recorder that is idle listens for the wake word, whoever ended the    *)
(* recording, unless two tasks changed it at once, or since the latest     *)
(* recording began its start left audio with the detector, a start failed, *)
(* or speech, the end of a connection or a suspend came in between.        *)
Busy == voicePc = "starting" \/ detectPc # "wait"
IdleListens == gState = "IDLE" /\ ~Busy => detecting \/ overlapped \/ disturbed

(* While idle and without speech the recorder listens again and again,     *)
(* with or without a network.                                              *)
WakeWordListens == []<>(detecting \/ gState = "RECORDING" \/ tts)

(* Of microphone commands in quick succession the latest counts: once it   *)
(* is answered with ESP_OK, the voice task has yet to read its target or   *)
(* to decide on the one it has read.                                       *)
LatestTargetCounts == owed # "none" => WillRead \/ voicePc \in {"clear", "decide"}

-----------------------------------------------------------------------------
(* Stated for runs to come; the README tells what TLC says of it today. *)

(* Wake word detection is off while speech is played. *)
SilentDuringTts == tts /\ playback => ~detecting

=============================================================================
