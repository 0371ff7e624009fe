----------------------------- MODULE CloudSpeech -----------------------------
(***************************************************************************)
(* The two users of the loudspeaker: speech from the cloud (ws_client.c),   *)
(* whose frames the websocket task queues and a worker task plays, and      *)
(* local sounds (sfx_service.c), which a task of their own plays and which   *)
(* give way to speech.  The build is the default one, without wake word.    *)
(*                                                                          *)
(* A frame is its number; sample rates, prefetching and statistics are left *)
(* out.  A lock held for a few instructions is had within its timeout.      *)
(***************************************************************************)
EXTENDS Naturals, Sequences

CONSTANTS
    Depth,          \* WS_TTS_QUEUE_DEPTH
    StartBuffer,    \* WS_TTS_START_BUFFER_FRAMES
    MaxFrames,      \* bound: frames the cloud sends
    MaxSounds,      \* bound: local sounds that are asked for
    MaxChunks,      \* bound: chunks of a sound
    MaxFailures,    \* bound: starts of the audio path that fail
    MaxLosses       \* bound: connections that are lost

ASSUME SpeechAssumption ==
    /\ Depth \in Nat \ {0} /\ StartBuffer \in Nat \ {0}
    /\ MaxFrames \in Nat /\ MaxSounds \in Nat /\ MaxChunks \in Nat
    /\ MaxFailures \in Nat /\ MaxLosses \in Nat

\* WS_TTS_START_BUFFER_FRAMES is 2, WS_TTS_QUEUE_DEPTH 16 or more: with one
\* slot, or a start at the first frame, the end of a speech could be seen
\* between a frame that was just taken and the reservation for it.
ASSUME BufferAssumption == 2 <= Depth /\ 2 <= StartBuffer

Slots == 0..(Depth - 1)

VARIABLES
    at,             \* where the tasks "ws", "worker" and "sfx" are
    free, pending,  \* s_tts_free_slots, s_tts_pending_slots
    content,        \* s_tts_frame_pool: the number of the frame in a slot
    slot,           \* the worker's slot_idx
    endPending,     \* s_tts_end_pending
    playing,        \* s_tts_playing
    running,        \* hal_audio's is_running
    playback,       \* hal_audio's is_playback_mode
    cloudBusy,      \* sfx: cloud_audio_busy
    localBusy,      \* sfx: local_busy
    stopRequested,  \* sfx: stop_requested
    waiting,        \* sfx: pending_sound_id is not empty
    current,        \* sfx: request_generation is still the playing sound's
    chunks,         \* chunks of this sound written so far
    linkUp,         \* the websocket is connected
    sent,           \* frames the cloud sent so far
    open,           \* the cloud has sent frames it has not ended with LAST
    played,         \* history: frames the loudspeaker got
    torn,           \* ghost: the queues were reset with a slot in the worker's hand
    stray,          \* history: a LAST that ends no frames met the worker with the last frame
                    \* of a speech that does not play yet
    sounds, failures, losses  \* counters of the bounds

queueVars == <<free, pending, content, slot, endPending>>
audioVars == <<running, playback>>
sfxVars   == <<cloudBusy, localBusy, stopRequested, waiting, current, chunks>>
cloudVars == <<sent, open>>
envVars   == <<linkUp, cloudVars, sounds, failures, losses>>
vars == <<at, queueVars, playing, audioVars, sfxVars, envVars, played, torn, stray>>

AllSlots == [i \in 1..Depth |-> i - 1]

\* Put that trusts the queue to have room
PutAlways(q, s) == Append(q, s)

\* xQueueSendToBack without waiting
Put(q, s) == IF Len(q) < Depth THEN Append(q, s) ELSE q

Go(task, from, to) == at[task] = from /\ at' = [at EXCEPT ![task] = to]

Init ==
    /\ at = [t \in {"ws", "worker", "sfx"} |-> "idle"]
    /\ free = AllSlots /\ pending = <<>> /\ content = [s \in Slots |-> 0] /\ slot = 0
    /\ endPending = FALSE /\ playing = FALSE
    /\ running = FALSE /\ playback = FALSE
    /\ cloudBusy = FALSE /\ localBusy = FALSE /\ stopRequested = FALSE
    /\ waiting = FALSE /\ current = TRUE /\ chunks = 0
    /\ linkUp = TRUE /\ sent = 0 /\ open = FALSE /\ sounds = 0 /\ failures = 0 /\ losses = 0
    /\ played = <<>> /\ torn = FALSE /\ stray = FALSE
-----------------------------------------------------------------------------
(* The service of local sounds, called by the other tasks *)

\* sfx_service_set_cloud_audio_busy(true)
Reserve ==
    /\ cloudBusy' = TRUE /\ stopRequested' = TRUE /\ waiting' = FALSE /\ current' = FALSE
    /\ UNCHANGED <<localBusy, chunks>>

\* sfx_service_set_cloud_audio_busy(false)
Release ==
    /\ cloudBusy' = FALSE
    /\ UNCHANGED <<localBusy, stopRequested, waiting, current, chunks>>

\* sfx_service_play: a sound replaces the one before it; refused while speech
\* has the loudspeaker.
PlaySound ==
    /\ sounds < MaxSounds /\ sounds' = sounds + 1
    /\ \/ cloudBusy /\ UNCHANGED sfxVars
       \/ /\ ~cloudBusy
          /\ current' = FALSE /\ stopRequested' = FALSE /\ waiting' = TRUE
          /\ UNCHANGED <<cloudBusy, localBusy, chunks>>
    /\ UNCHANGED <<at, queueVars, playing, audioVars, linkUp, cloudVars, failures, losses, played,
                   torn, stray>>
-----------------------------------------------------------------------------
(* The audio path, shared without a lock *)

\* hal_audio_set_playback_mode
SetPlayback(on) == playback' = on /\ UNCHANGED running

\* hal_audio_start
StartAudio == running' = TRUE /\ UNCHANGED playback

\* hal_audio_start fails when the codec does.
StartFails ==
    /\ ~running /\ failures < MaxFailures /\ failures' = failures + 1
    /\ UNCHANGED audioVars

\* hal_audio_stop of this build
StopAudio ==
    IF running THEN running' = FALSE /\ playback' = FALSE ELSE UNCHANGED audioVars
-----------------------------------------------------------------------------
(* ws_finish_tts_playback, run by the worker or by the websocket task, and   *)
(* the end of ws_abort_tts_playback, which it resembles: test, stop the      *)
(* audio, put playing back, release the loudspeaker.                         *)

\* The websocket task only gets here with nothing pending, and the half second
\* before the stop lasts longer than a frame (85 ms): by then the worker has
\* played what it had in hand, and seen an end.  An abort has no delay.
Drained(task) ==
    \/ task = "worker" \/ ~linkUp
    \/ at["worker"] = "idle" /\ ~endPending
    \/ at["worker"] \in {"stop", "silent", "release"}

FinishTest(task) ==
    /\ Go(task, "finish", IF playing THEN "stop" ELSE "release")
    /\ UNCHANGED <<queueVars, playing, audioVars, sfxVars, envVars, played, torn, stray>>

FinishStop(task) ==
    /\ Drained(task)
    /\ Go(task, "stop", "silent")
    /\ StopAudio
    /\ UNCHANGED <<queueVars, playing, sfxVars, envVars, played, torn, stray>>

FinishSilent(task) ==
    /\ Go(task, "silent", "release")
    /\ playing' = FALSE
    /\ UNCHANGED <<queueVars, audioVars, sfxVars, envVars, played, torn, stray>>

\* FinishRelease that leaves the loudspeaker reserved
FinishReleaseKept(task) ==
    /\ Go(task, "release", IF task = "ws" /\ ~linkUp THEN "session" ELSE "idle")
    /\ UNCHANGED <<queueVars, playing, audioVars, sfxVars, envVars, played, torn, stray>>

FinishRelease(task) ==
    /\ Go(task, "release", IF task = "ws" /\ ~linkUp THEN "session" ELSE "idle")
    /\ Release
    /\ UNCHANGED <<queueVars, playing, audioVars, envVars, played, torn, stray>>

Finish(task) == FinishTest(task) \/ FinishStop(task) \/ FinishSilent(task) \/ FinishRelease(task)
-----------------------------------------------------------------------------
(* The websocket task *)

\* Queued at the front
QueuedFirst(q, s) == <<s>> \o q

\* xQueueSendToBack to the pending slots, under s_tts_queue_lock
Queued(q, s) == Append(q, s)

\* ws_handle_tts_binary, for each chunk of the payload: it waits for a free
\* slot and drops the chunk (and what follows it) when none comes in time.
ReceiveChunk ==
    /\ linkUp /\ at["ws"] = "idle" /\ sent < MaxFrames /\ sent' = sent + 1 /\ open' = TRUE
    /\ \/ free = <<>> /\ UNCHANGED <<free, pending, content>>
       \/ /\ free # <<>>
          /\ content' = [content EXCEPT ![Head(free)] = sent + 1]
          /\ IF Len(pending) < Depth
                THEN free' = Tail(free) /\ pending' = Queued(pending, Head(free))
                ELSE free' = Put(Tail(free), Head(free)) /\ UNCHANGED pending
    /\ UNCHANGED <<at, slot, endPending, playing, audioVars, sfxVars, linkUp, sounds, failures,
                   losses, played, torn, stray>>

\* CompleteNow that does not look at what is pending
CompleteAtOnce == at' = [at EXCEPT !["ws"] = "finish"] /\ UNCHANGED endPending

\* ws_tts_complete: the worker finishes after the last pending frame; with
\* none pending the websocket task does.
CompleteNow ==
    IF pending # <<>>
       THEN endPending' = TRUE /\ UNCHANGED at
       ELSE at' = [at EXCEPT !["ws"] = "finish"] /\ UNCHANGED endPending

InHand == at["worker"] \notin {"idle", "finish", "stop", "silent", "release"}

\* the LAST flag of any packet, behind its payload: also of one that is empty or
\* too long, and behind the LAST of the same speech
Complete ==
    /\ linkUp /\ at["ws"] = "idle"
    /\ CompleteNow
    /\ open' = FALSE
    /\ stray' = (stray \/ (~open /\ pending = <<>> /\ InHand /\ ~playing))
    /\ UNCHANGED <<free, pending, content, slot, playing, audioVars, sfxVars, linkUp, sent, sounds,
                   failures, losses, played, torn>>

\* ws_tts_queue_reset_locked: all slots are free, the worker's too.
Reset ==
    /\ free' = AllSlots /\ pending' = <<>> /\ endPending' = FALSE
    /\ torn' = (torn \/ InHand)
    /\ UNCHANGED <<content, slot>>

\* WEBSOCKET_EVENT_DISCONNECTED and ws_abort_tts_playback, which goes on like
\* the finish without the delays
Disconnected ==
    /\ linkUp /\ losses < MaxLosses /\ losses' = losses + 1 /\ linkUp' = FALSE
    /\ open' = FALSE
    /\ Go("ws", "idle", "finish")
    /\ Reset
    /\ UNCHANGED <<playing, audioVars, sfxVars, sent, sounds, failures, played, stray>>

\* ws_reset_media_state, of a connection that ends or begins
ResetBusy ==
    /\ Go("ws", "session", "reset")
    /\ Release
    /\ UNCHANGED <<queueVars, playing, audioVars, envVars, played, torn, stray>>

ResetQueue ==
    /\ Go("ws", "reset", "idle")
    /\ Reset
    /\ UNCHANGED <<playing, audioVars, sfxVars, envVars, played, stray>>

\* WEBSOCKET_EVENT_CONNECTED
Connected ==
    /\ ~linkUp /\ linkUp' = TRUE
    /\ Go("ws", "idle", "session")
    /\ UNCHANGED <<queueVars, playing, audioVars, sfxVars, cloudVars, sounds, failures,
                   losses, played, torn, stray>>
-----------------------------------------------------------------------------
(* ws_tts_worker_task *)

Due == playing \/ Len(pending) >= StartBuffer \/ endPending

\* under s_tts_queue_lock
TakeFrame ==
    /\ pending # <<>> /\ Due
    /\ Go("worker", "idle", "taken")
    /\ slot' = Head(pending) /\ pending' = Tail(pending)
    /\ UNCHANGED <<free, content, endPending, playing, audioVars, sfxVars, envVars, played, torn,
                   stray>>

\* under s_tts_queue_lock
TakeEnd ==
    /\ pending = <<>> /\ endPending /\ endPending' = FALSE
    /\ Go("worker", "idle", "finish")
    /\ UNCHANGED <<free, pending, content, slot, playing, audioVars, sfxVars, envVars, played, torn,
                   stray>>

\* Whether the audio path is this speech's
CheckPath ==
    /\ Go("worker", "taken", IF playing /\ running /\ playback THEN "write" ELSE "reserve")
    /\ UNCHANGED <<queueVars, playing, audioVars, sfxVars, envVars, played, torn, stray>>

\* ws_prepare_tts_playback
Prepare ==
    /\ \/ /\ Go("worker", "reserve", "mode")
          /\ Reserve /\ UNCHANGED <<audioVars, playing, failures>>
       \/ /\ Go("worker", "mode", "start")
          /\ SetPlayback(TRUE) /\ UNCHANGED <<sfxVars, playing, failures>>
       \/ /\ Go("worker", "start", "mark")
          /\ StartAudio /\ UNCHANGED <<sfxVars, playing, failures>>
       \/ /\ Go("worker", "start", "refused")
          /\ StartFails /\ UNCHANGED <<sfxVars, playing>>
       \/ /\ Go("worker", "refused", "return")
          /\ Release /\ UNCHANGED <<audioVars, playing, failures>>
       \/ /\ Go("worker", "mark", "write")
          /\ playing' = TRUE /\ UNCHANGED <<audioVars, sfxVars, failures>>
    /\ UNCHANGED <<queueVars, linkUp, cloudVars, sounds, losses, played, torn, stray>>

\* hal_audio_write: nothing is heard on a path that does not run.
WriteFrame ==
    /\ Go("worker", "write", "return")
    /\ played' = IF running THEN Append(played, content[slot]) ELSE played
    /\ UNCHANGED <<queueVars, playing, audioVars, sfxVars, envVars, torn, stray>>

\* under s_tts_queue_lock
ReturnSlot ==
    /\ Go("worker", "return", "idle")
    /\ free' = Put(free, slot)
    /\ UNCHANGED <<pending, content, slot, endPending, playing, audioVars, sfxVars, envVars,
                   played, torn, stray>>

Worker ==
    \/ TakeFrame \/ TakeEnd \/ CheckPath \/ Prepare \/ WriteFrame \/ ReturnSlot
    \/ Finish("worker")
-----------------------------------------------------------------------------
(* sfx_task *)

\* sfx_take_pending_request; the sound's file is read behind it.
TakeSound ==
    /\ ~cloudBusy /\ waiting
    /\ \E next \in {"check", "done"} : Go("sfx", "idle", next)
    /\ waiting' = FALSE /\ localBusy' = TRUE /\ current' = TRUE /\ chunks' = 0
    /\ UNCHANGED <<cloudBusy, stopRequested, queueVars, playing, audioVars, envVars, played, torn,
                   stray>>

\* sfx_playback_should_abort
Aborts == stopRequested \/ cloudBusy \/ ~current

SfxSkips(from, to, aborted) ==
    /\ Go("sfx", from, IF Aborts THEN aborted ELSE to)
    /\ UNCHANGED <<sfxVars, audioVars, failures>>

\* sfx_playback_file: the abort test before the start and before every chunk
PlaySteps ==
    /\ \/ SfxSkips("check", "mode", "done")
       \/ /\ Go("sfx", "mode", "start")
          /\ SetPlayback(TRUE) /\ UNCHANGED <<sfxVars, failures>>
       \/ /\ Go("sfx", "start", "next")
          /\ StartAudio /\ UNCHANGED <<sfxVars, failures>>
       \/ /\ Go("sfx", "start", "unmode")
          /\ StartFails /\ UNCHANGED sfxVars
       \/ /\ Go("sfx", "unmode", "done")
          /\ SetPlayback(FALSE) /\ UNCHANGED <<sfxVars, failures>>
       \/ chunks < MaxChunks /\ SfxSkips("next", "write", "handoff")
       \/ /\ Go("sfx", "next", "handoff")
          /\ chunks > 0 /\ UNCHANGED <<sfxVars, audioVars, failures>>
       \/ /\ Go("sfx", "write", IF running THEN "next" ELSE "handoff")
          /\ chunks' = chunks + 1
          /\ UNCHANGED <<cloudBusy, localBusy, stopRequested, waiting, current, audioVars,
                         failures>>
    /\ UNCHANGED <<queueVars, playing, linkUp, cloudVars, sounds, losses, played, torn, stray>>

\* The path is left to a speech that has it; nothing is locked behind the test.
Handoff ==
    /\ Go("sfx", "handoff", IF cloudBusy THEN "done" ELSE "stop")
    /\ UNCHANGED <<queueVars, playing, audioVars, sfxVars, envVars, played, torn, stray>>

StopPath ==
    /\ Go("sfx", "stop", "done")
    /\ StopAudio
    /\ UNCHANGED <<queueVars, playing, sfxVars, envVars, played, torn, stray>>

\* sfx_set_local_busy(false)
SoundDone ==
    /\ Go("sfx", "done", "idle")
    /\ localBusy' = FALSE /\ stopRequested' = FALSE
    /\ UNCHANGED <<cloudBusy, waiting, current, chunks, queueVars, playing, audioVars, envVars,
                   played, torn, stray>>

Sfx == TakeSound \/ PlaySteps \/ Handoff \/ StopPath \/ SoundDone
-----------------------------------------------------------------------------
WsSteps == Finish("ws") \/ ResetBusy \/ ResetQueue

Next ==
    \/ ReceiveChunk \/ Complete \/ Disconnected \/ Connected
    \/ WsSteps \/ Worker \/ Sfx \/ PlaySound

Spec == Init /\ [][Next]_vars

\* Tasks get their turns.
Fairness == WF_vars(Worker) /\ WF_vars(Sfx) /\ WF_vars(WsSteps)
FairSpec == Spec /\ Fairness
-----------------------------------------------------------------------------
TypeOK ==
    /\ at["ws"] \in {"idle", "finish", "stop", "silent", "release", "session", "reset"}
    /\ at["worker"] \in {"idle", "taken", "reserve", "mode", "start", "refused", "mark", "write",
                         "return", "finish", "stop", "silent", "release"}
    /\ at["sfx"] \in {"idle", "check", "mode", "start", "unmode", "next", "write", "handoff",
                      "stop", "done"}
    /\ free \in Seq(Slots) /\ Len(free) <= Depth
    /\ pending \in Seq(Slots) /\ Len(pending) <= Depth
    /\ content \in [Slots -> 0..MaxFrames] /\ slot \in Slots
    /\ {endPending, playing, running, playback, cloudBusy, localBusy, stopRequested, waiting,
        current, linkUp, open, torn, stray} \subseteq BOOLEAN
    /\ played \in Seq(1..MaxFrames)

\* Frames are heard in the order they were sent and none twice, whatever is
\* dropped, aborted or lost with the path, unless the queues were reset while
\* the worker had a frame in hand.
SpeechInOrder ==
    ~torn => \A i, j \in 1..Len(played) : i < j => played[i] < played[j]

\* While speech plays the loudspeaker is reserved and no local sound accepted,
\* however the two tasks that end a speech and the one that plays the next are
\* interleaved.  Three things break it, each for good as far as this property
\* goes: a reset that takes a slot out of the worker's hand (torn), a path that
\* could not be started again, which releases the loudspeaker, and a LAST that
\* ends no frames and finds the worker between taking the last frame of a speech
\* and s_tts_playing = true (ws_client.c:808-972): the websocket task releases
\* the loudspeaker and the speech plays without it.
SpeakerReserved == ~torn /\ ~stray /\ failures = 0 => (playing => cloudBusy)

\* A speech that was completed, or is cut off by the loss of its connection,
\* stops playing and gives the loudspeaker back, whatever fails to start,
\* unless the abort took a slot out of the worker's hand.
Ended == endPending \/ at["ws"] = "finish"
SpeechEnds == Ended ~> ((~playing /\ ~cloudBusy) \/ torn)
=============================================================================
