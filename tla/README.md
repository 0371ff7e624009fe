# WatcheRobot: TLA+ models and proofs

WatcheRobot's firmware is two programs.  The *head*, an ESP32-S3
(`firmware/esp32-s3`), talks to the cloud, plays sounds and animations and
decides what the robot does.  The *co-processor*, an STM32F103
(`firmware/stm32-f103`), drives servos, lights and sensors.  They exchange
numbered, CRC-checked frames over a UART.  This directory holds TLA+ modules of
the parts of that system in which order, failure and time matter, the TLC
configurations that check them, and proofs for TLAPS.

## 1. Inventory

| Part | State it keeps | Operations | Hard behaviour |
| --- | --- | --- | --- |
| co-processor motion runtime (`coproc_runtime.c`) | active move, jog, ring of waiting moves, deadlines | SERVO_MOVE / JOG / STOP, poll | a servo fault or a refused frame in the middle of a handler; tick wrap; reused numbers |
| co-processor touch events (same file) | debounced level, ring of events | poll | poll that returns early, event lost when the UART refuses it |
| co-processor UART transport (`platform_coproc_uart.c`) | four receive chunks shared by interrupt and main loop, error flags | receive interrupt, poll | interrupt between two lines of the drain loop, full queue, re-arming after an error |
| co-processor protocol stack (`coproc_protocol.c`, `coproc_ring_buffer.c`, framing, COBS, CRC, dispatch) | byte ring, discard flag | push bytes, process | overflow in the middle of a frame, resynchronisation at the next delimiter |
| head MCU link (`mcu_link*.c`) | link state, hello timer, baseline flag, sequence numbers | bootstrap poll, frame and fault handlers | lost hello, co-processor restart, a NACK for something else |
| head motion service (`mcu_motion_service.c`) | last command, in-flight flag, latest pending move | submit, ACK / NACK / DONE / FAULT handlers | answers that never come, answers to a superseded command |
| head LED, power and sensor services | requested and confirmed state | submit, handlers | as above |
| head control ingress (`control_ingress.c`) | last manual command, queues | submit from cloud, BLE, touch, behaviour | two sources at once, full queue |
| head behaviour state service | current state, action list, scheduler heap | set state, tick | a state replaced while its actions are being run |
| head voice service (`voice_fsm.c`) | session state, recording flags | button, wake word, cloud events | event that arrives in the state after the one it was meant for |
| head sound effects (`sfx_service.c`) | request queue, cloud-audio flag | play, cloud start / stop | local sound and cloud audio sharing one output |
| head cloud connection (`ws_client.c`, discovery) | connection and session state, TTS stream | connect, frames, timers | reconnect with messages still in flight |
| head Wi-Fi manager, BLE service | link state, retry timers | connect, pause, resume | pause while a connect is under way |
| animation, camera, display, audio | decoder tasks and buffers | play, stop, frame ready | stop that races a frame |

`PROJECT.json` lists each part with the files it consists of and whether it is modelled.

## 2. Plan

The order follows the path of a motion command, from the servo up, since that
is where a lost or doubled report has consequences in the room; then the
components of the head that several tasks share.

| Stage | Modules | Composition or abstract specification | State |
| --- | --- | --- | --- |
| 1 | `CoprocRuntime` | properties over histories of the frames sent | checked, safety proved |
| 1 | `McuLink` | both sides of the handshake and the wires between them | checked, safety proved |
| 1 | `CoprocReceive` | implements `FrameStream` | checked, safety and the refinement proved |
| 1 | `VoiceRecorder` | five tasks on one recorder and one detector | checked, safety proved |
| 2 | `BehaviorState`, `ControlIngress` | the second extends the first with the tasks that ask it for states | checked, safety proved |
| 2 | `CloudAudio` | voice task, upload worker and websocket task | checked, safety proved |
| 2 | `CloudSpeech` | speech of `ws_client.c` and sounds of `sfx_service.c` on one loudspeaker | checked, safety proved |
| 3 | runtime touch events; head services and their shared sequence numbers | composed with the answers of `CoprocRuntime` | left |
| 3 | Wi-Fi manager, shutdown | pause and resume over retry timers | left |
| 3 | COBS and CRC | against a reference definition over bounded inputs | left |
| 4 | proofs | every safety property of stages 1 and 2 | done; the modules of stage 3 follow |

Modules that are proved about declare no `RECURSIVE` operator; each state
machine has one action per handler outcome, and parameters with a named
assumption.

## 3. Conventions

* An action is a whole handler up to the point at which another actor can see
  its effect.  On the co-processor the main loop is one actor, so a request or a
  poll is one step; only its interrupt can come in between, and `CoprocReceive`
  splits the main loop where that matters.  On the head `mcu_link_poll` and the
  dispatch of its event are two steps, since tasks on the other core look at the
  link in between.
* What the environment decides (a servo write fails, the UART refuses a frame,
  the wire loses one) is a disjunct, switched on by a constant such as
  `TxFaults`, so that a run can ask a question with or without it.
* Definitions whose comment starts with *Mutant* are wrong on purpose: each is
  what a plausible slip in the definition below it would make of it, and breaks
  the property `PROJECT.json` names.  No specification uses them.

## 4. `CoprocRuntime`: motions on the co-processor

Source: `stm32-f103/User/Protocol/coproc_runtime.c`.

| Variable | Field of `CoprocRuntime` |
| --- | --- |
| `motionActive`, `motionRefSeq`, `motionStartedAt`, `motionDuration` | the same; `motionCompleteAtMs` is `Later(motionStartedAt, motionDuration)` |
| `jogActive`, `jogTimeoutAt` | the same; `jogFresh` says `jogLastUpdateMs = nowMs`, when `ApplyJogAt` writes nothing and so cannot fail |
| `queue` | the motion ring from tail to head |
| `now` | the tick, modulo `TickMod` |
| `sent` | frames of the last step |
| `nextSeq`, `acked`, `flushed`, `overJog`, `doneCount` | histories; nothing in the code |

`ServoMove`, `ServoJog` and `ServoStop` are the three handlers, each the
disjunction of its outcomes in the order of the code's early returns; `Poll` is
`CoprocRuntime_Poll` up to the touch events.  Angles, axes and profiles are
abstracted to "the write works" or "fails".

Properties:

* `NoStrandedMove`, `StartsInOrder`: while servos work, waiting moves have an
  active move in front of them and no later command overtakes an accepted one.
  After a servo fault both are lost: the poll ends the active move and does not
  look at the queue.  (`QueueInOrder`, that they wait in the order of their
  numbers, is the stronger fact the proof of `StartsInOrder` rests on.)
* `NoMoveLost`: an acknowledged move is active, waiting, reported or was flushed
  by a STOP(all) or a JOG.
* `DoneTwiceOnlyOverJog`: a second report of one number needs a move that was
  started over a running jog.
* `NextStartsAfterReport`, `NotEarlyBeforeWrap`, `Answered`, `JogEnds`,
  `MovesEnd`: reports precede the next start, SUCCESS is never early before the
  tick wraps, a new request is answered exactly once, jogs end by themselves,
  accepted moves end.

| Run | Faults | Bounds | Why they suffice |
| --- | --- | --- | --- |
| `runtime_tx` | UART, fair | 3 ring slots, 4 numbers, duration 2, tick 3 | an active move, two waiting ones and a further request: the ring fills, and deadlines fall before and beyond the wrap |
| `runtime_servo` | servos, number 1 used again | 3 ring slots, 3 numbers, duration 2, tick 3 | every request meets every mode, each with a servo that fails; a repeated number meets its namesake active, waiting and over |
| `runtime_done_once` | none | 3 ring slots, 3 numbers, duration 2, tick 8 | see findings |

`Reused` are the numbers the head may issue a second time, as it does after a
restart; the theorems are proved for every such set.

Fairness: `WF(Tick)`, time passes; `SF(PollWorks)`, the main loop polls many
times per millisecond, so a deadline that is due again and again is seen, and a
UART that refused a frame accepts one later.  Nothing is assumed of the head.

## 5. `McuLink`: the handshake

Sources: `mcu_link_bootstrap.c`, `mcu_link_fsm.c`, `mcu_link.c`, the main loop in
`app_main.c`, `coproc_dispatch.c`.

`state` and `synced` are the link's state machine, `firstHello` and `lastHello`
the ages of the bootstrap's two time stamps, `event` what the last poll returned
and the main loop has still to dispatch, `toStm` and `toHead` the wires.  `Start`,
`Retry`, `Receive` and `Dispatch` are the head's, `AnswerHello` and
`AnswerCommand` the co-processor's; both sides restart, wires lose frames, the
driver refuses them.  An "ACK" stands for every other frame that only yields an
event.  `StmFault` is a communication FAULT or a HELLO_RSP of another profile:
the head handles them and this co-processor sends neither, so `MaxFaults`
bounds them, and two properties hold as long as `faults = 0`.

* `SyncedIffReady`, `LinkReadyIsPassing`: the two states nobody retries, READY
  without the baseline flag and LINK_READY, are never left behind.
* `ReadyIsStable`: without a fault, a second HELLO_RSP or any NACK never takes
  readiness away under the services, which ask on the other core.
* `HintMeansNeverReady`, `SilenceIsReported`: the display's "handshake failed" is
  shown for a silent co-processor, and without a fault never for a link that was
  up.
* `BecomesReady`: with a co-processor that is up for good the link becomes ready.

The run `link` allows two restarts and one fault; three frames per direction hold
a hello, a stale command and the two frames of an answer that overlap with a
retry.  Fairness: weak for everything a loop or a timer does by itself; strong
only for a hello that gets through and an answer that gets through, since the
hello is repeated without end and a wire that loses every one of them is a broken
wire.

## 6. `CoprocReceive`: from the UART to the dispatcher

Sources: `platform_coproc_uart.c`, `coproc_protocol.c`, `coproc_ring_buffer.c`,
`coproc_framing.c`.

The interrupt (`RxEvent`, `HandleError`, `Deaf`) strikes between any two steps of
the main loop: looking at the queue (`FindChunk`), copying a slot (`CopyChunk`),
advancing the tail and ingesting the copy (`TakeChunk`), one byte of the
delimiter search (`ProcessByte`), the runtime's poll (`RuntimePoll`).  A byte is
its position in the stream of frames the head sent, which tells whether it is a
delimiter and lets the properties speak of order.  A candidate passes COBS and
CRC exactly when it is one whole frame: what the codec computes is not modelled.

* `StreamInOrder`: candidate, ring, chunk in hand and waiting slots always hold
  an increasing sequence, so nothing is overwritten, repeated or reordered.
* `DeliversInOrder`: the path implements `FrameStream`: frames are dispatched in
  order, at most once, and a frame that was passed over had lost one of its bytes
  or the delimiter in front of it.
* `Arrived`: every frame whose bytes all got into the ring is dispatched in the
  end.
* `RuntimePolled`: the poll is reached again and again although a failing handler
  leaves it out of that turn.

The run `receive` uses three frames of two bytes, chunks of up to four bytes (more
than a frame with its delimiter), two usable slots, and a ring that holds one
chunk, so that every buffer overflows, in the middle of a frame and between two,
with line errors and a receiver that goes deaf.  Fairness: the main loop and the
interrupt go on.  Traffic is finite there: under endless traffic with a UART that
refuses every answer the poll could be left out every time.

## 7. `VoiceRecorder`: who records, and who listens

Sources: `voice_fsm.c`, `hal_wake_word.c`, and of `ws_client.c` what plays speech
and waits for an answer, in a build with `CONFIG_ENABLE_WAKE_WORD`.  The defaults of
the repository leave it off (`sdkconfig.defaults:252`); without it there is no
detector's task, and its actions never happen.

No lock guards the recorder's variables.  The voice task handles events in steps
(`ReceiveEvent` to `FinishStop`), since it reads the remote target, clears the
flag and looks at the state in separate statements and waits 50 ms in a start;
the detector's task starts a recording from its callback (`HearWakeWord` to
`FinishWakeUp`); the WebSocket task submits a microphone command in three steps
(`WriteTarget`, `FindPending` or `SetPending`, `SendApply`); speech pauses and
resumes detection; a suspend is two steps of the main loop.  `vad` becomes set
and the state RECORDING in one step (they are neighbouring statements); a stop is
three, since it sends the end marker in between.  The detector's
test of its running bit and its clearing of it are two steps (`HearWakeWord`,
`StopSelf`): another task may stop and start detection in between.  Stopping
detection leaves the audio it was fed behind when a fetch lasts longer than 100 ms or
the lock is not had in that time (`hal_wake_word.c:482-501`), which
`WAKE_WORD_TTS_MEMORY_NOTES.md:20` and `:34` expect; `StopDetection` may do either.

Histories: `owed`, the target of the latest microphone command, from its answer
ESP_OK until the target is carried out; `missed`, that command relied on an event
whose target had been read; `thrown`, a suspend threw the event away; `overlapped`,
two tasks were changing the recording at once; `disturbed`, since the latest recording
began its start left audio with the detector or failed, or speech, the end of a
connection or a suspend came in between.

* `AcceptedIsRead`: the target of the latest accepted command is still to be read, or
  is the one being decided on.  `missed` and `thrown` are the two windows in which
  the code loses it: the answer comes between `voice_fsm.c:456`, where the target is
  read, and `:458`, where the flag is cleared; or a suspend empties the queue and
  leaves the flag set (`:396`), after which the flag stays set for ever, and later
  commands are answered ESP_OK and none is carried out.  No other order of commands,
  clicks, full queue and steps loses one.  A command that is refused because the
  queue is full has nevertheless replaced the target of an accepted one before it
  (`:407`); nothing is owed from there on, since the latest command was answered with
  an error.
* `LatestTargetCounts`: once it is accepted its target is to be read or being decided
  on, without either exception; false (see findings).
* `VadMeansRecording`: silence detection never outlives its recording, unless
  `overlapped`.
* `IdleListens`: an idle recorder listens for the wake word, unless `overlapped`
  or `disturbed`.  Audio left behind counts, since detection that starts again hears
  it as a wake word of now and stops itself.
* `WakeWordListens`: it listens again and again with or without a network, which
  is not the case (see findings).

Without `overlapped` `VadMeansRecording` and `IdleListens` are false when two tasks
start or end a recording at the same time, which nothing in the code excludes; `overlapped`
says that this is the only way.  Between two starts lie 50 ms, so it takes a click
or a command within that time after the wake word.

| Run | Environment | Bounds | Why they suffice |
| --- | --- | --- | --- |
| `voice_safety` | clicks, commands, wake words, lost sessions, audio faults, speech, a suspend | 2 queue slots, 1 suspend | a command and a click fill the queue in either order; one suspend meets every step of both starters |
| `voice_target` | clicks, commands, wake words | 2 slots | two commands are enough: the run has no fault, no lost session and no suspend |
| `voice_wake` | clicks, commands, wake words, lost sessions, fair tasks | 2 slots | no fault but the missing session is needed |

One further invariant is stated at the end of the module and checked by no run.
`SilentDuringTts`, that detection is off while speech is played, is false: a recording
that ends during speech starts detection in the middle of it (`voice_fsm.c:352`),
where `WAKE_WORD_TTS_MEMORY_NOTES.md:9` says that it must stop before speech and
resume after it.  `IdleListens` therefore says nothing of an idle recorder after
speech.

Fairness (of `voice_wake`): the tasks go on, a suspend ends, and speech ends.
Clicks, commands, wake words and the session owe nothing.

## 8. `BehaviorState` and `ControlIngress`: which behaviour plays

Sources: `behavior_state_service.c`, `behavior_scheduler.c`,
`behavior_executor.c`; `control_ingress.c` and the touch handler of `app_main.c`.

`request` is the service's queue of one place, which `Submit` overwrites.
`behavior_task` is three steps: `Drain` empties the queue before the lock is
taken, `Tick` is all that happens under the lock (apply the request, dispatch
what is due, loop the action or the state, fall back to the default), `Show`
draws what was captured after the unlock.  `ctx` is `s_ctx`: the state and the
action with their clocks, the next place of every timeline, what the request
overrides, and `sent`, the motions of the state and of the action that were sent
since they were last cancelled or the timeline that moves the head began anew, as it
does at each turn of a loop.  A motion that the servo's lane refuses counts as sent:
the code logs the refusal and goes on.  `screen` is the state whose expression is
shown (that the animation player switches to it later, in its own task, is left out);
`refused` is a history of the display's answer to the last drawing, which may be an error (`display_ui.c:212`, `:229`): `behavior_executor.c:34` logs it and the old
picture stays.  The outcome of playing a sound (`Outcomes`) is the environment's.

`ControlIngress` extends it with who asks: `Post` and `ApplyMessage` are the state
queue and its task, `Direct` the voice service, `ManualTakes` the manual commands
of any task, which interrupt the action in between, `TouchPress` and `TouchAsks`
the touch handler, whose tests and whose request are two steps.

* `MotionsInOrder`: the motions sent since that beginning are those of one
  timeline, the action's or the state's, each once and in order, across restarts,
  loops, interrupts and prequeued motions.
* `ScreenFollowsState`: when the turn is over the screen shows the state that
  plays, although one turn may capture two, or else the very last drawing was refused;
  one that succeeds makes up for every refusal before it.  That a refused expression is
  drawn in the end is not so: nothing retries before the state's expression is due
  again.
* `RequestApplied`: the last request is played unless a later one replaced it.
* `OneShotEnds`: a state that neither loops nor holds gives way once its events
  and its sound are over, whatever is interrupted or overridden meanwhile.

The run `behavior` has a looping default, a one-shot and a looping state with
motions, and an action whose second motion follows the first without a gap and is
sent ahead; two requests, two ticks and one queue place.  Two requests are
what it takes for one to replace the other before, during or after the turn; two
ticks are the length of every timeline.  Fairness: both tasks have their turns,
the clock goes on, sounds come to an end; nobody has to ask for anything.

## 9. `CloudAudio`: the upload of recordings

Source: `ws_client.c`, from `ws_send_audio` to `ws_audio_worker_task`, and what a
connection resets.

The voice task fills slots (`SendAudio`, `SendAudioEnd`), the worker sends them
(`TakeSlot` to `ReturnSlot`, `FindNothing` to `MarkEnded`, split wherever it gives
a lock back), the websocket task resets everything (`Connected`,
`Disconnected`).  A frame is its recording and its number.  `torn` is a history of
where the worker was when the queues were reset under it.

* `SlotsKept`: every slot is free, pending or in the worker's hand, and only one
  of them.  A reset between the two steps in which the worker gives a slot back
  (`s_audio_inflight_active` is cleared under the lock, the slot is returned
  without it) frees that slot twice; the property excepts that case.
* `FramesInOrder`: frames of one connection arrive in order and none twice.
* `FirstBegins`: FIRST marks the beginnings of streams and nothing else, unless a
  reset struck in the middle of a packet or LAST overtook frames.  The two
  steps that give a slot back count as the middle of a packet: with five frames
  TLC finds a slot that was freed twice there and is overwritten while its frame is
  sent, after the worker looked at the flag.
* `EndIsSent`: an end marker that was accepted is sent, as the LAST of its recording or
  of a later one whose marker joined it, unless the connection goes or it is `wiped`.

Two windows of the worker are excepted there, and the document of the protocol allows
for neither.

* The worker looks for frames (`ws_client.c:610`) and for the end marker (`:693`) under
  different locks.  Frames and a marker that are queued in between are sent the wrong
  way round: LAST, then the frames, without FIRST, since the flag is cleared with
  the marker.  `NothingBehindLast` states that this does not happen; it is false, TLC
  refutes it at once, and `FirstBegins` has it as its premise
  (`COMM_PROTOCOL_FREEZE.md:246` has LAST behind the audio).
* A marker that is accepted when LAST of another recording is out (`:708`) and not
  yet noted (`:711`) is cleared with it, and no LAST is sent for its recording
  (`COMM_PROTOCOL_FREEZE.md:120` and `:243` have one for every close).  `wiped` names
  these recordings; without the exception TLC refutes `EndIsSent` in twelve states.

Run `cloud_audio`: 2 slots, 3 frames, 2 recordings, one lost connection: the
queue overruns once, one recording follows another while the first one's marker
waits, and a reset meets every step of the worker.  Fairness: the worker has its turns
(`WF`), a marker that is tried again and again is accepted by a transport that is
up (`SF(EndAccepted)`), a lost transport is noticed.  Assumed: the lock of the upload's
marks, held for some instructions only, is had within its timeout.

## 10. `CloudSpeech`: who has the loudspeaker

Sources: `ws_client.c` (TTS playback), `sfx_service.c`, `hal_audio.c`, in the
default build without the wake word.

Three tasks, whose places are `at`: the websocket task queues chunks and finishes
or aborts a speech, the worker takes frames, prepares the audio path and plays,
`sfx_task` plays local sounds and asks before every chunk whether it has to give
way.  The audio path (`running`, `playback`) has no lock.  `Finish` is run by two
tasks and is one operator over the task.

Assumed: a lock that is held for some instructions is had within its timeout, and
the half second the websocket task waits before it stops the audio is longer than
one frame (85 ms), so that the worker has by then played what it held (`Drained`).
The queue has two slots or more and playback begins at two frames or more
(`BufferAssumption`; `WS_TTS_QUEUE_DEPTH` and `WS_TTS_START_BUFFER_FRAMES`,
`ws_client.c:74` and `:91`): with one of either, TLC finds speech that plays
without the loudspeaker, because the end of a speech is seen between taking its
frame and reserving the loudspeaker for it.

* `SpeechInOrder`: frames are heard in order and none twice, unless a reset took a
  slot out of the worker's hand (`torn`).
* `SpeakerReserved`: while speech plays, the loudspeaker is reserved and no local
  sound is accepted.  Three exceptions: `torn`; a path that could not be started
  again, whose error path releases the loudspeaker and leaves `s_tts_playing` set; and
  `stray`.
* `SpeechEnds`: a speech that was completed or cut off stops playing and gives the
  loudspeaker back.

`Complete` is the LAST of any packet (`ws_client.c:1390-1411`): of the end of a speech,
of an empty or too long packet, and of one behind an earlier LAST.  When such a LAST
ends no frames and the worker has the last frame of a speech in hand that does not
play yet (between `ws_client.c:808` and `:972`), the websocket task finds an empty
queue and nothing that plays, and gives the loudspeaker back under the worker, which
then plays the speech without it.  `stray` is the history of that; without it
TLC refutes `SpeakerReserved` in twelve states.  `torn` likewise excepts the
speech that is played, and takes the loudspeaker, behind an abort that met the worker
with a frame in hand.

Run `cloud_speech`: 2 slots with a start buffer of 2, 3 frames, one sound of one
chunk, one failed start, one lost connection: speeches of one and of two frames
follow each other, the queue is full once, and a connection ends at every step of
the worker and of the sound.  Fairness: the three tasks have their turns.
`COMM_PROTOCOL_FREEZE.md:180` says that local sounds and speech exclude each other; the
three exceptions of `SpeakerReserved` are where the code does not keep to it.

## 11. Proofs

Every safety property that the passing runs check is proved, invariant and action
property alike.  The proofs hold for every value of the constants that satisfies
the named assumption of the module:

| Module | Proves about | Assumption |
| --- | --- | --- |
| `CoprocRuntimeProofs` | any ring depth, tick width, durations, reused numbers, faults | `RuntimeAssumption` |
| `McuLinkProofs` | any wire length, number of restarts and faults | `LinkAssumption` |
| `CoprocReceiveProofs`, `CoprocStreamProofs` | any number and length of frames, chunk, ring and queue sizes | `ReceiveAssumption` |
| `VoiceRecorderProofs` | any queue length, number of suspends, faults | `VoiceAssumption` |
| `ControlIngressProofs` | any catalogue of states and actions, messages, look-ahead, queue depth | `CatalogAssumption`, `MessageAssumption` |
| `CloudAudioProofs` | any number of slots, frames, recordings, lost connections | `AudioAssumption` |
| `CloudSpeechProofs` | any number of frames, sounds, failures, lost connections | `SpeechAssumption`, `BufferAssumption` |

* Runtime.  `TypeOK` is inductive, one lemma per handler.  The order properties
  need `OrderInv == TypeOK /\ NumbersIssued /\ NoStrandedMove /\ QueueInOrder`:
  that the queue is sorted above `motionRefSeq` is only kept when a request's
  number is larger than all of those, which is what `NumbersIssued` (every number
  in use is below `nextSeq`) adds; and a move starts at once only when nothing is
  active, where `NoStrandedMove` says that nothing is waiting either.  Every
  handler is first shown to be one of four steps on `motionRefSeq` and the queue
  (keep, take, add, pop), and the invariant is proved for those.
  `NeverOvertaken` follows from the invariant.  `NoMoveLost` needs `TypeOK` and
  `NumbersIssued` (a request cannot repeat the active move's number): every
  handler that ends a move either sends its report, and what is sent is counted,
  or starts it anew, and what the queue loses is active, reported or flushed.
  `DoneTwiceOnlyOver` needs `OnceInv`: no number waits twice or waits while it runs
  (`Apart`), a move and a jog that run together share a number that was started over
  a jog (`BothOver`), and a number that may still be reported, because it waits,
  runs or was not issued, has not been reported yet (`Once`).  For every number,
  each step is one of two: it leaves the number unreported (`Quiet`), or it reports
  it once and ends what it stood for (`Ending`).  The three action properties need
  no more than `TypeOK` or `OrderInv`; they count what a step sends with
  `NoneOf` and `OneOf`, how many of its frames belong to a set.
* Link.  `SyncedIffReady` and `LinkReadyIsPassing` are inductive with `TypeOK`.
  `ReadyIsStable` and `HintMeansNeverReady` need in addition that until the first
  fault no FAULT and no foreign HELLO_RSP is on the wire, and that a link that was
  ready is still ready or down.
* Receive path.  `TypeOK` needs that a slot's chunk fits the buffer it is copied
  to (`SlotsFit`).  `StreamInOrder` needs that nothing held is ahead of what has
  arrived (`Seen`), which puts the next chunk behind everything, that the loop only
  takes a slot that waits (`Taking`), and that candidate and chunk are in order also
  when the ring between them is empty (`LoopInOrder`); the queue's indices enter
  through two lemmas: filling the slot at the head adds it behind the others,
  releasing the slot at the tail moves all others one place up.
* Refinement of `FrameStream`.  `StreamInv` adds where the bytes are: each that
  arrived is dropped, waits, or was searched before all that wait (`Accounted`); a
  frame whose delimiter was searched is hurt or delivered (`Settled`); of a frame
  that is being searched and is not hurt the candidate is a prefix, and the rest
  waits (`Current`); what was delivered lies behind the search (`Ahead`).  Every
  step that searches no byte is an instance of one lemma (`Moves`); a delimiter then
  finds the whole frame, or the frame is hurt.
* Recorder.  All invariants of the passing run are proved.  `AcceptedIsRead`
  needs that a set flag stands for an event in the queue, in the voice task's hand, or
  thrown away by a suspend (`FlagStandsForEvent`), and that what is owed is the target
  in `desired` until it is read (`AcceptedIsDesired`).  `VadMeansRecording` needs
  that a task about to make the recorder idle has put silence detection off
  (`SilenceOff`) and that one which could put it on meanwhile is noticed
  (`OverlapSeen`).  `IdleListens` needs where detection is on and off at every
  point of a recording, and that while it is off nothing is left fed to the detector,
  unless a stop left it there and that was noticed (`ListenInv`): with something fed,
  a late wake word would switch it off behind the back of the task that just switched
  it on.
* Behaviour.  `IInv` says of every context (`Good`) that each place lies within its
  timeline, that what was sent is what lies behind the place of the timeline that
  moves the head, and that while an action plays the state's own motions are not
  begun.  The last part is what the induction lacked: an action that ends leaves
  the head to the state, whose motions are then sent from its place, and would
  start in the middle if the place had moved.  Each of the pieces of a turn (apply,
  dispatch, loop, fall back) is a lemma from a good context to a good context.
  Where dispatch stops is a `CHOOSE` of the first entry that is not due; that there
  is one follows from the least-number principle, proved from the well-foundedness
  of `<` on the naturals.  `ScreenFollowsState` needs that nothing captured waits
  outside the turn, and that what was last captured is the state's, and waits, or was
  drawn or refused (`ScreenInv`).
* Upload.  `SlotsKept` follows from `Partition`: free, pending and hand are `Depth`
  slots, none twice.  `FramesInOrder` needs that sent, held and waiting frames rise
  (`Sequence`).  `FirstMarksBeginnings` needs that the flags tell at every step of
  the worker whether the next packet begins a stream (`Flags`), which in turn needs
  that an end marker waits only for frames recorded before it (`EndCovers`), as does
  the LAST that is out and not yet noted (`EndHeld`).  All
  three hold only until a reset strikes, and the invariants name where.
* Speech.  `SpeechInOrder` takes the same two invariants.  `SpeakerReserved` needs
  what each task does where (`SpeakNow`): past the reservation the worker has the
  loudspeaker (`SpeakWorker`), the websocket task ends a speech or a connection
  only behind its last frame (`SpeakWs`), and an end that waits while nothing plays
  still has a frame before it, and a further one when the next speech has begun
  (`SpeakEnd`).

The larger inductive invariants were checked by TLC before they were proved.  Only
model-checked are the liveness properties, whose fairness is out of the prover's
reach: `JogEnds`, `MovesEnd`, `BecomesReady`, `SilenceIsReported`, `Arrived`,
`RuntimePolled`, `RequestApplied`, `OneShotEnds`, `EndIsSent` and `SpeechEnds`.  The
properties of section 12 are refuted, not proved.

## 12. Findings

* `runtime_done_once`: a SERVO_MOVE that arrives during a jog starts over it, takes
  over `motionRefSeq`, and is reported both when the jog times out and when it
  ends itself.
* `voice_wake`: a wake word heard without a session switches detection off, and
  only the end of a recording, of speech or of a connection switches it on again; a
  session that becomes ready afterwards does not.
* `behavior_fallback`: of the names of an AI status only the first is ever tried,
  because the behaviour service accepts every name and finds out later; a status
  whose `action_file` is no state is dropped although its `status` is one.
* `voice_target`: a microphone command that arrives between the reading of the target
  and the clearing of the flag is answered ESP_OK and never carried out: close is
  queued and read, open is accepted, and the recorder stays idle, where
  `COMM_PROTOCOL_FREEZE.md:122` and `:244` say that the latest target counts.

Four more windows, in which the code does not do what a document says, are named in
their sections and are exceptions of checked properties, each with its own
history or premise, and not runs of their own: LAST that overtakes frames and
a marker that is cleared behind another (section 9), detection during speech (section
7), and speech without the loudspeaker (section 10).

## 13. Not modelled

Parts that are pure I/O, vendored or generated are listed in `PROJECT.json` with
the reason; they are most of the repository's lines (the STM32 HAL alone is more
than half of them).  Of the modelled files: `CoprocRuntime_Reset` (called by tests
only), the LED, power and touch handlers of the runtime (no state the properties
could relate, touch events excepted); the link's statistics and byte stream; the
observation log; starting and stopping the voice service and the counters behind
silence detection; loading the catalogues and drawing; the response timeout, the
JSON commands and pictures of the cloud client.  The head's motion, LED, power and
sensor services send requests and remember the last one; nothing reads what they
remember except their log.  The Wi-Fi manager, BLE, discovery and shutdown are
glue around vendor stacks whose events would have to be guessed.
