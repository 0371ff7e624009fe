------------------------- MODULE CloudSpeechProofs -------------------------
(* Proofs about CloudSpeech: the frames of the cloud are heard in order, and *)
(* the loudspeaker is reserved as long as speech plays.                      *)
EXTENDS CloudSpeech, TLAPS

-----------------------------------------------------------------------------
(* The inductive invariants *)

Ws == at["ws"]
Wk == at["worker"]

WsPlaces == {"idle", "finish", "stop", "silent", "release", "session", "reset"}
WkPlaces == {"idle", "taken", "reserve", "mode", "start", "refused", "mark", "write", "return",
             "finish", "stop", "silent", "release"}
SfxPlaces == {"idle", "check", "mode", "start", "unmode", "next", "write", "handoff", "stop",
              "done"}
Ending == {"finish", "stop", "silent", "release"}

Places == WsPlaces \cup WkPlaces \cup SfxPlaces

TaskType ==
  /\ at \in [{"ws", "worker", "sfx"} -> Places]
  /\ Ws \in WsPlaces /\ Wk \in WkPlaces /\ at["sfx"] \in SfxPlaces

QueueType ==
  /\ free \in Seq(Slots) /\ Len(free) <= Depth
  /\ pending \in Seq(Slots) /\ Len(pending) <= Depth
  /\ content \in [Slots -> 0 .. MaxFrames] /\ slot \in Slots

FlagType ==
  /\ endPending \in BOOLEAN /\ playing \in BOOLEAN /\ running \in BOOLEAN
  /\ playback \in BOOLEAN /\ cloudBusy \in BOOLEAN /\ localBusy \in BOOLEAN
  /\ stopRequested \in BOOLEAN /\ waiting \in BOOLEAN /\ current \in BOOLEAN
  /\ linkUp \in BOOLEAN /\ open \in BOOLEAN /\ torn \in BOOLEAN /\ stray \in BOOLEAN
  /\ sent \in 0 .. MaxFrames /\ failures \in Nat

(* A slot is in a queue, once in each. *)
In(q, s) == \E i \in 1 .. Len(q) : q[i] = s
Once(q) == \A i, j \in 1 .. Len(q) : q[i] = q[j] => i = j

Hand == IF InHand THEN 1 ELSE 0

Partition ==
  /\ Len(free) + Len(pending) + Hand = Depth
  /\ Once(free) /\ Once(pending)
  /\ \A s \in Slots : In(free, s) => ~In(pending, s)
  /\ InHand => ~In(free, slot) /\ ~In(pending, slot)

SlotsInv == ~torn => Partition

(* The frame in a slot that is not played yet. *)
ToPlay == Wk \in {"taken", "reserve", "mode", "start", "mark", "write"}
Waits(s) == In(pending, s) \/ (ToPlay /\ s = slot)

(* What was heard, and what waits to be heard, came from the cloud. *)
PlayedType ==
  /\ played \in Seq(1 .. MaxFrames)
  /\ \A s \in Slots : Waits(s) => content[s] # 0

Typed == TaskType /\ QueueType /\ FlagType /\ PlayedType

PlayedRises == \A i, j \in 1 .. Len(played) : i < j => played[i] < played[j]
Below(q, n) == \A i \in 1 .. Len(q) : q[i] < n
PendingRises == \A i, j \in 1 .. Len(pending) : i < j => content[pending[i]] < content[pending[j]]
HandBefore == ToPlay => \A s \in Slots : In(pending, s) => content[slot] < content[s]

Sequence ==
  /\ PlayedRises /\ PendingRises /\ HandBefore
  /\ \A s \in Slots : Waits(s) => Below(played, content[s]) /\ content[s] <= sent
  /\ Below(played, sent + 1)

OrderInv == ~torn => Sequence

(* Frames that are pending or in hand. *)
Count == Len(pending) + Hand

(* What the worker does, it does for a speech that has the loudspeaker, or  *)
(* for one whose next frame or end is still to come.                        *)
SpeakWorker ==
  /\ playing => cloudBusy
  /\ Wk \in {"mode", "start", "mark"} => cloudBusy
  /\ Wk # "refused"
  /\ Wk = "release" => ~playing
  /\ Wk \in {"write", "return"} => playing
  /\ ~playing /\ InHand => pending # <<>> \/ endPending

(* The websocket task ends a speech, or a connection, behind the last frame. *)
SpeakWs ==
  /\ Ws # "idle" => pending = <<>>
  /\ ~linkUp => pending = <<>> /\ ~endPending /\ ~InHand
  /\ Ws \in {"silent", "release", "session", "reset"} => ~InHand
  /\ Ws = "finish" /\ endPending => playing
  /\ Ws = "silent" => ~endPending
  /\ Ws \in {"release", "session"} => ~playing
  /\ ~linkUp /\ Ws \notin {"finish", "stop", "silent"} => ~playing

(* An end that waits while nothing plays has a frame before it, and another *)
(* one if the next speech has begun.                                        *)
SpeakEnd ==
  endPending /\ (~playing \/ Wk \in Ending) => Count >= IF open THEN 2 ELSE 1

SpeakNow == SpeakWorker /\ SpeakWs /\ SpeakEnd

SpeakInv == ~torn /\ ~stray /\ failures = 0 => SpeakNow

-----------------------------------------------------------------------------
(* The queues *)

LEMMA SlotsAre == Depth \in Nat /\ 0 < Depth /\ \A s : s \in Slots <=> s \in Nat /\ s < Depth
  BY SpeechAssumption DEF Slots

(* A slot that is appended. *)
LEMMA Appended ==
  ASSUME NEW q \in Seq(Slots), NEW s \in Slots
  PROVE  /\ Append(q, s) \in Seq(Slots) /\ Len(Append(q, s)) = Len(q) + 1
         /\ \A i \in 1 .. Len(q) : Append(q, s)[i] = q[i]
         /\ Append(q, s)[Len(q) + 1] = s
         /\ \A x : In(Append(q, s), x) <=> In(q, x) \/ x = s
         /\ Once(q) /\ ~In(q, s) => Once(Append(q, s))
<1>1. Append(q, s) \in Seq(Slots) /\ Len(Append(q, s)) = Len(q) + 1 /\ Len(q) \in Nat
  OBVIOUS
<1>2. \A i \in 1 .. Len(q) : Append(q, s)[i] = q[i]
  OBVIOUS
<1>3. Append(q, s)[Len(q) + 1] = s
  OBVIOUS
<1>. DEFINE r == Append(q, s)
<1>. HIDE DEF r
<1>4. ASSUME NEW x, In(r, x) PROVE In(q, x) \/ x = s
  BY <1>1, <1>2, <1>3, <1>4 DEF In, r
<1>5. ASSUME NEW x, In(q, x) PROVE In(r, x)
  <2>1. PICK i \in 1 .. Len(q) : q[i] = x
    BY <1>5 DEF In
  <2>2. i \in 1 .. Len(r) /\ r[i] = x
    BY <1>1, <1>2, <2>1 DEF r
  <2>. QED
    BY <2>2 DEF In
<1>6. In(r, s)
  <2>1. Len(r) \in 1 .. Len(r) /\ r[Len(r)] = s
    BY <1>1, <1>3 DEF r
  <2>. QED
    BY <2>1 DEF In
<1>7. ASSUME Once(q), ~In(q, s) PROVE Once(r)
  BY <1>1, <1>2, <1>3, <1>7 DEF Once, In, r
<1>. QED
  BY <1>1, <1>2, <1>3, <1>4, <1>5, <1>6, <1>7 DEF r

(* The slot at the front and those behind it. *)
LEMMA Taken ==
  ASSUME NEW q \in Seq(Slots), q # <<>>
  PROVE  /\ Head(q) \in Slots /\ Head(q) = q[1] /\ In(q, Head(q))
         /\ Tail(q) \in Seq(Slots) /\ Len(Tail(q)) = Len(q) - 1 /\ Len(q) \in Nat \ {0}
         /\ \A i \in 1 .. Len(Tail(q)) : i + 1 \in 1 .. Len(q) /\ Tail(q)[i] = q[i + 1]
         /\ \A x : In(q, x) <=> In(Tail(q), x) \/ x = Head(q)
         /\ Once(q) => Once(Tail(q)) /\ ~In(Tail(q), Head(q))
<1>1. /\ Len(q) \in Nat \ {0} /\ Head(q) = q[1] /\ Head(q) \in Slots
      /\ Tail(q) \in Seq(Slots) /\ Len(Tail(q)) = Len(q) - 1
  OBVIOUS
<1>2. \A i \in 1 .. Len(Tail(q)) : i + 1 \in 1 .. Len(q) /\ Tail(q)[i] = q[i + 1]
  BY <1>1
<1>. DEFINE r == Tail(q)
<1>. HIDE DEF r
<1>3. ASSUME NEW x, In(q, x) PROVE In(r, x) \/ x = Head(q)
  <2>1. PICK i \in 1 .. Len(q) : q[i] = x
    BY <1>3 DEF In
  <2>2. CASE i = 1
    BY <1>1, <2>1, <2>2
  <2>3. CASE i # 1
    <3>1. i - 1 \in 1 .. Len(r) /\ (i - 1) + 1 = i
      BY <1>1, <2>1, <2>3 DEF r
    <3>2. r[i - 1] = x
      BY <1>2, <2>1, <3>1 DEF r
    <3>. QED
      BY <3>1, <3>2 DEF In
  <2>. QED
    BY <2>2, <2>3
<1>4. ASSUME NEW x, In(r, x) PROVE In(q, x)
  BY <1>2, <1>4 DEF In, r
<1>5. In(q, Head(q))
  BY <1>1 DEF In
<1>6. ASSUME Once(q) PROVE Once(r)
  <2>1. ASSUME NEW i \in 1 .. Len(r), NEW j \in 1 .. Len(r), r[i] = r[j] PROVE i = j
    <3>1. i + 1 = j + 1
      BY <1>2, <1>6, <2>1 DEF Once, r
    <3>. QED
      BY <3>1, <1>1 DEF r
  <2>. QED
    BY <2>1 DEF Once
<1>7. ASSUME Once(q), In(r, Head(q)) PROVE FALSE
  <2>1. PICK i \in 1 .. Len(r) : r[i] = q[1]
    BY <1>1, <1>7 DEF In
  <2>2. i + 1 = 1
    BY <1>1, <1>2, <1>7, <2>1 DEF Once, r
  <2>. QED
    BY <1>1, <2>1, <2>2 DEF r
<1>. QED
  BY <1>1, <1>2, <1>3, <1>4, <1>5, <1>6, <1>7 DEF r

LEMMA Nothing ==
  <<>> \in Seq(Slots) /\ Len(<<>>) = 0 /\ Once(<<>>) /\ \A x : ~In(<<>>, x)
  BY DEF Once, In

LEMMA IsSlotSeq ==
  ASSUME NEW n \in Nat, NEW f \in [1 .. n -> Slots]
  PROVE  f \in Seq(Slots) /\ Len(f) = n
  OBVIOUS

LEMMA AllSlotsAre ==
  /\ AllSlots \in Seq(Slots) /\ Len(AllSlots) = Depth /\ Once(AllSlots)
  /\ \A s \in Slots : In(AllSlots, s)
<1>1. AllSlots \in [1 .. Depth -> Slots] /\ \A i \in 1 .. Depth : AllSlots[i] = i - 1
  BY SlotsAre DEF AllSlots
<1>2. AllSlots \in Seq(Slots) /\ Len(AllSlots) = Depth
  BY <1>1, SlotsAre, IsSlotSeq
<1>3. Once(AllSlots)
  BY <1>1, <1>2, SlotsAre DEF Once
<1>4. ASSUME NEW s \in Slots PROVE In(AllSlots, s)
  <2>1. s + 1 \in 1 .. Depth /\ AllSlots[s + 1] = s
    BY <1>1, SlotsAre
  <2>. QED
    BY <1>2, <2>1 DEF In
<1>. QED
  BY <1>2, <1>3, <1>4

LEMMA PutFits ==
  ASSUME NEW q \in Seq(Slots), NEW s \in Slots, Len(q) <= Depth
  PROVE  Put(q, s) \in Seq(Slots) /\ Len(Put(q, s)) <= Depth
<1>1. Append(q, s) \in Seq(Slots) /\ Len(Append(q, s)) = Len(q) + 1 /\ Len(q) \in Nat
  BY Appended
<1>2. CASE Len(q) < Depth
  BY <1>1, <1>2, SlotsAre DEF Put
<1>3. CASE ~(Len(q) < Depth)
  BY <1>3 DEF Put
<1>. QED
  BY <1>2, <1>3

-----------------------------------------------------------------------------
(* The tasks *)

LEMMA WorkerGoes ==
  ASSUME TaskType, NEW from, NEW to \in WkPlaces, Go("worker", from, to)
  PROVE  Wk = from /\ Wk' = to /\ Ws' = Ws /\ TaskType'
<1>1. /\ at' \in [{"ws", "worker", "sfx"} -> Places]
      /\ at'["worker"] = to /\ at'["ws"] = at["ws"] /\ at'["sfx"] = at["sfx"]
  BY DEF Go, TaskType, Places
<1>. QED
  BY <1>1 DEF Go, TaskType, Ws, Wk

LEMMA WsGoes ==
  ASSUME TaskType, NEW from, NEW to \in WsPlaces, Go("ws", from, to)
  PROVE  Ws = from /\ Ws' = to /\ Wk' = Wk /\ TaskType'
<1>1. /\ at' \in [{"ws", "worker", "sfx"} -> Places]
      /\ at'["ws"] = to /\ at'["worker"] = at["worker"] /\ at'["sfx"] = at["sfx"]
  BY DEF Go, TaskType, Places
<1>. QED
  BY <1>1 DEF Go, TaskType, Ws, Wk

LEMMA SfxGoes ==
  ASSUME TaskType, NEW from, NEW to \in SfxPlaces, Go("sfx", from, to)
  PROVE  Wk' = Wk /\ Ws' = Ws /\ TaskType'
<1>1. /\ at' \in [{"ws", "worker", "sfx"} -> Places]
      /\ at'["sfx"] = to /\ at'["worker"] = at["worker"] /\ at'["ws"] = at["ws"]
  BY DEF Go, TaskType, Places
<1>. QED
  BY <1>1 DEF Go, TaskType, Ws, Wk

(* A step of ws_finish_tts_playback, run by either task. *)
FinishVars ==
  /\ UNCHANGED <<queueVars, envVars, played, torn, stray, localBusy, stopRequested, waiting,
                 current, chunks>>
  /\ running' \in BOOLEAN /\ playback' \in BOOLEAN

LEMMA FinishSteps ==
  ASSUME Typed, NEW task, Finish(task)
  PROVE  /\ FinishVars
         /\ \/ /\ Go(task, "finish", IF playing THEN "stop" ELSE "release")
               /\ UNCHANGED <<playing, cloudBusy>>
            \/ Drained(task) /\ Go(task, "stop", "silent") /\ UNCHANGED <<playing, cloudBusy>>
            \/ Go(task, "silent", "release") /\ playing' = FALSE /\ cloudBusy' = cloudBusy
            \/ /\ Go(task, "release", IF task = "ws" /\ ~linkUp THEN "session" ELSE "idle")
               /\ cloudBusy' = FALSE /\ playing' = playing
<1>. USE DEF Typed, FlagType, FinishVars
<1>1. CASE FinishTest(task)
  BY <1>1 DEF FinishTest, sfxVars, audioVars
<1>2. CASE FinishStop(task)
  BY <1>2 DEF FinishStop, StopAudio, sfxVars, audioVars
<1>3. CASE FinishSilent(task)
  BY <1>3 DEF FinishSilent, sfxVars, audioVars
<1>4. CASE FinishRelease(task)
  BY <1>4 DEF FinishRelease, Release, audioVars
<1>. QED
  BY <1>1, <1>2, <1>3, <1>4 DEF Finish

(* A step of the task of the local sounds, or of one that asks for a sound. *)
LEMMA SfxSteps ==
  ASSUME Typed, Sfx \/ PlaySound
  PROVE  /\ Wk' = Wk /\ Ws' = Ws /\ TaskType'
         /\ UNCHANGED <<queueVars, playing, cloudBusy, linkUp, cloudVars, losses, played, torn,
                        stray>>
         /\ {running', playback', localBusy', stopRequested', waiting', current'} \subseteq BOOLEAN
         /\ failures' \in Nat /\ (failures' = 0 => failures = 0)
<1>. USE DEF Typed, FlagType
<1>1. CASE TakeSound
  <2>1. PICK next \in {"check", "done"} : Go("sfx", "idle", next)
    BY <1>1 DEF TakeSound
  <2>2. next \in SfxPlaces
    BY DEF SfxPlaces
  <2>3. Wk' = Wk /\ Ws' = Ws /\ TaskType'
    BY <2>1, <2>2, SfxGoes
  <2>. QED
    BY <1>1, <2>3 DEF TakeSound, audioVars, envVars
<1>2. CASE PlaySteps
  <2>1. /\ UNCHANGED <<queueVars, playing, linkUp, cloudVars, losses, played, torn, stray>>
        /\ cloudBusy' = cloudBusy
    BY <1>2 DEF PlaySteps, SfxSkips, sfxVars, SetPlayback, StartAudio, StartFails
  <2>2. \E from, to \in SfxPlaces : Go("sfx", from, to)
    BY <1>2 DEF PlaySteps, SfxSkips, SfxPlaces
  <2>3. Wk' = Wk /\ Ws' = Ws /\ TaskType'
    BY <2>2, SfxGoes
  <2>4. {localBusy', stopRequested', waiting', current'} \subseteq BOOLEAN
    BY <1>2 DEF PlaySteps, SfxSkips, sfxVars
  <2>5. {running', playback'} \subseteq BOOLEAN
    BY <1>2 DEF PlaySteps, SfxSkips, SetPlayback, StartAudio, StartFails, audioVars
  <2>6. failures' = failures \/ failures' = failures + 1
    BY <1>2 DEF PlaySteps, SfxSkips, StartFails
  <2>7. failures' \in Nat /\ (failures' = 0 => failures = 0)
    BY <2>6
  <2>. QED
    BY <2>1, <2>3, <2>4, <2>5, <2>7
<1>3. CASE Handoff \/ StopPath \/ SoundDone
  <2>1. \E from, to \in SfxPlaces : Go("sfx", from, to)
    BY <1>3 DEF Handoff, StopPath, SoundDone, SfxPlaces
  <2>2. Wk' = Wk /\ Ws' = Ws /\ TaskType'
    BY <2>1, SfxGoes
  <2>. QED
    BY <1>3, <2>2 DEF Handoff, StopPath, SoundDone, StopAudio, audioVars, sfxVars, envVars
<1>4. CASE PlaySound
  BY <1>4 DEF PlaySound, sfxVars, audioVars, TaskType, Ws, Wk
<1>. QED
  BY <1>1, <1>2, <1>3, <1>4 DEF Sfx

(* A step in which the worker makes the audio path ready. *)
LEMMA PrepareSteps ==
  ASSUME Typed, Prepare
  PROVE  /\ TaskType' /\ Ws' = Ws
         /\ UNCHANGED <<queueVars, linkUp, cloudVars, sounds, losses, played, torn,
                        stray>>
         /\ {running', playback', localBusy', stopRequested', waiting', current'} \subseteq BOOLEAN
         /\ failures' \in Nat /\ (failures' = 0 => failures = 0)
         /\ \/ Wk = "reserve" /\ Wk' = "mode" /\ cloudBusy' = TRUE /\ playing' = playing
            \/ Wk = "mode" /\ Wk' = "start" /\ UNCHANGED <<cloudBusy, playing>>
            \/ Wk = "start" /\ Wk' = "mark" /\ UNCHANGED <<cloudBusy, playing>>
            \/ Wk = "start" /\ Wk' = "refused" /\ UNCHANGED <<cloudBusy, playing>> /\ failures' # 0
            \/ Wk = "refused" /\ Wk' = "return" /\ cloudBusy' = FALSE /\ playing' = playing
            \/ Wk = "mark" /\ Wk' = "write" /\ playing' = TRUE /\ cloudBusy' = cloudBusy
<1>. USE DEF Typed, FlagType
<1>0. UNCHANGED <<queueVars, linkUp, cloudVars, sounds, losses, played, torn, stray>>
  BY DEF Prepare
<1>1. ASSUME NEW from \in WkPlaces, NEW to \in WkPlaces, Go("worker", from, to)
      PROVE  TaskType' /\ Ws' = Ws /\ Wk = from /\ Wk' = to
  BY <1>1, WorkerGoes
<1>2. CASE Go("worker", "reserve", "mode") /\ Reserve /\ UNCHANGED <<audioVars, playing, failures>>
  BY <1>0, <1>1, <1>2 DEF WkPlaces, Reserve, audioVars
<1>3. CASE /\ Go("worker", "mode", "start") /\ SetPlayback(TRUE)
           /\ UNCHANGED <<sfxVars, playing, failures>>
  BY <1>0, <1>1, <1>3 DEF WkPlaces, SetPlayback, sfxVars
<1>4. CASE Go("worker", "start", "mark") /\ StartAudio /\ UNCHANGED <<sfxVars, playing, failures>>
  BY <1>0, <1>1, <1>4 DEF WkPlaces, StartAudio, sfxVars
<1>5. CASE Go("worker", "start", "refused") /\ StartFails /\ UNCHANGED <<sfxVars, playing>>
  BY <1>0, <1>1, <1>5 DEF WkPlaces, StartFails, sfxVars, audioVars
<1>6. CASE /\ Go("worker", "refused", "return") /\ Release
           /\ UNCHANGED <<audioVars, playing, failures>>
  BY <1>0, <1>1, <1>6 DEF WkPlaces, Release, audioVars
<1>7. CASE /\ Go("worker", "mark", "write") /\ playing' = TRUE
           /\ UNCHANGED <<audioVars, sfxVars, failures>>
  BY <1>0, <1>1, <1>7 DEF WkPlaces, audioVars, sfxVars
<1>. QED
  BY <1>2, <1>3, <1>4, <1>5, <1>6, <1>7 DEF Prepare

-----------------------------------------------------------------------------
(* Types *)

LEMMA ReceiveTypes ==
  ASSUME Typed, ReceiveChunk
  PROVE  /\ QueueType' /\ sent' = sent + 1 /\ sent' \in 1 .. MaxFrames /\ slot' = slot
         /\ \A s \in Slots : /\ content'[s] # content[s] => content'[s] = sent + 1
                             /\ In(pending', s) => In(pending, s) \/ content'[s] = sent + 1
<1>. USE DEF Typed, QueueType
<1>1. sent' = sent + 1 /\ sent' \in 1 .. MaxFrames /\ slot' = slot
  BY SpeechAssumption DEF ReceiveChunk, FlagType
<1>2. CASE UNCHANGED <<free, pending, content>>
  BY <1>1, <1>2
<1>3. CASE free # <<>> /\ ~UNCHANGED <<free, pending, content>>
  <2>. DEFINE h == Head(free)
  <2>1. /\ h \in Slots /\ Tail(free) \in Seq(Slots) /\ Len(Tail(free)) <= Depth
    BY <1>3, Taken, SlotsAre
  <2>2. content' = [content EXCEPT ![h] = sent + 1]
    BY <1>3 DEF ReceiveChunk
  <2>. HIDE DEF h
  <2>3. sent + 1 \in 0 .. MaxFrames /\ content \in [Slots -> 0 .. MaxFrames]
    BY <1>1
  <2>4. content' \in [Slots -> 0 .. MaxFrames]
    BY Zenon, <2>2, <2>3
  <2>5. content'[h] = sent + 1 /\ \A s \in Slots : s # h => content'[s] = content[s]
    BY <2>1, <2>2, <2>3
  <2>6. \/ Len(pending) < Depth /\ free' = Tail(free) /\ pending' = Append(pending, h)
        \/ free' = Put(Tail(free), h) /\ pending' = pending
    BY <1>3 DEF ReceiveChunk, Queued, h
  <2>7. /\ Append(pending, h) \in Seq(Slots) /\ Len(Append(pending, h)) = Len(pending) + 1
        /\ \A x : In(Append(pending, h), x) <=> In(pending, x) \/ x = h
    BY <2>1, Appended
  <2>8. Put(Tail(free), h) \in Seq(Slots) /\ Len(Put(Tail(free), h)) <= Depth
    BY <2>1, PutFits
  <2>9. free' \in Seq(Slots) /\ Len(free') <= Depth
    BY <2>1, <2>6, <2>8
  <2>10. pending' \in Seq(Slots) /\ Len(pending') <= Depth
    <3>1. CASE Len(pending) < Depth /\ pending' = Append(pending, h)
      <4>1. Len(pending) \in Nat /\ Len(Append(pending, h)) = Len(pending) + 1
        BY <2>7
      <4>2. Len(Append(pending, h)) <= Depth
        BY <3>1, <4>1, SlotsAre
      <4>. QED
        BY Zenon, <2>7, <3>1, <4>2
    <3>2. CASE pending' = pending
      BY <3>2
    <3>. QED
      BY <2>6, <3>1, <3>2
  <2>11. \A s \in Slots : In(pending', s) => In(pending, s) \/ s = h
    BY <2>6, <2>7
  <2>. QED
    BY <1>1, <2>4, <2>5, <2>9, <2>10, <2>11
<1>. QED
  BY <1>2, <1>3 DEF ReceiveChunk

LEMMA ResetTypes ==
  ASSUME Typed, Reset
  PROVE  /\ QueueType' /\ endPending' = FALSE /\ torn' \in BOOLEAN /\ \A s : ~In(pending', s)
         /\ UNCHANGED <<content, slot>>
<1>1. free' \in Seq(Slots) /\ Len(free') <= Depth
  BY AllSlotsAre, SlotsAre DEF Reset
<1>2. pending' = <<>> /\ UNCHANGED <<content, slot>>
  BY DEF Reset
<1>3. pending' \in Seq(Slots) /\ Len(pending') <= Depth /\ \A s : ~In(pending', s)
  BY <1>2, Nothing, SlotsAre
<1>. QED
  BY <1>1, <1>2, <1>3 DEF Reset, QueueType, Typed, FlagType

(* What waits when no frame comes in waited before. *)
LEMMA WaitsOn ==
  ASSUME UNCHANGED <<pending, slot>>, ToPlay' => ToPlay
  PROVE  \A s : Waits(s)' => Waits(s)
  BY DEF Waits

LEMMA InitTyped == Init => Typed
<1>. SUFFICES ASSUME Init PROVE Typed
  OBVIOUS
<1>1. TaskType /\ ~ToPlay
  <2>1. at = [t \in {"ws", "worker", "sfx"} |-> "idle"]
    BY Zenon DEF Init
  <2>. QED
    BY <2>1 DEF TaskType, ToPlay, Places, WsPlaces, WkPlaces, SfxPlaces, Ws, Wk
<1>2. free \in Seq(Slots) /\ Len(free) <= Depth
  BY AllSlotsAre, SlotsAre DEF Init
<1>3. /\ pending \in Seq(Slots) /\ Len(pending) <= Depth /\ \A s : ~In(pending, s)
  BY Nothing, SlotsAre DEF Init
<1>4. content \in [Slots -> 0 .. MaxFrames] /\ slot \in Slots
  <2>1. content = [s \in Slots |-> 0] /\ slot = 0
    BY Zenon DEF Init
  <2>. QED
    BY <2>1, SlotsAre, SpeechAssumption
<1>5. FlagType
  <2>1. /\ endPending = FALSE /\ playing = FALSE /\ running = FALSE /\ playback = FALSE
        /\ cloudBusy = FALSE /\ localBusy = FALSE /\ stopRequested = FALSE /\ waiting = FALSE
        /\ current = TRUE /\ linkUp = TRUE /\ open = FALSE /\ torn = FALSE /\ stray = FALSE
        /\ sent = 0 /\ failures = 0
    BY Zenon DEF Init
  <2>2. 0 \in 0 .. MaxFrames /\ 0 \in Nat
    BY SpeechAssumption
  <2>. QED
    BY <2>1, <2>2 DEF FlagType
<1>6. played \in Seq(1 .. MaxFrames)
  <2>1. played = <<>>
    BY Zenon DEF Init
  <2>. QED
    BY <2>1
<1>. QED
  BY <1>1, <1>2, <1>3, <1>4, <1>5, <1>6 DEF Typed, QueueType, PlayedType, Waits

LEMMA TypedStep == Typed /\ [Next]_vars => Typed'
<1>. SUFFICES ASSUME Typed, [Next]_vars PROVE Typed'
  OBVIOUS
<1>. USE DEF Typed
<1>1. CASE ReceiveChunk
  <2>1. /\ UNCHANGED <<at, slot, endPending, playing, audioVars, sfxVars, linkUp, sounds, failures,
                       losses, played, torn, stray>>
        /\ open' = TRUE
    BY <1>1 DEF ReceiveChunk
  <2>2. /\ QueueType' /\ sent' = sent + 1 /\ sent' \in 1 .. MaxFrames /\ slot' = slot
        /\ \A s \in Slots : /\ content'[s] # content[s] => content'[s] = sent + 1
                            /\ In(pending', s) => In(pending, s) \/ content'[s] = sent + 1
    BY <1>1, ReceiveTypes
  <2>3. TaskType' /\ FlagType' /\ (ToPlay' <=> ToPlay)
    BY <2>1, <2>2 DEF TaskType, FlagType, audioVars, sfxVars, Ws, Wk, ToPlay
  <2>4. ASSUME NEW s \in Slots, Waits(s)' PROVE content'[s] # 0
    <3>1. sent + 1 # 0
      BY <2>2
    <3>2. Waits(s) \/ content'[s] = sent + 1
      BY <2>2, <2>3, <2>4 DEF Waits
    <3>. QED
      BY <2>2, <3>1, <3>2 DEF PlayedType
  <2>. QED
    BY <2>1, <2>2, <2>3, <2>4 DEF PlayedType
<1>2. CASE Complete
  <2>1. /\ UNCHANGED <<free, pending, content, slot, playing, audioVars, sfxVars, linkUp, sent,
                       sounds, failures, losses, played, torn>>
        /\ open' = FALSE /\ endPending' \in BOOLEAN /\ stray' \in BOOLEAN
        /\ at' = at \/ Go("ws", "idle", "finish")
    BY <1>2 DEF Complete, CompleteNow, FlagType, Go
  <2>2. TaskType' /\ Wk' = Wk
    BY <2>1, WsGoes DEF WsPlaces, TaskType, Ws, Wk
  <2>. QED
    BY <2>1, <2>2, WaitsOn DEF QueueType, FlagType, PlayedType, audioVars, sfxVars, ToPlay
<1>3. CASE Disconnected \/ ResetQueue
  <2>1. /\ Reset /\ UNCHANGED <<playing, audioVars, sfxVars, sent, failures, played, stray>>
        /\ linkUp' \in BOOLEAN /\ open' \in BOOLEAN
        /\ Go("ws", "idle", "finish") \/ Go("ws", "reset", "idle")
    BY <1>3 DEF Disconnected, ResetQueue, envVars, cloudVars, FlagType
  <2>2. TaskType' /\ Wk' = Wk
    BY <2>1, WsGoes DEF WsPlaces
  <2>3. \A s : Waits(s)' => Waits(s)
    BY <2>1, <2>2, ResetTypes DEF Waits, ToPlay
  <2>. QED
    BY <2>1, <2>2, <2>3, ResetTypes DEF FlagType, PlayedType, audioVars, sfxVars
<1>4. CASE Connected \/ ResetBusy
  <2>1. /\ UNCHANGED <<queueVars, playing, audioVars, cloudVars, failures, played, torn, stray,
                       localBusy, stopRequested, waiting, current>>
        /\ cloudBusy' \in BOOLEAN /\ linkUp' \in BOOLEAN
        /\ Go("ws", "idle", "session") \/ Go("ws", "session", "reset")
    BY <1>4 DEF Connected, ResetBusy, Release, envVars, sfxVars, FlagType
  <2>2. TaskType' /\ Wk' = Wk
    BY <2>1, WsGoes DEF WsPlaces
  <2>. QED
    BY <2>1, <2>2, WaitsOn DEF QueueType, FlagType, PlayedType, audioVars, cloudVars,
                                     queueVars, ToPlay
<1>5. CASE Finish("ws") \/ Finish("worker")
  <2>1. FinishVars /\ playing' \in BOOLEAN /\ cloudBusy' \in BOOLEAN
    BY <1>5, FinishSteps DEF FlagType
  <2>2. TaskType' /\ (ToPlay' => ToPlay)
    <3>1. CASE Finish("ws")
      <4>1. \E from, to \in WsPlaces : Go("ws", from, to)
        BY <3>1, FinishSteps DEF WsPlaces
      <4>. QED
        BY <4>1, WsGoes DEF ToPlay
    <3>2. CASE Finish("worker")
      <4>1. \E from \in WkPlaces, to \in {"stop", "release", "silent", "idle"} :
              Go("worker", from, to)
        BY <3>2, FinishSteps DEF WkPlaces
      <4>. QED
        BY <4>1, WorkerGoes DEF ToPlay, WkPlaces
    <3>. QED
      BY <1>5, <3>1, <3>2
  <2>. QED
    BY <2>1, <2>2, WaitsOn DEF QueueType, FlagType, PlayedType, FinishVars, queueVars, envVars,
                               cloudVars
<1>6. CASE TakeFrame
  <2>1. /\ slot' = Head(pending) /\ pending' = Tail(pending) /\ Go("worker", "idle", "taken")
        /\ UNCHANGED <<free, content, endPending, playing, audioVars, sfxVars, envVars, played,
                       torn, stray>>
    BY <1>6 DEF TakeFrame
  <2>2. /\ slot' \in Slots /\ pending' \in Seq(Slots) /\ Len(pending') <= Depth
        /\ \A x : In(pending, x) <=> In(pending', x) \/ x = slot'
    BY <1>6, <2>1, Taken, SlotsAre DEF TakeFrame, QueueType
  <2>3. \A s : Waits(s)' => Waits(s)
    BY <2>2 DEF Waits
  <2>4. TaskType'
    BY <2>1, WorkerGoes DEF WkPlaces
  <2>. QED
    BY <2>1, <2>2, <2>3, <2>4 DEF QueueType, FlagType, PlayedType, audioVars, sfxVars, envVars,
                                  cloudVars
<1>7. CASE TakeEnd \/ CheckPath \/ ReturnSlot
  <2>1. /\ UNCHANGED <<pending, content, slot, playing, audioVars, sfxVars, envVars, played, torn,
                       stray>>
        /\ endPending' \in BOOLEAN
    BY <1>7 DEF TakeEnd, CheckPath, ReturnSlot, queueVars, FlagType
  <2>2. free' \in Seq(Slots) /\ Len(free') <= Depth
    <3>1. free' = free \/ free' = Put(free, slot)
      BY <1>7 DEF TakeEnd, CheckPath, ReturnSlot, queueVars
    <3>. QED
      BY <3>1, PutFits DEF QueueType
  <2>3. TaskType' /\ (ToPlay' => ToPlay)
    <3>1. \/ Go("worker", "idle", "finish") \/ Go("worker", "return", "idle")
          \/ Go("worker", "taken", "write") \/ Go("worker", "taken", "reserve")
      BY <1>7 DEF TakeEnd, CheckPath, ReturnSlot
    <3>. QED
      BY <3>1, WorkerGoes DEF WkPlaces, ToPlay
  <2>. QED
    BY <2>1, <2>2, <2>3, WaitsOn DEF QueueType, FlagType, PlayedType, audioVars, sfxVars, envVars,
                                     cloudVars
<1>8. CASE Prepare
  <2>1. /\ TaskType' /\ UNCHANGED <<queueVars, linkUp, cloudVars, played, torn, stray>>
        /\ {running', playback', localBusy', stopRequested', waiting', current'} \subseteq BOOLEAN
        /\ failures' \in Nat /\ playing' \in BOOLEAN /\ cloudBusy' \in BOOLEAN
    BY <1>8, PrepareSteps DEF FlagType
  <2>2. ToPlay' => ToPlay
    BY <1>8, PrepareSteps DEF ToPlay
  <2>. QED
    BY <2>1, <2>2, WaitsOn DEF QueueType, FlagType, PlayedType, queueVars, cloudVars
<1>9. CASE WriteFrame
  <2>1. /\ UNCHANGED <<queueVars, playing, audioVars, sfxVars, envVars, torn, stray>>
        /\ Go("worker", "write", "return")
        /\ played' = played \/ played' = Append(played, content[slot])
    BY <1>9 DEF WriteFrame
  <2>2. TaskType' /\ ToPlay /\ ~ToPlay'
    BY <2>1, WorkerGoes DEF WkPlaces, ToPlay
  <2>3. played' \in Seq(1 .. MaxFrames)
    <3>1. content[slot] \in 0 .. MaxFrames /\ content[slot] # 0
      BY <2>2 DEF QueueType, PlayedType, Waits
    <3>2. content[slot] \in 1 .. MaxFrames
      BY <3>1, SpeechAssumption
    <3>3. \A c \in 1 .. MaxFrames : Append(played, c) \in Seq(1 .. MaxFrames)
      BY DEF PlayedType
    <3>. QED
      BY Zenon, <2>1, <3>2, <3>3 DEF PlayedType
  <2>. QED
    BY <2>1, <2>2, <2>3, WaitsOn DEF QueueType, FlagType, PlayedType, queueVars, audioVars, sfxVars,
                                     envVars, cloudVars
<1>10. CASE Sfx \/ PlaySound
  <2>1. /\ Wk' = Wk /\ TaskType'
        /\ UNCHANGED <<queueVars, playing, cloudBusy, linkUp, cloudVars, played, torn, stray>>
        /\ {running', playback', localBusy', stopRequested', waiting', current'} \subseteq BOOLEAN
        /\ failures' \in Nat
    BY <1>10, SfxSteps
  <2>. QED
    BY <2>1, WaitsOn DEF QueueType, FlagType, PlayedType, queueVars, cloudVars, ToPlay
<1>11. CASE UNCHANGED vars
  BY <1>11 DEF vars, queueVars, audioVars, sfxVars, envVars, cloudVars, TaskType, QueueType,
               FlagType, PlayedType, Waits, ToPlay, Wk, Ws
<1>. QED
  BY <1>1, <1>2, <1>3, <1>4, <1>5, <1>6, <1>7, <1>8, <1>9, <1>10, <1>11
     DEF Next, WsSteps, Worker

(* Every variable keeps its type, neither queue holds more slots than there *)
(* are (ws_tts_queue_reset_locked), and the loudspeaker only gets frames    *)
(* that the cloud sent.                                                     *)
THEOREM SpeechTypeCorrect == Spec => []TypeOK
<1>1. Typed => TypeOK
  BY DEF Typed, TypeOK, TaskType, QueueType, FlagType, PlayedType, Ws, Wk, WsPlaces, WkPlaces,
         SfxPlaces
<1>. QED
  BY <1>1, InitTyped, TypedStep, PTL DEF Spec

-----------------------------------------------------------------------------
(* Slots *)

LEMMA TornStays == Typed /\ [Next]_vars /\ ~torn' => ~torn
<1>. SUFFICES ASSUME Typed, [Next]_vars, torn PROVE torn'
  BY DEF Typed, FlagType
<1>1. CASE ReceiveChunk \/ Complete \/ Disconnected \/ Connected
  BY <1>1 DEF ReceiveChunk, Complete, Disconnected, Connected, Reset
<1>2. CASE WsSteps
  BY <1>2, FinishSteps DEF WsSteps, ResetBusy, ResetQueue, Reset, FinishVars
<1>3. CASE Worker
  BY <1>3, FinishSteps, PrepareSteps DEF Worker, TakeFrame, TakeEnd, CheckPath, WriteFrame,
                                         ReturnSlot, FinishVars
<1>4. CASE Sfx \/ PlaySound
  BY <1>4, SfxSteps
<1>5. CASE UNCHANGED vars
  BY <1>5 DEF vars
<1>. QED
  BY <1>1, <1>2, <1>3, <1>4, <1>5 DEF Next

(* A frame that comes in finds a slot, and its slot room among the pending. *)
LEMMA Accepted ==
  ASSUME Typed, Partition, ReceiveChunk
  PROVE  \/ free = <<>> /\ UNCHANGED <<free, pending, content>>
         \/ /\ free # <<>> /\ pending' = Append(pending, Head(free)) /\ free' = Tail(free)
            /\ content' = [content EXCEPT ![Head(free)] = sent + 1]
<1>1. Len(free) \in Nat /\ Len(pending) \in Nat /\ Hand \in Nat /\ Depth \in Nat
  BY SpeechAssumption DEF Typed, QueueType, Hand
<1>2. CASE free = <<>>
  BY <1>2 DEF ReceiveChunk
<1>3. CASE free # <<>>
  <2>1. 1 <= Len(free)
    BY <1>3, Taken DEF Typed, QueueType
  <2>2. Len(pending) < Depth
    BY <1>1, <2>1 DEF Partition
  <2>. QED
    BY <1>3, <2>2 DEF ReceiveChunk, Queued
<1>. QED
  BY <1>2, <1>3

LEMMA SlotsOfReceived ==
  ASSUME Typed, Partition, ReceiveChunk PROVE Partition' /\ Hand' = Hand
<1>1. UNCHANGED <<at, slot>> /\ (InHand' <=> InHand)
  BY DEF ReceiveChunk, InHand
<1>2. Hand' = Hand /\ Hand \in Nat
  BY <1>1 DEF Hand
<1>3. CASE UNCHANGED <<free, pending>>
  BY <1>1, <1>2, <1>3 DEF Partition
<1>4. CASE free # <<>> /\ pending' = Append(pending, Head(free)) /\ free' = Tail(free)
  <2>. DEFINE s == Head(free)
  <2>1. /\ free \in Seq(Slots) /\ pending \in Seq(Slots) /\ Len(free) \in Nat
        /\ Len(pending) \in Nat
    BY DEF Typed, QueueType
  <2>2. /\ s \in Slots /\ In(free, s) /\ Len(Tail(free)) = Len(free) - 1
        /\ \A x : In(free, x) <=> In(Tail(free), x) \/ x = s
        /\ Once(Tail(free)) /\ ~In(Tail(free), s)
    BY <1>4, <2>1, Taken DEF Partition
  <2>3. ~In(pending, s) /\ (InHand => s # slot)
    BY <2>2 DEF Partition
  <2>. HIDE DEF s
  <2>4. /\ Len(Append(pending, s)) = Len(pending) + 1
        /\ \A x : In(Append(pending, s), x) <=> In(pending, x) \/ x = s
        /\ Once(Append(pending, s))
    BY <2>1, <2>2, <2>3, Appended DEF Partition
  <2>5. pending' = Append(pending, s) /\ free' = Tail(free)
    BY <1>4 DEF s
  <2>6. Len(free') + Len(pending') + Hand' = Depth
    <3>1. Len(free') = Len(free) - 1 /\ Len(pending') = Len(pending) + 1
      BY <2>2, <2>4, <2>5
    <3>2. Len(free) + Len(pending) + Hand = Depth
      BY DEF Partition
    <3>. QED
      BY <1>2, <2>1, <3>1, <3>2
  <2>7. /\ Once(free') /\ Once(pending')
        /\ \A x \in Slots : In(free', x) => ~In(pending', x)
    BY <2>2, <2>4, <2>5 DEF Partition
  <2>8. InHand' => ~In(free', slot') /\ ~In(pending', slot')
    BY <1>1, <2>2, <2>3, <2>4, <2>5 DEF Partition
  <2>. QED
    BY <1>2, <2>6, <2>7, <2>8 DEF Partition
<1>. QED
  BY <1>2, <1>3, <1>4, Accepted

LEMMA SlotsOfTaken ==
  ASSUME Typed, Partition, TakeFrame
  PROVE  Partition' /\ Len(pending') + Hand' = Len(pending) + Hand
<1>. DEFINE s == Head(pending)
<1>1. /\ s \in Slots /\ In(pending, s) /\ Len(Tail(pending)) = Len(pending) - 1
      /\ \A x : In(pending, x) <=> In(Tail(pending), x) \/ x = s
      /\ Once(Tail(pending)) /\ ~In(Tail(pending), s)
  BY Taken DEF Partition, TakeFrame, Typed, QueueType
<1>. HIDE DEF s
<1>2. /\ pending' = Tail(pending) /\ free' = free /\ slot' = s /\ Wk = "idle" /\ Wk' = "taken"
  BY WorkerGoes DEF TakeFrame, WkPlaces, s, Typed
<1>3. ~InHand /\ InHand' /\ Hand = 0 /\ Hand' = 1
  BY <1>2 DEF InHand, Hand, Wk
<1>4. Len(free) \in Nat /\ Len(pending) \in Nat
  BY DEF Typed, QueueType
<1>5. Len(pending') = Len(pending) - 1 /\ Len(free') = Len(free)
  BY <1>1, <1>2
<1>6. Len(pending') + Hand' = Len(pending) + Hand
  BY <1>3, <1>4, <1>5
<1>7. Len(free') + Len(pending') + Hand' = Depth
  <2>1. Len(free) + Len(pending) + Hand = Depth
    BY DEF Partition
  <2>. QED
    BY <1>3, <1>4, <1>5, <2>1
<1>. QED
  BY <1>1, <1>2, <1>3, <1>6, <1>7 DEF Partition

LEMMA SlotsOfReturned ==
  ASSUME Typed, Partition, ReturnSlot PROVE Partition'
<1>1. Wk = "return" /\ Wk' = "idle" /\ UNCHANGED <<pending, slot>> /\ free' = Put(free, slot)
  BY WorkerGoes DEF ReturnSlot, WkPlaces, Typed
<1>2. InHand /\ ~InHand' /\ Hand = 1 /\ Hand' = 0
  BY <1>1 DEF InHand, Hand, Wk
<1>3. /\ free \in Seq(Slots) /\ slot \in Slots /\ Len(free) \in Nat /\ Len(pending) \in Nat
  BY DEF Typed, QueueType
<1>4. Len(free) + Len(pending) + Hand = Depth /\ ~In(free, slot) /\ ~In(pending, slot)
  BY <1>2 DEF Partition
<1>5. Len(free) < Depth
  BY <1>2, <1>3, <1>4, SlotsAre
<1>6. free' = Append(free, slot)
  BY <1>1, <1>5 DEF Put
<1>7. /\ Len(Append(free, slot)) = Len(free) + 1
      /\ \A x : In(Append(free, slot), x) <=> In(free, x) \/ x = slot
      /\ Once(Append(free, slot))
  BY <1>3, <1>4, Appended DEF Partition
<1>8. Len(free') + Len(pending') + Hand' = Depth
  <2>1. Len(free') = Len(free) + 1 /\ Len(pending') = Len(pending)
    BY <1>1, <1>6, <1>7
  <2>. QED
    BY <1>2, <1>3, <1>4, <2>1
<1>9. /\ Once(free') /\ Once(pending') /\ pending' = pending
      /\ \A x : In(free', x) <=> In(free, x) \/ x = slot
  BY <1>1, <1>6, <1>7 DEF Partition
<1>. QED
  BY <1>2, <1>4, <1>8, <1>9 DEF Partition

LEMMA SlotsOfReset ==
  ASSUME Typed, Reset, ~torn', Wk' = Wk
  PROVE  Partition' /\ ~InHand /\ ~InHand' /\ pending' = <<>>
<1>1. ~InHand /\ ~InHand' /\ Hand' = 0
  BY DEF Reset, InHand, Hand, Wk
<1>2. free' = AllSlots /\ pending' = <<>>
  BY DEF Reset
<1>3. Len(free') + Len(pending') + Hand' = Depth
  BY <1>1, <1>2, AllSlotsAre, Nothing, SlotsAre
<1>. QED
  BY <1>1, <1>2, <1>3, AllSlotsAre, Nothing DEF Partition

(* Steps that move no slot. *)
SlotsStill == UNCHANGED <<free, pending, slot>> /\ (InHand' <=> InHand)

LEMMA StillSteps ==
  ASSUME Typed, \/ Complete \/ Connected \/ ResetBusy \/ Finish("ws") \/ Finish("worker")
                \/ TakeEnd \/ CheckPath \/ Prepare \/ WriteFrame \/ Sfx \/ PlaySound
                \/ UNCHANGED vars
  PROVE  SlotsStill
<1>. USE DEF Typed
<1>1. CASE Complete \/ Connected \/ ResetBusy
  <2>1. UNCHANGED <<free, pending, slot>>
    BY <1>1 DEF Complete, Connected, ResetBusy, queueVars
  <2>2. at' = at \/ \E from, to \in WsPlaces : Go("ws", from, to)
    BY <1>1 DEF Complete, CompleteNow, Connected, ResetBusy, WsPlaces, Go
  <2>3. Wk' = Wk
    BY <2>2, WsGoes DEF Wk
  <2>. QED
    BY <2>1, <2>3 DEF SlotsStill, InHand, Wk
<1>2. CASE Finish("ws")
  <2>1. \E from, to \in WsPlaces : Go("ws", from, to)
    BY <1>2, FinishSteps DEF WsPlaces
  <2>2. Wk' = Wk
    BY <2>1, WsGoes
  <2>. QED
    BY <1>2, <2>2, FinishSteps DEF FinishVars, queueVars, SlotsStill, InHand, Wk
<1>3. CASE Finish("worker")
  <2>1. \E from \in Ending, to \in Ending \cup {"idle"} : Go("worker", from, to)
    BY <1>3, FinishSteps DEF Ending
  <2>2. ~InHand /\ ~InHand'
    BY <2>1, WorkerGoes DEF Ending, WkPlaces, InHand, Wk
  <2>. QED
    BY <1>3, <2>2, FinishSteps DEF FinishVars, queueVars, SlotsStill
<1>4. CASE TakeEnd \/ CheckPath \/ WriteFrame
  <2>1. UNCHANGED <<free, pending, slot>>
    BY <1>4 DEF TakeEnd, CheckPath, WriteFrame, queueVars
  <2>2. \/ Go("worker", "idle", "finish") \/ Go("worker", "write", "return")
        \/ Go("worker", "taken", "write") \/ Go("worker", "taken", "reserve")
    BY <1>4 DEF TakeEnd, CheckPath, WriteFrame
  <2>3. InHand' <=> InHand
    BY <2>2, WorkerGoes DEF WkPlaces, InHand, Wk
  <2>. QED
    BY <2>1, <2>3 DEF SlotsStill
<1>5. CASE Prepare
  <2>1. InHand /\ InHand'
    BY <1>5, PrepareSteps DEF InHand, Wk
  <2>. QED
    BY <1>5, <2>1, PrepareSteps DEF SlotsStill, queueVars
<1>6. CASE Sfx \/ PlaySound
  BY <1>6, SfxSteps DEF SlotsStill, queueVars, InHand, Wk
<1>7. CASE UNCHANGED vars
  BY <1>7 DEF vars, queueVars, SlotsStill, InHand
<1>. QED
  BY <1>1, <1>2, <1>3, <1>4, <1>5, <1>6, <1>7

LEMMA SlotsStep == Typed /\ SlotsInv /\ [Next]_vars => SlotsInv'
<1>. SUFFICES ASSUME Typed, SlotsInv, [Next]_vars, ~torn' PROVE Partition'
  BY DEF SlotsInv
<1>1. Partition
  BY TornStays DEF SlotsInv
<1>2. CASE ReceiveChunk
  BY <1>1, <1>2, SlotsOfReceived
<1>3. CASE TakeFrame
  BY <1>1, <1>3, SlotsOfTaken
<1>4. CASE ReturnSlot
  BY <1>1, <1>4, SlotsOfReturned
<1>5. CASE Disconnected \/ ResetQueue
  <2>1. Reset /\ (Go("ws", "idle", "finish") \/ Go("ws", "reset", "idle"))
    BY <1>5 DEF Disconnected, ResetQueue
  <2>2. Wk' = Wk
    BY <2>1, WsGoes DEF WsPlaces, Typed
  <2>. QED
    BY <2>1, <2>2, SlotsOfReset
<1>6. CASE ~(ReceiveChunk \/ TakeFrame \/ ReturnSlot \/ Disconnected \/ ResetQueue)
  <2>1. SlotsStill
    BY <1>6, StillSteps DEF Next, WsSteps, Worker
  <2>. QED
    BY <1>1, <2>1 DEF SlotsStill, Partition, Hand
<1>. QED
  BY <1>2, <1>3, <1>4, <1>5, <1>6

LEMMA InitSlots == Init => SlotsInv
<1>. SUFFICES ASSUME Init PROVE Partition
  BY DEF SlotsInv
<1>1. free = AllSlots /\ pending = <<>> /\ at = [t \in {"ws", "worker", "sfx"} |-> "idle"]
  BY Zenon DEF Init
<1>2. ~InHand /\ Hand = 0
  BY <1>1 DEF InHand, Hand
<1>3. Len(free) + Len(pending) + Hand = Depth
  BY <1>1, <1>2, AllSlotsAre, Nothing, SlotsAre
<1>. QED
  BY <1>1, <1>2, <1>3, AllSlotsAre, Nothing DEF Partition

-----------------------------------------------------------------------------
(* Order *)

LEMMA Numbers ==
  ASSUME Typed
  PROVE  /\ \A s \in Slots : content[s] \in Nat
         /\ \A i \in 1 .. Len(played) : played[i] \in Nat
         /\ sent \in Nat
<1>1. content \in [Slots -> 0 .. MaxFrames] /\ played \in Seq(1 .. MaxFrames)
  BY DEF Typed, QueueType, PlayedType
<1>. QED
  BY <1>1, SpeechAssumption DEF Typed, FlagType

(* Where no frame comes in or is heard, and nothing more waits than before. *)
LEMMA SameOrder ==
  ASSUME Sequence, UNCHANGED <<content, played, sent>>,
         PendingRises', HandBefore', \A s \in Slots : Waits(s)' => Waits(s)
  PROVE  Sequence'
<1>1. \A n : Below(played', n) <=> Below(played, n)
  BY DEF Below
<1>2. PlayedRises'
  BY DEF Sequence, PlayedRises
<1>. QED
  BY <1>1, <1>2 DEF Sequence, Below

LEMMA StillOrder ==
  ASSUME Sequence, UNCHANGED <<content, played, sent, pending, slot>>, ToPlay' => ToPlay
  PROVE  Sequence'
<1>1. PendingRises' /\ HandBefore'
  BY DEF Sequence, PendingRises, HandBefore
<1>. QED
  BY <1>1, SameOrder, WaitsOn

LEMMA OrderOfReceived ==
  ASSUME Typed, Partition, Sequence, ReceiveChunk PROVE Sequence'
<1>1. /\ UNCHANGED <<slot, played>> /\ sent' = sent + 1 /\ (ToPlay' <=> ToPlay)
  BY DEF ReceiveChunk, ToPlay, Wk
<1>2. /\ sent \in Nat /\ \A i \in 1 .. Len(played) : played[i] \in Nat
      /\ \A s \in Slots : content[s] \in Nat
  BY Numbers
<1>3. PlayedRises' /\ \A n : Below(played', n) <=> Below(played, n)
  BY <1>1 DEF Sequence, PlayedRises, Below
<1>4. Below(played, sent + 1) /\ Below(played, sent' + 1)
  <2>1. Below(played, sent + 1)
    BY DEF Sequence
  <2>. QED
    BY <1>1, <1>2, <2>1 DEF Below
<1>5. CASE UNCHANGED <<free, pending, content>>
  <2>1. PendingRises' /\ HandBefore' /\ \A s \in Slots : Waits(s)' => Waits(s)
    BY <1>1, <1>5 DEF Sequence, PendingRises, HandBefore, Waits
  <2>2. \A s \in Slots : Waits(s) => content[s] <= sent + 1
    BY <1>2 DEF Sequence
  <2>3. \A s \in Slots : Waits(s)' => Below(played', content'[s]) /\ content'[s] <= sent'
    BY <1>1, <1>3, <1>5, <2>1, <2>2 DEF Sequence
  <2>4. Below(played', sent' + 1)
    BY <1>3, <1>4
  <2>. QED
    BY <1>3, <2>1, <2>3, <2>4 DEF Sequence, Below
<1>6. CASE /\ free # <<>> /\ pending' = Append(pending, Head(free))
           /\ content' = [content EXCEPT ![Head(free)] = sent + 1]
  <2>. DEFINE h == Head(free)
              n == Len(pending)
  <2>1. h \in Slots /\ In(free, h) /\ pending \in Seq(Slots)
    BY <1>6, Taken DEF Typed, QueueType
  <2>2. ~In(pending, h) /\ (ToPlay => slot # h)
    BY <2>1 DEF Partition, ToPlay, InHand, Wk
  <2>3. content'[h] = sent + 1 /\ \A s \in Slots : s # h => content'[s] = content[s]
    BY <1>6, <2>1 DEF Typed, QueueType
  <2>4. pending' = Append(pending, h)
    BY <1>6
  <2>. HIDE DEF h
  <2>5. /\ n \in Nat /\ Len(pending') = n + 1 /\ pending'[n + 1] = h
        /\ \A i \in 1 .. n : pending'[i] = pending[i] /\ pending[i] \in Slots /\ pending[i] # h
                             /\ In(pending, pending[i])
        /\ \A x : In(pending', x) <=> In(pending, x) \/ x = h
    <3>1. \A i \in 1 .. Len(pending) : In(pending, pending[i])
      BY DEF In
    <3>. QED
      BY <2>1, <2>2, <2>4, <3>1, Appended DEF In
  <2>6. \A s \in Slots : In(pending, s) => content[s] < sent + 1 /\ content'[s] = content[s]
    <3>1. \A s \in Slots : In(pending, s) => content[s] <= sent
      BY DEF Sequence, Waits
    <3>. QED
      BY <1>2, <2>2, <2>3, <3>1
  <2>. HIDE DEF n
  <2>7. PendingRises'
    <3>1. ASSUME NEW i \in 1 .. n + 1, NEW j \in 1 .. n + 1, i < j
          PROVE  content'[pending'[i]] < content'[pending'[j]]
      <4>1. i \in 1 .. n /\ pending'[i] = pending[i] /\ content'[pending[i]] = content[pending[i]]
        BY <2>3, <2>5, <3>1
      <4>2. CASE j \in 1 .. n
        <5>1. content[pending[i]] < content[pending[j]]
          BY <3>1, <4>1, <4>2 DEF Sequence, PendingRises, n
        <5>. QED
          BY <2>3, <2>5, <4>1, <4>2, <5>1
      <4>3. CASE j = n + 1
        BY <2>3, <2>5, <2>6, <4>1, <4>3
      <4>. QED
        BY <2>5, <4>2, <4>3
    <3>. QED
      BY <2>5, <3>1 DEF PendingRises
  <2>8. HandBefore'
    <3>1. ASSUME ToPlay, NEW s \in Slots, In(pending', s) PROVE content'[slot] < content'[s]
      <4>1. slot \in Slots /\ content'[slot] = content[slot] /\ content[slot] < sent + 1
        <5>1. slot \in Slots /\ Waits(slot)
          BY <3>1 DEF Typed, QueueType, Waits
        <5>2. content[slot] <= sent
          BY <5>1 DEF Sequence
        <5>. QED
          BY <1>2, <2>2, <2>3, <3>1, <5>1, <5>2
      <4>2. CASE s = h
        BY <2>3, <4>1, <4>2
      <4>3. CASE In(pending, s)
        BY <2>6, <3>1, <4>1, <4>3 DEF Sequence, HandBefore
      <4>. QED
        BY <2>5, <3>1, <4>2, <4>3
    <3>. QED
      BY <1>1, <3>1 DEF HandBefore
  <2>9. ASSUME NEW s \in Slots, Waits(s)' PROVE Below(played', content'[s]) /\ content'[s] <= sent'
    <3>1. CASE s = h
      <4>1. content'[s] = sent + 1 /\ sent' = sent + 1
        BY <1>1, <2>3, <3>1
      <4>. QED
        BY <1>2, <1>3, <1>4, <4>1
    <3>2. CASE s # h
      <4>1. Waits(s) /\ content'[s] = content[s]
        BY <1>1, <2>3, <2>5, <2>9, <3>2 DEF Waits
      <4>2. Below(played, content[s]) /\ content[s] <= sent
        BY <4>1 DEF Sequence
      <4>3. content[s] <= sent + 1
        BY <1>2, <4>2
      <4>. QED
        BY <1>1, <1>3, <4>1, <4>2, <4>3
    <3>. QED
      BY <3>1, <3>2
  <2>10. Below(played', sent' + 1)
    BY <1>3, <1>4
  <2>. QED
    BY <1>3, <2>7, <2>8, <2>9, <2>10 DEF Sequence, Below
<1>. QED
  BY <1>5, <1>6, Accepted

LEMMA OrderOfTaken ==
  ASSUME Typed, Sequence, TakeFrame PROVE Sequence'
<1>. DEFINE h == Head(pending)
<1>1. /\ h \in Slots /\ h = pending[1] /\ In(pending, h) /\ Len(pending) \in Nat \ {0}
      /\ \A i \in 1 .. Len(Tail(pending)) : i + 1 \in 1 .. Len(pending)
                                           /\ Tail(pending)[i] = pending[i + 1]
      /\ \A x : In(pending, x) <=> In(Tail(pending), x) \/ x = h
      /\ Len(Tail(pending)) = Len(pending) - 1
  BY Taken DEF TakeFrame, Typed, QueueType
<1>. HIDE DEF h
<1>2. /\ pending' = Tail(pending) /\ slot' = h /\ UNCHANGED <<content, played, sent>>
  BY DEF TakeFrame, envVars, cloudVars, h
<1>3. PendingRises'
  <2>1. ASSUME NEW i \in 1 .. Len(pending'), NEW j \in 1 .. Len(pending'), i < j
        PROVE  content'[pending'[i]] < content'[pending'[j]]
    <3>1. /\ i + 1 \in 1 .. Len(pending) /\ j + 1 \in 1 .. Len(pending) /\ i + 1 < j + 1
          /\ pending'[i] = pending[i + 1] /\ pending'[j] = pending[j + 1]
      BY <1>1, <1>2, <2>1
    <3>2. content[pending[i + 1]] < content[pending[j + 1]]
      BY <3>1 DEF Sequence, PendingRises
    <3>. QED
      BY <1>2, <3>1, <3>2
  <2>. QED
    BY <2>1 DEF PendingRises
<1>4. ASSUME NEW s \in Slots, In(pending', s) PROVE content[h] < content[s]
  <2>1. PICK i \in 1 .. Len(Tail(pending)) : Tail(pending)[i] = s
    BY <1>2, <1>4 DEF In
  <2>2. i + 1 \in 1 .. Len(pending) /\ 1 \in 1 .. Len(pending) /\ 1 < i + 1 /\ pending[i + 1] = s
    BY <1>1, <2>1
  <2>3. content[pending[1]] < content[pending[i + 1]]
    BY <2>2 DEF Sequence, PendingRises
  <2>. QED
    BY <1>1, <2>2, <2>3
<1>5. HandBefore'
  BY <1>2, <1>4 DEF HandBefore
<1>6. \A s \in Slots : Waits(s)' => Waits(s)
  BY <1>1, <1>2 DEF Waits
<1>. QED
  BY <1>2, <1>3, <1>5, <1>6, SameOrder

LEMMA OrderOfWritten ==
  ASSUME Typed, Sequence, WriteFrame PROVE Sequence'
<1>1. /\ UNCHANGED <<pending, slot, content, sent>>
      /\ played' = played \/ played' = Append(played, content[slot])
  BY DEF WriteFrame, queueVars, envVars, cloudVars
<1>2. ToPlay /\ ~ToPlay'
  BY WorkerGoes DEF WriteFrame, WkPlaces, ToPlay, Typed
<1>3. CASE played' = played
  BY <1>1, <1>2, <1>3, StillOrder
<1>4. CASE played' = Append(played, content[slot])
  <2>. DEFINE c == content[slot]
              n == Len(played)
  <2>1. slot \in Slots /\ Waits(slot)
    BY <1>2 DEF Typed, QueueType, Waits
  <2>2. c \in Nat /\ Below(played, c) /\ c <= sent /\ sent \in Nat
    BY <2>1, Numbers DEF Sequence
  <2>3. c # 0 /\ c \in 1 .. MaxFrames
    BY <2>1, SpeechAssumption DEF Typed, PlayedType, QueueType
  <2>4. played' = Append(played, c)
    BY <1>4
  <2>. HIDE DEF c
  <2>5. /\ n \in Nat /\ Len(played') = n + 1 /\ played'[n + 1] = c
        /\ \A i \in 1 .. n : played'[i] = played[i]
    BY <2>3, <2>4 DEF Typed, PlayedType
  <2>6. \A i \in 1 .. n : played[i] < c /\ played[i] \in Nat
    BY <2>2, Numbers DEF Below
  <2>7. PlayedRises'
    <3>1. \A i, j \in 1 .. n : i < j => played[i] < played[j]
      BY DEF Sequence, PlayedRises
    <3>. HIDE DEF n
    <3>2. \A i, j \in 1 .. n + 1 : i < j => played'[i] < played'[j]
      BY <2>5, <2>6, <3>1
    <3>. QED
      BY <2>5, <3>2 DEF PlayedRises
  <2>8. ASSUME NEW m \in Nat, Below(played, m), c < m PROVE Below(played', m)
    <3>1. \A i \in 1 .. n : played[i] < m
      BY <2>8 DEF Below
    <3>. HIDE DEF n
    <3>2. \A i \in 1 .. n + 1 : played'[i] < m
      BY <2>5, <2>8, <3>1
    <3>. QED
      BY <2>5, <3>2 DEF Below
  <2>9. ASSUME NEW s \in Slots, Waits(s)' PROVE Below(played', content[s]) /\ content[s] <= sent
    <3>1. In(pending, s)
      BY <1>1, <1>2, <2>9 DEF Waits
    <3>2. c < content[s] /\ Below(played, content[s]) /\ content[s] <= sent
      BY <1>2, <3>1 DEF Sequence, HandBefore, Waits, c
    <3>3. content[s] \in Nat
      BY Numbers
    <3>. QED
      BY <2>8, <3>2, <3>3
  <2>10. Below(played', sent + 1)
    <3>1. sent + 1 \in Nat /\ Below(played, sent + 1) /\ c < sent + 1
      BY <2>2 DEF Sequence
    <3>. QED
      BY <2>8, <3>1
  <2>11. PendingRises' /\ HandBefore'
    BY <1>1, <1>2 DEF Sequence, PendingRises, HandBefore
  <2>. QED
    BY <1>1, <2>7, <2>9, <2>10, <2>11 DEF Sequence, Below
<1>. QED
  BY <1>1, <1>3, <1>4

LEMMA OrderStep == Typed /\ SlotsInv /\ OrderInv /\ [Next]_vars => OrderInv'
<1>. SUFFICES ASSUME Typed, SlotsInv, OrderInv, [Next]_vars, ~torn' PROVE Sequence'
  BY DEF OrderInv
<1>. USE DEF Typed
<1>1. Sequence /\ Partition
  BY TornStays DEF OrderInv, SlotsInv
<1>2. CASE ReceiveChunk
  BY <1>1, <1>2, OrderOfReceived
<1>3. CASE TakeFrame
  BY <1>1, <1>3, OrderOfTaken
<1>4. CASE WriteFrame
  BY <1>1, <1>4, OrderOfWritten
<1>5. CASE Disconnected \/ ResetQueue
  <2>1. /\ Reset /\ UNCHANGED <<played, sent>>
        /\ Go("ws", "idle", "finish") \/ Go("ws", "reset", "idle")
    BY <1>5 DEF Disconnected, ResetQueue, envVars, cloudVars
  <2>2. (ToPlay' => ToPlay) /\ Wk' = Wk
    BY <2>1, WsGoes DEF WsPlaces, ToPlay
  <2>3. pending' = <<>> /\ UNCHANGED <<content, slot>> /\ Len(pending') = 0
        /\ \A s : ~In(pending', s)
    BY <2>1, Nothing DEF Reset
  <2>4. PendingRises' /\ HandBefore' /\ \A s \in Slots : Waits(s)' => Waits(s)
    BY <2>2, <2>3 DEF PendingRises, HandBefore, Waits
  <2>. QED
    BY <1>1, <2>1, <2>3, <2>4, SameOrder
<1>6. CASE \/ Complete \/ Connected \/ ResetBusy \/ Finish("ws") \/ Finish("worker")
           \/ TakeEnd \/ CheckPath \/ Prepare \/ ReturnSlot \/ Sfx \/ PlaySound
           \/ UNCHANGED vars
  <2>1. UNCHANGED <<content, played, sent, pending, slot>>
    <3>1. CASE Complete \/ Connected \/ ResetBusy \/ TakeEnd \/ CheckPath \/ ReturnSlot
      BY <3>1 DEF Complete, Connected, ResetBusy, TakeEnd, CheckPath, ReturnSlot, queueVars,
                  envVars, cloudVars
    <3>2. CASE Finish("ws") \/ Finish("worker")
      BY <3>2, FinishSteps DEF FinishVars, queueVars, envVars, cloudVars
    <3>3. CASE Prepare \/ Sfx \/ PlaySound
      BY <3>3, PrepareSteps, SfxSteps DEF queueVars, cloudVars
    <3>4. CASE UNCHANGED vars
      BY <3>4 DEF vars, queueVars, envVars, cloudVars
    <3>. QED
      BY <1>6, <3>1, <3>2, <3>3, <3>4
  <2>2. ToPlay' => ToPlay
    <3>1. CASE Complete \/ Connected \/ ResetBusy \/ Finish("ws")
      <4>1. at' = at \/ \E from, to \in WsPlaces : Go("ws", from, to)
        BY <3>1, FinishSteps DEF Complete, CompleteNow, Connected, ResetBusy, WsPlaces, Go
      <4>. QED
        BY <4>1, WsGoes DEF ToPlay, Wk
    <3>2. CASE TakeEnd \/ CheckPath \/ ReturnSlot \/ Finish("worker")
      <4>1. \/ \E from \in WkPlaces, to \in Ending \cup {"idle"} : Go("worker", from, to)
            \/ Go("worker", "taken", "write") \/ Go("worker", "taken", "reserve")
        BY <3>2, FinishSteps DEF TakeEnd, CheckPath, ReturnSlot, WkPlaces, Ending
      <4>. QED
        BY <4>1, WorkerGoes DEF ToPlay, WkPlaces, Ending
    <3>3. CASE Prepare \/ Sfx \/ PlaySound
      BY <3>3, PrepareSteps, SfxSteps DEF ToPlay
    <3>4. CASE UNCHANGED vars
      BY <3>4 DEF vars, ToPlay, Wk
    <3>. QED
      BY <1>6, <3>1, <3>2, <3>3, <3>4
  <2>. QED
    BY <1>1, <2>1, <2>2, StillOrder
<1>. QED
  BY <1>2, <1>3, <1>4, <1>5, <1>6 DEF Next, WsSteps, Worker

LEMMA InitOrder == Init => OrderInv
<1>. SUFFICES ASSUME Init PROVE Sequence
  BY DEF OrderInv
<1>1. /\ played = <<>> /\ pending = <<>> /\ at = [t \in {"ws", "worker", "sfx"} |-> "idle"]
  BY Zenon DEF Init
<1>2. ~ToPlay /\ Len(played) = 0 /\ Len(pending) = 0 /\ \A s : ~In(pending, s)
  BY <1>1, Nothing DEF ToPlay, Wk
<1>. QED
  BY <1>2 DEF Sequence, PlayedRises, Below, PendingRises, HandBefore, Waits

(* Frames are heard in the order they were sent and none twice, whatever is *)
(* dropped, aborted or lost with the path (ws_handle_tts_binary,            *)
(* ws_tts_worker_task), unless the queues were reset while the worker had a *)
(* frame in hand.                                                           *)
THEOREM SpeechHeardInOrder == Spec => []SpeechInOrder
<1>1. OrderInv => SpeechInOrder
  BY DEF OrderInv, SpeechInOrder, Sequence, PlayedRises
<1>. QED
  BY <1>1, InitTyped, TypedStep, InitSlots, SlotsStep, InitOrder, OrderStep, PTL DEF Spec

-----------------------------------------------------------------------------
(* The loudspeaker *)

LEMMA HandIs ==
  ASSUME Typed
  PROVE  /\ Hand \in 0 .. 1 /\ (InHand <=> Hand = 1) /\ Len(pending) \in Nat
         /\ (pending = <<>> <=> Len(pending) = 0) /\ Count \in Nat
         /\ InHand <=> Wk \notin Ending \cup {"idle"}
<1>1. pending \in Seq(Slots)
  BY DEF Typed, QueueType
<1>2. Len(pending) \in Nat /\ (pending = <<>> <=> Len(pending) = 0)
  BY <1>1
<1>3. Hand \in 0 .. 1 /\ (InHand <=> Hand = 1)
  BY DEF Hand
<1>4. InHand <=> Wk \notin Ending \cup {"idle"}
  BY DEF InHand, Ending, Wk
<1>. QED
  BY <1>2, <1>3, <1>4 DEF Count

(* With nothing pending and nothing in hand there is nothing to count. *)
LEMMA NoneLeft ==
  ASSUME Typed, pending = <<>>, ~InHand PROVE ~(Count >= 1) /\ ~(Count >= 2)
<1>1. Hand = 0 /\ Len(pending) = 0
  BY HandIs
<1>. QED
  BY <1>1 DEF Count

LEMMA NonePending ==
  ASSUME Typed, pending = <<>> PROVE ~(Count >= 2)
<1>1. Hand \in 0 .. 1 /\ Len(pending) = 0
  BY HandIs
<1>. QED
  BY <1>1 DEF Count

LEMMA SpeakOfReceived ==
  ASSUME Typed, Partition, SpeakNow, ReceiveChunk PROVE SpeakNow'
<1>1. /\ UNCHANGED <<playing, cloudBusy, Wk, Ws, endPending, linkUp>>
      /\ linkUp /\ Ws = "idle"
  BY DEF ReceiveChunk, sfxVars, Ws, Wk
<1>2. (InHand' <=> InHand) /\ Hand' = Hand /\ Partition' /\ Typed'
  BY SlotsOfReceived, TypedStep DEF ReceiveChunk, InHand, Next
<1>3. pending # <<>> => pending' # <<>>
  <2>1. CASE pending' = pending
    BY <2>1
  <2>2. CASE free # <<>> /\ pending' = Append(pending, Head(free))
    <3>1. Len(pending') = Len(pending) + 1 /\ Len(pending) \in Nat
      BY <2>2, Appended, Taken DEF Typed, QueueType
    <3>2. Len(pending') # 0
      BY <3>1
    <3>. QED
      BY <1>2, <3>2, HandIs
  <2>. QED
    BY <2>1, <2>2, Accepted
<1>4. SpeakWorker'
  BY <1>1, <1>2, <1>3 DEF SpeakNow, SpeakWorker
<1>5. SpeakWs'
  BY <1>1, <1>2 DEF SpeakNow, SpeakWs
<1>6. ASSUME endPending', ~playing' \/ Wk' \in Ending PROVE Count' >= 2
  <2>1. Count >= 1
    <3>1. Count >= IF open THEN 2 ELSE 1
      BY <1>1, <1>6 DEF SpeakNow, SpeakEnd
    <3>. QED
      BY <3>1, HandIs
  <2>2. CASE free = <<>> /\ pending' = pending
    <3>1. Len(free) = 0 /\ Len(free) + Len(pending) + Hand = Depth
      BY <2>2, Nothing DEF Partition
    <3>2. Count = Depth
      BY <3>1, HandIs DEF Count
    <3>3. Count' = Count
      BY <1>2, <2>2 DEF Count
    <3>. QED
      BY <3>2, <3>3, BufferAssumption
  <2>3. CASE free # <<>> /\ pending' = Append(pending, Head(free))
    <3>1. Len(pending') = Len(pending) + 1
      BY <2>3, Appended, Taken DEF Typed, QueueType
    <3>2. Count' = Count + 1
      BY <1>2, <3>1, HandIs DEF Count
    <3>. QED
      BY <2>1, <3>2, HandIs
  <2>. QED
    BY <2>2, <2>3, Accepted
<1>7. SpeakEnd'
  <2>1. open'
    BY DEF ReceiveChunk
  <2>. QED
    BY <1>6, <2>1 DEF SpeakEnd
<1>. QED
  BY <1>4, <1>5, <1>7 DEF SpeakNow

LEMMA SpeakOfCompleted ==
  ASSUME Typed, SpeakNow, Complete, ~stray' PROVE SpeakNow'
<1>1. /\ UNCHANGED <<pending, playing, cloudBusy, linkUp>> /\ linkUp /\ Ws = "idle"
      /\ open' = FALSE /\ (pending = <<>> /\ InHand /\ ~playing => open)
  BY DEF Complete, sfxVars, Ws
<1>2. \/ pending # <<>> /\ endPending' = TRUE /\ Wk' = Wk /\ Ws' = Ws
      \/ pending = <<>> /\ endPending' = endPending /\ Wk' = Wk /\ Ws' = "finish"
  <2>1. CASE pending # <<>>
    BY <2>1 DEF Complete, CompleteNow, Wk, Ws
  <2>2. CASE pending = <<>>
    <3>1. Go("ws", "idle", "finish") /\ endPending' = endPending
      BY <2>2 DEF Complete, CompleteNow, Go
    <3>. QED
      BY <2>2, <3>1, WsGoes DEF WsPlaces, Typed
  <2>. QED
    BY <2>1, <2>2
<1>3. (InHand' <=> InHand) /\ Hand' = Hand /\ Count' = Count
  BY <1>1, <1>2 DEF InHand, Hand, Count, Wk
<1>4. SpeakWorker'
  BY <1>1, <1>2, <1>3 DEF SpeakNow, SpeakWorker
<1>5. ASSUME pending = <<>>, endPending PROVE playing /\ Wk \notin Ending
  <2>. SUFFICES ASSUME ~playing \/ Wk \in Ending PROVE FALSE
    OBVIOUS
  <2>1. Count >= IF open THEN 2 ELSE 1
    BY <1>5 DEF SpeakNow, SpeakEnd
  <2>2. ~open
    BY <1>5, <2>1, NonePending
  <2>3. InHand
    BY <1>5, <2>1, <2>2, NoneLeft
  <2>4. ~playing
    BY <2>3, HandIs
  <2>. QED
    BY <1>1, <1>5, <2>2, <2>3, <2>4
<1>6. SpeakWs'
  BY <1>1, <1>2, <1>3, <1>5 DEF SpeakNow, SpeakWs
<1>7. SpeakEnd'
  <2>1. CASE pending # <<>>
    <3>1. 1 <= Len(pending) /\ Len(pending) \in Nat /\ Hand \in 0 .. 1
      BY <2>1, HandIs, Taken DEF Typed, QueueType
    <3>2. Count >= 1
      BY <3>1 DEF Count
    <3>. QED
      BY <1>1, <1>3, <3>2 DEF SpeakEnd
  <2>2. CASE pending = <<>>
    <3>1. ASSUME endPending, ~playing \/ Wk \in Ending PROVE FALSE
      BY <1>5, <2>2, <3>1
    <3>. QED
      BY <1>1, <1>2, <2>2, <3>1 DEF SpeakEnd
  <2>. QED
    BY <2>1, <2>2
<1>. QED
  BY <1>4, <1>6, <1>7 DEF SpeakNow

LEMMA SpeakOfReset ==
  ASSUME Typed, SpeakNow, ~torn', Disconnected \/ ResetQueue PROVE SpeakNow'
<1>1. /\ Reset /\ UNCHANGED <<playing, cloudBusy>> /\ endPending' = FALSE
      /\ \/ Ws = "idle" /\ Ws' = "finish" /\ linkUp' = FALSE
         \/ Ws = "reset" /\ Ws' = "idle" /\ linkUp' = linkUp
      /\ Wk' = Wk
  BY WsGoes DEF Disconnected, ResetQueue, envVars, sfxVars, Reset, WsPlaces, Typed
<1>2. ~InHand /\ ~InHand' /\ pending' = <<>>
  BY <1>1, SlotsOfReset
<1>3. SpeakWorker'
  BY <1>1, <1>2 DEF SpeakNow, SpeakWorker
<1>4. SpeakWs'
  BY <1>1, <1>2 DEF SpeakNow, SpeakWs
<1>5. SpeakEnd'
  BY <1>1 DEF SpeakEnd
<1>. QED
  BY <1>3, <1>4, <1>5 DEF SpeakNow

LEMMA SpeakOfSession ==
  ASSUME Typed, SpeakNow, Connected \/ ResetBusy PROVE SpeakNow'
<1>1. /\ UNCHANGED <<pending, playing, endPending, open>> /\ Wk' = Wk
      /\ \/ /\ Ws = "idle" /\ Ws' = "session" /\ ~linkUp /\ linkUp' = TRUE
            /\ cloudBusy' = cloudBusy
         \/ Ws = "session" /\ Ws' = "reset" /\ linkUp' = linkUp /\ cloudBusy' = FALSE
  BY WsGoes DEF Connected, ResetBusy, Release, queueVars, sfxVars, cloudVars, envVars, WsPlaces,
                Typed
<1>2. (InHand' <=> InHand) /\ Hand' = Hand /\ Count' = Count
  BY <1>1 DEF InHand, Hand, Count, Wk
<1>3. SpeakWorker'
  BY <1>1, <1>2, HandIs DEF SpeakNow, SpeakWorker, SpeakWs, Ending
<1>4. SpeakWs'
  BY <1>1, <1>2 DEF SpeakNow, SpeakWs
<1>5. SpeakEnd'
  BY <1>1, <1>2 DEF SpeakNow, SpeakEnd
<1>. QED
  BY <1>3, <1>4, <1>5 DEF SpeakNow

LEMMA SpeakOfWsFinish ==
  ASSUME Typed, SpeakNow, Finish("ws") PROVE SpeakNow'
<1>1. /\ UNCHANGED <<pending, endPending, open, linkUp>> /\ Wk' = Wk
      /\ \/ Ws = "finish" /\ Ws' = "stop" /\ UNCHANGED <<playing, cloudBusy>>
         \/ Ws = "finish" /\ Ws' = "release" /\ ~playing /\ UNCHANGED <<playing, cloudBusy>>
         \/ Ws = "stop" /\ Drained("ws") /\ Ws' = "silent" /\ UNCHANGED <<playing, cloudBusy>>
         \/ Ws = "silent" /\ Ws' = "release" /\ playing' = FALSE /\ cloudBusy' = cloudBusy
         \/ /\ Ws = "release" /\ Ws' = (IF linkUp THEN "idle" ELSE "session")
            /\ cloudBusy' = FALSE /\ playing' = playing
  <2>1. UNCHANGED <<pending, endPending, open, linkUp>>
    BY FinishSteps DEF FinishVars, queueVars, envVars, cloudVars
  <2>2. \A from, to \in WsPlaces : Go("ws", from, to) => Ws = from /\ Ws' = to /\ Wk' = Wk
    BY WsGoes DEF Typed
  <2>3. CASE /\ Go("ws", "finish", IF playing THEN "stop" ELSE "release")
             /\ UNCHANGED <<playing, cloudBusy>>
    BY <2>1, <2>2, <2>3 DEF WsPlaces
  <2>4. CASE Drained("ws") /\ Go("ws", "stop", "silent") /\ UNCHANGED <<playing, cloudBusy>>
    BY <2>1, <2>2, <2>4 DEF WsPlaces
  <2>5. CASE Go("ws", "silent", "release") /\ playing' = FALSE /\ cloudBusy' = cloudBusy
    BY <2>1, <2>2, <2>5 DEF WsPlaces
  <2>6. CASE /\ Go("ws", "release", IF "ws" = "ws" /\ ~linkUp THEN "session" ELSE "idle")
             /\ cloudBusy' = FALSE /\ playing' = playing
    BY <2>1, <2>2, <2>6 DEF WsPlaces
  <2>. QED
    BY <2>3, <2>4, <2>5, <2>6, FinishSteps
<1>2. (InHand' <=> InHand) /\ Hand' = Hand /\ Count' = Count
  BY <1>1 DEF InHand, Hand, Count, Wk
<1>3. Ws # "idle" /\ pending = <<>>
  BY <1>1 DEF SpeakNow, SpeakWs
<1>4. Ws = "finish" /\ ~playing => ~InHand
  BY <1>3 DEF SpeakNow, SpeakWorker, SpeakWs
<1>5. Ws = "stop" /\ Drained("ws") => ~InHand /\ ~endPending
  <2>1. CASE ~linkUp
    BY <2>1 DEF SpeakNow, SpeakWs
  <2>2. CASE Wk = "idle" /\ ~endPending
    BY <2>2 DEF InHand, Wk
  <2>3. CASE Wk \in {"stop", "silent", "release"}
    <3>1. ~InHand
      BY <2>3 DEF InHand, Wk
    <3>2. ~endPending
      BY <1>3, <2>3, <3>1, NoneLeft DEF SpeakNow, SpeakEnd, Ending
    <3>. QED
      BY <3>1, <3>2
  <2>. QED
    BY <2>1, <2>2, <2>3 DEF Drained, Wk
<1>6. SpeakWorker'
  BY <1>1, <1>2, <1>3, HandIs DEF SpeakNow, SpeakWorker, SpeakWs, Ending
<1>7. SpeakWs'
  BY <1>1, <1>2, <1>3, <1>4, <1>5 DEF SpeakNow, SpeakWs
<1>8. SpeakEnd'
  BY <1>1, <1>2 DEF SpeakNow, SpeakEnd, SpeakWs
<1>. QED
  BY <1>6, <1>7, <1>8 DEF SpeakNow

LEMMA SpeakOfWorkerFinish ==
  ASSUME Typed, SpeakNow, Finish("worker") PROVE SpeakNow'
<1>1. /\ UNCHANGED <<pending, endPending, open, linkUp>> /\ Ws' = Ws
      /\ \/ Wk = "finish" /\ Wk' = "stop" /\ UNCHANGED <<playing, cloudBusy>>
         \/ Wk = "finish" /\ Wk' = "release" /\ ~playing /\ UNCHANGED <<playing, cloudBusy>>
         \/ Wk = "stop" /\ Wk' = "silent" /\ UNCHANGED <<playing, cloudBusy>>
         \/ Wk = "silent" /\ Wk' = "release" /\ playing' = FALSE /\ cloudBusy' = cloudBusy
         \/ Wk = "release" /\ Wk' = "idle" /\ cloudBusy' = FALSE /\ playing' = playing
  <2>1. UNCHANGED <<pending, endPending, open, linkUp>>
    BY FinishSteps DEF FinishVars, queueVars, envVars, cloudVars
  <2>2. \A from, to \in WkPlaces : Go("worker", from, to) => Wk = from /\ Wk' = to /\ Ws' = Ws
    BY WorkerGoes DEF Typed
  <2>3. CASE /\ Go("worker", "finish", IF playing THEN "stop" ELSE "release")
             /\ UNCHANGED <<playing, cloudBusy>>
    BY <2>1, <2>2, <2>3 DEF WkPlaces
  <2>4. CASE Go("worker", "stop", "silent") /\ UNCHANGED <<playing, cloudBusy>>
    BY <2>1, <2>2, <2>4 DEF WkPlaces
  <2>5. CASE Go("worker", "silent", "release") /\ playing' = FALSE /\ cloudBusy' = cloudBusy
    BY <2>1, <2>2, <2>5 DEF WkPlaces
  <2>6. CASE /\ Go("worker", "release", IF "worker" = "ws" /\ ~linkUp THEN "session" ELSE "idle")
             /\ cloudBusy' = FALSE /\ playing' = playing
    BY <2>1, <2>2, <2>6 DEF WkPlaces
  <2>. QED
    BY <2>3, <2>4, <2>5, <2>6, FinishSteps
<1>2. ~InHand /\ ~InHand' /\ Hand' = Hand /\ Count' = Count
  BY <1>1 DEF InHand, Hand, Count, Wk
<1>3. SpeakWorker'
  BY <1>1, <1>2 DEF SpeakNow, SpeakWorker
<1>4. Ws = "finish" /\ endPending => playing'
  <2>1. ASSUME Ws = "finish", endPending, Wk \in Ending PROVE FALSE
    BY <1>2, <2>1, NoneLeft DEF SpeakNow, SpeakEnd, SpeakWs
  <2>. QED
    BY <1>1, <2>1 DEF Ending
<1>5. SpeakWs'
  BY <1>1, <1>2, <1>4 DEF SpeakNow, SpeakWs
<1>6. SpeakEnd'
  BY <1>1, <1>2 DEF SpeakNow, SpeakEnd, Ending
<1>. QED
  BY <1>3, <1>5, <1>6 DEF SpeakNow

LEMMA SpeakOfTaken ==
  ASSUME Typed, Partition, SpeakNow, TakeFrame PROVE SpeakNow'
<1>1. /\ UNCHANGED <<playing, cloudBusy, endPending, open, linkUp>> /\ Ws' = Ws
      /\ Wk = "idle" /\ Wk' = "taken" /\ pending # <<>> /\ pending' = Tail(pending) /\ Due
  BY WorkerGoes DEF TakeFrame, sfxVars, envVars, cloudVars, WkPlaces, Typed
<1>2. InHand' /\ Count' = Count
  BY <1>1, SlotsOfTaken DEF InHand, Count, Wk
<1>3. Ws = "idle" /\ linkUp
  BY <1>1 DEF SpeakNow, SpeakWs
<1>4. ~playing => pending' # <<>> \/ endPending
  <2>1. CASE Len(pending) >= StartBuffer
    <3>1. Len(pending) \in Nat /\ Len(pending') = Len(pending) - 1 /\ StartBuffer \in Nat
      BY <1>1, Taken, SpeechAssumption DEF Typed, QueueType
    <3>. DEFINE n == Len(pending')
    <3>2. n # 0
      BY <2>1, <3>1, BufferAssumption
    <3>. HIDE DEF n
    <3>3. pending' # <<>>
      BY <3>2, Nothing DEF n
    <3>. QED
      BY <3>3
  <2>. QED
    BY <1>1, <2>1 DEF Due
<1>5. SpeakWorker'
  BY <1>1, <1>4 DEF SpeakNow, SpeakWorker
<1>6. SpeakWs'
  BY <1>1, <1>3 DEF SpeakNow, SpeakWs
<1>7. SpeakEnd'
  BY <1>1, <1>2 DEF SpeakNow, SpeakEnd, Ending
<1>. QED
  BY <1>5, <1>6, <1>7 DEF SpeakNow

LEMMA SpeakOfWorker ==
  ASSUME Typed, SpeakNow, failures' = 0,
         TakeEnd \/ CheckPath \/ Prepare \/ WriteFrame \/ ReturnSlot
  PROVE  SpeakNow'
<1>. USE DEF Typed
<1>1. /\ UNCHANGED <<pending, open, linkUp>> /\ Ws' = Ws
      /\ \/ /\ Wk = "idle" /\ Wk' = "finish" /\ endPending' = FALSE
            /\ UNCHANGED <<playing, cloudBusy>>
         \/ /\ endPending' = endPending /\ UNCHANGED <<playing, cloudBusy>>
            /\ \/ Wk = "taken" /\ Wk' \in {"write", "reserve"} /\ (Wk' = "write" => playing)
               \/ Wk = "write" /\ Wk' = "return"
               \/ Wk = "return" /\ Wk' = "idle"
               \/ Wk = "mode" /\ Wk' = "start"
               \/ Wk = "start" /\ Wk' = "mark"
         \/ /\ Wk = "reserve" /\ Wk' = "mode" /\ cloudBusy' = TRUE
            /\ UNCHANGED <<playing, endPending>>
         \/ /\ Wk = "mark" /\ Wk' = "write" /\ playing' = TRUE
            /\ UNCHANGED <<cloudBusy, endPending>>
  <2>1. CASE TakeEnd
    BY <2>1, WorkerGoes DEF TakeEnd, sfxVars, envVars, cloudVars, WkPlaces
  <2>2. CASE CheckPath
    <3>1. \A to \in WkPlaces : Go("worker", "taken", to) => Wk = "taken" /\ Wk' = to /\ Ws' = Ws
      BY WorkerGoes
    <3>. QED
      BY <2>2, <3>1 DEF CheckPath, queueVars, sfxVars, envVars, cloudVars, WkPlaces
  <2>3. CASE WriteFrame
    BY <2>3, WorkerGoes DEF WriteFrame, queueVars, sfxVars, envVars, cloudVars, WkPlaces
  <2>4. CASE ReturnSlot
    BY <2>4, WorkerGoes DEF ReturnSlot, sfxVars, envVars, cloudVars, WkPlaces
  <2>5. CASE Prepare
    <3>1. UNCHANGED <<pending, open, linkUp, endPending>> /\ Ws' = Ws
      BY <2>5, PrepareSteps DEF queueVars, cloudVars
    <3>2. Wk # "refused"
      BY DEF SpeakNow, SpeakWorker
    <3>. QED
      BY <2>5, <3>1, <3>2, PrepareSteps
  <2>. QED
    BY <2>1, <2>2, <2>3, <2>4, <2>5
<1>2. /\ InHand <=> Wk \notin Ending \cup {"idle"}
      /\ InHand' <=> Wk' \notin Ending \cup {"idle"}
  BY DEF InHand, Ending, Wk
<1>3. InHand' => InHand
  BY <1>1, <1>2 DEF Ending
<1>4. SpeakWorker'
  BY <1>1, <1>2 DEF SpeakNow, SpeakWorker, Ending
<1>5. SpeakWs'
  <2>1. ~InHand => playing' = playing
    BY <1>1, <1>2 DEF Ending
  <2>2. Ws \in {"silent", "release", "session", "reset"} \/ ~linkUp => playing' = playing
    BY <2>1 DEF SpeakNow, SpeakWs
  <2>3. playing => playing'
    BY <1>1
  <2>4. endPending' => endPending
    BY <1>1
  <2>. QED
    BY <1>1, <1>3, <2>2, <2>3, <2>4 DEF SpeakNow, SpeakWs
<1>6. ASSUME endPending', ~playing' \/ Wk' \in Ending PROVE Count' = Count /\ ~playing
  <2>1. ~playing /\ InHand /\ InHand'
    BY <1>1, <1>2, <1>6 DEF SpeakNow, SpeakWorker, Ending
  <2>2. Hand' = Hand
    BY <2>1 DEF Hand
  <2>. QED
    BY <1>1, <2>1, <2>2 DEF Count
<1>7. SpeakEnd'
  BY <1>1, <1>6 DEF SpeakNow, SpeakEnd
<1>. QED
  BY <1>4, <1>5, <1>7 DEF SpeakNow

LEMMA StrayStays == Typed /\ [Next]_vars /\ ~stray' => ~stray
<1>. SUFFICES ASSUME Typed, [Next]_vars, stray PROVE stray'
  BY DEF Typed, FlagType
<1>1. CASE ReceiveChunk \/ Complete \/ Disconnected \/ Connected
  BY <1>1 DEF ReceiveChunk, Complete, Disconnected, Connected
<1>2. CASE WsSteps
  BY <1>2, FinishSteps DEF WsSteps, ResetBusy, ResetQueue, FinishVars
<1>3. CASE Worker
  BY <1>3, FinishSteps, PrepareSteps DEF Worker, TakeFrame, TakeEnd, CheckPath, WriteFrame,
                                         ReturnSlot, FinishVars
<1>4. CASE Sfx \/ PlaySound
  BY <1>4, SfxSteps
<1>5. CASE UNCHANGED vars
  BY <1>5 DEF vars
<1>. QED
  BY <1>1, <1>2, <1>3, <1>4, <1>5 DEF Next

LEMMA SpeakStep == Typed /\ SlotsInv /\ SpeakInv /\ [Next]_vars => SpeakInv'
<1>. SUFFICES ASSUME Typed, SlotsInv, SpeakInv, [Next]_vars, ~torn', ~stray', failures' = 0
              PROVE  SpeakNow'
  BY DEF SpeakInv
<1>1. Partition
  BY TornStays DEF SlotsInv
<1>2. failures = 0
  <2>1. CASE ReceiveChunk \/ Complete \/ Disconnected \/ Connected
    BY <2>1 DEF ReceiveChunk, Complete, Disconnected, Connected
  <2>2. CASE WsSteps
    BY <2>2, FinishSteps DEF WsSteps, ResetBusy, ResetQueue, FinishVars, envVars
  <2>3. CASE Worker
    BY <2>3, FinishSteps, PrepareSteps DEF Worker, TakeFrame, TakeEnd, CheckPath, WriteFrame,
                                           ReturnSlot, FinishVars, envVars
  <2>4. CASE Sfx \/ PlaySound
    BY <2>4, SfxSteps
  <2>5. CASE UNCHANGED vars
    BY <2>5 DEF vars, envVars
  <2>. QED
    BY <2>1, <2>2, <2>3, <2>4, <2>5 DEF Next
<1>3. SpeakNow
  BY <1>2, TornStays, StrayStays DEF SpeakInv
<1>4. CASE ReceiveChunk
  BY <1>1, <1>3, <1>4, SpeakOfReceived
<1>5. CASE Complete
  BY <1>3, <1>5, SpeakOfCompleted
<1>6. CASE Disconnected \/ ResetQueue
  BY <1>3, <1>6, SpeakOfReset
<1>7. CASE Connected \/ ResetBusy
  BY <1>3, <1>7, SpeakOfSession
<1>8. CASE Finish("ws")
  BY <1>3, <1>8, SpeakOfWsFinish
<1>9. CASE Finish("worker")
  BY <1>3, <1>9, SpeakOfWorkerFinish
<1>10. CASE TakeFrame
  BY <1>1, <1>3, <1>10, SpeakOfTaken
<1>11. CASE TakeEnd \/ CheckPath \/ Prepare \/ WriteFrame \/ ReturnSlot
  BY <1>3, <1>11, SpeakOfWorker
<1>12. CASE Sfx \/ PlaySound \/ UNCHANGED vars
  <2>1. UNCHANGED <<pending, playing, cloudBusy, endPending, open, linkUp, Wk, Ws>>
    <3>1. CASE Sfx \/ PlaySound
      BY <3>1, SfxSteps DEF queueVars, cloudVars
    <3>2. CASE UNCHANGED vars
      BY <3>2 DEF vars, queueVars, sfxVars, envVars, cloudVars, Wk, Ws
    <3>. QED
      BY <1>12, <3>1, <3>2
  <2>2. (InHand' <=> InHand) /\ Hand' = Hand /\ Count' = Count
    BY <2>1 DEF InHand, Hand, Count, Wk
  <2>. QED
    BY <1>3, <2>1, <2>2 DEF SpeakNow, SpeakWorker, SpeakWs, SpeakEnd
<1>. QED
  BY <1>4, <1>5, <1>6, <1>7, <1>8, <1>9, <1>10, <1>11, <1>12 DEF Next, WsSteps, Worker

LEMMA InitSpeak == Init => SpeakInv
<1>. SUFFICES ASSUME Init PROVE SpeakNow
  BY DEF SpeakInv
<1>1. /\ at = [t \in {"ws", "worker", "sfx"} |-> "idle"] /\ linkUp = TRUE
      /\ playing = FALSE /\ endPending = FALSE
  BY Zenon DEF Init
<1>2. Wk = "idle" /\ Ws = "idle" /\ ~InHand
  BY <1>1 DEF Wk, Ws, InHand
<1>. QED
  BY <1>1, <1>2 DEF SpeakNow, SpeakWorker, SpeakWs, SpeakEnd

(* As long as speech plays the loudspeaker is reserved and no local sound   *)
(* accepted (ws_prepare_tts_playback, ws_finish_tts_playback,               *)
(* ws_reset_media_state), if no reset took a slot out of the worker's hand, *)
(* no LAST of no frames met the last frame of a speech before it played,    *)
(* and the audio path never failed to start.                                *)
THEOREM SpeechKeepsSpeaker == Spec => []SpeakerReserved
<1>1. SpeakInv => SpeakerReserved
  BY DEF SpeakInv, SpeakNow, SpeakerReserved, SpeakWorker
<1>. QED
  BY <1>1, InitTyped, TypedStep, InitSlots, SlotsStep, InitSpeak, SpeakStep, PTL DEF Spec

=============================================================================
