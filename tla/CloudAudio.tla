----------------------------- MODULE CloudAudio -----------------------------
(***************************************************************************)
(* The upload of recorded audio (ws_client.c): the voice task copies frames *)
(* of an utterance into slots and asks for the end marker, a worker task    *)
(* sends what is pending and then the marker, and the websocket task starts *)
(* over with every connection.                                              *)
(*                                                                          *)
(* A frame is the utterance and the number it was recorded with; counters   *)
(* and statistics are left out.  A packet is made up and sent in one step:  *)
(* a transport that was lost meanwhile refuses it.                          *)
(***************************************************************************)
EXTENDS Naturals, Sequences

CONSTANTS
    Depth,          \* WS_AUDIO_QUEUE_DEPTH
    MaxFrames,      \* bound: frames that are recorded
    MaxUtterances,  \* bound: recordings
    MaxLosses       \* bound: connections that are lost

ASSUME AudioAssumption ==
    /\ Depth \in Nat \ {0}
    /\ MaxFrames \in Nat /\ MaxUtterances \in Nat /\ MaxLosses \in Nat

Slots == 0..(Depth - 1)

VARIABLES
    free, pending,  \* s_audio_free_slots, s_audio_pending_slots
    content,        \* s_audio_frame_pool
    inflight,       \* s_audio_inflight_slot while s_audio_inflight_active: at most one slot
    sessionOpen,    \* s_audio_session_open
    firstPending,   \* s_audio_first_frame_pending
    endPending,     \* s_audio_end_pending
    pc,             \* where ws_audio_worker_task is
    slot,           \* its slot_idx
    markFirst,      \* its first_pending, and the flag of the end marker
    link,           \* the two flags of the session: "down", "connected" or "ready"
    up,             \* the transport carries packets
    recording,      \* the voice task is recording
    utterance,      \* its last recording
    recorded,       \* frames recorded so far
    wire,           \* history: packets of this connection
    ended,          \* history: the latest recording whose end marker was accepted
    wiped,          \* history: recordings whose marker was accepted behind the LAST of another
    torn,           \* ghost: where the worker was when the queues were reset
    losses          \* connections that were lost

queueVars   == <<free, pending, content, inflight>>
markVars    == <<sessionOpen, firstPending, endPending>>
workerVars  == <<pc, slot, markFirst>>
linkVars    == <<link, up, torn, losses>>
voiceVars   == <<recording, utterance, recorded>>
endVars     == <<ended, wiped>>
vars == <<queueVars, markVars, workerVars, linkVars, voiceVars, wire, endVars>>

\* Put that trusts the queue to have room
PutAlways(q, s) == Append(q, s)

\* xQueueSendToBack to the free slots, without waiting
Put(q, s) == IF Len(q) < Depth THEN Append(q, s) ELSE q

\* ws_audio_session_ready
Ready == link = "ready"

AllSlots == [i \in 1..Depth |-> i - 1]

Init ==
    /\ free = AllSlots /\ pending = <<>> /\ inflight = {}
    /\ content = [s \in Slots |-> [utterance |-> 0, number |-> 0]]
    /\ sessionOpen = FALSE /\ firstPending = FALSE /\ endPending = FALSE
    /\ pc = "idle" /\ slot = 0 /\ markFirst = FALSE
    /\ link = "down" /\ up = FALSE /\ torn = {} /\ losses = 0
    /\ recording = FALSE /\ utterance = 0 /\ recorded = 0
    /\ wire = <<>> /\ ended = 0 /\ wiped = {}
-----------------------------------------------------------------------------
(* The voice task *)

StartRecording ==
    /\ ~recording /\ utterance < MaxUtterances
    /\ recording' = TRUE /\ utterance' = utterance + 1
    /\ UNCHANGED <<queueVars, markVars, workerVars, linkVars, recorded, wire, endVars>>

\* Enqueued by xQueueSendToFront
EnqueuedInFront(q, s) == <<s>> \o q

\* xQueueSendToBack to the pending slots
Enqueued(q, s) == Append(q, s)

\* ws_send_audio behind its tests: the frame goes into slot s, which leaves the
\* slots others of the two queues.  A slot the pending queue has no room for
\* (there is one too many of it then) is given back.
Enqueue(s, others, rest) ==
    LET room == Len(rest) < Depth
    IN  /\ content' = [content EXCEPT ![s] = [utterance |-> utterance, number |-> recorded + 1]]
        /\ pending' = IF room THEN Enqueued(rest, s) ELSE rest
        /\ free' = IF room THEN others ELSE Put(others, s)
        /\ sessionOpen' = TRUE
        /\ firstPending' = (firstPending \/ ~sessionOpen)
        /\ UNCHANGED endPending

Refused == ~Ready \/ endPending \/ (free = <<>> /\ pending = <<>>)

\* ws_send_audio: refused without a session or when the end is pending; with no
\* free slot the oldest pending frame gives way.
SendAudio ==
    /\ recording /\ recorded < MaxFrames
    /\ recorded' = recorded + 1
    /\ \/ /\ Refused
          /\ UNCHANGED <<free, pending, content, markVars>>
       \/ /\ ~Refused /\ free # <<>>
          /\ Enqueue(Head(free), Tail(free), pending)
       \/ /\ ~Refused /\ free = <<>>
          /\ Enqueue(Head(pending), free, Tail(pending))
    /\ UNCHANGED <<inflight, workerVars, linkVars, recording, utterance, wire, endVars>>

\* stop_recording and ws_send_audio_end, which answers 0 whenever the session
\* is ready.  One LAST ends every recording whose marker waits for it.  A marker
\* that comes when LAST is out, but not noted yet (ws_client.c:708-713), is
\* cleared with the one it found.
SendAudioEnd ==
    /\ recording /\ recording' = FALSE
    /\ endPending' = (endPending \/ Ready)
    /\ ended' = IF Ready THEN utterance ELSE ended
    /\ wiped' = wiped \cup {u \in {utterance} : Ready /\ pc = "ended"}
    /\ UNCHANGED <<queueVars, sessionOpen, firstPending, workerVars, linkVars, utterance,
                   recorded, wire>>
-----------------------------------------------------------------------------
(* ws_audio_worker_task *)

At(from, to) == pc = from /\ pc' = to

\* under s_audio_slot_lock
TakeSlot ==
    /\ pending # <<>>
    /\ At("idle", "taken")
    /\ slot' = Head(pending) /\ pending' = Tail(pending) /\ inflight' = {Head(pending)}
    /\ UNCHANGED <<free, content, markFirst, markVars, linkVars, voiceVars, wire, endVars>>

\* under s_audio_state_lock: a frame without a session is dropped
ReadFirst ==
    /\ pc = "taken" /\ pc' = IF Ready THEN "send" ELSE "clear"
    /\ markFirst' = firstPending
    /\ UNCHANGED <<queueVars, markVars, slot, linkVars, voiceVars, wire, endVars>>

\* ws_send_audio_packet; a frame that is refused is dropped.
SendFrame ==
    /\ pc = "send"
    /\ \/ /\ up /\ Ready
          /\ wire' = Append(wire, [kind |-> "frame", of |-> content[slot], first |-> markFirst])
          /\ pc' = "sent"
       \/ /\ pc' = "clear" /\ UNCHANGED wire
    /\ UNCHANGED <<queueVars, markVars, slot, markFirst, linkVars, voiceVars, endVars>>

MarkSent ==
    /\ At("sent", "clear")
    /\ firstPending' = FALSE
    /\ UNCHANGED <<queueVars, sessionOpen, endPending, slot, markFirst, linkVars, voiceVars,
                   wire, endVars>>

\* under s_audio_slot_lock
ClearInflight ==
    /\ At("clear", "return")
    /\ inflight' = inflight \ {slot}
    /\ UNCHANGED <<free, pending, content, markVars, slot, markFirst, linkVars, voiceVars,
                   wire, endVars>>

\* under no lock
ReturnSlot ==
    /\ At("return", "idle")
    /\ free' = Put(free, slot)
    /\ UNCHANGED <<pending, content, inflight, markVars, slot, markFirst, linkVars, voiceVars,
                   wire, endVars>>

FindNothing ==
    /\ pending = <<>>
    /\ At("idle", "look")
    /\ UNCHANGED <<queueVars, markVars, slot, markFirst, linkVars, voiceVars, wire, endVars>>

\* EndDue for recordings with frames only
EndDueOpen == endPending /\ Ready /\ sessionOpen

\* Whether the end marker is due
EndDue == endPending /\ Ready

\* under s_audio_state_lock; the pending frames are not looked at again
ReadEnd ==
    /\ pc = "look" /\ pc' = IF EndDue THEN "end" ELSE "idle"
    /\ markFirst' = (firstPending \/ ~sessionOpen)
    /\ UNCHANGED <<queueVars, markVars, slot, linkVars, voiceVars, wire, endVars>>

\* A marker that is refused is tried again in the next turn.
SendEnd ==
    /\ pc = "end"
    /\ \/ /\ up /\ Ready
          /\ wire' = Append(wire, [kind |-> "last", of |-> [utterance |-> ended, number |-> 0],
                                   first |-> markFirst])
          /\ pc' = "ended"
       \/ /\ pc' = "idle" /\ UNCHANGED wire
    /\ UNCHANGED <<queueVars, markVars, slot, markFirst, linkVars, voiceVars, endVars>>

\* MarkEnded that leaves the session open
MarkEndedOpen ==
    /\ At("ended", "idle")
    /\ firstPending' = FALSE /\ endPending' = FALSE
    /\ UNCHANGED <<sessionOpen, queueVars, slot, markFirst, linkVars, voiceVars, wire, endVars>>

\* under s_audio_state_lock
MarkEnded ==
    /\ At("ended", "idle")
    /\ sessionOpen' = FALSE /\ firstPending' = FALSE /\ endPending' = FALSE
    /\ UNCHANGED <<queueVars, slot, markFirst, linkVars, voiceVars, wire, endVars>>

Worker ==
    \/ TakeSlot \/ ReadFirst \/ SendFrame \/ MarkSent \/ ClearInflight \/ ReturnSlot
    \/ FindNothing \/ ReadEnd \/ SendEnd \/ MarkEnded
-----------------------------------------------------------------------------
(* The websocket task *)

\* Reset that frees the slot the worker holds
ResetAll ==
    /\ free' = AllSlots /\ pending' = <<>>
    /\ sessionOpen' = FALSE /\ firstPending' = FALSE /\ endPending' = FALSE
    /\ torn' = torn \cup {pc}
    /\ UNCHANGED <<content, inflight>>

\* The slots in order, s left out
AllBut(s) == [i \in 1..(Depth - 1) |-> IF i - 1 < s THEN i - 1 ELSE i]

\* ws_audio_queue_reset_locked: the slot the worker holds is not free.
Reset ==
    /\ \/ inflight = {} /\ free' = AllSlots
       \/ \E s \in inflight : free' = AllBut(s)
    /\ pending' = <<>>
    /\ sessionOpen' = FALSE /\ firstPending' = FALSE /\ endPending' = FALSE
    /\ torn' = torn \cup {pc}
    /\ UNCHANGED <<content, inflight>>

\* WEBSOCKET_EVENT_CONNECTED
Connected ==
    /\ link = "down" /\ link' = "connected" /\ up' = TRUE
    /\ wire' = <<>>
    /\ Reset
    /\ UNCHANGED <<workerVars, voiceVars, endVars, losses>>

\* ws_client_mark_hello_acked
HelloAcked ==
    /\ link = "connected" /\ up /\ link' = "ready"
    /\ UNCHANGED <<queueVars, markVars, workerVars, up, torn, losses, voiceVars, wire, endVars>>

TransportLost ==
    /\ up /\ losses < MaxLosses
    /\ up' = FALSE /\ losses' = losses + 1
    /\ UNCHANGED <<queueVars, markVars, workerVars, link, torn, voiceVars, wire, endVars>>

\* WEBSOCKET_EVENT_DISCONNECTED and ws_reset_session_state
Disconnected ==
    /\ link # "down" /\ ~up /\ link' = "down"
    /\ Reset
    /\ UNCHANGED <<workerVars, up, losses, voiceVars, wire, endVars>>

Next ==
    \/ StartRecording \/ SendAudio \/ SendAudioEnd
    \/ Worker
    \/ Connected \/ HelloAcked \/ TransportLost \/ Disconnected

Spec == Init /\ [][Next]_vars

\* The worker is never without a turn, a marker tried again and again is
\* accepted by a transport that is up, and a lost transport is noticed.
EndAccepted == SendEnd /\ pc' = "ended"
Fairness == WF_vars(Worker) /\ SF_vars(EndAccepted) /\ WF_vars(Disconnected)
FairSpec == Spec /\ Fairness
-----------------------------------------------------------------------------
TypeOK ==
    /\ free \in Seq(Slots) /\ Len(free) <= Depth
    /\ pending \in Seq(Slots) /\ Len(pending) <= Depth
    /\ inflight \subseteq Slots /\ slot \in Slots
    /\ {sessionOpen, firstPending, endPending, markFirst, up, recording} \subseteq BOOLEAN
    /\ pc \in {"idle", "taken", "send", "sent", "clear", "return", "look", "end", "ended"}
    /\ link \in {"down", "connected", "ready"}
    /\ utterance \in 0..MaxUtterances /\ recorded \in 0..MaxFrames
    /\ ended \in 0..utterance /\ wiped \subseteq 1..utterance
    /\ \A i \in 1..Len(wire) : wire[i].kind \in {"frame", "last"} /\ wire[i].first \in BOOLEAN

\* The slot of the worker, before it is returned
Held == IF pc \in {"taken", "send", "sent", "clear", "return"} THEN <<slot>> ELSE <<>>

\* Every slot is in exactly one place, or a frame would be overwritten before
\* it is sent.  (A connection that begins or ends between the two steps in
\* which the worker gives a slot back frees that slot twice.)
SlotsKept ==
    "return" \notin torn =>
        LET places == free \o pending \o Held
        IN  /\ Len(places) = Depth
            /\ \A s \in Slots : \E i \in 1..Depth : places[i] = s

IsFrame(i) == wire[i].kind = "frame"

\* The frames of a connection arrive in the order they were recorded, none
\* twice, whatever was evicted, dropped or refused in between.
FramesInOrder ==
    "return" \notin torn =>
        \A i, j \in 1..Len(wire) :
            i < j /\ IsFrame(i) /\ IsFrame(j) => wire[i].of.number < wire[j].of.number

\* No frame follows the marker that ends its recording (ws_send_audio_end,
\* COMM_PROTOCOL_FREEZE.md:246).  The worker sends the marker over frames that
\* came after it last looked.
NothingBehindLast ==
    \A i, j \in 1..Len(wire) :
        i < j /\ ~IsFrame(i) /\ IsFrame(j) => wire[i].of.utterance < wire[j].of.utterance

\* Resets that find no packet in the worker's hand, and no slot it gives back
Clean == torn \subseteq {"idle", "look", "clear"}

\* FIRST marks the packets that begin a recording's stream and no others:
\* the first of the connection and those behind an end marker, unless the
\* marker overtook frames or a connection began or ended in the middle of a
\* packet.  (A slot that is freed twice is overwritten while its frame is sent,
\* behind the worker's look at the flag.)
FirstBegins ==
    Clean /\ NothingBehindLast =>
        \A i \in 1..Len(wire) : wire[i].first <=> (i = 1 \/ ~IsFrame(i - 1))

\* An end marker that was accepted is sent, even when no frame was: the LAST of
\* its recording, or of a later one whose marker joined it.  Excepted are a
\* connection that goes (or one that came just when another marker was sent) and
\* the marker that is cleared behind another LAST, which the document of the
\* protocol does not allow for (COMM_PROTOCOL_FREEZE.md:120).
LastSent(u) == \E i \in 1..Len(wire) : ~IsFrame(i) /\ u <= wire[i].of.utterance
EndIsSent ==
    \A u \in 1..MaxUtterances :
        (endPending /\ ended = u) ~>
            (LastSent(u) \/ link # "ready" \/ u \in wiped \/ torn \cap {"end", "ended"} # {})
=============================================================================
