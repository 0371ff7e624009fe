--------------------------- MODULE BehaviorState ---------------------------
(***************************************************************************)
(* The behaviour service of the head (behavior_state_service.c, with       *)
(* behavior_scheduler.c and behavior_executor.c): any task may request a   *)
(* state of the catalogue; one task plays the state's timelines (servo     *)
(* motions, expressions on the screen, sounds) and those of the action     *)
(* played over it; a manual command interrupts the action.                 *)
(*                                                                         *)
(* Time is counted in ticks since the state and the action began, and      *)
(* stands still at Horizon, past every time of the catalogues.  Angles,    *)
(* fonts and the texts themselves are left out: a request's "text" stands  *)
(* for all that it overrides on the screen.                                *)
(***************************************************************************)
EXTENDS Naturals, Sequences

CONSTANTS
    Catalog,        \* the states of states.json, by name
    ActionCatalog,  \* the action files, by name
    Default,        \* default_state
    Names,          \* names a caller may ask for, in the catalogues or not
    Texts,          \* what a request may override on the screen
    NoName, NoText,
    DefaultHold,    \* BEHAVIOR_DEFAULT_ONESHOT_HOLD_MS
    LookAhead,      \* BEHAVIOR_SCHEDULER_ACTION_MOTION_LOOKAHEAD_MS
    Horizon,        \* bound: clocks stand still here
    MaxRequests     \* bound: requests that are made

States == DOMAIN Catalog
Actions == DOMAIN ActionCatalog

Tracks == {"motion", "expression", "sound"}

ASSUME CatalogAssumption ==
    /\ Default \in States /\ NoName \notin Names /\ NoText \notin Texts
    /\ \A s \in States :
        /\ \A t \in Tracks : Catalog[s][t] \in Seq(Nat)
        /\ Catalog[s].end \in Nat /\ Catalog[s].loop \in BOOLEAN /\ Catalog[s].hold \in BOOLEAN
    /\ \A a \in Actions :
        /\ ActionCatalog[a].motion \in Seq([at : Nat, lasts : Nat])
        /\ ActionCatalog[a].total \in Nat
    /\ NoName \notin Actions
    /\ DefaultHold \in Nat /\ LookAhead \in Nat /\ Horizon \in Nat /\ MaxRequests \in Nat

\* behavior_state_request_t.  The sound is the state's own, none, or one the
\* request brings.
Request == [state : Names, action : Names \cup {NoName}, text : Texts \cup {NoText},
            sound : {"default", "silent", "own"}]

\* What the sounds that are asked for come to.  A request's own sound plays,
\* finds the speaker taken by speech (ESP_ERR_INVALID_STATE) or is missing; a
\* sound of the state plays or does not.
Outcomes == [own : {"plays", "taken", "missing"}, plays : BOOLEAN]

VARIABLES
    request,    \* request_queue: a sequence of at most one request
    drained,    \* what behavior_task took from it: a sequence of at most one request
    pc,         \* where behavior_task is: "drain", "tick" or "show"
    ctx,        \* s_ctx, the display_request of behavior_task, and
                \* whether the player of local sounds is busy
    screen,     \* the state whose expression is shown
    refused,    \* history: the display refused the last drawing it was asked for
    made,       \* number of requests made so far
    newest      \* ghost: the last request made, or none

bvars == <<request, drained, pc, ctx, screen, refused, made, newest>>

Count(s, t) == Len(Catalog[s][t])
MotionCount(a) == IF a = NoName THEN 0 ELSE Len(ActionCatalog[a].motion)
Total(a) == IF a = NoName THEN 0 ELSE ActionCatalog[a].total

\* The first place from n + 1 on whose event may not be dispatched yet,
\* less one: the scheduler stops there, later events wait behind it.
FirstStop(n, due) ==
    LET len == Len(due)
    IN  CHOOSE m \in n..len : (\A i \in (n + 1)..m : due[i]) /\ (m < len => ~due[m + 1])

\* action_motion_can_prequeue: a motion without a gap before it is sent a
\* little ahead of its time.
MotionDue(c, i) ==
    LET motion == ActionCatalog[c.action].motion
    IN  \/ motion[i].at <= c.actionElapsed
        \/ /\ i > 1
           /\ motion[i - 1].at + motion[i - 1].lasts >= motion[i].at
           /\ motion[i].at <= c.actionElapsed + LookAhead

\* StateDue without the action's precedence over the state's motions
StateDueUnderAction(c, t) ==
    LET due == [i \in 1..Count(c.state, t) |-> Catalog[c.state][t][i] <= c.elapsed]
    IN  IF c.next[t] > Count(c.state, t) THEN c.next[t]
        ELSE FirstStop(c.next[t], due)

\* behavior_scheduler_collect_due_events for one track of the state
StateDue(c, t) ==
    LET due == [i \in 1..Count(c.state, t) |-> Catalog[c.state][t][i] <= c.elapsed]
    IN  IF t = "motion" /\ c.action # NoName THEN c.next[t]
        ELSE IF c.next[t] > Count(c.state, t) THEN c.next[t]
        ELSE FirstStop(c.next[t], due)

ActionDue(c) ==
    LET due == [i \in 1..MotionCount(c.action) |-> MotionDue(c, i)]
    IN  IF c.action = NoName THEN c.nextAction
        ELSE FirstStop(c.nextAction, due)

\* Capture that leaves alone what the same turn captured before
CaptureOnce(c) == IF c.show = <<>> THEN [c EXCEPT !.show = <<c.state>>] ELSE c

\* behavior_capture_display_request_locked, which takes the state's first
\* expression whichever is due
Capture(c) == [c EXCEPT !.show = <<c.state>>]

\* The motions of a timeline that are sent when its place moves on.  One that
\* the servo's lane refuses is only logged, and counts as sent.
Sent(from, to) == [i \in 1..(to - from) |-> from + i]
NothingSent == [state |-> <<>>, action |-> <<>>]

\* behavior_dispatch_due_events_locked: the loop over
\* BEHAVIOR_SCHEDULER_COMMAND_CAPACITY dispatches all that is due.  It waits
\* for the speaker once a sound of the state plays.
Dispatch(c, outcome) ==
    LET upto == [t \in Tracks |-> StateDue(c, t)]
        act  == ActionDue(c)
        plays == upto["sound"] > c.next["sound"] /\ outcome.plays
        d    == [c EXCEPT !.next = upto, !.nextAction = act,
                          !.sent = [state |-> @.state \o Sent(c.next["motion"], upto["motion"]),
                                    action |-> @.action \o Sent(c.nextAction, act)],
                          !.wait = @ \/ plays, !.sfx = @ \/ plays]
    IN  IF ~c.live THEN c
        ELSE IF \/ upto["expression"] > c.next["expression"]
                \/ Count(c.state, "expression") = 0 /\ c.text # NoText
        THEN Capture(d) ELSE d

\* behavior_apply_sound_override_locked: whether the state's own sounds are
\* left out
Suppresses(r, outcome) == r.sound = "silent" \/ (r.sound = "own" /\ outcome.own # "missing")
OwnPlays(r, outcome) == r.sound = "own" /\ outcome.own = "plays"

SoundCount(c) == IF c.live THEN Count(c.state, "sound") ELSE 0

\* A request that only changes what is overridden: behavior_schedule_state_locked
\* for the state and action that already run
Refreshed(c, r, outcome) ==
    Capture([c EXCEPT !.text = r.text, !.sound = r.sound,
                      !.wait = @ \/ OwnPlays(r, outcome),
                      !.sfx = @ \/ OwnPlays(r, outcome),
                      !.next["sound"] = IF Suppresses(r, outcome) THEN SoundCount(c) ELSE @])

Runs(s, a) == [state |-> s, action |-> a]

\* behavior_schedule_state_locked from its cancel on: the motions sent so far
\* are stopped, every timeline starts over.
Restarted(c, s, a, r, outcome) ==
    LET d == [live |-> TRUE, state |-> s, action |-> a, elapsed |-> 0, actionElapsed |-> 0,
              next |-> [t \in Tracks |-> IF t = "sound" /\ Suppresses(r, outcome)
                                         THEN Count(s, "sound") ELSE 0],
              nextAction |-> 0, text |-> r.text, sound |-> r.sound,
              wait |-> OwnPlays(r, outcome), sfx |-> c.sfx \/ OwnPlays(r, outcome),
              show |-> c.show, sent |-> NothingSent]
    IN  Dispatch(d, outcome)

Found(a) == IF a \in Actions THEN a ELSE NoName

\* behavior_schedule_state_locked; a name that is no state changes nothing.
Scheduled(c, r, outcome) ==
    LET a == Found(r.action)
    IN  IF r.state \notin States THEN c
        ELSE IF Runs(c.state, c.action) # Runs(r.state, a)
        THEN Restarted(c, r.state, a, r, outcome)
        ELSE IF c.text = r.text /\ c.sound = r.sound THEN c
        ELSE Refreshed(c, r, outcome)

DefaultRequest == [state |-> Default, action |-> NoName, text |-> NoText, sound |-> "default"]

\* behavior_scheduler_all_state_events_dispatched / ..._action_...
AllDispatched(c) ==
    /\ \A t \in Tracks : (t = "motion" /\ c.action # NoName) \/ c.next[t] >= Count(c.state, t)
    /\ c.nextAction >= MotionCount(c.action)

\* behavior_scheduler_action_should_loop and the test in behavior_task
ActionLoops(c) ==
    /\ c.action # NoName
    /\ Catalog[c.state].loop \/ Catalog[c.state].hold
    /\ Total(c.action) > 0
    /\ c.nextAction >= MotionCount(c.action)
    /\ c.actionElapsed >= Total(c.action)

LoopAction(c, outcome) ==
    IF ActionLoops(c)
    THEN Dispatch([c EXCEPT !.actionElapsed = 0, !.nextAction = 0,
                            !.sent = [@ EXCEPT !.action = <<>>]], outcome)
    ELSE c

StateLoops(c) ==
    /\ Catalog[c.state].loop /\ Catalog[c.state].end > 0
    /\ AllDispatched(c)
    /\ c.elapsed >= Catalog[c.state].end
    /\ c.actionElapsed >= Total(c.action)

\* The sounds of a state are played once, not at each turn of its loop.
LoopState(c, outcome) ==
    IF StateLoops(c)
    THEN Dispatch([c EXCEPT !.elapsed = 0,
                            !.next = [t \in Tracks |-> IF t = "sound" THEN Count(c.state, "sound")
                                                       ELSE 0],
                            !.sent = [@ EXCEPT !.state = <<>>]], outcome)
    ELSE c

\* behavior_scheduler_non_loop_done_at_ms
DoneAt(c) ==
    LET ends == IF Catalog[c.state].end > 0 THEN Catalog[c.state].end ELSE DefaultHold
    IN  IF Total(c.action) > ends THEN Total(c.action) ELSE ends

\* OneShotDone that waits for a sound without asking whether it still plays
OneShotDoneUnheard(c) ==
    ~Catalog[c.state].loop /\ AllDispatched(c) /\ c.elapsed >= DoneAt(c) /\ ~c.wait

OneShotDone(c) ==
    /\ ~Catalog[c.state].loop
    /\ AllDispatched(c)
    /\ c.elapsed >= DoneAt(c)
    /\ ~(c.wait /\ c.sfx)

\* The states and the actions follow their timelines: the part of
\* behavior_task under the lock that follows the request.
Played(c, outcome) ==
    LET d == LoopAction(Dispatch(c, outcome), outcome)
    IN  IF ~c.live THEN c
        ELSE IF Catalog[c.state].loop THEN LoopState(d, outcome)
        ELSE IF OneShotDone(d) /\ ~Catalog[c.state].hold
        THEN Scheduled(d, DefaultRequest, outcome)
        ELSE d
-----------------------------------------------------------------------------
\* behavior_reset_runtime_locked: the default state is named but not playing.
Init ==
    /\ request = <<>> /\ drained = <<>> /\ pc = "drain"
    /\ ctx = [live |-> FALSE, state |-> Default, action |-> NoName,
              elapsed |-> 0, actionElapsed |-> 0,
              next |-> [t \in Tracks |-> 0], nextAction |-> 0,
              text |-> NoText, sound |-> "default", wait |-> FALSE, sfx |-> FALSE,
              show |-> <<>>, sent |-> NothingSent]
    /\ screen = Default /\ refused = FALSE /\ made = 0 /\ newest = <<>>

\* Submit that drops the request when another waits
SubmitIfFree(r) ==
    /\ made < MaxRequests
    /\ request' = (IF request = <<>> THEN <<r>> ELSE request)
    /\ newest' = <<r>> /\ made' = made + 1
    /\ UNCHANGED <<drained, pc, ctx, screen, refused>>

\* behavior_submit_state_request: xQueueOverwrite into a queue of one place.
\* It says ESP_OK whether or not the state exists.
Submit(r) ==
    /\ made < MaxRequests
    /\ request' = <<r>> /\ newest' = <<r>> /\ made' = made + 1
    /\ UNCHANGED <<drained, pc, ctx, screen, refused>>

\* behavior_task empties the queue before it takes the lock.
Drain ==
    /\ pc = "drain"
    /\ pc' = "tick" /\ drained' = request /\ request' = <<>>
    /\ UNCHANGED <<ctx, screen, refused, made, newest>>

\* behavior_task under the lock
Tick(outcome) ==
    /\ pc = "tick"
    /\ LET c == IF drained = <<>> THEN ctx ELSE Scheduled(ctx, drained[1], outcome)
       IN  ctx' = Played(c, outcome)
    /\ pc' = "show" /\ drained' = <<>>
    /\ UNCHANGED <<request, screen, refused, made, newest>>

\* behavior_apply_display_request, after the unlock.  The display may refuse the
\* text or the picture (display_update_with_style), which is only logged: the
\* old picture stays until the next expression is due.
Show ==
    /\ pc = "show"
    /\ \/ ctx.show = <<>> /\ UNCHANGED <<screen, refused>>
       \/ ctx.show # <<>> /\ screen' = ctx.show[1] /\ refused' = FALSE
       \/ ctx.show # <<>> /\ refused' = TRUE /\ UNCHANGED screen
    /\ ctx' = [ctx EXCEPT !.show = <<>>]
    /\ pc' = "drain"
    /\ UNCHANGED <<request, drained, made, newest>>

\* behavior_state_set_text_style: the override under the lock, and the screen
\* after it, whose text is left out here
SetText(t) ==
    /\ ctx' = [ctx EXCEPT !.text = t]
    /\ UNCHANGED <<request, drained, pc, screen, refused, made, newest>>

\* Interrupt that forgets to start the action's timeline over
InterruptKeepsPlace ==
    /\ ctx' = IF ctx.action = NoName THEN ctx
              ELSE [ctx EXCEPT !.action = NoName, !.actionElapsed = 0, !.sent = NothingSent]
    /\ UNCHANGED <<request, drained, pc, screen, refused, made, newest>>

\* behavior_state_interrupt_action.  Nothing is cancelled when no action runs.
Interrupt ==
    /\ ctx' = IF ctx.action = NoName THEN ctx
              ELSE [ctx EXCEPT !.action = NoName, !.nextAction = 0, !.actionElapsed = 0,
                               !.sent = NothingSent]
    /\ UNCHANGED <<request, drained, pc, screen, refused, made, newest>>

Later(n) == IF n < Horizon THEN n + 1 ELSE n

TimePasses ==
    /\ ctx.elapsed < Horizon \/ ctx.actionElapsed < Horizon
    /\ ctx' = [ctx EXCEPT !.elapsed = Later(@), !.actionElapsed = Later(@)]
    /\ UNCHANGED <<request, drained, pc, screen, refused, made, newest>>

\* The player of local sounds (sfx_service.c) comes to the end of a sound.
SfxEnds ==
    /\ ctx.sfx /\ ctx' = [ctx EXCEPT !.sfx = FALSE]
    /\ UNCHANGED <<request, drained, pc, screen, refused, made, newest>>
=============================================================================
