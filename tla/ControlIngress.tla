--------------------------- MODULE ControlIngress ---------------------------
(***************************************************************************)
(* What asks the behaviour service for states and takes the head away from *)
(* it (control_ingress.c, and the touch handler of app_main.c): AI states  *)
(* of the cloud and states set over BLE wait in a queue for the            *)
(* control_state task; the voice service asks directly; manual commands of *)
(* the WebSocket and BLE tasks interrupt the action that plays; a touch    *)
(* asks for its own state when nothing else is going on.                   *)
(***************************************************************************)
EXTENDS BehaviorState

CONSTANTS
    Messages,         \* what is posted to the control_state task
    DirectRequests,   \* what other tasks ask the behaviour service for
    TouchRequest,     \* TOUCH_FONDLE_STATE_ID with its action
    StateQueueDepth   \* CONTROL_STATE_QUEUE_DEPTH

\* control_state_msg_t.  The candidates of an AI status are the names it is
\* looked up by: its action_file, its status, the fallback for the status.
ASSUME MessageAssumption ==
    /\ \A m \in Messages :
        /\ m.kind \in {"status", "set", "text"}
        /\ m.candidates \in Seq(Names) /\ m.text \in Texts \cup {NoText}
        /\ m.sound \in {"default", "silent", "own"}
    /\ DirectRequests \subseteq Request /\ TouchRequest \in Request
    /\ Default \in Names
    /\ StateQueueDepth \in Nat \ {0}

VARIABLES
    stateQueue,  \* s_state_queue
    touch,       \* the touch handler: "idle" or "passed", between its tests and its request
    latched,     \* s_touch_fondle_press_latched
    suppressed   \* esp_timer_get_time() < s_manual_touch_suppressed_until_us

cvars == <<stateQueue, touch, latched, suppressed>>
vars == <<bvars, cvars>>

CInit ==
    /\ Init
    /\ stateQueue = <<>>
    /\ touch = "idle" /\ latched = FALSE /\ suppressed = FALSE
-----------------------------------------------------------------------------
\* control_submit_state_msg: the message is refused (ESP_ERR_TIMEOUT) when the
\* queue is full.
Post(m) ==
    /\ stateQueue' = IF Len(stateQueue) < StateQueueDepth THEN Append(stateQueue, m)
                     ELSE stateQueue
    /\ UNCHANGED <<bvars, touch, latched, suppressed>>

\* Whether behavior_state_set_with_resources_and_action answers
\* ESP_ERR_NOT_FOUND: it only queues the request, and never does.
AnswersNotFound(name) == FALSE

\* control_apply_ai_status: the first candidate that is an action file is
\* played, and the first that is not answered ESP_ERR_NOT_FOUND is the state.
ActionOf(m) ==
    LET files == {i \in DOMAIN m.candidates : m.candidates[i] \in Actions}
    IN  IF files = {} THEN NoName
        ELSE m.candidates[CHOOSE i \in files : \A j \in files : i <= j]

StateOf(m) ==
    LET tried == {i \in DOMAIN m.candidates : ~AnswersNotFound(m.candidates[i])}
    IN  IF tried = {} THEN Default
        ELSE m.candidates[CHOOSE i \in tried : \A j \in tried : i <= j]

MessageRequest(m) ==
    [state |-> StateOf(m), action |-> IF m.kind = "status" THEN ActionOf(m) ELSE NoName,
     text |-> m.text, sound |-> m.sound]

\* control_state_task: a message with a state asks for it, one with a text
\* alone writes it over the state that plays.  A message it has taken counts as
\* queued until it is applied.
ApplyMessage ==
    /\ stateQueue # <<>>
    /\ stateQueue' = Tail(stateQueue)
    /\ LET m == Head(stateQueue)
       IN  IF m.kind = "text" /\ m.candidates = <<>> THEN SetText(m.text)
           ELSE Submit(MessageRequest(m))
    /\ UNCHANGED <<touch, latched, suppressed>>

\* The voice service asks the behaviour service itself.
Direct(r) == Submit(r) /\ UNCHANGED cvars

\* control_ingress_submit_servo, _jog, _jog_vector and _stop_manual: the touch
\* sensor is left out of account for a while and the action is interrupted;
\* the motion that is then sent is the link's business.
ManualTakes ==
    /\ suppressed' = TRUE
    /\ Interrupt
    /\ UNCHANGED <<stateQueue, touch, latched>>

\* CONTROL_MANUAL_TOUCH_SUPPRESS_MS have passed since the last command.
SuppressionEnds ==
    /\ suppressed /\ suppressed' = FALSE
    /\ UNCHANGED <<bvars, stateQueue, touch, latched>>

\* behavior_state_is_action_active and behavior_state_is_busy
ActionActive == ctx.action # NoName /\ ctx.actionElapsed < Total(ctx.action)
Busy == ctx.sfx \/ ctx.state # Default

\* maybe_handle_touch_behavior_event for a press: the press is latched even
\* when a behaviour keeps it from being answered.
TouchPress ==
    /\ touch = "idle"
    /\ latched' = (latched \/ ~suppressed)
    /\ touch' = IF ~suppressed /\ ~latched /\ ~ActionActive /\ ~Busy THEN "passed" ELSE "idle"
    /\ UNCHANGED <<bvars, stateQueue, suppressed>>

TouchAsks ==
    /\ touch = "passed" /\ touch' = "idle"
    /\ Submit(TouchRequest)
    /\ UNCHANGED <<stateQueue, latched, suppressed>>

\* A press whose release was lost is answered by no later press, until a
\* release arrives.
TouchRelease ==
    /\ touch = "idle" /\ latched /\ latched' = FALSE
    /\ UNCHANGED <<bvars, stateQueue, touch, suppressed>>

TickWith(outcome) == Tick(outcome) /\ UNCHANGED cvars
DrainQueue == Drain /\ UNCHANGED cvars
ShowState == Show /\ UNCHANGED cvars
Clock == TimePasses /\ UNCHANGED cvars
SoundEnds == SfxEnds /\ UNCHANGED cvars

Next ==
    \/ \E m \in Messages : Post(m)
    \/ ApplyMessage
    \/ \E r \in DirectRequests : Direct(r)
    \/ ManualTakes \/ SuppressionEnds
    \/ TouchPress \/ TouchAsks \/ TouchRelease
    \/ DrainQueue \/ ShowState \/ Clock \/ SoundEnds
    \/ \E outcome \in Outcomes : TickWith(outcome)

Spec == CInit /\ [][Next]_vars

\* The turn of behavior_task: Drain, Tick and Show are the steps that make it.
TaskTurn ==
    \/ pc = "drain" /\ pc' = "tick"
    \/ pc = "tick" /\ pc' = "show"
    \/ pc = "show" /\ pc' = "drain"

\* Both tasks run whenever they have something to do, sounds come to an end
\* and the clock goes on.
Fairness ==
    /\ WF_pc(TaskTurn)
    /\ WF_vars(ApplyMessage)
    /\ WF_vars(Clock) /\ WF_vars(SoundEnds)

FairSpec == Spec /\ Fairness
-----------------------------------------------------------------------------
\* Every variable keeps its type, and the clocks and counters their bounds.
TypeOK ==
    /\ request \in Seq(Request) /\ Len(request) <= 1
    /\ drained \in Seq(Request) /\ Len(drained) <= 1
    /\ pc \in {"drain", "tick", "show"}
    /\ ctx.live \in BOOLEAN /\ ctx.state \in States /\ ctx.action \in Actions \cup {NoName}
    /\ ctx.elapsed \in 0..Horizon /\ ctx.actionElapsed \in 0..Horizon
    /\ ctx.next \in [Tracks -> Nat] /\ \A t \in Tracks : ctx.next[t] <= Count(ctx.state, t)
    /\ ctx.nextAction \in 0..MotionCount(ctx.action)
    /\ ctx.text \in Texts \cup {NoText} /\ ctx.sound \in {"default", "silent", "own"}
    /\ ctx.wait \in BOOLEAN /\ ctx.sfx \in BOOLEAN /\ Len(ctx.show) <= 1
    /\ screen \in States /\ refused \in BOOLEAN
    /\ made \in 0..MaxRequests
    /\ Len(stateQueue) <= StateQueueDepth
    /\ touch \in {"idle", "passed"}
    /\ {latched, suppressed} \subseteq BOOLEAN

\* Since the timeline that moves the head last began, with a state, an action or
\* a turn of its loop, the head was sent the motions of this timeline only, that
\* of the action or that of the state without one, each once and in order from
\* the first (behavior_dispatch_due_events_locked, across restarts, loops and
\* manual interrupts).
MotionsInOrder ==
    ctx.sent = IF ctx.action = NoName
               THEN [NothingSent EXCEPT !.state = Sent(0, ctx.next["motion"])]
               ELSE [NothingSent EXCEPT !.action = Sent(0, ctx.nextAction)]

\* Once the task has shown what it captured under the lock, the screen shows
\* the state that plays, or the display refused the very last drawing: one turn
\* may capture a state and then, as it is over, the default one, only the last
\* capture counts, and one drawing that succeeds makes up for every refusal
\* before (behavior_apply_display_request after the unlock).
ScreenFollowsState ==
    pc = "drain" /\ ctx.live /\ ctx.next["expression"] > 0 => screen = ctx.state \/ refused

\* The last request made is played, unless a later one takes its place: the
\* queue of one place and the state that runs lose no request
\* (behavior_submit_state_request, behavior_task).
Asked == DirectRequests \cup {TouchRequest} \cup {MessageRequest(m) : m \in Messages}
Wanted(r) == Runs(r.state, Found(r.action))

RequestApplied ==
    \A p \in {Wanted(r) : r \in {q \in Asked : q.state \in States}} :
        LET Latest == newest # <<>> /\ Wanted(newest[1]) = p
        IN  (request # <<>> /\ Latest) ~> ~Latest \/ Runs(ctx.state, ctx.action) = p

\* A state that neither loops nor holds gives way once its events and its
\* sound are over, whatever is interrupted, refreshed or overridden meanwhile
\* (behavior_task, its branch for states that do not loop).
OneShots == {s \in States \ {Default} : ~Catalog[s].loop /\ ~Catalog[s].hold}
OneShotEnds == \A s \in OneShots : (ctx.live /\ ctx.state = s) ~> ctx.state # s

\* The states an AI status may name are looked up in the order action_file,
\* status, fallback: its request is not dropped while one of them is a state
\* (COMM_PROTOCOL_FREEZE.md:135).  The code never tries the second one.
FallbackTried ==
    [][ stateQueue # <<>> /\ stateQueue' = Tail(stateQueue) /\ Head(stateQueue).kind = "status" =>
          ((\E i \in DOMAIN Head(stateQueue).candidates : Head(stateQueue).candidates[i] \in States) =>
             newest'[1].state \in States) ]_vars
=============================================================================
