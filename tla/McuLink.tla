------------------------------ MODULE McuLink ------------------------------
(***************************************************************************)
(* The link between the head (ESP32) and the co-processor (STM32): the     *)
(* head's link state machine (mcu_link_fsm.c), the bootstrap that sends    *)
(* HELLO_REQ and retries it (mcu_link_bootstrap.c), the frame handler      *)
(* (mcu_link.c), the main loop that dispatches what it returned            *)
(* (app_main.c), and the co-processor's answer (coproc_dispatch.c), over   *)
(* two wires that lose frames and with either side restarting.             *)
(*                                                                         *)
(* Polling a frame and dispatching its event are two steps: in between,    *)
(* tasks on the other core ask whether the link is ready.  The two timers  *)
(* of the bootstrap are abstracted to their age: "none" (zero), "fresh"    *)
(* (running) or "old" (the interval has passed).                           *)
(***************************************************************************)
EXTENDS Naturals, Sequences

CONSTANTS
  MaxWire,      \* bound: frames under way in one direction
  Loss,         \* may a frame be lost or damaged on the wire?
  TxFaults,     \* may the head's UART driver refuse a frame?
  MaxRestarts,  \* bound: restarts of the head and of the co-processor
  MaxFaults     \* bound: communication FAULTs and HELLO_RSPs of another profile

ASSUME LinkAssumption ==
  /\ MaxWire \in Nat \ {0, 1}
  /\ Loss \in BOOLEAN
  /\ TxFaults \in BOOLEAN
  /\ MaxRestarts \in Nat
  /\ MaxFaults \in Nat

VARIABLES
  state,       \* link->fsm.state
  synced,      \* link->fsm.baseline_synced
  firstHello,  \* age of s_first_hello_req_us against the 5 s of the display
  lastHello,   \* age of s_last_hello_req_us against the retry interval
  event,       \* the event the poll returned and the main loop is to dispatch
  toStm,       \* frames under way to the co-processor
  toHead,      \* frames under way to the head
  stmUp,       \* the co-processor runs
  wasReady,    \* history: the link has been ready since the head started
  restarts,    \* restarts so far
  faults       \* faults so far

headVars == <<state, synced, firstHello, lastHello, event, wasReady>>
vars == <<state, synced, firstHello, lastHello, event, toStm, toHead, stmUp,
          wasReady, restarts, faults>>

(* RECOVERING is left out: nothing calls mcu_link_begin_recovery.          *)
States  == {"DOWN", "HANDSHAKING", "LINK_READY", "READY", "DEGRADED"}
Ages    == {"none", "fresh", "old"}

(* An ACK stands for every other frame that only yields an event.          *)
Replies == {"ACK", "NACK", "HELLO_RSP", "OTHER_PROFILE", "FAULT"}
Shaking == {"HANDSHAKING", "DEGRADED"}

-----------------------------------------------------------------------------
(* The wires *)

Room(wire, n) == Len(wire) + n <= MaxWire

(* What may be under way after f was put on the wire. *)
Carried(wire, f) == {Append(wire, f)} \cup (IF Loss THEN {wire} ELSE {})

(* mcu_link_is_ready: what the motion, LED and power services ask for. *)
IsReady == state = "READY" /\ synced

(* should_show_stm32_handshake_failure *)
TimedOut == state \in Shaking /\ firstHello = "old"

-----------------------------------------------------------------------------
(* The head *)

Init ==
  /\ state = "DOWN"
  /\ synced = FALSE
  /\ firstHello = "none"
  /\ lastHello = "none"
  /\ event = "NONE"
  /\ toStm = <<>>
  /\ toHead = <<>>
  /\ stmUp \in BOOLEAN
  /\ wasReady = FALSE
  /\ restarts = 0
  /\ faults = 0

(* Mutant: every retry starts the display's timeout again. *)
FirstHelloAlways == firstHello' = "fresh"

(* When the first hello of this handshake went out: kept over retries. *)
FirstHello ==
  firstHello' = IF firstHello = "none" \/ state \notin Shaking
                THEN "fresh" ELSE firstHello

(* mcu_link_bootstrap_send_hello_req; the state changes before the write. *)
HelloSent ==
  /\ Room(toStm, 1)
  /\ state' = "HANDSHAKING"
  /\ synced' = FALSE
  /\ \E wire \in Carried(toStm, "HELLO") : toStm' = wire
  /\ lastHello' = "fresh"
  /\ FirstHello

HelloRefused ==
  /\ TxFaults
  /\ state' = "HANDSHAKING"
  /\ synced' = FALSE
  /\ UNCHANGED <<firstHello, lastHello, toStm>>

SendHello ==
  /\ HelloSent \/ HelloRefused
  /\ UNCHANGED <<event, toHead, stmUp, wasReady, restarts, faults>>

(* mcu_link_bootstrap_start, once after the UART was opened. *)
Start == state = "DOWN" /\ SendHello

RetryDue == state \in Shaking /\ lastHello # "fresh"

(* A poll that found no frame and sends the hello again. *)
Retry == event = "NONE" /\ RetryDue /\ SendHello

(* Mutant: a repeated HELLO_RSP is handled like the first. *)
HandleAnyHelloRsp ==
  /\ state' = "LINK_READY"
  /\ synced' = FALSE
  /\ event' = "HELLO_RSP"

(* Mutant: a HELLO_RSP that comes while degraded is not reported. *)
HandleHelloRspQuietly ==
  /\ state' = IF state = "READY" THEN state ELSE "LINK_READY"
  /\ synced' = (state = "READY" /\ synced)
  /\ event' = IF state = "DEGRADED" THEN "NONE" ELSE "HELLO_RSP"

(* A HELLO_RSP changes a link that is not ready; it is reported always. *)
HandleHelloRsp ==
  /\ IF state = "READY"
     THEN UNCHANGED <<state, synced>>
     ELSE state' = "LINK_READY" /\ synced' = FALSE
  /\ event' = "HELLO_RSP"

(* Mutant: the degraded link still counts as synchronised. *)
DegradeKeepsSynced == state' = "DEGRADED" /\ UNCHANGED synced

Degrade == state' = "DEGRADED" /\ synced' = FALSE

(* Mutant: every NACK degrades the link. *)
HandleAnyNack == Degrade /\ event' = "NACK"

(* A NACK of anything degrades a link that is shaking hands. *)
HandleNack ==
  /\ IF state = "HANDSHAKING" THEN Degrade ELSE UNCHANGED <<state, synced>>
  /\ event' = "NACK"

(* Mutant: a HELLO_RSP of an unknown profile is reported all the same. *)
HandleFrameReportsAll(f) ==
  \/ f = "HELLO_RSP" /\ HandleHelloRsp
  \/ f = "NACK" /\ HandleNack
  \/ f \in {"FAULT", "OTHER_PROFILE"} /\ Degrade /\ event' = f
  \/ f = "ACK" /\ event' = "ACK" /\ UNCHANGED <<state, synced>>

(* mcu_link_handle_frame: a HELLO_RSP of an unknown profile degrades the   *)
(* link and is not reported, a communication FAULT degrades it and is.     *)
HandleFrame(f) ==
  \/ f = "HELLO_RSP" /\ HandleHelloRsp
  \/ f = "NACK" /\ HandleNack
  \/ f = "FAULT" /\ Degrade /\ event' = "FAULT"
  \/ f = "OTHER_PROFILE" /\ Degrade /\ event' = "NONE"
  \/ f = "ACK" /\ event' = "ACK" /\ UNCHANGED <<state, synced>>

(* mcu_link_poll finds a frame. *)
Receive ==
  /\ state # "DOWN" /\ event = "NONE"
  /\ toHead # <<>>
  /\ toHead' = Tail(toHead)
  /\ HandleFrame(Head(toHead))
  /\ UNCHANGED <<firstHello, lastHello, toStm, stmUp, wasReady, restarts, faults>>

(* dispatch_mcu_link_runtime_event: a HELLO_RSP restores the baseline of a *)
(* link that is up and not yet ready.                                      *)
Dispatch ==
  /\ event # "NONE"
  /\ event' = "NONE"
  /\ IF event = "HELLO_RSP" /\ state \in {"LINK_READY", "READY"} /\ ~IsReady
     THEN state' = "READY" /\ synced' = TRUE /\ wasReady' = TRUE
     ELSE UNCHANGED <<state, synced, wasReady>>
  /\ UNCHANGED <<firstHello, lastHello, toStm, toHead, stmUp, restarts, faults>>

(* Another task sends a command; all of them ask for a ready link first.   *)
Submit ==
  /\ IsReady
  /\ Room(toStm, 1)
  /\ \E wire \in Carried(toStm, "CMD") : toStm' = wire
  /\ UNCHANGED <<headVars, toHead, stmUp, restarts, faults>>

RetryComesDue ==
  /\ lastHello = "fresh"
  /\ lastHello' = "old"
  /\ UNCHANGED <<state, synced, firstHello, event, toStm, toHead, stmUp,
                 wasReady, restarts, faults>>

TimeoutPasses ==
  /\ firstHello = "fresh"
  /\ firstHello' = "old"
  /\ UNCHANGED <<state, synced, lastHello, event, toStm, toHead, stmUp,
                 wasReady, restarts, faults>>

(* Bytes that come before the driver is open are gone. *)
Unread ==
  /\ state = "DOWN"
  /\ toHead # <<>>
  /\ toHead' = Tail(toHead)
  /\ UNCHANGED <<headVars, toStm, stmUp, restarts, faults>>

(* mcu_link_bootstrap_init after a restart; frames under way may still     *)
(* arrive once the driver is open.                                         *)
HeadRestarts ==
  /\ state # "DOWN"
  /\ restarts < MaxRestarts
  /\ restarts' = restarts + 1
  /\ state' = "DOWN"
  /\ synced' = FALSE
  /\ firstHello' = "none"
  /\ lastHello' = "none"
  /\ event' = "NONE"
  /\ wasReady' = FALSE
  /\ UNCHANGED <<toStm, toHead, stmUp, faults>>

-----------------------------------------------------------------------------
(* The co-processor: CoprocDispatch_ProcessFrame *)

(* Mutant: the handler is done once the ACK is out. *)
AnswerHelloWithAck ==
  /\ stmUp
  /\ toStm # <<>> /\ Head(toStm) = "HELLO"
  /\ Room(toHead, 2)
  /\ toStm' = Tail(toStm)
  /\ \E wire \in Carried(toHead, "ACK") : toHead' = wire
  /\ UNCHANGED <<headVars, stmUp, restarts, faults>>

(* A HELLO_REQ is answered with ACK, then HELLO_RSP. *)
AnswerHello ==
  /\ stmUp
  /\ toStm # <<>> /\ Head(toStm) = "HELLO"
  /\ Room(toHead, 2)
  /\ toStm' = Tail(toStm)
  /\ \E wire \in Carried(toHead, "ACK") :
       \E both \in Carried(wire, "HELLO_RSP") : toHead' = both
  /\ UNCHANGED <<headVars, stmUp, restarts, faults>>

AnswerCommand ==
  /\ stmUp
  /\ toStm # <<>> /\ Head(toStm) = "CMD"
  /\ Room(toHead, 1)
  /\ toStm' = Tail(toStm)
  /\ \E reply \in {"ACK", "NACK"} : \E wire \in Carried(toHead, reply) : toHead' = wire
  /\ UNCHANGED <<headVars, stmUp, restarts, faults>>

(* Bytes sent to a co-processor that is not running are gone. *)
Unheard ==
  /\ ~stmUp
  /\ toStm # <<>>
  /\ toStm' = Tail(toStm)
  /\ UNCHANGED <<headVars, toHead, stmUp, restarts, faults>>

(* What the head's handler allows for and this co-processor never sends. *)
StmFault ==
  /\ stmUp
  /\ faults < MaxFaults
  /\ faults' = faults + 1
  /\ Room(toHead, 1)
  /\ \E f \in {"FAULT", "OTHER_PROFILE"} : toHead' = Append(toHead, f)
  /\ UNCHANGED <<headVars, toStm, stmUp, restarts>>

StmStarts ==
  /\ ~stmUp
  /\ stmUp' = TRUE
  /\ UNCHANGED <<headVars, toStm, toHead, restarts, faults>>

StmStops ==
  /\ stmUp
  /\ restarts < MaxRestarts
  /\ restarts' = restarts + 1
  /\ stmUp' = FALSE
  /\ UNCHANGED <<headVars, toStm, toHead, faults>>

Next ==
  \/ Start \/ Retry \/ Receive \/ Dispatch \/ Submit
  \/ RetryComesDue \/ TimeoutPasses \/ Unread \/ HeadRestarts
  \/ AnswerHello \/ AnswerCommand \/ Unheard
  \/ StmFault \/ StmStarts \/ StmStops

-----------------------------------------------------------------------------
(* A hello sent again and again is accepted by the driver and arrives, and *)
(* so does its answer.                                                     *)
HelloArrives    == (Start \/ Retry) /\ toStm' # toStm
HelloRspArrives == AnswerHello /\ toHead' # toHead /\ toHead'[Len(toHead')] = "HELLO_RSP"

Fairness ==
  /\ WF_vars(Receive) /\ WF_vars(Unread) /\ WF_vars(Dispatch)
  /\ WF_vars(RetryComesDue) /\ WF_vars(TimeoutPasses)
  /\ WF_vars(AnswerHello) /\ WF_vars(AnswerCommand) /\ WF_vars(Unheard)
  /\ SF_vars(HelloArrives) /\ SF_vars(HelloRspArrives)

Spec     == Init /\ [][Next]_vars
FairSpec == Spec /\ Fairness

-----------------------------------------------------------------------------
(* Properties *)

HeadType ==
  /\ state \in States
  /\ synced \in BOOLEAN /\ wasReady \in BOOLEAN
  /\ firstHello \in Ages /\ lastHello \in Ages
  /\ event \in {"NONE", "ACK", "NACK", "HELLO_RSP", "FAULT"}

WireType ==
  /\ toStm \in Seq({"HELLO", "CMD"}) /\ Len(toStm) <= MaxWire
  /\ toHead \in Seq(Replies) /\ Len(toHead) <= MaxWire

CountType ==
  /\ stmUp \in BOOLEAN
  /\ restarts \in 0 .. MaxRestarts
  /\ faults \in 0 .. MaxFaults

(* Every variable stays in its range. *)
TypeOK == HeadType /\ WireType /\ CountType

(* The services ask for both the state and the baseline flag: the two are  *)
(* never apart, or a READY link would refuse every command and, since a    *)
(* READY link is not retried, go on refusing.                              *)
SyncedIffReady == synced <=> state = "READY"

(* LINK_READY is not retried either: it only occurs while the HELLO_RSP    *)
(* that will make the link READY waits to be dispatched.                   *)
LinkReadyIsPassing == state = "LINK_READY" => event = "HELLO_RSP"

(* A ready link stays ready, whatever late HELLO_RSPs and NACKs arrive,    *)
(* until the head restarts or the co-processor reports a fault.            *)
StaysReady == faults = 0 /\ state = "READY" => state' \in {"READY", "DOWN"}
ReadyIsStable == [][StaysReady]_vars

(* The display reports a failed handshake only for a link that was never   *)
(* up.  (After a fault it does so at once: the first hello is an old one.) *)
HintMeansNeverReady == faults = 0 /\ TimedOut => ~wasReady

(* With a co-processor that is up for good the link becomes ready and      *)
(* stays so, whatever was lost, refused or restarted before.               *)
BecomesReady == <>[]stmUp => <>[]IsReady

(* With a co-processor that never runs the display reports it. *)
SilenceIsReported == []~stmUp => <>[]TimedOut

=============================================================================
