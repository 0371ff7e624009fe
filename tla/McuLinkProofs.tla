--------------------------- MODULE McuLinkProofs ---------------------------
(***************************************************************************)
(* Proofs about McuLink, for every wire length and every number of         *)
(* restarts and faults.                                                    *)
(***************************************************************************)
EXTENDS McuLink, SequenceTheorems, TLAPS

Honest == {"ACK", "NACK", "HELLO_RSP"}

(* A co-processor that has not faulted has no fault under way. *)
OnlyHonest == faults = 0 => toHead \in Seq(Honest)

(* ... so that a link that was ready in this run of the head still is. *)
ReadyForGood == faults = 0 /\ wasReady => state = "READY"

-----------------------------------------------------------------------------
(* What a wire carries after one more frame. *)
LEMMA CarriedType ==
  ASSUME NEW S, NEW wire \in Seq(S), NEW f \in S, NEW new \in Carried(wire, f)
  PROVE  new \in Seq(S) /\ Len(new) <= Len(wire) + 1
  BY DEF Carried

LEMMA TailType ==
  ASSUME NEW S, NEW wire \in Seq(S), wire # <<>>
  PROVE  Tail(wire) \in Seq(S) /\ Len(Tail(wire)) = Len(wire) - 1 /\ Head(wire) \in S
  OBVIOUS

-----------------------------------------------------------------------------
(* Every variable stays in its range (TypeOK), over lossy wires and        *)
(* restarts of both sides.                                                 *)
THEOREM LinkTypeCorrect == Spec => []TypeOK
<1>1. Init => TypeOK
  <2>. SUFFICES ASSUME Init
                PROVE  TypeOK
    OBVIOUS
  <2>1. HeadType
    BY DEF Init, HeadType, States, Ages
  <2>2. WireType
    BY LinkAssumption DEF Init, WireType, LinkAssumption
  <2>3. CountType
    BY LinkAssumption DEF Init, CountType, LinkAssumption
  <2>. QED
    BY <2>1, <2>2, <2>3 DEF TypeOK
<1>2. TypeOK /\ [Next]_vars => HeadType'
  <2>. SUFFICES ASSUME HeadType, [Next]_vars
                PROVE  HeadType'
    BY DEF TypeOK
  <2>. USE DEF HeadType, States, Ages
  <2>1. CASE Start \/ Retry
    BY <2>1 DEF Start, Retry, SendHello, HelloSent, HelloRefused, FirstHello
  <2>2. CASE Receive
    BY <2>2 DEF Receive, HandleFrame, HandleHelloRsp, HandleNack, Degrade
  <2>3. CASE Dispatch \/ HeadRestarts
    BY <2>3 DEF Dispatch, HeadRestarts
  <2>4. CASE RetryComesDue \/ TimeoutPasses
    BY <2>4 DEF RetryComesDue, TimeoutPasses
  <2>5. CASE UNCHANGED headVars
    BY <2>5 DEF headVars
  <2>. QED
    BY <2>1, <2>2, <2>3, <2>4, <2>5
    DEF Next, vars, headVars, Submit, Unread, AnswerHello, AnswerCommand, Unheard,
        StmFault, StmStarts, StmStops
<1>3. TypeOK /\ [Next]_vars => WireType'
  <2>. SUFFICES ASSUME WireType, [Next]_vars
                PROVE  WireType'
    BY DEF TypeOK
  <2>. USE DEF WireType
  <2>. DEFINE ToStm  == toStm' \in Seq({"HELLO", "CMD"}) /\ Len(toStm') <= MaxWire
              ToHead == toHead' \in Seq(Replies) /\ Len(toHead') <= MaxWire
  <2>1. CASE Start \/ Retry
    <3>1. CASE HelloSent
      <4>1. toStm' \in Carried(toStm, "HELLO") /\ Len(toStm) + 1 <= MaxWire
        BY <3>1 DEF HelloSent, Room
      <4>2. ToStm
        BY <4>1, CarriedType, LinkAssumption DEF LinkAssumption
      <4>. QED
        BY <2>1, <4>2 DEF Start, Retry, SendHello
    <3>2. CASE HelloRefused
      BY <2>1, <3>2 DEF Start, Retry, SendHello, HelloRefused
    <3>. QED
      BY <2>1, <3>1, <3>2 DEF Start, Retry, SendHello
  <2>2. CASE Receive \/ Unread
    <3>1. toHead # <<>> /\ toHead' = Tail(toHead)
      BY <2>2 DEF Receive, Unread
    <3>2. Tail(toHead) \in Seq(Replies) /\ Len(Tail(toHead)) = Len(toHead) - 1
      BY <3>1, TailType
    <3>3. Len(toHead) \in Nat /\ MaxWire \in Nat
      BY LinkAssumption DEF LinkAssumption
    <3>4. ToHead
      BY <3>1, <3>2, <3>3
    <3>. QED
      BY <2>2, <3>4 DEF Receive, Unread
  <2>3. CASE Submit
    <3>1. toStm' \in Carried(toStm, "CMD") /\ Len(toStm) + 1 <= MaxWire
      BY <2>3 DEF Submit, Room
    <3>2. ToStm
      BY <3>1, CarriedType, LinkAssumption DEF LinkAssumption
    <3>. QED
      BY <2>3, <3>2 DEF Submit
  <2>4. CASE AnswerHello \/ AnswerCommand \/ Unheard
    <3>0. toStm # <<>> /\ toStm' = Tail(toStm)
      BY <2>4 DEF AnswerHello, AnswerCommand, Unheard
    <3>1. ToStm
      BY <3>0, TailType, LinkAssumption DEF LinkAssumption
    <3>2. CASE AnswerHello
      <4>1. PICK wire \in Carried(toHead, "ACK") : toHead' \in Carried(wire, "HELLO_RSP")
        BY <3>2 DEF AnswerHello
      <4>2. wire \in Seq(Replies) /\ Len(wire) <= Len(toHead) + 1
        BY CarriedType DEF Replies
      <4>3. toHead' \in Seq(Replies) /\ Len(toHead') <= Len(wire) + 1
        BY <4>1, <4>2, CarriedType DEF Replies
      <4>4. Len(toHead) + 2 <= MaxWire
        BY <3>2 DEF AnswerHello, Room
      <4>5. ToHead
        BY <4>2, <4>3, <4>4, LinkAssumption DEF LinkAssumption
      <4>. QED
        BY <3>1, <4>5
    <3>3. CASE AnswerCommand
      <4>1. PICK reply \in {"ACK", "NACK"} : toHead' \in Carried(toHead, reply)
        BY <3>3 DEF AnswerCommand
      <4>2. Len(toHead) + 1 <= MaxWire
        BY <3>3 DEF AnswerCommand, Room
      <4>3. ToHead
        BY <4>1, <4>2, CarriedType, LinkAssumption DEF Replies, LinkAssumption
      <4>. QED
        BY <3>1, <4>3
    <3>4. CASE Unheard
      BY <3>1, <3>4 DEF Unheard
    <3>. QED
      BY <2>4, <3>2, <3>3, <3>4
  <2>5. CASE StmFault
    BY <2>5, LinkAssumption DEF StmFault, Room, Replies, LinkAssumption
  <2>6. CASE UNCHANGED <<toStm, toHead>>
    BY <2>6
  <2>. QED
    BY <2>1, <2>2, <2>3, <2>4, <2>5, <2>6
    DEF Next, vars, Dispatch, RetryComesDue, TimeoutPasses, HeadRestarts, StmStarts, StmStops
<1>4. TypeOK /\ [Next]_vars => CountType'
  <2>. SUFFICES ASSUME CountType, [Next]_vars
                PROVE  CountType'
    BY DEF TypeOK
  <2>. USE LinkAssumption DEF CountType, LinkAssumption
  <2>1. CASE HeadRestarts
    BY <2>1 DEF HeadRestarts
  <2>2. CASE StmFault
    BY <2>2 DEF StmFault
  <2>3. CASE StmStarts
    BY <2>3 DEF StmStarts
  <2>4. CASE StmStops
    <3>1. restarts' \in 0 .. MaxRestarts
      BY <2>4 DEF StmStops
    <3>2. stmUp' = FALSE /\ faults' = faults
      BY <2>4 DEF StmStops
    <3>. QED
      BY <3>1, <3>2
  <2>5. CASE UNCHANGED <<stmUp, restarts, faults>>
    BY <2>5
  <2>. QED
    BY <2>1, <2>2, <2>3, <2>4, <2>5
    DEF Next, vars, headVars, Start, Retry, SendHello, Receive, Dispatch, Submit,
        RetryComesDue, TimeoutPasses, Unread, AnswerHello, AnswerCommand, Unheard
<1>. QED
  BY <1>1, <1>2, <1>3, <1>4, PTL DEF Spec, TypeOK

-----------------------------------------------------------------------------
(* The READY state and the baseline flag are never apart (SyncedIffReady): *)
(* a link that says READY accepts commands.                                *)
THEOREM ReadyAcceptsCommands == Spec => []SyncedIffReady
<1>1. Init => SyncedIffReady
  BY DEF Init, SyncedIffReady
<1>2. TypeOK /\ SyncedIffReady /\ [Next]_vars => SyncedIffReady'
  <2>. SUFFICES ASSUME TypeOK, SyncedIffReady, [Next]_vars
                PROVE  SyncedIffReady'
    OBVIOUS
  <2>. USE DEF SyncedIffReady, TypeOK, HeadType
  <2>1. CASE Start \/ Retry
    BY <2>1 DEF Start, Retry, SendHello, HelloSent, HelloRefused
  <2>2. CASE Receive
    BY <2>2 DEF Receive, HandleFrame, HandleHelloRsp, HandleNack, Degrade
  <2>3. CASE Dispatch \/ HeadRestarts
    BY <2>3 DEF Dispatch, HeadRestarts
  <2>4. CASE UNCHANGED <<state, synced>>
    BY <2>4
  <2>. QED
    BY <2>1, <2>2, <2>3, <2>4
    DEF Next, vars, headVars, Submit, RetryComesDue, TimeoutPasses, Unread, AnswerHello,
        AnswerCommand, Unheard, StmFault, StmStarts, StmStops
<1>. QED
  BY <1>1, <1>2, LinkTypeCorrect, PTL DEF Spec

(* LINK_READY, the state nobody retries, is left by the dispatch that      *)
(* follows (LinkReadyIsPassing).                                           *)
THEOREM LinkReadyPasses == Spec => []LinkReadyIsPassing
<1>1. Init => LinkReadyIsPassing
  BY DEF Init, LinkReadyIsPassing
<1>2. SyncedIffReady /\ LinkReadyIsPassing /\ [Next]_vars => LinkReadyIsPassing'
  <2>. SUFFICES ASSUME SyncedIffReady, LinkReadyIsPassing, [Next]_vars
                PROVE  LinkReadyIsPassing'
    OBVIOUS
  <2>. USE DEF LinkReadyIsPassing
  <2>1. CASE Start \/ Retry
    BY <2>1 DEF Start, Retry, SendHello, HelloSent, HelloRefused
  <2>2. CASE Receive
    BY <2>2 DEF Receive, HandleFrame, HandleHelloRsp, HandleNack, Degrade
  <2>3. CASE Dispatch
    BY <2>3 DEF Dispatch, IsReady
  <2>4. CASE HeadRestarts
    BY <2>4 DEF HeadRestarts
  <2>5. CASE UNCHANGED <<state, event>>
    BY <2>5
  <2>. QED
    BY <2>1, <2>2, <2>3, <2>4, <2>5
    DEF Next, vars, headVars, Submit, RetryComesDue, TimeoutPasses, Unread, AnswerHello,
        AnswerCommand, Unheard, StmFault, StmStarts, StmStops
<1>. QED
  BY <1>1, <1>2, ReadyAcceptsCommands, PTL DEF Spec

-----------------------------------------------------------------------------
(* Faults are counted for good. *)
LEMMA FaultsStay ==
  ASSUME TypeOK, [Next]_vars, faults' = 0
  PROVE  faults = 0
<1>1. CASE StmFault
  BY <1>1 DEF StmFault, TypeOK, CountType
<1>2. CASE UNCHANGED faults
  BY <1>2
<1>. QED
  BY <1>1, <1>2
  DEF Next, vars, Start, Retry, SendHello, HelloSent, HelloRefused, Receive, Dispatch, Submit,
      RetryComesDue, TimeoutPasses, Unread, HeadRestarts, AnswerHello, AnswerCommand, Unheard,
      StmStarts, StmStops

(* As long as there was no fault, none is under way. *)
THEOREM NoFaultUnderWay == Spec => []OnlyHonest
<1>1. Init => OnlyHonest
  BY DEF Init, OnlyHonest
<1>2. TypeOK /\ OnlyHonest /\ [Next]_vars => OnlyHonest'
  <2>. SUFFICES ASSUME TypeOK, OnlyHonest, [Next]_vars, faults' = 0
                PROVE  toHead' \in Seq(Honest)
    BY DEF OnlyHonest
  <2>a. faults = 0
    BY FaultsStay
  <2>0. toHead \in Seq(Honest)
    BY <2>a DEF OnlyHonest
  <2>1. CASE Receive \/ Unread
    BY <2>0, <2>1, TailType DEF Receive, Unread
  <2>2. CASE AnswerHello
    <3>1. PICK wire \in Carried(toHead, "ACK") : toHead' \in Carried(wire, "HELLO_RSP")
      BY <2>2 DEF AnswerHello
    <3>2. wire \in Seq(Honest)
      BY <2>0, CarriedType DEF Honest
    <3>. QED
      BY <3>1, <3>2, CarriedType DEF Honest
  <2>3. CASE AnswerCommand
    <3>1. PICK reply \in {"ACK", "NACK"} : toHead' \in Carried(toHead, reply)
      BY <2>3 DEF AnswerCommand
    <3>. QED
      BY <2>0, <3>1, CarriedType DEF Honest
  <2>4. CASE StmFault
    BY <2>4, <2>a DEF StmFault
  <2>5. CASE UNCHANGED toHead
    BY <2>0, <2>5
  <2>. QED
    BY <2>1, <2>2, <2>3, <2>4, <2>5
    DEF Next, vars, Start, Retry, SendHello, Dispatch, Submit, RetryComesDue,
        TimeoutPasses, HeadRestarts, Unheard, StmStarts, StmStops
<1>. QED
  BY <1>1, <1>2, LinkTypeCorrect, PTL DEF Spec

(* A step never takes a ready link back, whatever late answers arrive      *)
(* (StaysReady), given that only honest frames are under way.              *)
LEMMA StepKeepsReady ==
  ASSUME TypeOK, OnlyHonest, [Next]_vars
  PROVE  StaysReady
<1>. SUFFICES ASSUME faults = 0, state = "READY"
              PROVE  state' \in {"READY", "DOWN"}
  BY DEF StaysReady
<1>1. CASE Start \/ Retry
  BY <1>1 DEF Start, Retry, RetryDue, Shaking
<1>2. CASE Receive
  <2>1. Head(toHead) \in Honest
    BY <1>2, TailType DEF Receive, OnlyHonest
  <2>. QED
    BY <1>2, <2>1 DEF Receive, HandleFrame, HandleHelloRsp, HandleNack, Honest
<1>3. CASE Dispatch \/ HeadRestarts
  BY <1>3 DEF Dispatch, HeadRestarts
<1>4. CASE UNCHANGED state
  BY <1>4
<1>. QED
  BY <1>1, <1>2, <1>3, <1>4
  DEF Next, vars, headVars, Submit, RetryComesDue, TimeoutPasses, Unread, AnswerHello,
      AnswerCommand, Unheard, StmFault, StmStarts, StmStops

(* Readiness is stable (ReadyIsStable): a repeated HELLO_RSP, a NACK of a  *)
(* command or a restart of the co-processor never withdraws it.            *)
THEOREM ReadinessIsStable == Spec => ReadyIsStable
<1>1. TypeOK /\ OnlyHonest /\ [Next]_vars => [StaysReady]_vars
  BY StepKeepsReady
<1>. QED
  BY <1>1, LinkTypeCorrect, NoFaultUnderWay, PTL DEF Spec, ReadyIsStable

(* The display shows a failed handshake only for a link that was never     *)
(* ready since the head started (HintMeansNeverReady).                     *)
THEOREM HintOnlyBeforeReady == Spec => []HintMeansNeverReady
<1>1. Init => ReadyForGood
  BY DEF Init, ReadyForGood
<1>2. TypeOK /\ OnlyHonest /\ ReadyForGood /\ [Next]_vars => ReadyForGood'
  <2>. SUFFICES ASSUME TypeOK, OnlyHonest, ReadyForGood, [Next]_vars,
                       faults' = 0, wasReady'
                PROVE  state' = "READY"
    BY DEF ReadyForGood
  <2>0. faults = 0
    BY FaultsStay
  <2>1. CASE Dispatch
    BY <2>0, <2>1 DEF Dispatch, ReadyForGood
  <2>2. CASE HeadRestarts
    BY <2>2 DEF HeadRestarts
  <2>3. CASE wasReady /\ ~HeadRestarts
    <3>1. state = "READY"
      BY <2>0, <2>3 DEF ReadyForGood
    <3>2. state' \in {"READY", "DOWN"}
      BY <2>0, <3>1, StepKeepsReady DEF StaysReady
    <3>3. state' # "DOWN"
      BY <2>3, <3>1
      DEF Next, vars, headVars, Start, Retry, SendHello, HelloSent, HelloRefused, Receive,
          HandleFrame, HandleHelloRsp, HandleNack, Degrade, Dispatch, Submit, RetryComesDue,
          TimeoutPasses, Unread, AnswerHello, AnswerCommand, Unheard, StmFault, StmStarts,
          StmStops
    <3>. QED
      BY <3>2, <3>3
  <2>4. CASE UNCHANGED wasReady
    BY <2>2, <2>3, <2>4
  <2>. QED
    BY <2>1, <2>2, <2>4
    DEF Next, vars, headVars, Start, Retry, SendHello, Receive, Submit, RetryComesDue,
        TimeoutPasses, Unread, AnswerHello, AnswerCommand, Unheard, StmFault, StmStarts,
        StmStops
<1>3. ReadyForGood => HintMeansNeverReady
  BY DEF ReadyForGood, HintMeansNeverReady, TimedOut, Shaking
<1>. QED
  BY <1>1, <1>2, <1>3, LinkTypeCorrect, NoFaultUnderWay, PTL DEF Spec

=============================================================================
