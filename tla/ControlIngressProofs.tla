------------------------ MODULE ControlIngressProofs ------------------------
(* Proofs about ControlIngress and BehaviorState: the places in a state's   *)
(* and an action's timelines and what was sent of them stay together, and   *)
(* the screen shows the state that plays unless the display refused it.     *)
EXTENDS ControlIngress, WellFoundedInduction, SequenceTheorems, TLAPS

-----------------------------------------------------------------------------
(* The inductive invariants *)

Sounds == {"default", "silent", "own"}

Ctx ==
  [live : BOOLEAN, state : States, action : Actions \cup {NoName},
   elapsed : 0 .. Horizon, actionElapsed : 0 .. Horizon,
   next : [Tracks -> Nat], nextAction : Nat,
   text : Texts \cup {NoText}, sound : Sounds, wait : BOOLEAN, sfx : BOOLEAN,
   show : {<<>>} \cup {<<s>> : s \in States}, sent : [state : Seq(Nat), action : Seq(Nat)]]

(* The places are within their timelines, and while an action plays the     *)
(* state's own motions are not begun.                                       *)
Placed(c) ==
  /\ \A t \in Tracks : c.next[t] <= Count(c.state, t)
  /\ c.nextAction <= MotionCount(c.action)
  /\ c.action # NoName => c.next["motion"] = 0

(* What was sent is what is behind the place of the timeline that moves the *)
(* head.                                                                    *)
Ordered(c) ==
  c.sent = IF c.action = NoName THEN [state |-> Sent(0, c.next["motion"]), action |-> <<>>]
           ELSE [state |-> <<>>, action |-> Sent(0, c.nextAction)]

Good(c) == c \in Ctx /\ Placed(c) /\ Ordered(c)

(* What is shown, or will be once the turn is over, is the state that plays; *)
(* the display may have refused what it was asked for last.                  *)
Shown(c, shown) == IF c.show = <<>> THEN shown ELSE c.show[1]
Right(c, shown) == c.live /\ c.next["expression"] > 0 => Shown(c, shown) = c.state

QueueType ==
  /\ request \in Seq(Request) /\ Len(request) <= 1
  /\ drained \in Seq(Request) /\ Len(drained) <= 1
  /\ made \in 0 .. MaxRequests
  /\ stateQueue \in Seq(Messages) /\ Len(stateQueue) <= StateQueueDepth

FlagType ==
  /\ pc \in {"drain", "tick", "show"} /\ screen \in States /\ refused \in BOOLEAN
  /\ touch \in {"idle", "passed"} /\ latched \in BOOLEAN /\ suppressed \in BOOLEAN

ScreenInv ==
  /\ \E asked \in States : Right(ctx, asked) /\ (asked = screen \/ refused)
  /\ pc # "show" => ctx.show = <<>>

IInv == QueueType /\ FlagType /\ Good(ctx) /\ ScreenInv

-----------------------------------------------------------------------------
(* Places and timelines *)

LEMMA LeastNat ==
  ASSUME NEW T, T \subseteq Nat, T # {}
  PROVE  \E n \in T : \A m \in T : n <= m
<1>. DEFINE R == OpToRel(<, Nat)
<1>1. IsWellFoundedOn(R, Nat)
  BY NatLessThanWellFounded
<1>2. \A x, y \in Nat : y < x => <<y, x>> \in R
  BY DEF OpToRel
<1>. HIDE DEF R
<1>3. PICK n \in T : \A m \in T : <<m, n>> \notin R
  BY <1>1, WFMin
<1>4. ASSUME NEW m \in T PROVE n <= m
  <2>1. m \in Nat /\ n \in Nat
    OBVIOUS
  <2>2. ~(m < n)
    BY <1>2, <1>3, <2>1
  <2>. QED
    BY <2>1, <2>2
<1>. QED
  BY <1>4

LEMMA IsSeq ==
  ASSUME NEW S, NEW k \in Nat, NEW f \in [1 .. k -> S]
  PROVE  f \in Seq(S) /\ Len(f) = k
  OBVIOUS

(* The scheduler stops somewhere between the place it is at and the end. *)
LEMMA FirstStopIs ==
  ASSUME NEW k \in Nat, NEW n \in 0 .. k, NEW due, Len(due) = k
  PROVE  FirstStop(n, due) \in n .. k
<1>. DEFINE T == {m \in n .. k : m < k => ~due[m + 1]}
            Stop(m) == (\A i \in (n + 1) .. m : due[i]) /\ (m < k => ~due[m + 1])
<1>1. T \subseteq Nat /\ k \in T
  OBVIOUS
<1>2. PICK m \in T : \A j \in T : m <= j
  BY <1>1, LeastNat
<1>3. ASSUME NEW i \in (n + 1) .. m PROVE due[i]
  <2>1. i - 1 \in n .. k /\ ~(m <= i - 1) /\ (i - 1) + 1 = i
    OBVIOUS
  <2>2. i - 1 \notin T
    BY <1>2, <2>1
  <2>. QED
    BY <2>1, <2>2
<1>4. m \in n .. k /\ Stop(m)
  BY <1>3
<1>5. FirstStop(n, due) = CHOOSE x \in n .. k : Stop(x)
  BY DEF FirstStop
<1>. HIDE DEF Stop
<1>. QED
  BY <1>4, <1>5

LEMMA Sents ==
  ASSUME NEW a \in Nat, NEW b \in Nat, a <= b
  PROVE  /\ Sent(a, b) \in Seq(Nat) /\ Len(Sent(a, b)) = b - a
         /\ \A i \in 1 .. b - a : Sent(a, b)[i] = a + i
<1>1. b - a \in Nat /\ Sent(a, b) \in [1 .. b - a -> Nat]
  BY DEF Sent
<1>2. \A i \in 1 .. b - a : Sent(a, b)[i] = a + i
  BY DEF Sent
<1>. QED
  BY <1>1, <1>2, IsSeq

(* What is sent now follows what was sent before. *)
LEMMA SentOn ==
  ASSUME NEW a \in Nat, NEW b \in Nat, a <= b
  PROVE  Sent(0, a) \o Sent(a, b) = Sent(0, b)
<1>. DEFINE p == Sent(0, a)
            q == Sent(a, b)
            r == Sent(0, b)
<1>1. /\ p \in Seq(Nat) /\ Len(p) = a /\ \A i \in 1 .. a : p[i] = i
      /\ q \in Seq(Nat) /\ Len(q) = b - a /\ \A i \in 1 .. b - a : q[i] = a + i
      /\ r \in Seq(Nat) /\ Len(r) = b /\ \A i \in 1 .. b : r[i] = i
  <2>1. a - 0 = a /\ b - 0 = b /\ (\A i \in Nat : 0 + i = i) /\ 0 <= a /\ 0 <= b /\ 0 \in Nat
    OBVIOUS
  <2>2. p \in Seq(Nat) /\ Len(p) = a - 0 /\ \A i \in 1 .. a - 0 : p[i] = 0 + i
    BY <2>1, Sents
  <2>3. q \in Seq(Nat) /\ Len(q) = b - a /\ \A i \in 1 .. b - a : q[i] = a + i
    BY Sents
  <2>4. r \in Seq(Nat) /\ Len(r) = b - 0 /\ \A i \in 1 .. b - 0 : r[i] = 0 + i
    BY <2>1, Sents
  <2>. HIDE DEF p, q, r
  <2>. QED
    BY <2>1, <2>2, <2>3, <2>4
<1>. HIDE DEF p, q, r
<1>2. p \o q \in Seq(Nat) /\ Len(p \o q) = b
  BY <1>1
<1>3. ASSUME NEW i \in 1 .. b PROVE (p \o q)[i] = r[i]
  <2>1. CASE i <= a
    BY <1>1, <2>1
  <2>2. CASE ~(i <= a)
    <3>1. i - a \in 1 .. b - a /\ a + (i - a) = i
      BY <2>2
    <3>2. (p \o q)[i] = q[i - a]
      BY <1>1, <2>2
    <3>. QED
      BY <1>1, <3>1, <3>2
  <2>. QED
    BY <2>1, <2>2
<1>4. p \o q = r
  BY <1>1, <1>2, <1>3, SeqEqual
<1>. QED
  BY <1>4 DEF p, q, r

LEMMA SentNone ==
  /\ \A a \in Nat : Sent(a, a) = <<>>
  /\ Sent(0, 0) = <<>> /\ <<>> \o <<>> = <<>> /\ <<>> \in Seq(Nat)
<1>1. ASSUME NEW a \in Nat PROVE Sent(a, a) = <<>>
  <2>1. Sent(a, a) \in Seq(Nat) /\ Len(Sent(a, a)) = 0
    BY Sents
  <2>. QED
    BY <2>1
<1>2. <<>> \o <<>> = <<>> /\ <<>> \in Seq(Nat)
  OBVIOUS
<1>. QED
  BY <1>1, <1>2

LEMMA Timelines ==
  /\ Default \in States /\ NoName \notin Actions /\ NoName \notin Names
  /\ \A s \in States : \A t \in Tracks : Count(s, t) \in Nat
  /\ \A a \in Actions \cup {NoName} : MotionCount(a) \in Nat
  /\ MotionCount(NoName) = 0
<1>1. ASSUME NEW s \in States, NEW t \in Tracks PROVE Count(s, t) \in Nat
  <2>1. Catalog[s][t] \in Seq(Nat)
    BY CatalogAssumption
  <2>. QED
    BY <2>1 DEF Count
<1>2. ASSUME NEW a \in Actions PROVE MotionCount(a) \in Nat
  <2>1. ActionCatalog[a].motion \in Seq([at : Nat, lasts : Nat])
    BY CatalogAssumption
  <2>. QED
    BY <2>1 DEF MotionCount
<1>. QED
  BY <1>1, <1>2, CatalogAssumption DEF MotionCount

LEMMA StateDueIs ==
  ASSUME NEW c, c \in Ctx, Placed(c), NEW t \in Tracks
  PROVE  /\ StateDue(c, t) \in c.next[t] .. Count(c.state, t)
         /\ c.action # NoName => StateDue(c, "motion") = c.next["motion"]
<1>. DEFINE k == Count(c.state, t)
            n == c.next[t]
            due == [i \in 1 .. k |-> Catalog[c.state][t][i] <= c.elapsed]
<1>1. /\ c.state \in States /\ c.next \in [Tracks -> Nat]
  BY DEF Ctx
<1>2. k \in Nat /\ n \in Nat /\ n <= k
  BY <1>1, Timelines DEF Placed
<1>3. StateDue(c, t) = IF t = "motion" /\ c.action # NoName THEN n
                       ELSE IF n > k THEN n ELSE FirstStop(n, due)
  BY DEF StateDue
<1>4. StateDue(c, "motion") = c.next["motion"] \/ c.action = NoName
  BY DEF StateDue
<1>5. Len(due) = k
  <2>. DEFINE S == {due[i] : i \in 1 .. k}
  <2>1. due \in [1 .. k -> S]
    OBVIOUS
  <2>. HIDE DEF due, k, S
  <2>. QED
    BY <1>2, <2>1, IsSeq
<1>. HIDE DEF due, k, n
<1>6. FirstStop(n, due) \in n .. k
  BY <1>2, <1>5, FirstStopIs
<1>7. StateDue(c, t) \in n .. k
  BY <1>2, <1>3, <1>6
<1>. QED
  BY <1>4, <1>7 DEF k, n

LEMMA ActionDueIs ==
  ASSUME NEW c, c \in Ctx, Placed(c)
  PROVE  /\ ActionDue(c) \in c.nextAction .. MotionCount(c.action)
         /\ c.action = NoName => ActionDue(c) = c.nextAction
<1>. DEFINE k == MotionCount(c.action)
            n == c.nextAction
            due == [i \in 1 .. k |-> MotionDue(c, i)]
<1>1. k \in Nat /\ n \in Nat /\ n <= k
  BY Timelines DEF Placed, Ctx
<1>2. ActionDue(c) = IF c.action = NoName THEN n ELSE FirstStop(n, due)
  BY DEF ActionDue
<1>3. Len(due) = k
  <2>. DEFINE S == {due[i] : i \in 1 .. k}
  <2>1. due \in [1 .. k -> S]
    OBVIOUS
  <2>. HIDE DEF due, k, S
  <2>. QED
    BY <1>1, <2>1, IsSeq
<1>. HIDE DEF due, k
<1>4. FirstStop(n, due) \in n .. k
  BY <1>1, <1>3, FirstStopIs
<1>. QED
  BY <1>1, <1>2, <1>4 DEF k

-----------------------------------------------------------------------------
(* What the task does to its context *)

LEMMA Captured ==
  ASSUME NEW c, Good(c)
  PROVE  /\ Good(Capture(c)) /\ \A shown : Right(Capture(c), shown)
         /\ Capture(c).state = c.state /\ Capture(c).action = c.action
         /\ Capture(c).live = c.live
<1>. DEFINE d == Capture(c)
<1>1. c \in Ctx /\ c.state \in States
  BY DEF Good, Ctx
<1>2. /\ d \in Ctx /\ d.show = <<c.state>> /\ d.state = c.state /\ d.action = c.action
      /\ d.live = c.live /\ d.next = c.next /\ d.nextAction = c.nextAction /\ d.sent = c.sent
  BY <1>1 DEF Capture, Ctx
<1>. HIDE DEF d
<1>3. Placed(d) /\ Ordered(d)
  BY <1>2 DEF Good, Placed, Ordered
<1>4. ASSUME NEW shown PROVE Right(d, shown)
  BY <1>2 DEF Right, Shown
<1>. QED
  BY <1>2, <1>3, <1>4 DEF Good, d

LEMMA Dispatched ==
  ASSUME NEW c, Good(c), NEW outcome \in Outcomes
  PROVE  /\ Good(Dispatch(c, outcome))
         /\ \A shown : Right(c, shown) => Right(Dispatch(c, outcome), shown)
         /\ Dispatch(c, outcome).state = c.state /\ Dispatch(c, outcome).action = c.action
         /\ Dispatch(c, outcome).live = c.live
<1>. DEFINE upto == [t \in Tracks |-> StateDue(c, t)]
            act == ActionDue(c)
            plays == upto["sound"] > c.next["sound"] /\ outcome.plays
            state == c.sent.state \o Sent(c.next["motion"], upto["motion"])
            action == c.sent.action \o Sent(c.nextAction, act)
            sent == [state |-> state, action |-> action]
            d == [c EXCEPT !.next = upto, !.nextAction = act, !.sent = sent,
                           !.wait = @ \/ plays, !.sfx = @ \/ plays]
            captures == \/ upto["expression"] > c.next["expression"]
                        \/ Count(c.state, "expression") = 0 /\ c.text # NoText
<1>1. /\ c \in Ctx /\ Placed(c) /\ Ordered(c) /\ c.state \in States /\ c.next \in [Tracks -> Nat]
      /\ c.nextAction \in Nat /\ c.action \in Actions \cup {NoName}
  BY DEF Good, Ctx
<1>2. Dispatch(c, outcome) = IF ~c.live THEN c ELSE IF captures THEN Capture(d) ELSE d
  BY DEF Dispatch
<1>3. /\ \A t \in Tracks : upto[t] \in Nat /\ c.next[t] <= upto[t] /\ upto[t] <= Count(c.state, t)
      /\ upto \in [Tracks -> Nat] /\ (c.action # NoName => upto["motion"] = c.next["motion"])
  <2>1. ASSUME NEW t \in Tracks PROVE /\ StateDue(c, t) \in c.next[t] .. Count(c.state, t)
                                      /\ c.next[t] \in Nat /\ Count(c.state, t) \in Nat
    BY <1>1, StateDueIs, Timelines
  <2>2. "motion" \in Tracks /\ (c.action # NoName => StateDue(c, "motion") = c.next["motion"])
    BY <1>1, StateDueIs DEF Tracks
  <2>. QED
    BY <2>1, <2>2
<1>4. /\ act \in Nat /\ c.nextAction <= act /\ act <= MotionCount(c.action)
      /\ c.action = NoName => act = c.nextAction
  BY <1>1, ActionDueIs, Timelines
<1>5. sent = IF c.action = NoName THEN [state |-> Sent(0, upto["motion"]), action |-> <<>>]
             ELSE [state |-> <<>>, action |-> Sent(0, act)]
  <2>. HIDE DEF upto, act
  <2>0. /\ c.next["motion"] \in Nat /\ upto["motion"] \in Nat /\ c.next["motion"] <= upto["motion"]
    BY <1>1, <1>3 DEF Tracks
  <2>1. CASE c.action = NoName
    <3>1. c.sent.state = Sent(0, c.next["motion"]) /\ c.sent.action = <<>>
      BY <1>1, <2>1 DEF Ordered
    <3>2. state = Sent(0, upto["motion"])
      BY <2>0, <3>1, SentOn
    <3>3. Sent(c.nextAction, act) = <<>>
      BY <1>1, <1>4, <2>1, SentNone
    <3>4. action = <<>>
      BY <3>1, <3>3, SentNone
    <3>. QED
      BY <2>1, <3>2, <3>4
  <2>2. CASE c.action # NoName
    <3>1. c.sent.state = <<>> /\ c.sent.action = Sent(0, c.nextAction)
      BY <1>1, <2>2 DEF Ordered
    <3>2. action = Sent(0, act)
      BY <1>1, <1>4, <3>1, SentOn
    <3>3. Sent(c.next["motion"], upto["motion"]) = <<>>
      BY <1>3, <2>0, <2>2, SentNone
    <3>4. state = <<>>
      BY <3>1, <3>3, SentNone
    <3>. QED
      BY <2>2, <3>2, <3>4
  <2>. QED
    BY <2>1, <2>2
<1>6. sent \in [state : Seq(Nat), action : Seq(Nat)]
  <2>1. /\ Sent(0, upto["motion"]) \in Seq(Nat) /\ Sent(0, act) \in Seq(Nat) /\ <<>> \in Seq(Nat)
    <3>1. upto["motion"] \in Nat /\ 0 <= upto["motion"] /\ 0 <= act /\ 0 \in Nat
      BY <1>3, <1>4 DEF Tracks
    <3>. QED
      BY <1>4, <3>1, Sents, SentNone
  <2>. HIDE DEF upto, act, sent
  <2>. QED
    BY <1>5, <2>1
<1>. HIDE DEF upto, act, sent
<1>7. /\ d \in Ctx /\ d.next = upto /\ d.nextAction = act /\ d.sent = sent /\ d.state = c.state
      /\ d.action = c.action /\ d.live = c.live /\ d.show = c.show
  BY <1>1, <1>3, <1>4, <1>6 DEF Ctx
<1>. HIDE DEF d
<1>8. Good(d)
  BY <1>3, <1>4, <1>5, <1>7 DEF Good, Placed, Ordered
<1>9. ASSUME ~captures, NEW shown, Right(c, shown) PROVE Right(d, shown)
  <2>1. upto["expression"] = c.next["expression"]
    BY <1>1, <1>3, <1>9 DEF Tracks
  <2>. QED
    BY <1>7, <1>9, <2>1 DEF Right, Shown
<1>. HIDE DEF captures
<1>10. CASE ~c.live
  BY <1>2, <1>10
<1>11. CASE c.live /\ captures
  BY <1>2, <1>7, <1>8, <1>11, Captured
<1>12. CASE c.live /\ ~captures
  BY <1>2, <1>7, <1>8, <1>9, <1>12
<1>. QED
  BY <1>10, <1>11, <1>12

(* The sounds of a state that are left out for a request. *)
LEMMA RefreshedGood ==
  ASSUME NEW c, Good(c), NEW r \in Request, NEW outcome \in Outcomes
  PROVE  /\ Good(Refreshed(c, r, outcome)) /\ \A shown : Right(Refreshed(c, r, outcome), shown)
<1>. DEFINE own == OwnPlays(r, outcome)
            sound == IF Suppresses(r, outcome) THEN SoundCount(c) ELSE c.next["sound"]
            next == [c.next EXCEPT !["sound"] = sound]
            d == [c EXCEPT !.text = r.text, !.sound = r.sound, !.wait = @ \/ own,
                           !.sfx = @ \/ own, !.next = next]
<1>1. /\ c \in Ctx /\ Placed(c) /\ Ordered(c) /\ c.next \in [Tracks -> Nat] /\ c.state \in States
      /\ r.text \in Texts \cup {NoText} /\ r.sound \in Sounds
  BY DEF Good, Ctx, Request, Sounds
<1>2. /\ "sound" \in Tracks /\ "motion" \in Tracks /\ "expression" \in Tracks
      /\ Count(c.state, "sound") \in Nat
  BY <1>1, Timelines DEF Tracks
<1>3. sound \in Nat /\ sound <= Count(c.state, "sound")
  BY <1>1, <1>2 DEF SoundCount, Placed
<1>4. /\ next \in [Tracks -> Nat] /\ next["sound"] = sound
      /\ \A t \in Tracks \ {"sound"} : next[t] = c.next[t]
  BY <1>1, <1>2, <1>3
<1>5. Refreshed(c, r, outcome) = Capture(d)
  BY <1>1 DEF Refreshed, Ctx
<1>. HIDE DEF next, sound, own
<1>6. /\ d \in Ctx /\ d.next = next /\ d.nextAction = c.nextAction /\ d.sent = c.sent
      /\ d.state = c.state /\ d.action = c.action
  BY <1>1, <1>4 DEF Ctx
<1>. HIDE DEF d
<1>7. next["motion"] = c.next["motion"]
  BY <1>2, <1>4
<1>8. Placed(d) /\ Ordered(d)
  BY <1>1, <1>3, <1>4, <1>6, <1>7 DEF Placed, Ordered
<1>. QED
  BY <1>5, <1>6, <1>8, Captured DEF Good

(* Every timeline starts over, and nothing has been sent of any. *)
LEMMA RestartedGood ==
  ASSUME NEW c, Good(c), NEW s \in States, NEW a \in Actions \cup {NoName}, NEW r \in Request,
         NEW outcome \in Outcomes
  PROVE  /\ Good(Restarted(c, s, a, r, outcome))
         /\ \A shown : Right(Restarted(c, s, a, r, outcome), shown)
         /\ Restarted(c, s, a, r, outcome).state = s /\ Restarted(c, s, a, r, outcome).action = a
<1>. DEFINE own == OwnPlays(r, outcome)
            next == [t \in Tracks |-> IF t = "sound" /\ Suppresses(r, outcome)
                                      THEN Count(s, "sound") ELSE 0]
            d == [live |-> TRUE, state |-> s, action |-> a, elapsed |-> 0, actionElapsed |-> 0,
                  next |-> next, nextAction |-> 0, text |-> r.text, sound |-> r.sound,
                  wait |-> own, sfx |-> c.sfx \/ own, show |-> c.show, sent |-> NothingSent]
<1>1. /\ c \in Ctx /\ c.show \in {<<>>} \cup {<<x>> : x \in States}
      /\ r.text \in Texts \cup {NoText} /\ r.sound \in Sounds
  BY DEF Good, Ctx, Request, Sounds
<1>2. \A t \in Tracks : Count(s, t) \in Nat
  BY Timelines
<1>3. /\ next \in [Tracks -> Nat] /\ \A t \in Tracks : next[t] <= Count(s, t)
      /\ next["motion"] = 0 /\ next["expression"] = 0
  BY <1>2 DEF Tracks
<1>4. own \in BOOLEAN /\ c.sfx \in BOOLEAN
  BY <1>1 DEF OwnPlays, Ctx
<1>5. NothingSent \in [state : Seq(Nat), action : Seq(Nat)]
  BY SentNone DEF NothingSent
<1>6. Restarted(c, s, a, r, outcome) = Dispatch(d, outcome)
  BY DEF Restarted
<1>7. 0 \in 0 .. Horizon /\ MotionCount(a) \in Nat
  BY CatalogAssumption, Timelines
<1>. HIDE DEF next, own
<1>8. d \in Ctx
  BY <1>1, <1>3, <1>4, <1>5, <1>7 DEF Ctx
<1>9. /\ d.state = s /\ d.action = a /\ d.next = next /\ d.nextAction = 0 /\ d.sent = NothingSent
  OBVIOUS
<1>. HIDE DEF d
<1>10. Placed(d)
  BY <1>3, <1>7, <1>9 DEF Placed
<1>11. Ordered(d)
  BY <1>3, <1>9, SentNone DEF Ordered, NothingSent
<1>12. \A shown : Right(d, shown)
  BY <1>3, <1>9 DEF Right
<1>. QED
  BY <1>6, <1>8, <1>9, <1>10, <1>11, <1>12, Dispatched DEF Good

LEMMA ScheduledGood ==
  ASSUME NEW c, Good(c), NEW r \in Request, NEW outcome \in Outcomes
  PROVE  /\ Good(Scheduled(c, r, outcome))
         /\ \A shown : Right(c, shown) => Right(Scheduled(c, r, outcome), shown)
<1>. DEFINE a == Found(r.action)
            s == r.state
<1>1. a \in Actions \cup {NoName}
  BY DEF Found
<1>2. CASE s \notin States
  BY <1>2 DEF Scheduled
<1>3. CASE s \in States /\ Runs(c.state, c.action) # Runs(s, a)
  <2>1. Scheduled(c, r, outcome) = Restarted(c, s, a, r, outcome)
    BY <1>3 DEF Scheduled
  <2>. QED
    BY <1>1, <1>3, <2>1, RestartedGood
<1>4. CASE /\ s \in States /\ Runs(c.state, c.action) = Runs(s, a)
           /\ ~(c.text = r.text /\ c.sound = r.sound)
  <2>1. Scheduled(c, r, outcome) = Refreshed(c, r, outcome)
    BY <1>4 DEF Scheduled
  <2>. QED
    BY <2>1, RefreshedGood
<1>5. CASE /\ s \in States /\ Runs(c.state, c.action) = Runs(s, a)
           /\ c.text = r.text /\ c.sound = r.sound
  <2>1. Scheduled(c, r, outcome) = c
    BY <1>5 DEF Scheduled
  <2>. QED
    BY <2>1
<1>. QED
  BY <1>2, <1>3, <1>4, <1>5

(* An action starts over: of its motions nothing has been sent. *)
LEMMA LoopActionGood ==
  ASSUME NEW c, Good(c), NEW outcome \in Outcomes
  PROVE  /\ Good(LoopAction(c, outcome))
         /\ \A shown : Right(c, shown) => Right(LoopAction(c, outcome), shown)
         /\ LoopAction(c, outcome).state = c.state /\ LoopAction(c, outcome).live = c.live
<1>1. CASE ~ActionLoops(c)
  BY <1>1 DEF LoopAction
<1>2. CASE ActionLoops(c)
  <2>. DEFINE sent == [c.sent EXCEPT !.action = <<>>]
              d == [c EXCEPT !.actionElapsed = 0, !.nextAction = 0, !.sent = sent]
  <2>1. c \in Ctx /\ Placed(c) /\ Ordered(c) /\ c.action # NoName
    BY <1>2 DEF Good, ActionLoops
  <2>2. LoopAction(c, outcome) = Dispatch(d, outcome)
    BY <1>2, <2>1 DEF LoopAction, Ctx
  <2>3. sent = NothingSent
    BY <2>1 DEF Ordered, NothingSent
  <2>4. NothingSent \in [state : Seq(Nat), action : Seq(Nat)] /\ 0 \in 0 .. Horizon
    BY SentNone, CatalogAssumption DEF NothingSent
  <2>. HIDE DEF sent
  <2>5. /\ d \in Ctx /\ d.next = c.next /\ d.nextAction = 0 /\ d.sent = sent /\ d.state = c.state
        /\ d.action = c.action /\ d.live = c.live /\ d.show = c.show
    BY <2>1, <2>3, <2>4 DEF Ctx
  <2>6. MotionCount(c.action) \in Nat
    BY <2>1, Timelines DEF Ctx
  <2>. HIDE DEF d
  <2>7. Placed(d) /\ Ordered(d)
    BY <2>1, <2>3, <2>5, <2>6, SentNone DEF Placed, Ordered, NothingSent
  <2>8. \A shown : Right(c, shown) => Right(d, shown)
    BY <2>5 DEF Right, Shown
  <2>. QED
    BY <2>2, <2>5, <2>7, <2>8, Dispatched DEF Good
<1>. QED
  BY <1>1, <1>2

(* A state starts over: of its motions nothing has been sent. *)
LEMMA LoopStateGood ==
  ASSUME NEW c, Good(c), NEW outcome \in Outcomes
  PROVE  /\ Good(LoopState(c, outcome))
         /\ \A shown : Right(c, shown) => Right(LoopState(c, outcome), shown)
<1>1. CASE ~StateLoops(c)
  BY <1>1 DEF LoopState
<1>2. CASE StateLoops(c)
  <2>. DEFINE sent == [c.sent EXCEPT !.state = <<>>]
              next == [t \in Tracks |-> IF t = "sound" THEN Count(c.state, "sound") ELSE 0]
              d == [c EXCEPT !.elapsed = 0, !.next = next, !.sent = sent]
  <2>1. c \in Ctx /\ Placed(c) /\ Ordered(c) /\ c.state \in States
    BY DEF Good, Ctx
  <2>2. LoopState(c, outcome) = Dispatch(d, outcome)
    BY <1>2, <2>1 DEF LoopState, Ctx
  <2>3. sent = IF c.action = NoName THEN NothingSent ELSE c.sent
    BY <2>1 DEF Ordered, NothingSent
  <2>4. /\ NothingSent \in [state : Seq(Nat), action : Seq(Nat)] /\ 0 \in 0 .. Horizon
        /\ c.sent \in [state : Seq(Nat), action : Seq(Nat)]
    BY <2>1, SentNone, CatalogAssumption DEF NothingSent, Ctx
  <2>5. \A t \in Tracks : Count(c.state, t) \in Nat
    BY <2>1, Timelines
  <2>6. /\ next \in [Tracks -> Nat] /\ \A t \in Tracks : next[t] <= Count(c.state, t)
        /\ next["motion"] = 0 /\ next["expression"] = 0
    BY <2>5 DEF Tracks
  <2>. HIDE DEF sent, next
  <2>7. /\ d \in Ctx /\ d.next = next /\ d.nextAction = c.nextAction /\ d.sent = sent
        /\ d.state = c.state /\ d.action = c.action
    BY <2>1, <2>3, <2>4, <2>6 DEF Ctx
  <2>. HIDE DEF d
  <2>8. Placed(d)
    BY <2>1, <2>6, <2>7 DEF Placed
  <2>9. Ordered(d)
    BY <2>1, <2>3, <2>6, <2>7, SentNone DEF Ordered, NothingSent
  <2>10. \A shown : Right(d, shown)
    BY <2>6, <2>7 DEF Right
  <2>. QED
    BY <2>2, <2>7, <2>8, <2>9, <2>10, Dispatched DEF Good
<1>. QED
  BY <1>1, <1>2

LEMMA DefaultIs == DefaultRequest \in Request
<1>1. Default \in Names /\ NoName \in Names \cup {NoName} /\ NoText \in Texts \cup {NoText}
  BY MessageAssumption
<1>. QED
  BY <1>1 DEF DefaultRequest, Request

LEMMA PlayedGood ==
  ASSUME NEW c, Good(c), NEW outcome \in Outcomes
  PROVE  /\ Good(Played(c, outcome))
         /\ \A shown : Right(c, shown) => Right(Played(c, outcome), shown)
<1>. DEFINE d == LoopAction(Dispatch(c, outcome), outcome)
<1>1. Good(d) /\ \A shown : Right(c, shown) => Right(d, shown)
  BY Dispatched, LoopActionGood
<1>. HIDE DEF d
<1>2. Played(c, outcome) \in {c, d, LoopState(d, outcome), Scheduled(d, DefaultRequest, outcome)}
  BY DEF Played, d
<1>3. /\ Good(LoopState(d, outcome))
      /\ \A shown : Right(d, shown) => Right(LoopState(d, outcome), shown)
  BY <1>1, LoopStateGood
<1>4. /\ Good(Scheduled(d, DefaultRequest, outcome))
      /\ \A shown : Right(d, shown) => Right(Scheduled(d, DefaultRequest, outcome), shown)
  BY <1>1, DefaultIs, ScheduledGood
<1>. QED
  BY <1>1, <1>2, <1>3, <1>4

-----------------------------------------------------------------------------
(* What is asked for *)

(* The first of the candidates that is one of some, or a name in their place. *)
LEMMA FirstOfThem ==
  ASSUME NEW names \in Seq(Names), NEW some, some \subseteq DOMAIN names, some # {}
  PROVE  names[CHOOSE i \in some : \A j \in some : i <= j] \in Names
<1>1. \A i \in some : i \in 1 .. Len(names) /\ names[i] \in Names
  OBVIOUS
<1>2. some \subseteq Nat
  BY <1>1
<1>3. PICK i \in some : \A j \in some : i <= j
  BY <1>2, LeastNat
<1>. DEFINE n == CHOOSE x \in some : \A j \in some : x <= j
<1>4. n \in some
  BY <1>3
<1>. HIDE DEF n
<1>5. names[n] \in Names
  BY <1>1, <1>4
<1>. QED
  BY <1>5 DEF n

LEMMA MessageAsks ==
  ASSUME NEW m \in Messages
  PROVE  MessageRequest(m) \in Request /\ m.text \in Texts \cup {NoText}
<1>1. /\ m.candidates \in Seq(Names) /\ m.text \in Texts \cup {NoText} /\ m.sound \in Sounds
      /\ Default \in Names
  BY MessageAssumption DEF Sounds
<1>2. StateOf(m) \in Names
  <2>. DEFINE tried == {i \in DOMAIN m.candidates : ~AnswersNotFound(m.candidates[i])}
  <2>1. tried \subseteq DOMAIN m.candidates
    OBVIOUS
  <2>2. StateOf(m) = IF tried = {} THEN Default
                     ELSE m.candidates[CHOOSE i \in tried : \A j \in tried : i <= j]
    BY DEF StateOf
  <2>. HIDE DEF tried
  <2>. QED
    BY <1>1, <2>1, <2>2, FirstOfThem
<1>3. ActionOf(m) \in Names \cup {NoName}
  <2>. DEFINE files == {i \in DOMAIN m.candidates : m.candidates[i] \in Actions}
  <2>1. files \subseteq DOMAIN m.candidates
    OBVIOUS
  <2>2. ActionOf(m) = IF files = {} THEN NoName
                      ELSE m.candidates[CHOOSE i \in files : \A j \in files : i <= j]
    BY DEF ActionOf
  <2>. HIDE DEF files
  <2>. QED
    BY <1>1, <2>1, <2>2, FirstOfThem
<1>. QED
  BY <1>1, <1>2, <1>3 DEF MessageRequest, Request, Sounds

-----------------------------------------------------------------------------
(* The steps *)

LEMMA Submitted ==
  ASSUME IInv, NEW r \in Request, Submit(r)
  PROVE  /\ request' \in Seq(Request) /\ Len(request') <= 1 /\ made' \in 0 .. MaxRequests
         /\ UNCHANGED <<drained, pc, ctx, screen, refused>>
<1>1. request' = <<r>> /\ UNCHANGED <<drained, pc, ctx, screen, refused>>
  BY DEF Submit
<1>2. <<r>> \in Seq(Request) /\ Len(<<r>>) = 1
  OBVIOUS
<1>3. made' \in 0 .. MaxRequests
  BY CatalogAssumption DEF Submit, IInv, QueueType
<1>. QED
  BY <1>1, <1>2, <1>3

(* A step that only overrides or counts in the context. *)
LEMMA SameScreen ==
  ASSUME IInv, UNCHANGED <<pc, screen, refused>>, ctx'.live = ctx.live, ctx'.state = ctx.state,
         ctx'.next = ctx.next, ctx'.show = ctx.show
  PROVE  ScreenInv'
<1>1. PICK asked \in States : Right(ctx, asked) /\ (asked = screen \/ refused)
  BY DEF IInv, ScreenInv
<1>2. (pc # "show" => ctx.show = <<>>) /\ Right(ctx', asked)
  BY <1>1 DEF IInv, ScreenInv, Right, Shown
<1>. QED
  BY <1>1, <1>2 DEF ScreenInv

LEMMA ContextKept ==
  ASSUME IInv, UNCHANGED <<ctx, pc, screen, refused>> PROVE Good(ctx)' /\ ScreenInv'
<1>1. Good(ctx)'
  BY DEF IInv, Good, Placed, Ordered
<1>. QED
  BY <1>1, SameScreen

LEMMA Overridden ==
  ASSUME IInv, NEW t \in Texts \cup {NoText}, SetText(t) PROVE Good(ctx)' /\ ScreenInv'
<1>1. ctx \in Ctx /\ Placed(ctx) /\ Ordered(ctx) /\ ctx' = [ctx EXCEPT !.text = t]
  BY DEF IInv, Good, SetText
<1>2. /\ ctx' \in Ctx /\ ctx'.state = ctx.state /\ ctx'.action = ctx.action /\ ctx'.next = ctx.next
      /\ ctx'.nextAction = ctx.nextAction /\ ctx'.sent = ctx.sent /\ ctx'.live = ctx.live
      /\ ctx'.show = ctx.show
  BY <1>1 DEF Ctx
<1>3. Placed(ctx)' /\ Ordered(ctx)'
  BY <1>1, <1>2 DEF Placed, Ordered
<1>. QED
  BY <1>2, <1>3, SameScreen DEF Good, SetText

LEMMA Passed ==
  ASSUME IInv, TimePasses \/ SfxEnds PROVE Good(ctx)' /\ ScreenInv'
<1>0. ctx \in Ctx /\ Placed(ctx) /\ Ordered(ctx)
  BY DEF IInv, Good
<1>1. /\ ctx' \in Ctx /\ ctx'.state = ctx.state /\ ctx'.action = ctx.action /\ ctx'.next = ctx.next
      /\ ctx'.nextAction = ctx.nextAction /\ ctx'.sent = ctx.sent /\ ctx'.live = ctx.live
      /\ ctx'.show = ctx.show
  <2>1. CASE SfxEnds
    <3>1. ctx' = [ctx EXCEPT !.sfx = FALSE]
      BY <2>1 DEF SfxEnds
    <3>. QED
      BY <1>0, <3>1 DEF Ctx
  <2>2. CASE TimePasses
    <3>1. ctx' = [ctx EXCEPT !.elapsed = Later(@), !.actionElapsed = Later(@)]
      BY <2>2 DEF TimePasses
    <3>2. \A n \in 0 .. Horizon : Later(n) \in 0 .. Horizon
      BY CatalogAssumption DEF Later
    <3>3. Later(ctx.elapsed) \in 0 .. Horizon /\ Later(ctx.actionElapsed) \in 0 .. Horizon
      BY <1>0, <3>2 DEF Ctx
    <3>. QED
      BY <1>0, <3>1, <3>3 DEF Ctx
  <2>. QED
    BY <2>1, <2>2
<1>2. Placed(ctx)' /\ Ordered(ctx)'
  BY <1>0, <1>1 DEF Placed, Ordered
<1>3. UNCHANGED <<pc, screen, refused>>
  BY DEF TimePasses, SfxEnds
<1>. QED
  BY <1>1, <1>2, <1>3, SameScreen DEF Good

(* Nothing of the action's timeline is left, and the state's starts again.  *)
LEMMA Interrupted ==
  ASSUME IInv, Interrupt PROVE Good(ctx)' /\ ScreenInv'
<1>0. ctx \in Ctx /\ Placed(ctx) /\ Ordered(ctx) /\ UNCHANGED <<pc, screen, refused>>
  BY DEF IInv, Good, Interrupt
<1>1. CASE ctx.action = NoName
  <2>1. ctx' = ctx
    BY <1>1 DEF Interrupt
  <2>. QED
    BY <1>0, <2>1, ContextKept
<1>2. CASE ctx.action # NoName
  <2>1. ctx' = [ctx EXCEPT !.action = NoName, !.nextAction = 0, !.actionElapsed = 0,
                           !.sent = NothingSent]
    BY <1>2 DEF Interrupt
  <2>2. NothingSent \in [state : Seq(Nat), action : Seq(Nat)] /\ 0 \in 0 .. Horizon
    BY SentNone, CatalogAssumption DEF NothingSent
  <2>3. /\ ctx' \in Ctx /\ ctx'.state = ctx.state /\ ctx'.action = NoName /\ ctx'.next = ctx.next
        /\ ctx'.nextAction = 0 /\ ctx'.sent = NothingSent /\ ctx'.live = ctx.live
        /\ ctx'.show = ctx.show
    BY <1>0, <2>1, <2>2 DEF Ctx
  <2>4. Placed(ctx)'
    BY <1>0, <2>3, Timelines DEF Placed
  <2>5. Ordered(ctx)'
    <3>1. Sent(0, ctx.next["motion"]) = <<>>
      BY <1>0, <1>2, SentNone DEF Placed
    <3>. QED
      BY <2>3, <3>1 DEF Ordered, NothingSent
  <2>. QED
    BY <1>0, <2>3, <2>4, <2>5, SameScreen DEF Good
<1>. QED
  BY <1>1, <1>2

LEMMA Drained ==
  ASSUME IInv, DrainQueue PROVE IInv'
<1>1. /\ drained' = request /\ request' = <<>> /\ pc = "drain" /\ pc' = "tick"
      /\ UNCHANGED <<ctx, screen, refused, made, cvars>>
  BY DEF DrainQueue, Drain
<1>2. <<>> \in Seq(Request) /\ Len(<<>>) = 0
  OBVIOUS
<1>3. QueueType'
  BY <1>1, <1>2 DEF IInv, QueueType, cvars
<1>4. FlagType'
  BY <1>1 DEF IInv, FlagType, cvars
<1>5. Good(ctx)'
  BY <1>1 DEF IInv, Good, Placed, Ordered
<1>6. ScreenInv'
  BY <1>1 DEF IInv, ScreenInv, Right, Shown
<1>. QED
  BY <1>3, <1>4, <1>5, <1>6 DEF IInv

(* The request that was taken is played, then the timelines go on. *)
LEMMA Ticked ==
  ASSUME IInv, NEW outcome \in Outcomes, TickWith(outcome) PROVE IInv'
<1>. DEFINE c == IF drained = <<>> THEN ctx ELSE Scheduled(ctx, drained[1], outcome)
<1>1. /\ ctx' = Played(c, outcome) /\ pc = "tick" /\ pc' = "show" /\ drained' = <<>>
      /\ UNCHANGED <<request, screen, refused, made, cvars>>
  BY DEF TickWith, Tick
<1>2. PICK asked \in States : Good(ctx) /\ Right(ctx, asked) /\ (asked = screen \/ refused)
  BY DEF IInv, ScreenInv
<1>3. Good(c) /\ Right(c, asked)
  <2>1. CASE drained = <<>>
    BY <1>2, <2>1
  <2>2. CASE drained # <<>>
    <3>1. drained \in Seq(Request)
      BY DEF IInv, QueueType
    <3>2. drained[1] \in Request
      BY <2>2, <3>1
    <3>. QED
      BY <1>2, <2>2, <3>2, ScheduledGood
  <2>. QED
    BY <2>1, <2>2
<1>. HIDE DEF c
<1>4. Good(ctx') /\ Right(ctx', asked)
  BY <1>1, <1>3, PlayedGood
<1>5. <<>> \in Seq(Request) /\ Len(<<>>) = 0
  OBVIOUS
<1>6. QueueType'
  BY <1>1, <1>5 DEF IInv, QueueType, cvars
<1>7. FlagType'
  BY <1>1 DEF IInv, FlagType, cvars
<1>8. ScreenInv'
  BY <1>1, <1>2, <1>4 DEF ScreenInv
<1>9. Good(ctx)'
  BY <1>4 DEF Good, Placed, Ordered
<1>. QED
  BY <1>6, <1>7, <1>8, <1>9 DEF IInv

(* What was captured is shown, unless the display refuses it. *)
LEMMA Displayed ==
  ASSUME IInv, ShowState PROVE IInv'
<1>1. /\ ctx' = [ctx EXCEPT !.show = <<>>] /\ pc' = "drain" /\ refused' \in BOOLEAN
      /\ screen' = screen \/ (ctx.show # <<>> /\ screen' = ctx.show[1])
      /\ UNCHANGED <<request, drained, made, cvars>>
  BY DEF ShowState, Show, IInv, FlagType
<1>2. ctx \in Ctx /\ Placed(ctx) /\ Ordered(ctx) /\ screen \in States
  BY DEF IInv, Good, ScreenInv, FlagType
<1>3. /\ ctx' \in Ctx /\ ctx'.state = ctx.state /\ ctx'.action = ctx.action /\ ctx'.next = ctx.next
      /\ ctx'.nextAction = ctx.nextAction /\ ctx'.sent = ctx.sent /\ ctx'.live = ctx.live
      /\ ctx'.show = <<>>
  BY <1>1, <1>2 DEF Ctx
<1>4. Placed(ctx)' /\ Ordered(ctx)'
  BY <1>2, <1>3 DEF Placed, Ordered
<1>5. ctx.show = <<>> \/ (\E s \in States : ctx.show = <<s>>)
  BY <1>2 DEF Ctx
<1>6. PICK asked \in States : Right(ctx, asked) /\ (asked = screen \/ refused)
  BY DEF IInv, ScreenInv
<1>7. ScreenInv'
  <2>1. Right(ctx', Shown(ctx, asked))
    BY <1>3, <1>6 DEF Right, Shown
  <2>2. Shown(ctx, asked) = screen' \/ refused'
    BY <1>6 DEF ShowState, Show, Shown
  <2>3. Shown(ctx, asked) \in States
    BY <1>5, <1>6 DEF Shown
  <2>. QED
    BY <1>1, <2>1, <2>2, <2>3 DEF ScreenInv
<1>8. QueueType'
  BY <1>1 DEF IInv, QueueType, cvars
<1>9. FlagType'
  <2>1. screen' \in States
    BY <1>1, <1>2, <1>5
  <2>. QED
    BY <1>1, <2>1 DEF IInv, FlagType, cvars
<1>. QED
  BY <1>3, <1>4, <1>7, <1>8, <1>9 DEF IInv, Good

LEMMA Applied ==
  ASSUME IInv, ApplyMessage PROVE IInv'
<1>. DEFINE m == Head(stateQueue)
<1>1. /\ stateQueue \in Seq(Messages) /\ stateQueue # <<>> /\ Len(stateQueue) <= StateQueueDepth
      /\ stateQueue' = Tail(stateQueue) /\ UNCHANGED <<touch, latched, suppressed>>
      /\ SetText(m.text) \/ Submit(MessageRequest(m))
  BY DEF ApplyMessage, IInv, QueueType
<1>2. m \in Messages /\ stateQueue' \in Seq(Messages) /\ Len(stateQueue') <= StateQueueDepth
  <2>1. m \in Messages /\ stateQueue' \in Seq(Messages) /\ Len(stateQueue') = Len(stateQueue) - 1
    BY <1>1
  <2>2. Len(stateQueue) \in Nat /\ StateQueueDepth \in Nat
    BY <1>1, MessageAssumption
  <2>. QED
    BY <1>1, <2>1, <2>2
<1>. HIDE DEF m
<1>3. CASE SetText(m.text)
  <2>1. UNCHANGED <<request, drained, pc, screen, refused, made>>
    BY <1>3 DEF SetText
  <2>2. QueueType' /\ FlagType'
    BY <1>1, <1>2, <2>1 DEF IInv, QueueType, FlagType
  <2>. QED
    BY <1>2, <1>3, <2>2, MessageAsks, Overridden DEF IInv
<1>4. CASE Submit(MessageRequest(m))
  <2>1. /\ request' \in Seq(Request) /\ Len(request') <= 1 /\ made' \in 0 .. MaxRequests
        /\ UNCHANGED <<drained, pc, ctx, screen, refused>>
    BY <1>2, <1>4, MessageAsks, Submitted
  <2>2. QueueType' /\ FlagType'
    BY <1>1, <1>2, <2>1 DEF IInv, QueueType, FlagType
  <2>. QED
    BY <2>1, <2>2, ContextKept DEF IInv
<1>. QED
  BY <1>1, <1>3, <1>4

(* The requests of the other tasks. *)
LEMMA Requested ==
  ASSUME IInv, NEW r \in Request, Submit(r), UNCHANGED <<stateQueue, latched, suppressed>>,
         touch' \in {"idle", "passed"}
  PROVE  IInv'
<1>1. /\ request' \in Seq(Request) /\ Len(request') <= 1 /\ made' \in 0 .. MaxRequests
      /\ UNCHANGED <<drained, pc, ctx, screen, refused>>
  BY Submitted
<1>2. QueueType' /\ FlagType'
  BY <1>1 DEF IInv, QueueType, FlagType
<1>. QED
  BY <1>1, <1>2, ContextKept DEF IInv

(* The steps of the queue and of the touch sensor. *)
LEMMA Around ==
  ASSUME IInv, UNCHANGED bvars, stateQueue' \in Seq(Messages), Len(stateQueue') <= StateQueueDepth,
         touch' \in {"idle", "passed"}, latched' \in BOOLEAN, suppressed' \in BOOLEAN
  PROVE  IInv'
<1>1. UNCHANGED <<request, drained, pc, ctx, screen, refused, made>>
  BY DEF bvars
<1>2. QueueType' /\ FlagType'
  BY <1>1 DEF IInv, QueueType, FlagType
<1>. QED
  BY <1>1, <1>2, ContextKept DEF IInv

LEMMA Posted ==
  ASSUME IInv, NEW m \in Messages, Post(m) PROVE IInv'
<1>. DEFINE full == ~(Len(stateQueue) < StateQueueDepth)
<1>1. /\ stateQueue \in Seq(Messages) /\ Len(stateQueue) <= StateQueueDepth
      /\ StateQueueDepth \in Nat
  BY MessageAssumption DEF IInv, QueueType
<1>2. stateQueue' = (IF full THEN stateQueue ELSE Append(stateQueue, m))
  BY DEF Post
<1>3. Append(stateQueue, m) \in Seq(Messages) /\ Len(Append(stateQueue, m)) = Len(stateQueue) + 1
  BY <1>1
<1>4. Len(stateQueue) \in Nat
  BY <1>1
<1>5. stateQueue' \in Seq(Messages) /\ Len(stateQueue') <= StateQueueDepth
  BY <1>1, <1>2, <1>3, <1>4
<1>6. UNCHANGED <<bvars, touch, latched, suppressed>>
  BY DEF Post
<1>. QED
  BY <1>5, <1>6, Around DEF IInv, FlagType

(* The steps that only change what is in the context. *)
LEMMA Within ==
  ASSUME IInv, UNCHANGED <<request, drained, pc, screen, refused, made, stateQueue, touch, latched>>,
         suppressed' \in BOOLEAN, Good(ctx)', ScreenInv'
  PROVE  IInv'
<1>1. QueueType' /\ FlagType'
  BY DEF IInv, QueueType, FlagType
<1>. QED
  BY <1>1 DEF IInv

LEMMA IInvStep ==
  ASSUME IInv, [Next]_vars PROVE IInv'
<1>0. /\ stateQueue \in Seq(Messages) /\ Len(stateQueue) <= StateQueueDepth
      /\ touch \in {"idle", "passed"} /\ latched \in BOOLEAN /\ suppressed \in BOOLEAN
  BY DEF IInv, QueueType, FlagType
<1>1. CASE \E m \in Messages : Post(m)
  BY <1>1, Posted
<1>2. CASE ApplyMessage
  BY <1>2, Applied
<1>3. CASE \E r \in DirectRequests : Direct(r)
  <2>1. PICK r \in DirectRequests : Direct(r)
    BY <1>3
  <2>2. r \in Request
    BY MessageAssumption
  <2>3. Submit(r) /\ UNCHANGED <<stateQueue, touch, latched, suppressed>>
    BY <2>1 DEF Direct, cvars
  <2>. QED
    BY <1>0, <2>2, <2>3, Requested
<1>4. CASE ManualTakes
  <2>1. Interrupt /\ suppressed' = TRUE /\ UNCHANGED <<stateQueue, touch, latched>>
    BY <1>4 DEF ManualTakes
  <2>2. UNCHANGED <<request, drained, pc, screen, refused, made>>
    BY <2>1 DEF Interrupt
  <2>. QED
    BY <2>1, <2>2, Interrupted, Within
<1>5. CASE SuppressionEnds
  BY <1>0, <1>5, Around DEF SuppressionEnds
<1>6. CASE TouchPress
  <2>1. UNCHANGED <<bvars, stateQueue, suppressed>> /\ latched' \in BOOLEAN
        /\ touch' \in {"idle", "passed"}
    BY <1>0, <1>6 DEF TouchPress
  <2>. QED
    BY <1>0, <2>1, Around
<1>7. CASE TouchAsks
  <2>1. TouchRequest \in Request
    BY MessageAssumption
  <2>. QED
    BY <1>7, <2>1, Requested DEF TouchAsks
<1>8. CASE TouchRelease
  BY <1>0, <1>8, Around DEF TouchRelease
<1>9. CASE DrainQueue
  BY <1>9, Drained
<1>10. CASE ShowState
  BY <1>10, Displayed
<1>11. CASE Clock
  <2>1. TimePasses /\ UNCHANGED <<request, drained, pc, screen, refused, made>> /\ UNCHANGED cvars
    BY <1>11 DEF Clock, TimePasses
  <2>. QED
    BY <1>0, <2>1, Passed, Within DEF cvars
<1>12. CASE SoundEnds
  <2>1. SfxEnds /\ UNCHANGED <<request, drained, pc, screen, refused, made>> /\ UNCHANGED cvars
    BY <1>12 DEF SoundEnds, SfxEnds
  <2>. QED
    BY <1>0, <2>1, Passed, Within DEF cvars
<1>13. CASE \E outcome \in Outcomes : TickWith(outcome)
  BY <1>13, Ticked
<1>14. CASE UNCHANGED vars
  BY <1>0, <1>14, Around DEF vars, cvars
<1>. QED
  BY <1>1, <1>2, <1>3, <1>4, <1>5, <1>6, <1>7, <1>8, <1>9, <1>10, <1>11, <1>12, <1>13, <1>14
     DEF Next

LEMMA InitIInv ==
  ASSUME CInit PROVE IInv
<1>1. /\ request = <<>> /\ drained = <<>> /\ pc = "drain" /\ screen = Default /\ refused = FALSE
      /\ made = 0
      /\ stateQueue = <<>> /\ touch = "idle" /\ latched = FALSE /\ suppressed = FALSE
  BY DEF CInit, Init
<1>2. ctx = [live |-> FALSE, state |-> Default, action |-> NoName,
             elapsed |-> 0, actionElapsed |-> 0,
             next |-> [t \in Tracks |-> 0], nextAction |-> 0,
             text |-> NoText, sound |-> "default", wait |-> FALSE, sfx |-> FALSE,
             show |-> <<>>, sent |-> NothingSent]
  BY DEF CInit, Init
<1>3. /\ <<>> \in Seq(Request) /\ <<>> \in Seq(Messages) /\ Len(<<>>) = 0
  OBVIOUS
<1>4. QueueType /\ FlagType
  <2>1. /\ Default \in States /\ 0 \in 0 .. MaxRequests /\ 0 <= 1 /\ 0 <= StateQueueDepth
    BY CatalogAssumption, MessageAssumption
  <2>. QED
    BY <1>1, <1>3, <2>1 DEF QueueType, FlagType
<1>5. /\ NothingSent \in [state : Seq(Nat), action : Seq(Nat)] /\ 0 \in 0 .. Horizon
      /\ NothingSent = [state |-> Sent(0, 0), action |-> <<>>]
  BY SentNone, CatalogAssumption DEF NothingSent
<1>6. [t \in Tracks |-> 0] \in [Tracks -> Nat] /\ [t \in Tracks |-> 0]["motion"] = 0
  BY DEF Tracks
<1>7. ctx \in Ctx
  BY <1>2, <1>5, <1>6, Timelines DEF Ctx, Sounds
<1>8. Placed(ctx) /\ Ordered(ctx)
  BY <1>2, <1>5, <1>6, Timelines DEF Placed, Ordered
<1>9. ScreenInv
  BY <1>1, <1>2, CatalogAssumption DEF ScreenInv, Right
<1>. QED
  BY <1>4, <1>7, <1>8, <1>9 DEF IInv, Good

LEMMA Always == Spec => []IInv
BY InitIInv, IInvStep, PTL DEF Spec

-----------------------------------------------------------------------------
(* The theorems *)

(* The queues hold at most what they have room for, and a timeline is never *)
(* read past its end, whichever request, override, interrupt or loop moved  *)
(* its place (behavior_dispatch_due_events_locked, and the two queues of    *)
(* one and of StateQueueDepth places).                                      *)
THEOREM IngressTypeCorrect == Spec => []TypeOK
<1>1. ASSUME IInv PROVE TypeOK
  <2>1. ctx \in Ctx /\ Placed(ctx) /\ QueueType /\ FlagType
    BY <1>1 DEF IInv, Good
  <2>2. /\ ctx.live \in BOOLEAN /\ ctx.state \in States /\ ctx.action \in Actions \cup {NoName}
        /\ ctx.elapsed \in 0 .. Horizon /\ ctx.actionElapsed \in 0 .. Horizon
        /\ ctx.next \in [Tracks -> Nat] /\ ctx.nextAction \in Nat
        /\ ctx.text \in Texts \cup {NoText} /\ ctx.sound \in Sounds
        /\ ctx.wait \in BOOLEAN /\ ctx.sfx \in BOOLEAN
    BY <2>1 DEF Ctx
  <2>3. ctx.nextAction \in 0 .. MotionCount(ctx.action)
    BY <2>1, <2>2, Timelines DEF Placed
  <2>4. Len(ctx.show) <= 1
    <3>1. ctx.show = <<>> \/ \E s \in States : ctx.show = <<s>>
      BY <2>1 DEF Ctx
    <3>2. CASE ctx.show = <<>>
      <4>1. Len(<<>>) = 0
        OBVIOUS
      <4>. QED
        BY <3>2, <4>1
    <3>3. CASE \E s \in States : ctx.show = <<s>>
      <4>1. PICK s \in States : ctx.show = <<s>>
        BY <3>3
      <4>2. Len(<<s>>) = 1
        OBVIOUS
      <4>. QED
        BY <4>1, <4>2
    <3>. QED
      BY <3>1, <3>2, <3>3
  <2>5. {latched, suppressed} \subseteq BOOLEAN
    BY <2>1 DEF FlagType
  <2>6. \A t \in Tracks : ctx.next[t] <= Count(ctx.state, t)
    BY <2>1 DEF Placed
  <2>7. /\ request \in Seq(Request) /\ Len(request) <= 1
        /\ drained \in Seq(Request) /\ Len(drained) <= 1
        /\ pc \in {"drain", "tick", "show"} /\ screen \in States /\ refused \in BOOLEAN
        /\ made \in 0 .. MaxRequests /\ Len(stateQueue) <= StateQueueDepth
        /\ touch \in {"idle", "passed"}
    BY <2>1 DEF QueueType, FlagType
  <2>. QED
    BY <2>2, <2>3, <2>4, <2>5, <2>6, <2>7 DEF TypeOK, Sounds
<1>. QED
  BY <1>1, Always, PTL

(* Whatever interrupts, restarts or loops a timeline, the head is sent the  *)
(* motions of one timeline only, each once and in order from the first      *)
(* (behavior_dispatch_due_events_locked, behavior_schedule_state_locked).   *)
THEOREM MotionsStayInOrder == Spec => []MotionsInOrder
<1>1. ASSUME IInv PROVE MotionsInOrder
  BY <1>1 DEF IInv, Good, Ordered, MotionsInOrder, NothingSent
<1>. QED
  BY <1>1, Always, PTL

(* Once a turn of the task is over, the screen shows the state that plays   *)
(* or the display refused the last drawing, although the expression is      *)
(* captured under the lock and drawn after it                               *)
(* (behavior_apply_display_request).                                        *)
THEOREM ScreenShowsState == Spec => []ScreenFollowsState
<1>1. ASSUME IInv PROVE ScreenFollowsState
  BY <1>1 DEF IInv, ScreenInv, Right, Shown, ScreenFollowsState
<1>. QED
  BY <1>1, Always, PTL
=============================================================================
