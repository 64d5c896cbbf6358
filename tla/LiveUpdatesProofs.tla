-------------------------- MODULE LiveUpdatesProofs --------------------------
(***************************************************************************)
(* Proofs about LiveUpdates for every set of tabs and devices and every    *)
(* number of requests and events.                                          *)
(***************************************************************************)
EXTENDS LiveUpdates, TLAPS

-----------------------------------------------------------------------------
(* Frames, slots and requests                                              *)

LEMMA FrameSlot == ASSUME NEW f \in Frame PROVE <<f>> \in Slot
  BY DEF Slot

LEMMA NoneSlot == None \in Slot
  BY DEF Slot

\* What a slot that is not empty holds.
LEMMA SlotFrame ==
  ASSUME NEW s \in Slot, s # None PROVE Head(s) \in Frame
<1>1. PICK f \in Frame : s = <<f>> BY DEF Slot
<1> QED BY <1>1

LEMMA UnusedCall == Unused \in Call
<1>1. (CHOOSE c \in Client : TRUE) \in Client
  BY LiveBounds
<1>2. AllOff \in Frame
  BY DEF AllOff, Frame, Relay
<1> QED BY <1>1, <1>2 DEF Unused, Call, Relay

\* A settled request is as good as unused.
LEMMA SettledCall == [Unused EXCEPT !.state = "settled"] \in Call
  BY UnusedCall DEF Call

-----------------------------------------------------------------------------
(* Type correctness                                                        *)

\* What the tab shows after a merge is a device list.
LEMMA MergeFrame ==
  ASSUME TypeOK, NEW c \in Client, NEW f \in Frame
  PROVE  Merge(c, f) \in Frame
  BY DEF Merge, TypeOK, Frame

LEMMA PublishTypes ==
  ASSUME TypeOK, NEW f \in Frame, Publish(f)
  PROVE  /\ lastFrame' \in Slot
         /\ queue' \in [Client -> Seq(Frame)]
         /\ sent' \in [Client -> Slot]
         /\ fanned' \in [Client -> BOOLEAN]
<1>1. CASE (Subscribers = {} /\ ghosts = 0) \/ lastFrame = <<f>>
  BY <1>1 DEF Publish, TypeOK
<1>2. CASE ~((Subscribers = {} /\ ghosts = 0) \/ lastFrame = <<f>>)
  <2>1. \A c \in Client : Append(queue[c], f) \in Seq(Frame)
    BY DEF TypeOK
  <2>2. lastFrame' \in Slot
    BY <1>2, FrameSlot DEF Publish
  <2>3. queue' \in [Client -> Seq(Frame)]
    BY <1>2, <2>1 DEF Publish, TypeOK
  <2>4. sent' \in [Client -> Slot]
    BY <1>2, FrameSlot DEF Publish, TypeOK
  <2>5. fanned' \in [Client -> BOOLEAN]
    BY <1>2 DEF Publish, TypeOK
  <2> QED BY <2>2, <2>3, <2>4, <2>5
<1> QED BY <1>1, <1>2

\* Every ghost was left by a bounded event.
GhostsBounded == ghosts <= events

TypeInv == TypeOK /\ GhostsBounded

LEMMA TypeInit == Init => TypeInv
<1> SUFFICES ASSUME Init PROVE TypeInv
  OBVIOUS
<1>1. AllOff \in Frame
  BY DEF AllOff, Frame, Relay
<1>2. queue \in [Client -> Seq(Frame)]
  <2>1. <<>> \in Seq(Frame) OBVIOUS
  <2> QED BY <2>1 DEF Init
<1>3. calls \in [CallId -> Call]
  BY UnusedCall DEF Init
<1>4. /\ lastFrame \in Slot /\ reply \in [Client -> Slot]
      /\ sent \in [Client -> Slot]
  BY NoneSlot DEF Init
<1>5. /\ live \in Frame /\ cached \in Frame /\ shown \in [Client -> Frame]
  BY <1>1 DEF Init
<1>6. /\ connected \in [Client -> BOOLEAN] /\ fanned \in [Client -> BOOLEAN]
      /\ quiet \in [Client -> BOOLEAN] /\ loop \in BOOLEAN
      /\ busy \in [Client -> [Device -> BOOLEAN]]
      /\ overlapped \in [Client -> SUBSET Device] /\ asked \subseteq Client
  BY DEF Init
<1>7. ghosts \in 0..MaxEvents /\ events \in 0..MaxEvents /\ ghosts <= events
  BY LiveBounds DEF Init
<1> QED BY <1>2, <1>3, <1>4, <1>5, <1>6, <1>7
        DEF TypeInv, TypeOK, GhostsBounded

LEMMA EventTypes ==
  ASSUME TypeInv, Event
  PROVE  events' \in 0..MaxEvents /\ events' = events + 1
  BY LiveBounds DEF Event, TypeInv, TypeOK

LEMMA TypeHardware ==
  ASSUME TypeInv, Hardware PROVE TypeInv'
<1>1. ASSUME NEW d \in Device, Outside(d) PROVE TypeInv'
  <2>1. live' \in Frame
    BY <1>1 DEF Outside, TypeInv, TypeOK, Frame, Relay
  <2> QED BY <1>1, <2>1, EventTypes
          DEF Outside, TypeInv, TypeOK, GhostsBounded, serverVars, fetchVars,
              tabVars, histVars
<1>2. ASSUME NEW d \in Device, Refresh(d) PROVE TypeInv'
  <2>1. cached' \in Frame
    BY <1>2 DEF Refresh, TypeInv, TypeOK, Frame
  <2> QED BY <1>2, <2>1
          DEF Refresh, TypeInv, TypeOK, GhostsBounded, serverVars, fetchVars,
              tabVars, histVars
<1> QED BY <1>1, <1>2 DEF Hardware

LEMMA TypeStream ==
  ASSUME TypeInv, Stream PROVE TypeInv'
<1>1. CASE LoopPublish
  <2>1. Publish(cached) /\ cached \in Frame /\ TypeOK
    BY <1>1 DEF LoopPublish, TypeInv, TypeOK
  <2>2. /\ lastFrame' \in Slot
        /\ queue' \in [Client -> Seq(Frame)]
        /\ sent' \in [Client -> Slot]
        /\ fanned' \in [Client -> BOOLEAN]
    BY <2>1, PublishTypes
  <2>3. UNCHANGED <<hwVars, connected, ghosts, loop, fetchVars, tabVars, calls,
                    events, quiet, overlapped>>
    BY <1>1 DEF LoopPublish
  <2>4. UNCHANGED <<live, cached, connected, ghosts, loop, asked, reply, shown,
                    busy, calls, events, quiet, overlapped>>
    BY <2>3 DEF hwVars, fetchVars, tabVars
  <2>5. /\ live' \in Frame /\ cached' \in Frame
        /\ connected' \in [Client -> BOOLEAN] /\ ghosts' \in 0..MaxEvents
        /\ asked' \subseteq Client /\ reply' \in [Client -> Slot]
        /\ shown' \in [Client -> Frame]
        /\ busy' \in [Client -> [Device -> BOOLEAN]]
        /\ calls' \in [CallId -> Call] /\ events' \in 0..MaxEvents
        /\ quiet' \in [Client -> BOOLEAN] /\ ghosts' <= events'
        /\ overlapped' \in [Client -> SUBSET Device]
    BY <2>4 DEF TypeInv, TypeOK, GhostsBounded
  <2>6. loop' \in BOOLEAN
    BY <2>4 DEF TypeInv, TypeOK
  <2> QED BY <2>2, <2>5, <2>6 DEF TypeInv, TypeOK, GhostsBounded
<1> USE DEF TypeInv, TypeOK, GhostsBounded
<1>2. CASE Unsubscribe
  <2>1. lastFrame' \in Slot /\ loop' \in BOOLEAN
    BY <1>2, NoneSlot DEF Unsubscribe
  <2>2. ghosts' \in 0..MaxEvents /\ ghosts' <= events
    BY <1>2, LiveBounds DEF Unsubscribe
  <2>3. UNCHANGED <<live, cached, connected, queue, asked, reply, shown, busy,
                    calls, events, sent, fanned, quiet, overlapped>>
    BY <1>2 DEF Unsubscribe, hwVars, fetchVars, tabVars, histVars
  <2> QED BY <2>1, <2>2, <2>3
<1>3. ASSUME NEW c \in Client, Connect(c) PROVE TypeInv'
  <2>1. <<cached>> \in Seq(Frame) /\ <<cached>> \in Slot
    BY FrameSlot
  <2>2. /\ queue' \in [Client -> Seq(Frame)] /\ sent' \in [Client -> Slot]
        /\ connected' \in [Client -> BOOLEAN]
        /\ fanned' \in [Client -> BOOLEAN] /\ loop' \in BOOLEAN
    BY <1>3, <2>1 DEF Connect
  <2>3. quiet' \in [Client -> BOOLEAN]
    BY <1>3 DEF Connect
  <2>4. events' \in 0..MaxEvents /\ events' = events + 1
    BY <1>3, LiveBounds DEF Connect, Event
  <2> QED BY <1>3, <2>2, <2>3, <2>4
          DEF Connect, hwVars, fetchVars, tabVars
<1>4. ASSUME NEW c \in Client, Deliver(c) PROVE TypeInv'
  <2>1. Head(queue[c]) \in Frame /\ Tail(queue[c]) \in Seq(Frame)
    BY <1>4 DEF Deliver
  <2>2. shown' \in [Client -> Frame] /\ queue' \in [Client -> Seq(Frame)]
    BY <1>4, <2>1, MergeFrame DEF Deliver
  <2> QED BY <1>4, <2>2 DEF Deliver, hwVars, serverVars, fetchVars, histVars
<1>5. ASSUME NEW c \in Client, Drop(c) PROVE TypeInv'
  <2>1. events' \in 0..MaxEvents /\ events' = events + 1
    BY <1>5, LiveBounds DEF Drop, Event
  <2>2. <<>> \in Seq(Frame) OBVIOUS
  <2>3. queue' \in [Client -> Seq(Frame)]
        /\ connected' \in [Client -> BOOLEAN]
    BY <1>5, <2>2 DEF Drop
  <2>4. ghosts' \in 0..MaxEvents /\ ghosts' <= events'
    BY <1>5, <2>1, LiveBounds DEF Drop
  <2> QED BY <1>5, <2>1, <2>3, <2>4
          DEF Drop, hwVars, fetchVars, tabVars, histVars
<1> QED BY <1>1, <1>2, <1>3, <1>4, <1>5 DEF Stream

LEMMA TypeState ==
  ASSUME TypeInv, State PROVE TypeInv'
<1> USE DEF TypeInv, TypeOK, GhostsBounded
<1>1. ASSUME NEW c \in Client, Fetch(c) PROVE TypeInv'
  <2>1. events' \in 0..MaxEvents /\ events' = events + 1
    BY <1>1, LiveBounds DEF Fetch, Event
  <2> QED BY <1>1, <2>1 DEF Fetch, hwVars, serverVars, tabVars
<1>2. ASSUME NEW c \in Client, ServeState(c) PROVE TypeInv'
  BY <1>2, FrameSlot
     DEF ServeState, hwVars, serverVars, tabVars, histVars
<1>3. ASSUME NEW c \in Client, ArriveState(c) PROVE TypeInv'
  <2>1. Head(reply[c]) \in Frame
    BY <1>3, SlotFrame DEF ArriveState
  <2>2. shown' \in [Client -> Frame] /\ reply' \in [Client -> Slot]
    BY <1>3, <2>1, MergeFrame, NoneSlot DEF ArriveState
  <2> QED BY <1>3, <2>2 DEF ArriveState, hwVars, serverVars, histVars
<1> QED BY <1>1, <1>2, <1>3 DEF State

\* A request whose devices move from one stage to the next.
LEMMA StageCall ==
  ASSUME NEW r \in Call, NEW d \in Device
  PROVE  /\ [r EXCEPT !.todo = @ \ {d}, !.reading = @ \cup {d}] \in Call
         /\ [r EXCEPT !.todo = @ \ {d}, !.failed = @ \cup {d}] \in Call
         /\ [r EXCEPT !.reading = @ \ {d}] \in Call
  BY DEF Call

LEMMA AnsweredCall ==
  ASSUME NEW r \in Call, NEW b \in Frame
  PROVE  [r EXCEPT !.state = "answered", !.body = b] \in Call
  BY DEF Call

LEMMA SendTypes ==
  ASSUME TypeInv, NEW k \in CallId, NEW c \in Client, NEW D \in SUBSET Device,
         NEW many \in BOOLEAN, NEW want \in Relay, Send(k, c, D, many, want)
  PROVE  TypeInv'
<1> USE DEF TypeInv, TypeOK, GhostsBounded
<1>1. events' \in 0..MaxEvents /\ events' = events + 1
  BY LiveBounds DEF Send, Event
<1>2. AllOff \in Frame
  BY DEF AllOff, Frame, Relay
<1>3. [state |-> "sent", client |-> c, devs |-> D, many |-> many,
       want |-> want, prev |-> shown[c], todo |-> D, reading |-> {},
       failed |-> {}, body |-> AllOff] \in Call
  BY <1>2 DEF Call
<1>4. calls' \in [CallId -> Call]
  BY <1>3 DEF Send
<1>5. [d \in Device |-> IF d \in D THEN want ELSE shown[c][d]] \in Frame
  BY DEF Frame
<1>6. shown' \in [Client -> Frame]
  BY <1>5 DEF Send
<1>7. [d \in Device |-> busy[c][d] \/ d \in D] \in [Device -> BOOLEAN]
  OBVIOUS
<1>8. busy' \in [Client -> [Device -> BOOLEAN]]
  BY <1>7 DEF Send
<1>9. overlapped' \in [Client -> SUBSET Device]
  BY DEF Send
<1>10. quiet' \in [Client -> BOOLEAN]
  BY DEF Send
<1>11. UNCHANGED <<live, cached, connected, ghosts, lastFrame, loop, queue,
                   asked, reply, sent, fanned>>
  BY DEF Send, hwVars, serverVars, fetchVars
<1> QED BY <1>1, <1>4, <1>6, <1>8, <1>9, <1>10, <1>11

\* What an ended request leaves behind, whatever device list the tab shows.
LEMMA EndTypes ==
  ASSUME TypeInv, NEW k \in CallId, NEW f \in Frame,
         NEW b \in [Device -> BOOLEAN],
         shown' = [shown EXCEPT ![calls[k].client] = f],
         busy' = [busy EXCEPT ![calls[k].client] = b],
         calls' = [calls EXCEPT ![k] = [Unused EXCEPT !.state = "settled"]]
  PROVE  /\ shown' \in [Client -> Frame]
         /\ busy' \in [Client -> [Device -> BOOLEAN]]
         /\ calls' \in [CallId -> Call]
  BY SettledCall DEF TypeInv, TypeOK, Call

LEMMA TypeRequests ==
  ASSUME TypeInv, Requests PROVE TypeInv'
<1>1. ASSUME NEW k \in CallId, NEW c \in Client, NEW d \in Device,
             Toggle(k, c, d)
      PROVE  TypeInv'
  BY <1>1, SendTypes DEF Toggle, Relay
<1>2. ASSUME NEW k \in CallId, NEW c \in Client, NEW s \in Relay,
             ToggleMany(k, c, s)
      PROVE  TypeInv'
  BY <1>2, SendTypes DEF ToggleMany
<1> USE DEF TypeInv, TypeOK, GhostsBounded
<1>3. ASSUME NEW k \in CallId, NEW d \in Device, Execute(k, d) PROVE TypeInv'
  <2>1. calls[k] \in Call OBVIOUS
  <2>2. calls[k].want \in Relay /\ live[d] \in Relay
    BY <2>1 DEF Call, Frame
  <2>3. live' \in Frame
    BY <1>3, <2>2 DEF Execute, Frame
  <2>4. calls' \in [CallId -> Call]
    <3> DEFINE q == [calls[k] EXCEPT !.todo = @ \ {d},
                                     !.reading = @ \cup {d}]
               f == [calls[k] EXCEPT !.todo = @ \ {d},
                                     !.failed = @ \cup {d}]
    <3>1. q \in Call /\ f \in Call
      BY <2>1, StageCall
    <3>2. \/ calls' = [calls EXCEPT ![k] = q]
          \/ calls' = [calls EXCEPT ![k] = f]
      BY <1>3 DEF Execute
    <3> HIDE DEF q, f
    <3> QED BY <3>1, <3>2
  <2>5. events' \in 0..MaxEvents /\ events' >= events
    BY <1>3, LiveBounds DEF Execute, Event
  <2>6. UNCHANGED <<cached, connected, ghosts, lastFrame, loop, queue, asked,
                    reply, shown, busy, sent, fanned, quiet, overlapped>>
    BY <1>3 DEF Execute, serverVars, fetchVars, tabVars, histVars
  <2> QED BY <2>3, <2>4, <2>5, <2>6
<1>4. ASSUME NEW k \in CallId, NEW d \in Device, ReadBack(k, d) PROVE TypeInv'
  <2>1. calls[k] \in Call /\ live[d] \in Relay
    BY DEF Frame
  <2>2. cached' \in Frame
    BY <1>4, <2>1 DEF ReadBack, Frame
  <2>3. calls' \in [CallId -> Call]
    <3> DEFINE q == [calls[k] EXCEPT !.reading = @ \ {d}]
    <3>1. q \in Call
      BY <2>1, StageCall
    <3>2. calls' = [calls EXCEPT ![k] = q]
      BY <1>4 DEF ReadBack
    <3> HIDE DEF q
    <3> QED BY <3>1, <3>2
  <2>4. events' \in 0..MaxEvents /\ events' >= events
    BY <1>4, LiveBounds DEF ReadBack, Event
  <2>5. UNCHANGED <<live, connected, ghosts, lastFrame, loop, queue, asked,
                    reply, shown, busy, sent, fanned, quiet, overlapped>>
    BY <1>4 DEF ReadBack, serverVars, fetchVars, tabVars, histVars
  <2> QED BY <2>2, <2>3, <2>4, <2>5
<1>5. ASSUME NEW k \in CallId, Answer(k) PROVE TypeInv'
  <2>1. calls' \in [CallId -> Call]
    <3> DEFINE q == [calls[k] EXCEPT !.state = "answered", !.body = cached]
    <3>1. q \in Call
      BY AnsweredCall
    <3>2. calls' = [calls EXCEPT ![k] = q]
      BY <1>5 DEF Answer
    <3> HIDE DEF q
    <3> QED BY <3>1, <3>2
  <2>2. /\ lastFrame' \in Slot
        /\ queue' \in [Client -> Seq(Frame)]
        /\ sent' \in [Client -> Slot]
        /\ fanned' \in [Client -> BOOLEAN]
    <3>1. CASE UNCHANGED <<lastFrame, queue, sent, fanned>>
      BY <3>1
    <3>2. CASE Publish(cached)
      BY <3>2, PublishTypes
    <3> QED BY <1>5, <3>1, <3>2 DEF Answer
  <2>3. UNCHANGED <<live, cached, connected, ghosts, loop, asked, reply, shown,
                    busy, events, quiet, overlapped>>
    BY <1>5 DEF Answer, hwVars, fetchVars, tabVars
  <2> QED BY <2>1, <2>2, <2>3
<1>6. ASSUME NEW k \in CallId, Settle(k) PROVE TypeInv'
  <2> DEFINE r == calls[k]
  <2>1. r \in Call /\ shown[r.client] \in Frame
        /\ busy[r.client] \in [Device -> BOOLEAN]
    BY DEF Call
  <2>2. Settled(k) \in Frame
    BY <2>1 DEF Settled, Frame, Call
  <2>3. [d \in Device |-> busy[r.client][d] /\ d \notin r.devs]
          \in [Device -> BOOLEAN]
    OBVIOUS
  <2>4. /\ shown' \in [Client -> Frame]
        /\ busy' \in [Client -> [Device -> BOOLEAN]]
        /\ calls' \in [CallId -> Call]
    BY <1>6, <2>2, <2>3, EndTypes DEF Settle
  <2>5. UNCHANGED <<live, cached, connected, ghosts, lastFrame, loop, queue,
                    asked, reply, events, sent, fanned, quiet, overlapped>>
    BY <1>6 DEF Settle, hwVars, serverVars, fetchVars, histVars
  <2> QED BY <2>4, <2>5
<1>7. ASSUME NEW k \in CallId, LoseAnswer(k) PROVE TypeInv'
  <2> DEFINE r == calls[k]
  <2>1. r \in Call /\ shown[r.client] \in Frame
        /\ busy[r.client] \in [Device -> BOOLEAN]
    BY DEF Call
  <2>2. [d \in Device |-> IF d \in r.devs THEN r.prev[d]
                          ELSE shown[r.client][d]] \in Frame
    BY <2>1 DEF Frame, Call
  <2>3. [d \in Device |-> busy[r.client][d] /\ d \notin r.devs]
          \in [Device -> BOOLEAN]
    OBVIOUS
  <2>4. /\ shown' \in [Client -> Frame]
        /\ busy' \in [Client -> [Device -> BOOLEAN]]
        /\ calls' \in [CallId -> Call]
    BY <1>7, <2>2, <2>3, EndTypes DEF LoseAnswer
  <2>5. events' \in 0..MaxEvents /\ events' = events + 1
    BY <1>7, LiveBounds DEF LoseAnswer, Event
  <2>6. UNCHANGED <<live, cached, connected, ghosts, lastFrame, loop, queue,
                    asked, reply, sent, fanned, quiet, overlapped>>
    BY <1>7 DEF LoseAnswer, hwVars, serverVars, fetchVars, histVars
  <2> QED BY <2>4, <2>5, <2>6
<1> QED BY <1>1, <1>2, <1>3, <1>4, <1>5, <1>6, <1>7 DEF Requests

LEMMA TypeStep == TypeInv /\ [Next]_vars => TypeInv'
<1> SUFFICES ASSUME TypeInv, [Next]_vars PROVE TypeInv'
  OBVIOUS
<1>1. CASE UNCHANGED vars
  BY <1>1 DEF vars, hwVars, serverVars, fetchVars, tabVars, histVars, TypeInv,
              TypeOK, GhostsBounded
<1> QED BY <1>1, TypeHardware, TypeStream, TypeState, TypeRequests DEF Next

LEMMA TypeInvariance == Spec => []TypeInv
  BY TypeInit, TypeStep, PTL DEF Spec

\* Every variable keeps its type, and no ghost subscription is uncounted.
THEOREM TypeCorrect == Spec => []TypeOK
<1>1. TypeInv => TypeOK BY DEF TypeInv
<1> QED BY <1>1, TypeInvariance, PTL

-----------------------------------------------------------------------------
(* The refresh loop                                                        *)

LEMMA LoopStep ==
  TypeInv /\ LoopServesSubscribers /\ [Next]_vars => LoopServesSubscribers'
<1> SUFFICES ASSUME TypeInv, LoopServesSubscribers, [Next]_vars
             PROVE  LoopServesSubscribers'
  OBVIOUS
<1> USE DEF LoopServesSubscribers, Subscribers
<1>1. ghosts \in Nat /\ connected \in [Client -> BOOLEAN]
  BY LiveBounds DEF TypeInv, TypeOK
<1>2. CASE UNCHANGED <<connected, ghosts, loop>>
  BY <1>2
<1>3. ASSUME NEW c \in Client, Connect(c) PROVE LoopServesSubscribers'
  <2>1. connected'[c] /\ loop'
    BY <1>1, <1>3 DEF Connect
  <2> QED BY <2>1
<1>4. ASSUME NEW c \in Client, Drop(c) PROVE LoopServesSubscribers'
  <2>1. c \in Subscribers /\ loop' = loop /\ ghosts' = ghosts + 1
    BY <1>4 DEF Drop, serverVars
  <2>2. ghosts' > 0
    BY <1>1, <2>1
  <2> QED BY <2>1, <2>2
<1>5. CASE Unsubscribe
  <2>1. Subscribers' = Subscribers /\ ghosts' = ghosts - 1 /\ ghosts > 0
    BY <1>5 DEF Unsubscribe
  <2>2. CASE ghosts = 1 /\ Subscribers = {}
    <3>1. ~loop' /\ ghosts' = 0
      BY <1>5, <2>1, <2>2 DEF Unsubscribe
    <3> QED BY <2>1, <2>2, <3>1
  <2>3. CASE ~(ghosts = 1 /\ Subscribers = {})
    <3>1. loop' = loop
      BY <1>5, <2>3 DEF Unsubscribe
    <3>2. Subscribers # {} \/ ghosts' > 0
      BY <1>1, <2>1, <2>3
    <3>3. loop
      BY <2>1
    <3> QED BY <2>1, <3>1, <3>2, <3>3
  <2> QED BY <2>2, <2>3
<1>6. CASE Hardware
  BY <1>6, <1>2 DEF Hardware, Outside, Refresh, serverVars
<1>7. CASE LoopPublish
  BY <1>7, <1>2 DEF LoopPublish
<1>8. ASSUME NEW c \in Client, Deliver(c) PROVE LoopServesSubscribers'
  BY <1>8, <1>2 DEF Deliver, serverVars
<1>9. CASE State
  BY <1>9, <1>2 DEF State, Fetch, ServeState, ArriveState, serverVars
<1>10. CASE Requests
  BY <1>10, <1>2 DEF Requests, Toggle, ToggleMany, Send, Execute, ReadBack,
                     Answer, Settle, LoseAnswer, serverVars
<1>11. CASE UNCHANGED vars
  BY <1>11, <1>2 DEF vars, serverVars
<1> QED BY <1>3, <1>4, <1>5, <1>6, <1>7, <1>8, <1>9, <1>10, <1>11
        DEF Next, Stream

\* The refresh loop runs exactly while somebody is subscribed, however many
\* streams open, break and are noticed to have broken.
THEOREM LoopServes == Spec => []LoopServesSubscribers
<1>1. Init => LoopServesSubscribers
  BY DEF Init, LoopServesSubscribers, Subscribers
<1> QED BY <1>1, LoopStep, TypeInvariance, PTL DEF Spec

-----------------------------------------------------------------------------
(* The suppression of repeated frames                                      *)

\* Publishing keeps every stream and _last_frame in step.
LEMMA PublishSound ==
  ASSUME TypeInv, SuppressionSound, NEW f \in Frame, Publish(f),
         UNCHANGED connected
  PROVE  SuppressionSound'
<1> USE DEF SuppressionSound, Subscribers
<1>1. CASE (Subscribers = {} /\ ghosts = 0) \/ lastFrame = <<f>>
  BY <1>1 DEF Publish
<1>2. CASE ~((Subscribers = {} /\ ghosts = 0) \/ lastFrame = <<f>>)
  <2>1. lastFrame' = <<f>>
    BY <1>2 DEF Publish
  <2>2. \A c \in Client : connected[c] => sent'[c] = <<f>>
    BY <1>2 DEF Publish
  <2> QED BY <2>1, <2>2
<1> QED BY <1>1, <1>2

LEMMA SuppressionStep ==
  TypeInv /\ SuppressionSound /\ [Next]_vars => SuppressionSound'
<1> SUFFICES ASSUME TypeInv, SuppressionSound, [Next]_vars
             PROVE  SuppressionSound'
  OBVIOUS
<1>1. cached \in Frame
  BY DEF TypeInv, TypeOK
<1>2. CASE UNCHANGED <<connected, lastFrame, sent, fanned>>
  BY <1>2 DEF SuppressionSound, Subscribers
<1>3. ASSUME NEW c \in Client, Connect(c) PROVE SuppressionSound'
  <2>1. /\ fanned' = [fanned EXCEPT ![c] = FALSE]
        /\ sent' = [sent EXCEPT ![c] = <<cached>>]
        /\ connected' = [connected EXCEPT ![c] = TRUE]
        /\ lastFrame' = lastFrame
    BY <1>3 DEF Connect
  <2> QED BY <2>1 DEF SuppressionSound, Subscribers, TypeInv, TypeOK
<1>4. ASSUME NEW c \in Client, Drop(c) PROVE SuppressionSound'
  <2>1. /\ connected' = [connected EXCEPT ![c] = FALSE]
        /\ UNCHANGED <<lastFrame, sent, fanned>>
    BY <1>4 DEF Drop, histVars
  <2> QED BY <2>1 DEF SuppressionSound, Subscribers, TypeInv, TypeOK
<1>5. CASE Unsubscribe
  <2>1. UNCHANGED <<connected, sent, fanned>>
    BY <1>5 DEF Unsubscribe, histVars
  <2>2. lastFrame' = lastFrame \/ Subscribers = {}
    BY <1>5 DEF Unsubscribe
  <2> QED BY <2>1, <2>2 DEF SuppressionSound, Subscribers
<1>6. CASE LoopPublish
  BY <1>6, <1>1, PublishSound DEF LoopPublish
<1>7. ASSUME NEW k \in CallId, Answer(k) PROVE SuppressionSound'
  <2>1. UNCHANGED connected
    BY <1>7 DEF Answer
  <2>2. CASE Publish(cached)
    BY <2>1, <2>2, <1>1, PublishSound
  <2>3. CASE UNCHANGED <<lastFrame, queue, sent, fanned>>
    BY <2>1, <2>3, <1>2
  <2> QED BY <1>7, <2>2, <2>3 DEF Answer
<1>8. CASE Hardware
  BY <1>8, <1>2 DEF Hardware, Outside, Refresh, serverVars, histVars
<1>9. ASSUME NEW c \in Client, Deliver(c) PROVE SuppressionSound'
  BY <1>9, <1>2 DEF Deliver, serverVars, histVars
<1>10. CASE State
  BY <1>10, <1>2 DEF State, Fetch, ServeState, ArriveState, serverVars,
                     histVars
<1>11. CASE \E k \in CallId : \/ \E d \in Device : Execute(k, d)
                                                   \/ ReadBack(k, d)
                              \/ Settle(k) \/ LoseAnswer(k)
  BY <1>11, <1>2 DEF Execute, ReadBack, Settle, LoseAnswer, serverVars,
                     histVars
<1>12. CASE \E k \in CallId, c \in Client :
              \/ \E d \in Device : Toggle(k, c, d)
              \/ \E s \in Relay : ToggleMany(k, c, s)
  BY <1>12, <1>2 DEF Toggle, ToggleMany, Send, serverVars
<1>13. CASE UNCHANGED vars
  BY <1>13, <1>2 DEF vars, serverVars, histVars
<1>14. CASE Requests
  BY <1>14, <1>7, <1>11, <1>12 DEF Requests
<1> QED BY <1>3, <1>4, <1>5, <1>6, <1>8, <1>9, <1>10, <1>13, <1>14
        DEF Next, Stream

\* Suppressing a repeated frame loses nothing for a stream that has been sent
\* one since its first, for any number of streams.
THEOREM SuppressionHolds == Spec => []SuppressionSound
<1>1. Init => SuppressionSound
  BY DEF Init, SuppressionSound, Subscribers
<1> QED BY <1>1, SuppressionStep, TypeInvariance, PTL DEF Spec

-----------------------------------------------------------------------------
(* Optimistic state                                                        *)

\* A tab's request k alone governs what the tab shows of d: it shows what was
\* asked for, frames pass it by, and no other request of the tab will clear
\* the flag or revert it.
Governs(k, d) ==
  /\ shown[calls[k].client][d] = calls[k].want
  /\ busy[calls[k].client][d]
  /\ \A j \in CallId \ {k} :
       Outstanding(j) /\ calls[j].client = calls[k].client
         => d \notin calls[j].devs

OptimismInv ==
  \A k \in CallId : Outstanding(k) =>
    \A d \in calls[k].devs \ overlapped[calls[k].client] : Governs(k, d)

LEMMA CallFacts ==
  ASSUME TypeInv, NEW k \in CallId
  PROVE  calls[k].client \in Client /\ calls[k].devs \subseteq Device
  BY DEF TypeInv, TypeOK, Call

\* A step that changes neither what the requests are about nor what is shown.
LEMMA SameButOne ==
  ASSUME TypeInv, OptimismInv, UNCHANGED <<shown, busy, overlapped>>,
         NEW k \in CallId, NEW q, calls' = [calls EXCEPT ![k] = q],
         q.state \in {"sent", "answered"} <=> Outstanding(k),
         q.client = calls[k].client, q.devs = calls[k].devs,
         q.want = calls[k].want
  PROVE  OptimismInv'
<1>1. calls'[k] = q /\ \A j \in CallId \ {k} : calls'[j] = calls[j]
  BY DEF TypeInv, TypeOK
<1>2. \A j \in CallId : /\ calls'[j].client = calls[j].client
                        /\ calls'[j].devs = calls[j].devs
                        /\ calls'[j].want = calls[j].want
  BY <1>1
<1>3. \A j \in CallId : Outstanding(j)' <=> Outstanding(j)
  BY <1>1 DEF Outstanding
<1> QED BY <1>2, <1>3 DEF OptimismInv, Governs

\* A merge passes by whatever a request governs.
LEMMA MergedShown ==
  ASSUME TypeInv, OptimismInv, NEW c \in Client, NEW f \in Frame,
         shown' = [shown EXCEPT ![c] = Merge(c, f)],
         UNCHANGED <<busy, calls, overlapped>>
  PROVE  OptimismInv'
<1> SUFFICES ASSUME NEW k \in CallId, Outstanding(k),
                    NEW d \in calls[k].devs \ overlapped[calls[k].client]
             PROVE  Governs(k, d)'
  BY DEF OptimismInv, Outstanding
<1>1. Governs(k, d)
  BY DEF OptimismInv
<1>2. calls[k].client \in Client /\ d \in Device
  BY CallFacts
<1>3. shown'[calls[k].client][d] = shown[calls[k].client][d]
  BY <1>1, <1>2 DEF Merge, Governs, TypeInv, TypeOK
<1> QED BY <1>1, <1>3 DEF Governs, Outstanding

\* A new request governs its devices, save those on which it meets another.
LEMMA SentShown ==
  ASSUME TypeInv, OptimismInv, NEW k \in CallId, NEW c \in Client,
         NEW D \in SUBSET Device, NEW many \in BOOLEAN, NEW want \in Relay,
         Send(k, c, D, many, want)
  PROVE  OptimismInv'
<1> DEFINE new == [state |-> "sent", client |-> c, devs |-> D,
                   many |-> many, want |-> want, prev |-> shown[c],
                   todo |-> D, reading |-> {}, failed |-> {},
                   body |-> AllOff]
           met == D \cap UNION {calls[j].devs : j \in Pending(c)}
<1>1. /\ calls' = [calls EXCEPT ![k] = new]
      /\ calls[k].state = "unused"
  BY DEF Send
<1>2. /\ calls'[k] = new
      /\ \A j \in CallId \ {k} : calls'[j] = calls[j]
  BY <1>1 DEF TypeInv, TypeOK
<1>3. overlapped' = [overlapped EXCEPT ![c] = @ \cup met]
  BY DEF Send
<1>4. /\ \A d \in Device : d \in D => shown'[c][d] = want /\ busy'[c][d]
      /\ \A d \in Device : d \notin D => shown'[c][d] = shown[c][d]
      /\ \A d \in Device : busy[c][d] => busy'[c][d]
      /\ \A e \in Client \ {c} : shown'[e] = shown[e] /\ busy'[e] = busy[e]
  BY DEF Send, TypeInv, TypeOK
<1>5. \A j \in CallId \ {k} : Outstanding(j) /\ calls[j].client = c =>
        \A d \in D \ overlapped'[c] : d \notin calls[j].devs
  <2> SUFFICES ASSUME NEW j \in CallId \ {k}, Outstanding(j),
                      calls[j].client = c, NEW d \in D, d \in calls[j].devs
               PROVE  d \in overlapped'[c]
    OBVIOUS
  <2>1. j \in Pending(c)
    BY DEF Pending
  <2>2. d \in met
    BY <2>1
  <2>3. overlapped'[c] = overlapped[c] \cup met
    BY <1>3 DEF TypeInv, TypeOK
  <2> QED BY <2>2, <2>3
<1>6. \A e \in Client : overlapped[e] \subseteq overlapped'[e]
  BY <1>3 DEF TypeInv, TypeOK
<1> HIDE DEF new, met
<1> SUFFICES ASSUME NEW j \in CallId, Outstanding(j)',
                    NEW d \in calls'[j].devs \ overlapped'[calls'[j].client]
             PROVE  Governs(j, d)'
  BY DEF OptimismInv
<1>7. CASE j = k
  <2>1. calls'[k].client = c /\ calls'[k].devs = D /\ calls'[k].want = want
    BY <1>2 DEF new
  <2>2. shown'[c][d] = want /\ busy'[c][d]
    BY <1>4, <1>7, <2>1
  <2>3. \A i \in CallId \ {k} :
          Outstanding(i)' /\ calls'[i].client = c => d \notin calls'[i].devs
    BY <1>2, <1>5, <1>7, <2>1 DEF Outstanding
  <2> QED BY <1>7, <2>1, <2>2, <2>3 DEF Governs
<1>8. CASE j # k
  <2>1. calls'[j] = calls[j] /\ Outstanding(j)
    BY <1>2, <1>8 DEF Outstanding
  <2>2. calls[j].client \in Client /\ d \in Device
    BY <2>1, CallFacts
  <2>3. Governs(j, d)
    BY <1>6, <2>1, <2>2 DEF OptimismInv
  <2>4. calls[j].client = c => d \notin D
    BY <1>5, <1>8, <2>1
  <2>5. /\ shown'[calls[j].client][d] = shown[calls[j].client][d]
        /\ busy'[calls[j].client][d]
    BY <1>4, <2>2, <2>3, <2>4 DEF Governs
  <2>6. \A i \in CallId \ {j} :
          Outstanding(i)' /\ calls'[i].client = calls[j].client
            => d \notin calls'[i].devs
    <3> SUFFICES ASSUME NEW i \in CallId \ {j}, Outstanding(i)',
                        calls'[i].client = calls[j].client
                 PROVE  d \notin calls'[i].devs
      OBVIOUS
    <3>1. CASE i = k
      <4>1. calls'[k].client = c /\ calls'[k].devs = D
        BY <1>2 DEF new
      <4> QED BY <3>1, <4>1, <2>4
    <3>2. CASE i # k
      BY <3>2, <1>2, <2>3 DEF Governs, Outstanding
    <3> QED BY <3>1, <3>2
  <2> QED BY <2>1, <2>3, <2>5, <2>6 DEF Governs
<1> QED BY <1>7, <1>8

\* A request that ends leaves alone what another one governs.
LEMMA EndedShown ==
  ASSUME TypeInv, OptimismInv, NEW k \in CallId, Outstanding(k),
         NEW c, c = calls[k].client,
         NEW f \in Frame, NEW b \in [Device -> BOOLEAN],
         shown' = [shown EXCEPT ![c] = f], busy' = [busy EXCEPT ![c] = b],
         \A d \in Device \ calls[k].devs :
           f[d] = shown[c][d] /\ b[d] = busy[c][d],
         calls' = [calls EXCEPT ![k] = [Unused EXCEPT !.state = "settled"]],
         UNCHANGED overlapped
  PROVE  OptimismInv'
<1>1. /\ calls'[k].state = "settled"
      /\ \A j \in CallId \ {k} : calls'[j] = calls[j]
  BY DEF TypeInv, TypeOK, Unused
<1> SUFFICES ASSUME NEW j \in CallId, Outstanding(j)',
                    NEW d \in calls'[j].devs \ overlapped'[calls'[j].client]
             PROVE  Governs(j, d)'
  BY DEF OptimismInv
<1>2. j # k /\ calls'[j] = calls[j] /\ Outstanding(j)
  BY <1>1 DEF Outstanding
<1>3. Governs(j, d)
  BY <1>2 DEF OptimismInv
<1>4. /\ calls[j].client \in Client /\ d \in Device
      /\ calls[k].client \in Client
  BY <1>2, CallFacts
<1>5. calls[k].client = calls[j].client => d \notin calls[k].devs
  BY <1>2, <1>3 DEF Governs
<1>6. /\ shown'[calls[j].client][d] = shown[calls[j].client][d]
      /\ busy'[calls[j].client][d]
  BY <1>3, <1>4, <1>5 DEF Governs, TypeInv, TypeOK
<1>7. \A i \in CallId : Outstanding(i)' => i # k
  BY <1>1 DEF Outstanding
<1> QED BY <1>1, <1>2, <1>3, <1>6, <1>7 DEF Governs, Outstanding

LEMMA OptimismRequests ==
  ASSUME TypeInv, OptimismInv, Requests PROVE OptimismInv'
<1>1. ASSUME NEW k \in CallId, NEW c \in Client, NEW d \in Device,
             Toggle(k, c, d)
      PROVE  OptimismInv'
  BY <1>1, SentShown DEF Toggle, Relay
<1>2. ASSUME NEW k \in CallId, NEW c \in Client, NEW s \in Relay,
             ToggleMany(k, c, s)
      PROVE  OptimismInv'
  BY <1>2, SentShown DEF ToggleMany
<1>3. ASSUME NEW k \in CallId, NEW d \in Device,
             Execute(k, d) \/ ReadBack(k, d)
      PROVE  OptimismInv'
  <2>1. UNCHANGED <<shown, busy, overlapped>>
    BY <1>3 DEF Execute, ReadBack, tabVars, histVars
  <2>2. calls[k] \in Call
    BY DEF TypeInv, TypeOK
  <2>3. PICK q : /\ calls' = [calls EXCEPT ![k] = q]
                 /\ q.state = calls[k].state /\ q.client = calls[k].client
                 /\ q.devs = calls[k].devs /\ q.want = calls[k].want
    <3> DEFINE e == [calls[k] EXCEPT !.todo = @ \ {d},
                                     !.reading = @ \cup {d}]
               f == [calls[k] EXCEPT !.todo = @ \ {d},
                                     !.failed = @ \cup {d}]
               g == [calls[k] EXCEPT !.reading = @ \ {d}]
    <3>1. \A q \in {e, f, g} :
            /\ q.state = calls[k].state /\ q.client = calls[k].client
            /\ q.devs = calls[k].devs /\ q.want = calls[k].want
      BY <2>2 DEF Call
    <3>2. \/ calls' = [calls EXCEPT ![k] = e]
          \/ calls' = [calls EXCEPT ![k] = f]
          \/ calls' = [calls EXCEPT ![k] = g]
      BY <1>3 DEF Execute, ReadBack
    <3> HIDE DEF e, f, g
    <3> QED BY <3>1, <3>2
  <2>4. q.state \in {"sent", "answered"} <=> Outstanding(k)
    BY <2>3 DEF Outstanding
  <2> QED BY <2>1, <2>3, <2>4, SameButOne
<1>4. ASSUME NEW k \in CallId, Answer(k) PROVE OptimismInv'
  <2> DEFINE q == [calls[k] EXCEPT !.state = "answered", !.body = cached]
  <2>1. UNCHANGED <<shown, busy, overlapped>>
    BY <1>4 DEF Answer, tabVars
  <2>2. calls' = [calls EXCEPT ![k] = q] /\ Outstanding(k)
    BY <1>4 DEF Answer, Outstanding
  <2>3. /\ q.state = "answered" /\ q.client = calls[k].client
        /\ q.devs = calls[k].devs /\ q.want = calls[k].want
    BY DEF TypeInv, TypeOK, Call
  <2> HIDE DEF q
  <2> QED BY <2>1, <2>2, <2>3, SameButOne
<1>5. ASSUME NEW k \in CallId, Settle(k) PROVE OptimismInv'
  <2> DEFINE c == calls[k].client
             b == [d \in Device |-> busy[c][d] /\ d \notin calls[k].devs]
  <2>1. c \in Client /\ calls[k] \in Call /\ shown[c] \in Frame
        /\ busy[c] \in [Device -> BOOLEAN]
    BY DEF TypeInv, TypeOK, Call
  <2>2. Settled(k) \in Frame
    BY <2>1 DEF Settled, Frame, Call
  <2>3. \A d \in Device \ calls[k].devs : Settled(k)[d] = shown[c][d]
    BY DEF Settled
  <2>4. b \in [Device -> BOOLEAN]
        /\ \A d \in Device \ calls[k].devs : b[d] = busy[c][d]
    BY <2>1
  <2>5. /\ shown' = [shown EXCEPT ![c] = Settled(k)]
        /\ calls' = [calls EXCEPT ![k] = [Unused EXCEPT !.state = "settled"]]
        /\ UNCHANGED overlapped /\ Outstanding(k)
    BY <1>5 DEF Settle, histVars, Outstanding
  <2>6. busy' = [busy EXCEPT ![c] = b]
    BY <1>5 DEF Settle
  <2> HIDE DEF b, c
  <2>7. \A d \in Device \ calls[k].devs :
          Settled(k)[d] = shown[c][d] /\ b[d] = busy[c][d]
    BY <2>3, <2>4
  <2> QED BY <2>2, <2>4, <2>5, <2>6, <2>7, EndedShown DEF c
<1>6. ASSUME NEW k \in CallId, LoseAnswer(k) PROVE OptimismInv'
  <2> DEFINE c == calls[k].client
             b == [d \in Device |-> busy[c][d] /\ d \notin calls[k].devs]
             f == [d \in Device |-> IF d \in calls[k].devs
                                    THEN calls[k].prev[d] ELSE shown[c][d]]
  <2>1. c \in Client /\ calls[k] \in Call /\ shown[c] \in Frame
        /\ busy[c] \in [Device -> BOOLEAN]
    BY DEF TypeInv, TypeOK, Call
  <2>2. f \in Frame
    BY <2>1 DEF Frame, Call
  <2>3. \A d \in Device \ calls[k].devs : f[d] = shown[c][d]
    OBVIOUS
  <2>4. b \in [Device -> BOOLEAN]
        /\ \A d \in Device \ calls[k].devs : b[d] = busy[c][d]
    BY <2>1
  <2>5. /\ calls' = [calls EXCEPT ![k] = [Unused EXCEPT !.state = "settled"]]
        /\ UNCHANGED overlapped /\ Outstanding(k)
    BY <1>6 DEF LoseAnswer, histVars, Outstanding
  <2>6. shown' = [shown EXCEPT ![c] = f] /\ busy' = [busy EXCEPT ![c] = b]
    BY <1>6 DEF LoseAnswer
  <2> HIDE DEF b, c, f
  <2>7. \A d \in Device \ calls[k].devs :
          f[d] = shown[c][d] /\ b[d] = busy[c][d]
    BY <2>3, <2>4
  <2> QED BY <2>2, <2>4, <2>5, <2>6, <2>7, EndedShown DEF c
<1> QED BY <1>1, <1>2, <1>3, <1>4, <1>5, <1>6 DEF Requests

LEMMA OptimismStep == TypeInv /\ OptimismInv /\ [Next]_vars => OptimismInv'
<1> SUFFICES ASSUME TypeInv, OptimismInv, [Next]_vars PROVE OptimismInv'
  OBVIOUS
<1>1. CASE UNCHANGED <<shown, busy, overlapped, calls>>
  BY <1>1 DEF OptimismInv, Governs, Outstanding
<1>2. ASSUME NEW c \in Client, Deliver(c) PROVE OptimismInv'
  <2>1. Head(queue[c]) \in Frame
    BY <1>2 DEF Deliver, TypeInv, TypeOK
  <2> QED BY <1>2, <2>1, MergedShown DEF Deliver, histVars
<1>3. ASSUME NEW c \in Client, ArriveState(c) PROVE OptimismInv'
  <2>1. Head(reply[c]) \in Frame
    BY <1>3, SlotFrame DEF ArriveState, TypeInv, TypeOK
  <2> QED BY <1>3, <2>1, MergedShown DEF ArriveState, histVars
<1>4. CASE Hardware
  BY <1>4, <1>1 DEF Hardware, Outside, Refresh, tabVars, histVars
<1>5. CASE LoopPublish \/ Unsubscribe
  BY <1>5, <1>1 DEF LoopPublish, Unsubscribe, tabVars, histVars
<1>6. ASSUME NEW c \in Client,
             Connect(c) \/ Drop(c) \/ Fetch(c) \/ ServeState(c)
      PROVE  OptimismInv'
  BY <1>6, <1>1 DEF Connect, Drop, Fetch, ServeState, tabVars, histVars
<1>7. CASE UNCHANGED vars
  BY <1>7, <1>1 DEF vars, tabVars, histVars
<1> QED BY <1>2, <1>3, <1>4, <1>5, <1>6, <1>7, OptimismRequests
        DEF Next, Stream, State

\* A tab's only request for a device is never shown undone while it is under
\* way, for any number of tabs, devices and requests.
THEOREM OptimismHolds == Spec => []OptimismKept
<1>1. Init => OptimismInv
  BY DEF Init, OptimismInv, Outstanding, Unused
<1>2. OptimismInv => OptimismKept
  BY DEF OptimismInv, Governs, OptimismKept
<1> QED BY <1>1, <1>2, OptimismStep, TypeInvariance, PTL DEF Spec
=============================================================================
