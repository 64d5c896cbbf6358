----------------------------- MODULE LiveUpdates -----------------------------
(***************************************************************************)
(* How device state reaches the browsers: the SSE broadcaster              *)
(* (api/events.py), the power routes that nudge it (api/routers/devices.py,*)
(* api/routers/groups.py) and the device store of each browser tab, with   *)
(* its optimistic updates (web/src/lib/stores/devices.svelte.ts).          *)
(*                                                                         *)
(* A frame is the whole device list, here the relay of every device as the *)
(* registry last read it.  Keepalives carry nothing and are left out.      *)
(* The SSE stream and the answers to fetch() travel on different           *)
(* connections: each is in order, but neither waits for the other.         *)
(***************************************************************************)
EXTENDS Integers, Sequences, FiniteSets

CONSTANTS
  Client,       \* browser tabs
  Device,       \* devices
  MaxCalls,     \* bound: power requests ever made
  MaxEvents     \* bound: switches by others, streams opened or broken, state
                \* fetches, power requests, failed switches and lost answers,
                \* all together

CallId == 1 .. MaxCalls
Relay  == {"on", "off"}
Frame  == [Device -> Relay]
None   == <<>>           \* no frame, where a frame F is written <<F>>

ASSUME LiveBounds ==
  /\ MaxCalls \in Nat /\ MaxEvents \in Nat
  /\ Client # {}

\* A power request: of one device (togglePower) or of many (runMany).
Call == [state   : {"unused", "sent", "answered", "settled"},
         client  : Client, devs : SUBSET Device, many : BOOLEAN,
         want    : Relay,
         prev    : Frame,                     \* what was shown before
         todo    : SUBSET Device,             \* devices not yet switched
         reading : SUBSET Device,             \* switched, not yet read back
         failed  : SUBSET Device,
         body    : Frame]                     \* the answer's device state

VARIABLES
  live,       \* live[d]: the relay
  cached,     \* cached[d]: as the registry last read it
  connected,  \* connected[c]: the tab has an open stream
  ghosts,     \* subscriptions whose stream is gone but still subscribed
  queue,      \* queue[c]: frames on their way to the tab
  lastFrame,  \* _last_frame
  loop,       \* _task: the refresh loop runs
  asked,      \* tabs whose GET /api/state is on its way to the server
  reply,      \* reply[c]: its answer on the way back
  shown,      \* shown[c]: the tab's device list
  busy,       \* busy[c][d]
  calls,      \* the power requests
  events,     \* how many of the bounded events there were
  \* history, read by the properties only
  sent,       \* sent[c]: the last frame put into the tab's stream
  fanned,     \* fanned[c]: its stream was sent a frame after the first one
  quiet,      \* quiet[c]: nothing but the stream moved the tab since it opened
  overlapped  \* overlapped[c]: devices two of its requests once overlapped on

hwVars     == <<live, cached>>
serverVars == <<ghosts, lastFrame, loop>>
fetchVars  == <<asked, reply>>
tabVars    == <<shown, busy>>
histVars   == <<sent, fanned, quiet, overlapped>>
vars == <<hwVars, connected, serverVars, queue, fetchVars, tabVars, calls,
          events, histVars>>

-----------------------------------------------------------------------------
Subscribers == {c \in Client : connected[c]}
Outstanding(k) == calls[k].state \in {"sent", "answered"}
Pending(c) == {k \in CallId : Outstanding(k) /\ calls[k].client = c}

Fetching(c) == c \in asked \/ reply[c] # None

\* Mutant: a frame also overwrites devices with a request in flight.
MergeAll(c, f) == f

\* Mutant: a device with a request in flight drops out of the list.
MergeSettled(c, f) == [d \in {e \in Device : ~busy[c][e]} |-> f[d]]

\* merge: a device with a request in flight is skipped.
Merge(c, f) == [d \in Device |-> IF busy[c][d] THEN shown[c][d] ELSE f[d]]

\* Mutant: the frame is fanned out but not remembered.
PublishForgets(f) ==
  /\ IF (Subscribers = {} /\ ghosts = 0) \/ lastFrame = <<f>>
       THEN UNCHANGED <<queue, sent, fanned>>
       ELSE /\ queue' = [c \in Client |-> IF connected[c]
                                            THEN Append(queue[c], f)
                                            ELSE queue[c]]
            /\ sent' = [c \in Client |-> IF connected[c] THEN <<f>>
                                                         ELSE sent[c]]
            /\ fanned' = [c \in Client |-> fanned[c] \/ connected[c]]
  /\ UNCHANGED lastFrame

\* publish_now and _publish: nothing when nobody is subscribed, a keepalive
\* when the frame is the one fanned out last, else the frame to everybody.
Publish(f) ==
  IF (Subscribers = {} /\ ghosts = 0) \/ lastFrame = <<f>>
    THEN UNCHANGED <<lastFrame, queue, sent, fanned>>
    ELSE /\ lastFrame' = <<f>>
         /\ queue' = [c \in Client |-> IF connected[c] THEN Append(queue[c], f)
                                                       ELSE queue[c]]
         /\ sent' = [c \in Client |-> IF connected[c] THEN <<f>> ELSE sent[c]]
         /\ fanned' = [c \in Client |-> fanned[c] \/ connected[c]]

Event == events < MaxEvents /\ events' = events + 1

AllOff == [d \in Device |-> "off"]

Unused == [state |-> "unused", client |-> CHOOSE c \in Client : TRUE,
           devs |-> {}, many |-> FALSE, want |-> "off", prev |-> AllOff,
           todo |-> {}, reading |-> {}, failed |-> {}, body |-> AllOff]

Init ==
  /\ live = AllOff /\ cached = AllOff
  /\ connected = [c \in Client |-> FALSE]
  /\ ghosts = 0
  /\ queue = [c \in Client |-> <<>>]
  /\ lastFrame = None
  /\ loop = FALSE
  /\ asked = {}
  /\ reply = [c \in Client |-> None]
  /\ shown = [c \in Client |-> AllOff]
  /\ busy = [c \in Client |-> [d \in Device |-> FALSE]]
  /\ calls = [k \in CallId |-> Unused]
  /\ events = 0
  /\ sent = [c \in Client |-> None]
  /\ fanned = [c \in Client |-> FALSE]
  /\ quiet = [c \in Client |-> FALSE]
  /\ overlapped = [c \in Client |-> {}]

-----------------------------------------------------------------------------
(* The hardware and whoever reads it *)

\* The Kasa app, a wall switch or a rule switches d.
Outside(d) ==
  /\ Event
  /\ live' = [live EXCEPT ![d] = IF @ = "on" THEN "off" ELSE "on"]
  /\ UNCHANGED <<cached, connected, serverVars, queue, fetchVars, tabVars,
                 calls, histVars>>

\* Any task of the server reads d: the loop's refresh_all, the recorder, the
\* alert evaluator.
Refresh(d) ==
  /\ cached[d] # live[d]
  /\ cached' = [cached EXCEPT ![d] = live[d]]
  /\ UNCHANGED <<live, connected, serverVars, queue, fetchVars, tabVars, calls,
                 events, histVars>>

-----------------------------------------------------------------------------
(* The stream *)

\* _run after its refresh_all: publish what the registry holds.
LoopPublish ==
  /\ loop
  /\ Publish(cached)
  /\ UNCHANGED <<hwVars, connected, ghosts, loop, fetchVars, tabVars, calls,
                 events, quiet, overlapped>>

\* startLiveUpdates, or EventSource reconnecting: subscribe starts the loop,
\* and the first frame bypasses the suppression.
Connect(c) ==
  /\ ~connected[c]
  /\ Event
  /\ connected' = [connected EXCEPT ![c] = TRUE]
  /\ loop' = TRUE
  /\ queue' = [queue EXCEPT ![c] = <<cached>>]
  /\ sent' = [sent EXCEPT ![c] = <<cached>>]
  /\ fanned' = [fanned EXCEPT ![c] = FALSE]
  /\ quiet' = [quiet EXCEPT ![c] = Pending(c) = {} /\ ~Fetching(c)]
  /\ UNCHANGED <<hwVars, ghosts, lastFrame, fetchVars, tabVars, calls,
                 overlapped>>

\* The page becomes visible: it also asks for the state (refresh).
Fetch(c) ==
  /\ connected[c]
  /\ ~Fetching(c)
  /\ Event
  /\ asked' = asked \cup {c}
  /\ quiet' = [quiet EXCEPT ![c] = FALSE]
  /\ UNCHANGED <<hwVars, connected, serverVars, queue, reply, tabVars, calls,
                 sent, fanned, overlapped>>

\* GET /api/state is answered with what the registry holds.
ServeState(c) ==
  /\ c \in asked
  /\ asked' = asked \ {c}
  /\ reply' = [reply EXCEPT ![c] = <<cached>>]
  /\ UNCHANGED <<hwVars, connected, serverVars, queue, tabVars, calls,
                 events, histVars>>

\* The answer arrives and is merged.
ArriveState(c) ==
  /\ reply[c] # None
  /\ shown' = [shown EXCEPT ![c] = Merge(c, Head(reply[c]))]
  /\ reply' = [reply EXCEPT ![c] = None]
  /\ UNCHANGED <<hwVars, connected, serverVars, queue, asked, busy, calls,
                 events, histVars>>

\* onmessage.
Deliver(c) ==
  /\ queue[c] # <<>>
  /\ shown' = [shown EXCEPT ![c] = Merge(c, Head(queue[c]))]
  /\ queue' = [queue EXCEPT ![c] = Tail(@)]
  /\ UNCHANGED <<hwVars, connected, serverVars, fetchVars, busy, calls, events,
                 histVars>>

\* The connection breaks or the tab is hidden.  The server notices later.
Drop(c) ==
  /\ connected[c]
  /\ Event
  /\ connected' = [connected EXCEPT ![c] = FALSE]
  /\ queue' = [queue EXCEPT ![c] = <<>>]
  /\ ghosts' = ghosts + 1
  /\ UNCHANGED <<hwVars, lastFrame, loop, fetchVars, tabVars, calls,
                 histVars>>

\* Mutant: the loop ends with any subscriber, not only with the last one.
UnsubscribeAny ==
  /\ ghosts > 0
  /\ ghosts' = ghosts - 1
  /\ loop' = FALSE
  /\ lastFrame' = None
  /\ UNCHANGED <<hwVars, connected, queue, fetchVars, tabVars, calls, events,
                 histVars>>

\* unsubscribe, in the `finally' of a stream that broke.
Unsubscribe ==
  /\ ghosts > 0
  /\ ghosts' = ghosts - 1
  /\ IF ghosts = 1 /\ Subscribers = {}
       THEN loop' = FALSE /\ lastFrame' = None
       ELSE UNCHANGED <<loop, lastFrame>>
  /\ UNCHANGED <<hwVars, connected, queue, fetchVars, tabVars, calls, events,
                 histVars>>

-----------------------------------------------------------------------------
(* Power requests *)

\* A tab sends request k for the devices D and shows its outcome at once.
Send(k, c, D, many, want) ==
  /\ calls[k].state = "unused"
  /\ \A j \in CallId : j < k => calls[j].state # "unused"
  /\ Event
  /\ calls' = [calls EXCEPT ![k] =
                 [state |-> "sent", client |-> c, devs |-> D, many |-> many,
                  want |-> want, prev |-> shown[c], todo |-> D,
                  reading |-> {}, failed |-> {}, body |-> AllOff]]
  /\ shown' = [shown EXCEPT ![c] =
                 [d \in Device |-> IF d \in D THEN want ELSE @[d]]]
  /\ busy' = [busy EXCEPT ![c] = [d \in Device |-> @[d] \/ d \in D]]
  /\ overlapped' = [overlapped EXCEPT ![c] =
                      @ \cup (D \cap UNION {calls[j].devs : j \in Pending(c)})]
  /\ quiet' = [quiet EXCEPT ![c] = FALSE]
  /\ UNCHANGED <<hwVars, connected, serverVars, queue, fetchVars, sent, fanned>>

\* togglePower: the card's switch is disabled while the device is busy.
Toggle(k, c, d) ==
  /\ ~busy[c][d]
  /\ Send(k, c, {d}, FALSE, IF shown[c][d] = "on" THEN "off" ELSE "on")

\* setAllPower and setGroupPower: never disabled.
ToggleMany(k, c, want) == Send(k, c, Device, TRUE, want)

\* set_power for one device of the request, first await: it obeys, or the
\* command fails, the relay having obeyed or not.
Execute(k, d) ==
  /\ calls[k].state = "sent"
  /\ d \in calls[k].todo
  /\ \/ /\ live' = [live EXCEPT ![d] = calls[k].want]
        /\ calls' = [calls EXCEPT ![k].todo = @ \ {d},
                                  ![k].reading = @ \cup {d}]
        /\ UNCHANGED events
     \/ /\ Event
        /\ \E s \in {live[d], calls[k].want} : live' = [live EXCEPT ![d] = s]
        /\ calls' = [calls EXCEPT ![k].todo = @ \ {d}, ![k].failed = @ \cup {d}]
  /\ UNCHANGED <<cached, connected, serverVars, queue, fetchVars, tabVars,
                 histVars>>

\* set_power, second await: the read-back, whose failure is not reported.
ReadBack(k, d) ==
  /\ calls[k].state = "sent"
  /\ d \in calls[k].reading
  /\ calls' = [calls EXCEPT ![k].reading = @ \ {d}]
  /\ \/ cached' = [cached EXCEPT ![d] = live[d]] /\ UNCHANGED events
     \/ Event /\ UNCHANGED cached
  /\ UNCHANGED <<live, connected, serverVars, queue, fetchVars, tabVars,
                 histVars>>

\* The route answers.  A failed single request is an error and nudges nobody;
\* otherwise publish_now comes first.
Answer(k) ==
  /\ calls[k].state = "sent"
  /\ calls[k].todo = {} /\ calls[k].reading = {}
  /\ calls' = [calls EXCEPT ![k].state = "answered", ![k].body = cached]
  /\ IF ~calls[k].many /\ calls[k].failed # {}
       THEN UNCHANGED <<lastFrame, queue, sent, fanned>>
       ELSE Publish(cached)
  /\ UNCHANGED <<hwVars, connected, ghosts, loop, fetchVars, tabVars, events,
                 quiet, overlapped>>

\* What the tab shows once request k is through: run takes the answer's state
\* or reverts, runMany keeps what it showed and reverts what failed.
Settled(k) ==
  LET r == calls[k] IN
  [d \in Device |->
     IF d \notin r.devs THEN shown[r.client][d]
     ELSE IF d \in r.failed THEN r.prev[d]
     ELSE IF r.many THEN shown[r.client][d] ELSE r.body[d]]

\* Mutant: the flag is cleared on success only.
SettleOnSuccess(k) ==
  LET r == calls[k] IN
  /\ r.state = "answered"
  /\ shown' = [shown EXCEPT ![r.client] = Settled(k)]
  /\ busy' = [busy EXCEPT ![r.client] =
                [d \in Device |-> @[d] /\ (d \notin r.devs \/ d \in r.failed)]]
  /\ calls' = [calls EXCEPT ![k] = [Unused EXCEPT !.state = "settled"]]
  /\ UNCHANGED <<hwVars, connected, serverVars, queue, fetchVars, events,
                 histVars>>

\* The answer arrives at the tab.
Settle(k) ==
  LET r == calls[k] IN
  /\ r.state = "answered"
  /\ shown' = [shown EXCEPT ![r.client] = Settled(k)]
  /\ busy' = [busy EXCEPT ![r.client] =
                [d \in Device |-> @[d] /\ d \notin r.devs]]
  /\ calls' = [calls EXCEPT ![k] = [Unused EXCEPT !.state = "settled"]]
  /\ UNCHANGED <<hwVars, connected, serverVars, queue, fetchVars, events,
                 histVars>>

\* The answer is lost on the way: for the tab the whole request failed.
LoseAnswer(k) ==
  LET r == calls[k] IN
  /\ r.state = "answered"
  /\ Event
  /\ shown' = [shown EXCEPT ![r.client] =
                 [d \in Device |-> IF d \in r.devs THEN r.prev[d] ELSE @[d]]]
  /\ busy' = [busy EXCEPT ![r.client] =
                [d \in Device |-> @[d] /\ d \notin r.devs]]
  /\ calls' = [calls EXCEPT ![k] = [Unused EXCEPT !.state = "settled"]]
  /\ UNCHANGED <<hwVars, connected, serverVars, queue, fetchVars, histVars>>

-----------------------------------------------------------------------------
Hardware == \E d \in Device : Outside(d) \/ Refresh(d)

Stream ==
  \/ LoopPublish \/ Unsubscribe
  \/ \E c \in Client : Connect(c) \/ Deliver(c) \/ Drop(c)

State == \E c \in Client : Fetch(c) \/ ServeState(c) \/ ArriveState(c)

Requests ==
  \/ \E k \in CallId, c \in Client, d \in Device : Toggle(k, c, d)
  \/ \E k \in CallId, c \in Client, s \in Relay : ToggleMany(k, c, s)
  \/ \E k \in CallId, d \in Device : Execute(k, d) \/ ReadBack(k, d)
  \/ \E k \in CallId : Answer(k) \/ Settle(k) \/ LoseAnswer(k)

Next == Hardware \/ Stream \/ State \/ Requests

Spec == Init /\ [][Next]_vars

\* The event loop runs every handler and the refresh loop, hardware is read
\* again and again, and what was sent arrives.
FairSpec ==
  /\ Spec
  /\ \A d \in Device : WF_vars(Refresh(d))
  /\ WF_vars(LoopPublish) /\ WF_vars(Unsubscribe)
  /\ \A c \in Client : /\ WF_vars(Deliver(c))
                       /\ WF_vars(ServeState(c)) /\ WF_vars(ArriveState(c))
  /\ \A k \in CallId : /\ \A d \in Device : /\ WF_vars(Execute(k, d))
                                         /\ WF_vars(ReadBack(k, d))
                       /\ WF_vars(Answer(k)) /\ WF_vars(Settle(k))

-----------------------------------------------------------------------------
(* Properties *)

Slot == {None} \cup {<<f>> : f \in Frame}

TypeOK ==
  /\ live \in Frame /\ cached \in Frame
  /\ connected \in [Client -> BOOLEAN]
  /\ ghosts \in 0 .. MaxEvents
  /\ queue \in [Client -> Seq(Frame)]
  /\ lastFrame \in Slot
  /\ loop \in BOOLEAN
  /\ asked \subseteq Client /\ reply \in [Client -> Slot]
  /\ shown \in [Client -> Frame]
  /\ busy \in [Client -> [Device -> BOOLEAN]]
  /\ calls \in [CallId -> Call]
  /\ events \in 0 .. MaxEvents
  /\ sent \in [Client -> Slot]
  /\ fanned \in [Client -> BOOLEAN] /\ quiet \in [Client -> BOOLEAN]
  /\ overlapped \in [Client -> SUBSET Device]

\* The refresh loop runs exactly while somebody is subscribed: no subscriber
\* blocks on its queue for ever, and an idle server never polls.
LoopServesSubscribers == loop <=> (Subscribers # {} \/ ghosts > 0)

\* Suppressing a repeated frame is sound for every stream that has been sent
\* a frame since its first one: what it was sent last is _last_frame.
SuppressionSound ==
  \A c \in Subscribers : fanned[c] => sent[c] = lastFrame

\* While its only request for a device is in flight, a tab shows what the
\* user asked for, whatever the stream and the polls bring.
OptimismKept ==
  \A k \in CallId : Outstanding(k) =>
    \A d \in calls[k].devs \ overlapped[calls[k].client] :
      shown[calls[k].client][d] = calls[k].want

\* A tab that only watches, and has been sent a frame since it connected,
\* ends up showing the devices as they are.
WatcherConverges ==
  \A c \in Client :
    <>[](connected[c] /\ quiet[c] /\ fanned[c]) => <>[](shown[c] = live)

\* The stream alone keeps a watching tab up to date, as events.py promises.
StreamConverges ==
  \A c \in Client :
    <>[](connected[c] /\ quiet[c]) => <>[](shown[c] = live)

=============================================================================
